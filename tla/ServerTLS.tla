----------------------------- MODULE ServerTLS -----------------------------
(***************************************************************************)
(* TLS of one Cluster: the self-managed CA and its rotation in two steps,  *)
(* certificates from a user's Secret or from cert-manager, the pod that    *)
(* presents a certificate until it is reloaded or restarted, and the       *)
(* credentials Secret that tells clients how to connect.  Time passes in   *)
(* units in which the operator, the kubelet and the clients do their work, *)
(* except that one unit may be missed.                                     *)
(***************************************************************************)
EXTENDS Integers, FiniteSets

CONSTANTS CAValidity, CAPrepareBefore, CASwitchBefore, \* selfManagedCertPolicy
          ServerValidity, ServerRenewBefore,
          MaxTime,    \* bound on time
          MaxChanges, \* bound on what users do
          MaxFaults   \* bound on failing calls, crashes and lost pods

\* Two units between preparing a CA and using it, between the end of a CA and
\* the switch away from it, and between the end of a certificate and its
\* renewal: one may be missed.  The default policy has them for units of up to
\* 15 days.
ASSUME PolicyAssumption ==
  /\ {CAValidity, CAPrepareBefore, CASwitchBefore, ServerValidity, ServerRenewBefore} \subseteq Nat
  /\ CAValidity >= CAPrepareBefore + 2 /\ CAPrepareBefore >= CASwitchBefore + 2 /\ CASwitchBefore >= 2
  /\ ServerValidity > ServerRenewBefore /\ ServerRenewBefore >= 2
ASSUME TLSBoundsAssumption == MaxTime \in Nat /\ MaxChanges \in Nat /\ MaxFaults \in Nat

VARIABLES
  now,      \* the time
  mode,     \* spec.tls: where the server certificate comes from
  cas,      \* CAs generated so far
  ca,       \* the self-managed CA Secret
  sec,      \* the server certificate Secret of each mode
  cert,     \* is there a cert-manager Certificate
  userCA,   \* the CA that a user's certificates come from
  tmpl,     \* pod template: the Secret it mounts, the tls-restart annotation
  pod,      \* the pod: its template, is it up, the certificate it presents
  mount,    \* the certificate files mounted into the pod
  cred,     \* the credentials Secret: sslmode and CA bundle
  client,   \* what the clients of the Cluster read from it last
  ready,    \* TLSReady
  \* The reconcile: control state, spec.tls and the Secrets it read, the plan,
  \* the material it validated, the TLSReady it found.
  at, my, plan, mat, found,
  checked,  \* did a reconcile end since time passed
  missed,   \* was the last unit of time missed
  smooth,   \* has no user interfered since the operator was last done
  edits, faults

store  == <<ca, sec, cert, cas>>
local  == <<my, plan, mat, found>>
ghosts == <<checked, missed, smooth>>
tlsvars == <<now, mode, store, userCA, tmpl, pod, mount, cred, client, ready, at, local, ghosts, edits, faults>>

Modes == {"off", "self", "user", "issuer"}

\* A CA: self-managed ones are numbered from 1; users' and issuers' are below 0.
CAs == [id : Int, exp : Nat]
NoCA == [id |-> 0, exp |-> 0]
External(i) == [id |-> i, exp |-> MaxTime + 1]

\* A server certificate is known by its CA and its expiry.
NoLeaf == NoCA
NoSecret == [leaf |-> NoLeaf, bundle |-> {}]
NoCASecret == [active |-> NoCA, next |-> NoCA, bundle |-> {}]

\* The checks of a verify-full client.
Verifies(leaf, bundle) == leaf # NoLeaf /\ now < leaf.exp /\ \E c \in bundle : c.id = leaf.id

Secrets == [leaf : CAs, bundle : SUBSET CAs]
CASecrets == [active : CAs, next : CAs, bundle : SUBSET CAs]
PodTemplates == [mode : Modes \cup {"none"}, restart : Secrets]
Stages == {"idle", "provision", "server", "issue", "load", "sts", "cleanup", "probe", "cred", "status"}
SSLModes == {"none", "disable", "prefer", "verify"}
TLSTypeOK ==
  /\ now \in 0..MaxTime /\ mode \in Modes /\ cas \in Nat
  /\ ca \in CASecrets /\ sec \in [Modes \ {"off"} -> Secrets] /\ cert \in BOOLEAN /\ userCA \in {-1, -2}
  /\ tmpl \in PodTemplates /\ pod \in [tmpl : PodTemplates, up : BOOLEAN, leaf : CAs] /\ mount \in Secrets
  /\ pod.leaf # NoLeaf => pod.up /\ pod.tmpl.mode \notin {"none", "off"}
  /\ cred \in [mode : SSLModes, ca : SUBSET CAs] /\ client \in [mode : SSLModes, ca : SUBSET CAs]
  /\ \A c \in {cred, client} : (c.ca # {}) <=> (c.mode = "verify")
  /\ at \in Stages /\ my \in [mode : Modes, ca : CASecrets, sec : Secrets]
  /\ plan \in [ca : CASecrets, sec : Secrets] /\ mat \in Secrets
  /\ ready \in BOOLEAN /\ found \in BOOLEAN
  /\ checked \in BOOLEAN /\ missed \in BOOLEAN /\ smooth \in BOOLEAN
  /\ edits \in 0..MaxChanges /\ faults \in 0..MaxFaults

NoRead == [mode |-> "off", ca |-> NoCASecret, sec |-> NoSecret]
NoPlan == [ca |-> NoCASecret, sec |-> NoSecret]
NotRunning == [tmpl |-> [mode |-> "none", restart |-> NoSecret], up |-> FALSE, leaf |-> NoLeaf]

\* A user's Secret may not exist when it is first referred to.
TLSInit ==
  /\ now = 0 /\ mode \in Modes /\ cas = 0
  /\ ca = NoCASecret /\ cert = FALSE /\ userCA = -1
  /\ sec = [m \in Modes \ {"off"} |-> IF m = "user" /\ mode \in {"off", "user"} THEN [leaf |-> External(-1), bundle |-> {External(-1)}]
                                      ELSE NoSecret]
  /\ tmpl = NotRunning.tmpl /\ pod = NotRunning /\ mount = NoSecret
  /\ cred = [mode |-> "none", ca |-> {}] /\ client = cred /\ ready = FALSE
  /\ at = "idle" /\ my = NoRead /\ plan = NoPlan /\ mat = NoSecret /\ found = FALSE
  /\ checked = FALSE /\ missed = FALSE /\ smooth = FALSE
  /\ edits = 0 /\ faults = 0

-----------------------------------------------------------------------------
(* Users, cert-manager, Kubernetes and the clients. *)

Change == edits < MaxChanges /\ edits' = edits + 1 /\ smooth' = FALSE
SetMode(m) ==
  /\ Change /\ mode # m /\ mode' = m
  /\ UNCHANGED <<now, store, userCA, tmpl, pod, mount, cred, client, ready, at, local, checked, missed, faults>>
\* A certificate from another CA, without an overlap; or no Secret at all.
ReplaceUserSecret(s) ==
  /\ Change /\ userCA = -1 /\ userCA' = -2 /\ sec' = [sec EXCEPT !["user"] = s]
  /\ UNCHANGED <<now, mode, ca, cert, cas, tmpl, pod, mount, cred, client, ready, at, local, checked, missed, faults>>
LoseCA ==
  /\ Change /\ ca # NoCASecret /\ ca' = NoCASecret
  /\ UNCHANGED <<now, mode, sec, cert, cas, userCA, tmpl, pod, mount, cred, client, ready, at, local, checked, missed, faults>>

IssueCertificate ==
  /\ cert /\ sec["issuer"] = NoSecret
  /\ sec' = [sec EXCEPT !["issuer"] = [leaf |-> External(-3), bundle |-> {External(-3)}]]
  /\ UNCHANGED <<now, mode, ca, cert, cas, userCA, tmpl, pod, mount, cred, client, ready, at, local, ghosts, edits, faults>>

\* The StatefulSet controller replaces a pod of an older template; a pod starts
\* once the Secret it mounts exists; the kubelet updates the mounted files.
Mounts == IF pod.tmpl.mode \in DOMAIN sec THEN sec[pod.tmpl.mode] ELSE NoSecret
StopPod ==
  /\ pod.tmpl # tmpl /\ pod' = [tmpl |-> tmpl, up |-> FALSE, leaf |-> NoLeaf] /\ mount' = NoSecret
  /\ UNCHANGED <<now, mode, store, userCA, tmpl, cred, client, ready, at, local, ghosts, edits, faults>>
StartPod ==
  /\ ~pod.up /\ pod.tmpl.mode # "none" /\ (pod.tmpl.mode # "off" => Mounts # NoSecret)
  /\ pod' = [pod EXCEPT !.up = TRUE, !.leaf = Mounts.leaf] /\ mount' = Mounts
  /\ UNCHANGED <<now, mode, store, userCA, tmpl, cred, client, ready, at, local, ghosts, edits, faults>>
SyncMount ==
  /\ pod.up /\ mount # Mounts /\ Mounts # NoSecret /\ mount' = Mounts
  /\ UNCHANGED <<now, mode, store, userCA, tmpl, pod, cred, client, ready, at, local, ghosts, edits, faults>>
Evict ==
  /\ faults < MaxFaults /\ faults' = faults + 1
  /\ pod.up /\ pod' = [pod EXCEPT !.up = FALSE, !.leaf = NoLeaf] /\ mount' = NoSecret
  /\ UNCHANGED <<now, mode, store, userCA, tmpl, cred, client, ready, at, local, ghosts, edits>>

ReadCredentials ==
  /\ client # cred /\ client' = cred
  /\ UNCHANGED <<now, mode, store, userCA, tmpl, pod, mount, cred, ready, at, local, ghosts, edits, faults>>

-----------------------------------------------------------------------------
(* Provisioning: prepareTLS, provisionTLSSecret. *)

Step(p) == at' = p
StoreOnly == UNCHANGED <<now, mode, userCA, tmpl, pod, mount, cred, client, ready, found, ghosts, edits, faults>>

Begin ==
  /\ at = "idle" /\ my' = [mode |-> mode, ca |-> ca, sec |-> IF mode = "off" THEN NoSecret ELSE sec[mode]]
  /\ plan' = NoPlan /\ mat' = NoSecret /\ found' = FALSE
  /\ Step(CASE mode = "off" -> "sts" [] mode = "user" -> "load" [] mode = "issuer" -> "issue" [] mode = "self" -> "provision")
  /\ UNCHANGED <<now, mode, store, userCA, tmpl, pod, mount, cred, client, ready, ghosts, edits, faults>>

\* The CA to sign with, and the one to prepare; n counts the CAs generated.
GenerateCA(n) == [id |-> n, exp |-> now + CAValidity]
NextCA(c) == IF now < c.next.exp THEN c.next ELSE NoCA
ActiveCA(c) ==
  CASE now < c.active.exp - CASwitchBefore -> c.active
    [] now >= c.active.exp - CASwitchBefore /\ NextCA(c) # NoCA -> NextCA(c)
    [] OTHER -> GenerateCA(cas + 1)
\* Mutant: no CA is prepared, the new one is used at once.
NonePrepared(c) == NoCA
PreparedCA(c) ==
  LET act  == ActiveCA(c)
      left == IF act = NextCA(c) THEN NoCA ELSE NextCA(c)
  IN IF left = NoCA /\ now >= act.exp - CAPrepareBefore THEN GenerateCA(cas + 2) ELSE left
\* Mutant: a CA is distrusted as soon as it is switched away from.
BundleOfCurrent(c) == {ActiveCA(c), PreparedCA(c)} \ {NoCA}
Bundle(c) == ({ActiveCA(c), PreparedCA(c)} \ {NoCA}) \cup {b \in c.bundle : now < b.exp}
ServerCertCurrent(leaf, c) == leaf.id = ActiveCA(c).id /\ now < leaf.exp - ServerRenewBefore
IssueServerCert(c) ==
  [id |-> ActiveCA(c).id, exp |-> IF now + ServerValidity < ActiveCA(c).exp THEN now + ServerValidity ELSE ActiveCA(c).exp]
PlanSelfManagedTLS(c, s) ==
  [ca  |-> [active |-> ActiveCA(c), next |-> PreparedCA(c), bundle |-> Bundle(c)],
   sec |-> [leaf |-> IF ServerCertCurrent(s.leaf, c) THEN s.leaf ELSE IssueServerCert(c), bundle |-> Bundle(c)]]

\* The CA is written first.  A Secret changed since it was read is a conflict.
WriteCA ==
  /\ at = "provision" /\ plan' = PlanSelfManagedTLS(my.ca, my.sec)
  /\ plan'.ca = my.ca \/ ca = my.ca
  /\ ca' = IF plan'.ca = my.ca THEN ca ELSE plan'.ca
  /\ cas' = IF plan'.ca = my.ca THEN cas ELSE cas + 2
  /\ Step("server")
  /\ UNCHANGED <<sec, cert, my, mat>> /\ StoreOnly
WriteServer ==
  /\ at = "server" /\ (plan.sec = my.sec \/ sec["self"] = my.sec)
  /\ sec' = IF plan.sec = my.sec THEN sec ELSE [sec EXCEPT !["self"] = plan.sec]
  /\ Step("load")
  /\ UNCHANGED <<ca, cas, cert, my, plan, mat>> /\ StoreOnly
WriteConflict ==
  /\ \/ at = "provision" /\ PlanSelfManagedTLS(my.ca, my.sec).ca # my.ca /\ ca # my.ca
     \/ at = "server" /\ plan.sec # my.sec /\ sec["self"] # my.sec
  /\ Step("idle")
  /\ UNCHANGED <<store, my, plan, mat>> /\ StoreOnly

\* The Certificate is created; until cert-manager has written its Secret TLS is
\* not ready.
ReconcileCertificate ==
  /\ at = "issue" /\ cert' = TRUE
  /\ Step(IF sec["issuer"] = NoSecret THEN "cred" ELSE "load")
  /\ UNCHANGED <<ca, sec, cas, my, plan, mat>> /\ StoreOnly
\* Mutant: the certificate of the Secret is not checked.
LoadUnchecked ==
  /\ at = "load" /\ mat' = sec[my.mode] /\ Step("sts")
  /\ my' = [NoRead EXCEPT !.mode = my.mode] /\ plan' = NoPlan
  /\ UNCHANGED store /\ StoreOnly

\* The Secret is read from a cache, which may not have this reconcile's writes.
\* One that a verify-full client would not accept leaves the pod as it is.
LoadTLSMaterial ==
  /\ at = "load" /\ \E s \in {my.sec, sec[my.mode]} :
       /\ mat' = IF Verifies(s.leaf, s.bundle) THEN s ELSE NoSecret
       /\ Step(IF mat' = NoSecret THEN "cred" ELSE "sts")
  /\ my' = [NoRead EXCEPT !.mode = my.mode] /\ plan' = NoPlan
  /\ UNCHANGED store /\ StoreOnly

-----------------------------------------------------------------------------
(* The pod and the clients. *)

ReconcileStatefulSetTLS ==
  /\ at = "sts" /\ tmpl' = [tmpl EXCEPT !.mode = my.mode] /\ Step("cleanup")
  /\ UNCHANGED <<now, mode, store, userCA, pod, mount, cred, client, ready, local, ghosts, edits, faults>>
\* Mutant: deletes what the current spec.tls does not use, not what this
\* reconcile's did not.
CleanupByCurrentSpec ==
  /\ at = "cleanup" /\ UNCHANGED cert
  /\ ca' = IF mode = "self" THEN ca ELSE NoCASecret
  /\ sec' = [m \in DOMAIN sec |-> IF m \in {"self", "issuer"} \ {mode} THEN NoSecret ELSE sec[m]]
  /\ Step(IF my.mode = "off" THEN "cred" ELSE "probe")
  /\ UNCHANGED <<cas, my, plan, mat>> /\ StoreOnly

\* What other TLS modes left behind.  The Certificate goes first, and only when
\* this operator process has seen cert-manager.
CleanupTLSResources ==
  /\ at = "cleanup"
  /\ cert' \in (IF my.mode = "issuer" THEN {cert} ELSE {cert, FALSE})
  /\ ca' = IF my.mode = "self" THEN ca ELSE NoCASecret
  /\ sec' = [m \in DOMAIN sec |-> IF m \in {"self", "issuer"} \ {my.mode} THEN NoSecret ELSE sec[m]]
  /\ Step(IF my.mode = "off" THEN "cred" ELSE "probe")
  /\ UNCHANGED <<cas, my, plan, mat>> /\ StoreOnly

Probing == at = "probe" /\ Step("cred")
AtProbe == UNCHANGED <<now, mode, store, userCA, mount, cred, client, ready, my, plan, mat, ghosts, edits, faults>>
\* The pod is down or does not serve TLS, or the probe of it fails.
ProbeFails ==
  /\ Probing /\ (~pod.up \/ pod.leaf = NoLeaf) /\ found' = FALSE
  /\ UNCHANGED <<tmpl, pod>> /\ AtProbe
ProbeCurrent ==
  /\ Probing /\ pod.up /\ pod.leaf = mat.leaf /\ found' = TRUE
  /\ UNCHANGED <<tmpl, pod>> /\ AtProbe
\* Mutant: the operator waits for the server instead of restarting it.
UnverifiedWaits ==
  /\ Probing /\ pod.up /\ pod.leaf \notin {NoLeaf, mat.leaf} /\ ~Verifies(pod.leaf, mat.bundle)
  /\ found' = FALSE /\ UNCHANGED <<tmpl, pod>> /\ AtProbe
\* restartForTLS: at most once for each certificate.
ProbeUnverified ==
  /\ Probing /\ pod.up /\ pod.leaf \notin {NoLeaf, mat.leaf} /\ ~Verifies(pod.leaf, mat.bundle)
  /\ tmpl' = [tmpl EXCEPT !.restart = mat] /\ found' = FALSE
  /\ UNCHANGED pod /\ AtProbe
\* Mutant: a restart instead of a reload.
OutdatedRestarts ==
  /\ Probing /\ pod.up /\ pod.leaf \notin {NoLeaf, mat.leaf} /\ Verifies(pod.leaf, mat.bundle)
  /\ tmpl' = [tmpl EXCEPT !.restart = mat] /\ found' = FALSE
  /\ UNCHANGED pod /\ AtProbe
\* reloadServerConfig: the server loads the files that the kubelet has mounted.
ProbeOutdated ==
  /\ Probing /\ pod.up /\ pod.leaf \notin {NoLeaf, mat.leaf} /\ Verifies(pod.leaf, mat.bundle)
  /\ pod' = [pod EXCEPT !.leaf = mount.leaf] /\ found' = FALSE
  /\ UNCHANGED tmpl /\ AtProbe

\* clientTLSFor, applyConnectionInfo.
\* Mutant: the CA bundle is kept while TLS is not active.
ClientKeepsCA == [mode |-> IF my.mode = "off" THEN "disable" ELSE IF found THEN "verify" ELSE "prefer", ca |-> mat.bundle]
ClientTLS ==
  IF my.mode = "off" THEN [mode |-> "disable", ca |-> {}]
  ELSE IF found THEN [mode |-> "verify", ca |-> mat.bundle] ELSE [mode |-> "prefer", ca |-> {}]
ConvergeSecretConnectionInfo ==
  /\ at = "cred" /\ cred' = ClientTLS /\ Step("status")
  /\ UNCHANGED <<now, mode, store, userCA, tmpl, pod, mount, client, ready, local, ghosts, edits, faults>>

\* The status is written unless the Cluster was changed since it was read.
UpdateStatusTLS ==
  /\ at = "status" /\ ready' = IF mode = my.mode THEN found ELSE ready
  /\ checked' = (mode = my.mode) /\ Step("idle")
  /\ my' = NoRead /\ plan' = NoPlan /\ mat' = NoSecret /\ found' = FALSE
  /\ UNCHANGED <<now, mode, store, userCA, tmpl, pod, mount, cred, client, missed, smooth, edits, faults>>

\* A call fails, or the operator restarts, at any step.
FailTLS ==
  /\ faults < MaxFaults /\ faults' = faults + 1
  /\ at # "idle" /\ Step("idle") /\ my' = NoRead /\ plan' = NoPlan /\ mat' = NoSecret /\ found' = FALSE
  /\ UNCHANGED <<now, mode, store, userCA, tmpl, pod, mount, cred, client, ready, ghosts, edits>>

-----------------------------------------------------------------------------
(* Time, and everybody together. *)

\* The server presents the certificate of the current mode, and clients verify it.
Converged ==
  IF mode = "off" THEN pod.up /\ pod.leaf = NoLeaf /\ client.mode = "disable"
  ELSE pod.up /\ pod.leaf = sec[mode].leaf /\ client = [mode |-> "verify", ca |-> sec[mode].bundle]
\* Everybody is done with this unit of time.
TLSSettled ==
  /\ at = "idle" /\ checked /\ pod.tmpl = tmpl /\ mount = Mounts /\ client = cred
  /\ Converged /\ (ready <=> mode # "off")
  /\ mode = "self" => PlanSelfManagedTLS(ca, sec["self"]) = [ca |-> ca, sec |-> sec["self"]]
Tick ==
  /\ now < MaxTime /\ at = "idle" /\ now' = now + 1 /\ checked' = FALSE
  /\ \/ TLSSettled /\ missed' = FALSE /\ smooth' = TRUE /\ UNCHANGED faults
     \/ ~TLSSettled /\ ~missed /\ smooth /\ faults < MaxFaults /\ faults' = faults + 1 /\ missed' = TRUE /\ UNCHANGED smooth
  /\ UNCHANGED <<mode, store, userCA, tmpl, pod, mount, cred, client, ready, at, local, edits>>

Provision == Begin \/ WriteCA \/ WriteServer \/ WriteConflict \/ ReconcileCertificate \/ LoadTLSMaterial
Apply == \/ ReconcileStatefulSetTLS \/ CleanupTLSResources
         \/ ProbeFails \/ ProbeCurrent \/ ProbeUnverified \/ ProbeOutdated
         \/ ConvergeSecretConnectionInfo \/ UpdateStatusTLS
ReconcileTLS == Provision \/ Apply
Users == \/ \E m \in Modes : SetMode(m)
         \/ \E s \in {NoSecret, [leaf |-> External(-2), bundle |-> {External(-2)}]} : ReplaceUserSecret(s)
         \/ LoseCA
Others == IssueCertificate \/ StopPod \/ StartPod \/ SyncMount \/ ReadCredentials
TLSNext == ReconcileTLS \/ Users \/ Others \/ Evict \/ FailTLS \/ Tick

TLSSpec == TLSInit /\ [][TLSNext]_tlsvars

\* The operator is requeued until TLS is ready; cert-manager, the StatefulSet
\* controller, the kubelet and the clients do their work.
TLSFairSpec == /\ TLSSpec /\ WF_tlsvars(ReconcileTLS) /\ WF_tlsvars(IssueCertificate)
            /\ WF_tlsvars(StopPod) /\ WF_tlsvars(StartPod) /\ WF_tlsvars(SyncMount) /\ WF_tlsvars(ReadCredentials)

-----------------------------------------------------------------------------
(* Properties. *)

\* As long as users leave it alone, a client that was told to verify the server
\* can do so: through renewals, both steps of a rotation of the CA, lost pods
\* and reconciles that fail, with what the client read last.
ClientsVerify == smooth /\ pod.up /\ client.mode = "verify" => Verifies(pod.leaf, client.ca)

\* Neither a renewal nor a rotation of the CA restarts the pod.
RotationReloads == [][smooth => tmpl'.restart = tmpl.restart]_tlsvars

\* "a server certificate is never persisted without the CA that issued it".
IssuedByKnownCA == smooth /\ mode = "self" /\ sec["self"] # NoSecret => \E c \in ca.bundle : c.id = sec["self"].leaf.id

\* The pod template mounts a Secret that exists, unless its user deleted it:
\* a pod that is lost at any moment can start again.  It is neither switched to
\* a Secret that cannot be used nor is the Secret it mounts cleaned up.
MountedSecretExists ==
  tmpl.mode \in DOMAIN sec => sec[tmpl.mode] # NoSecret \/ (tmpl.mode = "user" /\ userCA = -2)

\* Once changes stop the server presents the certificate of the current mode
\* and clients are told to verify it, unless the user's Secret is missing.
TLSConverges == <>[]((mode = "user" => sec["user"] # NoSecret) => []<>Converged)

\* The state is well-formed; the Secrets hold together: what the template
\* mounts exists, what the server presents has its CA on record.
TLSInv == TLSTypeOK /\ MountedSecretExists /\ IssuedByKnownCA
=============================================================================

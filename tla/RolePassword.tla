---------------------------- MODULE RolePassword ----------------------------
(***************************************************************************)
(* The password of one LOGIN Role: the Role and its credentials Secret in  *)
(* the Kubernetes API, their lagging informer caches, the Secret named by  *)
(* passwordSecretRef, the role in PostgreSQL, and the reconcile that sets  *)
(* a password in PostgreSQL first, in the Secret next and in the status    *)
(* last, with an optimistic lock on each write and no lock across them.    *)
(*                                                                         *)
(* Generated passwords are numbered in the order they are generated; users *)
(* supply passwords from UserPws (in the referenced Secret, or by editing  *)
(* the credentials Secret).  A fingerprint is the password it was made of. *)
(***************************************************************************)
EXTENDS Naturals

CONSTANTS UserPws,      \* passwords users supply
          BadPws,       \* those that cannot be set (not UTF-8, NUL, pre-hashed)
          MaxEdits,     \* bound on changes made by users
          MaxTicks,     \* bound on rotation intervals that pass
          MaxFaults,    \* bound on failing calls and operator crashes
          MaxStale      \* bound on reconciles that start from a stale Secret

ASSUME PasswordsAssumption == BadPws \subseteq UserPws /\ UserPws \cap Nat = {}
ASSUME BoundsAssumption == MaxEdits \in Nat /\ MaxTicks \in Nat /\ MaxFaults \in Nat /\ MaxStale \in Nat

VARIABLES
  \* API server: the Role, its credentials Secret, the referenced password,
  \* the Cluster's connection information; the last Secret version used.
  role, secret, refPw, conn, srv,
  \* Informer caches.
  roleCache, secretCache, refCache,
  \* PostgreSQL: the role's password (NoPw: the role does not exist).
  pgPw,
  \* Time, in rotation intervals; do users wait for a change to take effect
  \* before they take it back, and supply usable passwords only.
  clock, patient,
  \* The running reconcile: control state, its copy of the Role, the time it
  \* started, the referenced password, the Secret it builds on, the copy it
  \* writes, and its decision.
  pc, lrole, now, lref, base, copy, dp,
  \* Last password generated, passwords users have supplied so far, and last
  \* rotate-password value set.
  gen, used, reqs,
  \* Observation only: generated passwords pgop replaced in PostgreSQL;
  \* the rotations whose record in the status was not lost.
  retired, rotations,
  \* Bounds used up.
  edits, faults, stale

api    == <<role, secret, refPw, conn, srv>>
caches == <<roleCache, secretCache, refCache>>
local  == <<pc, lrole, now, lref, base, copy, dp>>
names  == <<gen, used, reqs>>
ghosts == <<retired, rotations>>
budgets == <<edits, faults, stale>>
vars   == <<api, caches, pgPw, clock, patient, local, names, ghosts, budgets>>

NoPw == 0
Passwords == Nat \cup UserPws

\* A Role: version, rotate-password annotation (0: none), passwordSecretRef
\* set, passwordRotation set; status.passwordRotationRequest, passwordRotatedAt
\* (0: nil) and the deprecated passwordHash.
Roles == [rv : Nat, req : Nat, ref : BOOLEAN, every : BOOLEAN,
          done : Nat, at : Nat, hash : Passwords]

\* A credentials Secret: version, password, fingerprint annotation, connection
\* information.  Without a password there is no Secret.
Secrets == [rv : Nat, pw : Passwords, fp : Passwords, conn : Nat]
NoRole == [rv |-> 0, req |-> 0, ref |-> FALSE, every |-> FALSE, done |-> 0, at |-> 0, hash |-> NoPw]
NoSecret == [rv |-> 0, pw |-> NoPw, fp |-> NoPw, conn |-> 0]

Decisions == [value : Passwords, generated : BOOLEAN, rotated : BOOLEAN,
              force : BOOLEAN, applied : BOOLEAN, request : Nat]
NoDecision == [value |-> NoPw, generated |-> FALSE, rotated |-> FALSE,
               force |-> FALSE, applied |-> FALSE, request |-> 0]

TypeOK ==
  /\ role \in Roles /\ roleCache \in Roles /\ lrole \in Roles
  /\ secret \in Secrets /\ secretCache \in Secrets /\ base \in Secrets /\ copy \in Secrets
  /\ refPw \in UserPws \cup {NoPw} /\ refCache \in UserPws \cup {NoPw}
  /\ lref \in UserPws \cup {NoPw}
  /\ conn \in Nat /\ srv \in Nat /\ gen \in Nat /\ reqs \in Nat
  /\ pgPw \in Passwords
  /\ clock \in 1..(MaxTicks + 1) /\ now \in 0..(MaxTicks + 1)
  /\ pc \in {"idle", "decide", "confirm", "send", "write", "status"}
  /\ dp \in Decisions
  /\ used \subseteq UserPws /\ retired \subseteq Nat
  /\ rotations \in Nat /\ patient \in BOOLEAN
  /\ edits \in 0..MaxEdits /\ faults \in 0..MaxFaults /\ stale \in 0..MaxStale

\* A new Role; or one an older pgop manages, whose fingerprint is still the
\* status.passwordHash: with users of either kind.
Init ==
  /\ \E legacy \in BOOLEAN :
       LET pw == IF legacy THEN 1 ELSE NoPw
       IN /\ patient \in {TRUE, ~legacy}
          /\ role = [NoRole EXCEPT !.rv = 1, !.hash = pw]
          /\ secret = IF legacy THEN [rv |-> 1, pw |-> pw, fp |-> NoPw, conn |-> 1] ELSE NoSecret
          /\ pgPw = pw /\ gen = pw /\ srv = pw
  /\ roleCache = role /\ secretCache = secret
  /\ refPw = NoPw /\ refCache = NoPw /\ conn = 1 /\ clock = 1
  /\ pc = "idle" /\ lrole = NoRole /\ now = 0 /\ lref = NoPw
  /\ base = NoSecret /\ copy = NoSecret /\ dp = NoDecision
  /\ used = {} /\ reqs = 0
  /\ retired = {} /\ rotations = 0
  /\ edits = 0 /\ faults = 0 /\ stale = 0

-----------------------------------------------------------------------------
(* Users and the cluster around the operator. *)

Edit == edits < MaxEdits /\ edits' = edits + 1

\* Taking back a change: a user who does not wait for it to take effect.
Settled == pc = "idle" /\ secret.pw = pgPw /\ roleCache = role /\ secretCache = secret
MayWithdraw == ~patient \/ Settled

EditRole(r) ==
  /\ Edit
  /\ role' = [r EXCEPT !.rv = role.rv + 1]
  /\ UNCHANGED <<secret, refPw, conn, srv, caches, pgPw, clock, patient, local, gen, used, ghosts, faults, stale>>

\* The rotate-password annotation is set to a new value, or removed.
RequestRotation == EditRole([role EXCEPT !.req = reqs + 1]) /\ reqs' = reqs + 1
CancelRequest == role.req # 0 /\ MayWithdraw /\ EditRole([role EXCEPT !.req = 0]) /\ UNCHANGED reqs

\* passwordRotation and passwordSecretRef exclude each other.  Switching back
\* to a referenced password used before takes back what came after it.
SetSchedule(on) ==
  /\ role.every # on /\ ~role.ref /\ (on \/ MayWithdraw)
  /\ EditRole([role EXCEPT !.every = on]) /\ UNCHANGED reqs
SetRef(on) ==
  /\ role.ref # on /\ ~role.every /\ (MayWithdraw \/ (on /\ refPw = NoPw))
  /\ EditRole([role EXCEPT !.ref = on]) /\ UNCHANGED reqs

\* Any other change of the Role.
TouchRole == EditRole(role) /\ UNCHANGED reqs

Supply(p) ==
  /\ patient => p \notin used \cup BadPws
  /\ used' = IF patient THEN used \cup {p} ELSE used

\* The referenced Secret is written.
SetRefPassword(p) ==
  /\ Edit /\ Supply(p) /\ refPw' = p
  /\ UNCHANGED <<role, secret, conn, srv, caches, pgPw, clock, patient, local, gen, reqs, ghosts, faults, stale>>

\* A user edits the password in the credentials Secret, or deletes the Secret.
EditSecret(p) ==
  /\ Edit /\ Supply(p)
  /\ secret # NoSecret /\ p # secret.pw
  /\ secret' = [secret EXCEPT !.pw = p, !.rv = srv + 1] /\ srv' = srv + 1
  /\ UNCHANGED <<role, refPw, conn, caches, pgPw, clock, patient, local, gen, reqs, ghosts, faults, stale>>
DeleteSecret ==
  /\ Edit /\ secret # NoSecret /\ secret' = NoSecret
  /\ UNCHANGED <<role, refPw, conn, srv, caches, pgPw, clock, patient, local, names, ghosts, faults, stale>>

\* The Cluster's host, port or TLS changes.
ChangeConnection ==
  /\ Edit /\ conn' = conn + 1
  /\ UNCHANGED <<role, secret, refPw, srv, caches, pgPw, clock, patient, local, names, ghosts, faults, stale>>

\* A rotation interval passes: users who wait do so for less than that.
Tick ==
  /\ ~patient /\ clock <= MaxTicks /\ clock' = clock + 1
  /\ UNCHANGED <<api, caches, pgPw, patient, local, names, ghosts, budgets>>

\* The PostgreSQL role is dropped outside pgop (or a restore lost it).
LoseRole ==
  /\ ~patient /\ Edit /\ pgPw' = NoPw
  /\ UNCHANGED <<api, caches, clock, patient, local, names, ghosts, faults, stale>>

SyncRole ==
  /\ roleCache # role /\ roleCache' = role
  /\ UNCHANGED <<api, secretCache, refCache, pgPw, clock, patient, local, names, ghosts, budgets>>
SyncSecret ==
  /\ secretCache # secret /\ secretCache' = secret
  /\ UNCHANGED <<api, roleCache, refCache, pgPw, clock, patient, local, names, ghosts, budgets>>
SyncRef ==
  /\ refCache # refPw /\ refCache' = refPw
  /\ UNCHANGED <<api, roleCache, secretCache, pgPw, clock, patient, local, names, ghosts, budgets>>

-----------------------------------------------------------------------------
(* The reconcile. *)

Outside == UNCHANGED <<refPw, conn, caches, clock, patient, used, reqs, edits>>

\* The reconcile is over.
Stop == pc' = "idle" /\ lrole' = NoRole /\ now' = 0 /\ lref' = NoPw /\ base' = NoSecret
        /\ copy' = NoSecret /\ dp' = NoDecision

\* A missing or unusable referenced password is an error, reported and never
\* replaced by a generated password.
RefUnusable == roleCache.ref /\ refCache \in BadPws \cup {NoPw}
RefuseRef == pc = "idle" /\ RefUnusable /\ UNCHANGED vars

\* Read the Role, the credentials Secret (from the API server when the cache
\* has none) and the referenced password from the caches.
Start ==
  /\ pc = "idle"
  /\ ~RefUnusable
  /\ IF secretCache = secret THEN UNCHANGED stale ELSE stale < MaxStale /\ stale' = stale + 1
  /\ lrole' = roleCache /\ now' = clock
  /\ base' = IF secretCache = NoSecret THEN secret ELSE secretCache
  /\ copy' = base'
  /\ lref' = IF roleCache.ref THEN refCache ELSE NoPw
  /\ pc' = "decide"
  /\ Outside /\ UNCHANGED <<role, secret, srv, pgPw, gen, dp, ghosts, faults>>

PendingRequest(r) == IF r.req = r.done THEN 0 ELSE r.req
RotationDue(r) == r.every /\ r.at # 0 /\ now > r.at

\* choosePassword for the Role r when the Secret holds the password current;
\* whether the password comes from passwordSecretRef was decided at the start.
Choose(r, current) ==
  LET req == PendingRequest(r)
      keep == current # NoPw /\ req = 0 /\ ~RotationDue(r)
      fromRef == lref # NoPw
  IN [value     |-> IF fromRef THEN lref ELSE IF keep THEN current ELSE gen + 1,
      generated |-> ~fromRef /\ ~keep,
      rotated   |-> ~fromRef /\ ~keep /\ current # NoPw,
      force     |-> fromRef /\ req # 0,
      applied   |-> FALSE,
      request   |-> IF fromRef \/ ~keep THEN req ELSE 0]

\* passwordApplied: is value what PostgreSQL was last given, as recorded.
Applied(r, s, value) ==
  /\ s # NoSecret
  /\ IF s.fp # NoPw THEN s.fp = value ELSE r.hash # NoPw /\ r.hash = value

\* Mutant of DecidePassword: the cached Role is trusted.
DecideCached(s) ==
  LET d == Choose(lrole, s.pw)
  IN /\ dp' = [d EXCEPT !.applied = ~d.generated /\ Applied(lrole, s, d.value)]
     /\ gen' = IF d.generated THEN gen + 1 ELSE gen
     /\ UNCHANGED lrole

\* choosePasswordFresh and decidePassword for the Secret s: before a rotation
\* the Role is read again, uncached.
DecidePassword(s) ==
  LET r == IF Choose(lrole, s.pw).rotated THEN role ELSE lrole
      d == Choose(r, s.pw)
  IN /\ lrole' = r
     /\ dp' = [d EXCEPT !.applied = ~d.generated /\ Applied(r, s, d.value)]
     /\ gen' = IF d.generated THEN gen + 1 ELSE gen

\* Mutant of Decide: the password is sent without a confirmation.
DecideUnconfirmed ==
  /\ pc = "decide"
  /\ DecidePassword(base)
  /\ pc' = "send"
  /\ Outside /\ UNCHANGED <<role, secret, srv, pgPw, now, lref, base, copy, ghosts, faults, stale>>

\* A password that would be sent because of the Secret's fingerprint is
\* confirmed first.
Decide ==
  /\ pc = "decide"
  /\ DecidePassword(base)
  /\ pc' = IF dp'.applied \/ dp'.generated \/ base = NoSecret THEN "send" ELSE "confirm"
  /\ Outside /\ UNCHANGED <<role, secret, srv, pgPw, now, lref, base, copy, ghosts, faults, stale>>

\* The Secret is read again, uncached, and if it changed the password is
\* decided again.
Confirm ==
  /\ pc = "confirm"
  /\ IF secret.rv = base.rv THEN UNCHANGED <<lrole, dp, gen>> ELSE DecidePassword(secret)
  /\ base' = secret /\ copy' = secret
  /\ pc' = "send"
  /\ Outside /\ UNCHANGED <<role, secret, srv, pgPw, now, lref, ghosts, faults, stale>>

\* Mutant: only a password read from the cache is checked.
EditedBadCached ==
  ~dp.generated /\ lref = NoPw /\ ~dp.applied /\ base = secretCache /\ dp.value \in BadPws

\* checkEditedPassword: the password about to be sent was put into the Secret
\* by hand and cannot be used.
EditedBad ==
  ~dp.generated /\ lref = NoPw /\ ~dp.applied /\ base # NoSecret /\ dp.value \in BadPws

\* Mutant: only a generated password needs to be sent.
KeepUngenerated == ~dp.generated /\ ~dp.force

\* An existing role keeps its password when it was given this one already.
KeepExisting == dp.applied /\ ~dp.force

\* CREATE or ALTER ROLE: a role that does not exist is always given the
\* password.
Send ==
  /\ pc = "send" /\ ~EditedBad
  /\ pgPw' = IF KeepExisting /\ pgPw # NoPw THEN pgPw ELSE dp.value
  /\ retired' = IF pgPw' # pgPw /\ pgPw \in Nat \ {NoPw} THEN retired \cup {pgPw} ELSE retired
  /\ rotations' = IF dp.rotated THEN rotations + 1 ELSE rotations
  /\ pc' = "write"
  /\ Outside /\ UNCHANGED <<role, secret, srv, lrole, now, lref, base, copy, dp, gen, faults, stale>>

\* Mutant: the connection information is left out.
WantedNoConn(s) == [rv |-> s.rv, pw |-> dp.value, fp |-> dp.value]

\* convergeRoleSecret.
Wanted(s) == [s EXCEPT !.pw = dp.value, !.fp = dp.value, !.conn = conn]

\* recordPassword, on the reconcile's copy of the Role.
Recorded(r) ==
  [r EXCEPT !.hash = NoPw,
            !.at   = IF lref # NoPw THEN 0
                     ELSE IF dp.generated \/ (r.at = 0 /\ r.every) THEN now ELSE r.at,
            !.done = IF dp.request # 0 THEN dp.request ELSE r.done]

\* A password taken from the Secret is not written over one that is newer.
StaleCopy == KeepExisting /\ copy.pw # base.pw

\* reconcileCredentialsSecret: create it, or leave it when nothing changed, or
\* update the version read.
WriteSecret ==
  /\ pc = "write"
  /\ \/ base = NoSecret /\ secret = NoSecret
     \/ base # NoSecret /\ ~StaleCopy /\ (copy = Wanted(copy) \/ secret.rv = copy.rv)
  /\ IF base # NoSecret /\ copy = Wanted(copy) THEN UNCHANGED <<secret, srv>>
     ELSE secret' = [Wanted(copy) EXCEPT !.rv = srv + 1] /\ srv' = srv + 1
  /\ lrole' = Recorded(lrole) /\ pc' = "status"
  /\ Outside /\ UNCHANGED <<role, pgPw, now, lref, base, copy, dp, gen, retired, rotations, faults, stale>>

\* The update conflicts: read the Secret again and retry.
RetryWrite ==
  /\ pc = "write" /\ base # NoSecret /\ ~StaleCopy
  /\ copy # Wanted(copy) /\ secret.rv # copy.rv /\ secret # NoSecret
  /\ copy' = secret
  /\ Outside /\ UNCHANGED <<role, secret, srv, pgPw, pc, lrole, now, lref, base, dp, gen, ghosts, faults, stale>>

\* The reconcile ends in an error: the rotation, if PostgreSQL has it, is not
\* recorded.
Abandon ==
  /\ Stop
  /\ rotations' = IF pc \in {"write", "status"} /\ dp.rotated THEN rotations - 1 ELSE rotations
  /\ Outside /\ UNCHANGED <<role, secret, srv, pgPw, gen, retired, stale>>

\* The password in the Secret cannot be used.
RefuseEdited == pc = "send" /\ EditedBad /\ Abandon /\ UNCHANGED faults

\* The Secret changed, appeared or is gone.
WriteRefused ==
  /\ pc = "write"
  /\ \/ base = NoSecret /\ secret # NoSecret
     \/ base # NoSecret /\ StaleCopy
     \/ base # NoSecret /\ copy # Wanted(copy) /\ secret = NoSecret
  /\ Abandon /\ UNCHANGED faults

\* The status update; a conflict is not retried.
SaveStatus ==
  /\ pc = "status" /\ lrole.rv = role.rv
  /\ role' = IF lrole = role THEN role ELSE [lrole EXCEPT !.rv = role.rv + 1]
  /\ Stop
  /\ Outside /\ UNCHANGED <<secret, srv, pgPw, gen, ghosts, faults, stale>>

StatusConflict == pc = "status" /\ lrole.rv # role.rv /\ Abandon /\ UNCHANGED faults

\* A call fails, or the operator stops.
Fail == pc # "idle" /\ faults < MaxFaults /\ faults' = faults + 1 /\ Abandon

-----------------------------------------------------------------------------
Controller == RefuseRef \/ Start \/ Decide \/ Confirm \/ RefuseEdited \/ Send \/ WriteSecret \/ RetryWrite
              \/ WriteRefused \/ SaveStatus \/ StatusConflict

Users ==
  \/ RequestRotation \/ CancelRequest \/ TouchRole
  \/ \E on \in BOOLEAN : SetSchedule(on) \/ SetRef(on)
  \/ \E p \in UserPws : SetRefPassword(p) \/ EditSecret(p)
  \/ DeleteSecret \/ ChangeConnection \/ LoseRole

Next == Controller \/ Users \/ Tick \/ Fail \/ SyncRole \/ SyncSecret \/ SyncRef

Spec == Init /\ [][Next]_vars

\* Errors requeue, watch events run the reconcile again, caches catch up.
Fairness == WF_vars(Controller) /\ WF_vars(SyncRole) /\ WF_vars(SyncSecret) /\ WF_vars(SyncRef)

FairSpec == Spec /\ Fairness
-----------------------------------------------------------------------------
(* Properties. *)

\* A password that cannot be used is never set in PostgreSQL, also when the
\* Secret changes between the cached read and the confirming one.
NeverSetsBad == pgPw \notin BadPws

\* A cache lagging behind a rotation never rolls the password back: a
\* generated password that pgop replaced in PostgreSQL is not set again, as
\* long as the role exists.
NeverRollsBack == [][pgPw' # pgPw /\ pgPw # NoPw => pgPw' \notin retired]_vars

\* Each rotation has a request or an elapsed interval of its own, unless the
\* record of an earlier one was lost: stale caches alone never rotate twice.
RotationsAccounted == rotations <= reqs + (clock - 1)

\* Inputs the operator refuses: it then reports an error and changes nothing.
Unusable == IF role.ref THEN refPw \in BadPws \cup {NoPw} ELSE secret.pw \in BadPws

\* Once changes stop, the Secret hands out the password PostgreSQL knows, and
\* its fingerprint says so - whatever crashed, failed or conflicted.
InStep == <>[](~patient \/ Unusable \/ (secret.pw = pgPw /\ secret.fp = pgPw /\ pgPw # NoPw))

\* A password someone edits into the Secret reaches PostgreSQL: writing the
\* Secret replaces no other password than the one the reconcile read from it.
\* The code does not keep it when it set an earlier edit meanwhile.
EditsKept ==
  [][pc = "write" /\ pc' = "status" /\ ~dp.generated /\ lref = NoPw /\ secret'.pw # secret.pw
       => secret.pw = base.pw]_vars

\* The state of a Role's password is sound: well-formed, PostgreSQL never has a
\* password that cannot be used, and no rotation lacks its reason.
PasswordInv == TypeOK /\ NeverSetsBad /\ RotationsAccounted
=============================================================================

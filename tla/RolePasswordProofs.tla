------------------------- MODULE RolePasswordProofs -------------------------
(***************************************************************************)
(* Proofs about RolePassword, for every set of passwords and every bound:  *)
(* PostgreSQL never gets a password that cannot be used, no rotation lacks *)
(* its reason, and a stale cache never rolls a password back.              *)
(***************************************************************************)
EXTENDS RolePassword, TLAPS

-----------------------------------------------------------------------------
(* The inductive invariant. *)

\* A reconcile is under way, and has chosen a password.
Running == {"decide", "confirm", "send", "write", "status"}
Decided == {"confirm", "send", "write", "status"}

\* The copies of the credentials Secret.
Copies == {secretCache, base, copy}

\* A resource version stands for one content of the Secret.
SecretVersions ==
  /\ secret.rv <= srv /\ (secret.rv = 0 => secret = NoSecret)
  /\ \A s \in Copies : s.rv <= srv /\ (s.rv = secret.rv => s = secret) /\ (s.rv = 0 => s = NoSecret)

\* The same for the Role, up to what the reconcile recorded in its copy.
RoleVersions ==
  /\ roleCache.rv <= role.rv /\ (roleCache.rv = role.rv => roleCache = role)
  /\ pc \in Running => lrole.rv <= role.rv
  /\ pc \in Running \ {"status"} => (lrole.rv = role.rv => lrole = role)
  /\ pc = "status" => (lrole.rv = role.rv => lrole = Recorded(role))

\* A generated password in the Secret has its fingerprint there; a Secret
\* without one is an older pgop's, whose fingerprint is in the Role.
Fingerprints ==
  /\ secret.pw \in Nat => secret.fp \in {secret.pw, NoPw}
  /\ secret # NoSecret /\ secret.fp = NoPw =>
       /\ \A s \in Copies : s.fp = NoPw
       /\ role.hash # NoPw /\ roleCache.hash = role.hash
       /\ pc # "status" /\ (pc \in Running => lrole.hash = role.hash)
       /\ secret.pw \in Nat => secret.pw = role.hash

\* Generated passwords are numbered in the order they are generated.
Numbered ==
  /\ \A s \in Copies \cup {secret} : s.pw \in Nat => s.pw <= gen
  /\ pgPw \in Nat => pgPw <= gen
  /\ dp.value \in Nat => dp.value <= gen
  /\ \A p \in retired : p <= gen /\ p # NoPw

\* What is recorded as set can be used.
UsableRecords ==
  /\ \A s \in Copies \cup {secret} : s.fp \notin BadPws
  /\ \A r \in {role, roleCache, lrole} : r.hash \notin BadPws
  /\ lref \notin BadPws

\* The password chosen: kept, new, or a user's; a generated one is not sent
\* twice.
Chosen ==
  /\ pc \in Decided => dp.value # NoPw
  /\ pc \in Decided /\ dp.force => dp.value \in UserPws
  /\ pc \in Decided /\ dp.applied => dp.value \notin BadPws
  /\ pc \in Decided /\ dp.generated => dp.value \in Nat
  /\ pc \in Decided /\ lref # NoPw => dp.value = lref
  /\ pc = "confirm" => \/ dp.value \in UserPws
                       \/ dp.value = base.pw /\ ~Applied(lrole, base, base.pw)
  /\ pc = "send" => \/ dp.applied /\ ~dp.force
                    \/ dp.generated /\ dp.value = gen /\ gen \notin retired \cup {pgPw}
                    \/ dp.value \in UserPws
  /\ pc \in {"confirm", "send"} => (base = NoSecret => dp.generated \/ lref # NoPw)
  /\ pc \in {"write", "status"} => dp.value \notin BadPws

\* The requests of a Role are numbered in the order they are made, and the
\* last rotation is not in the future.
Time == IF pc = "idle" THEN clock ELSE now
Counted ==
  /\ Time \in 1..clock /\ role.at <= Time
  /\ role.done <= reqs /\ (role.req # 0 => role.req >= role.done)
  /\ \A r \in {role, roleCache, lrole} : r.req <= reqs
  /\ pc \in Decided => dp.request \in {0, lrole.req}
  /\ pc \in Decided /\ dp.rotated => /\ pc # "confirm" /\ dp.generated /\ lref = NoPw
                                     /\ \/ dp.request > role.done
                                        \/ role.at # 0 /\ now > role.at

\* The rotations that the status of the Role accounts for.
Unrecorded == IF pc \in {"write", "status"} /\ dp.rotated THEN 1 ELSE 0
Accounted ==
  /\ rotations >= Unrecorded
  /\ rotations - Unrecorded <= role.done + (IF role.at = 0 THEN Time ELSE role.at) - 1

SecretInv == SecretVersions /\ RoleVersions /\ Fingerprints /\ Numbered /\ UsableRecords
IInv == TypeOK /\ NeverSetsBad /\ SecretInv /\ Chosen /\ Counted /\ Accounted
-----------------------------------------------------------------------------
(* Records. *)

\* Facts about the numbers and the passwords.
LEMMA PasswordTypes ==
  /\ NoPw \in Passwords /\ NoPw \in Nat /\ \A n \in Nat : n \in Passwords /\ n \notin UserPws
  /\ \A p \in UserPws : p \in Passwords /\ p \notin Nat /\ p # NoPw
  /\ \A p \in BadPws : p \in UserPws
  BY PasswordsAssumption DEF NoPw, Passwords

\* The empty records.
LEMMA EmptyTypes == NoRole \in Roles /\ NoSecret \in Secrets /\ NoDecision \in Decisions
  BY PasswordTypes DEF NoRole, Roles, NoSecret, Secrets, NoDecision, Decisions

\* A user's change of the Role.
LEMMA RoleTypes ==
  ASSUME NEW r \in Roles, NEW v \in Nat, NEW n \in Nat, NEW b \in BOOLEAN
  PROVE  /\ [r EXCEPT !.rv = v] \in Roles /\ [r EXCEPT !.req = n] \in Roles
         /\ [r EXCEPT !.every = b] \in Roles /\ [r EXCEPT !.ref = b] \in Roles
  BY DEF Roles

\* The Role as recordPassword leaves it.
LEMMA RecordedFields ==
  ASSUME TypeOK, NEW r \in Roles
  PROVE  LET q == Recorded(r) IN
         /\ q \in Roles /\ q.rv = r.rv /\ q.req = r.req /\ q.hash = NoPw
         /\ q.done = (IF dp.request # 0 THEN dp.request ELSE r.done)
         /\ q.at = (IF lref # NoPw THEN 0
                    ELSE IF dp.generated \/ (r.at = 0 /\ r.every) THEN now ELSE r.at)
<1>1. now \in Nat /\ dp.request \in Nat /\ NoPw \in Passwords
  BY BoundsAssumption, PasswordTypes DEF TypeOK, Decisions
<1>2. QED
  BY <1>1 DEF Recorded, Roles

\* The Secret as convergeRoleSecret wants it.
LEMMA WantedFields ==
  ASSUME TypeOK, NEW s \in Secrets
  PROVE  LET q == Wanted(s) IN
         q \in Secrets /\ q.rv = s.rv /\ q.pw = dp.value /\ q.fp = dp.value /\ q.conn = conn
<1>1. dp.value \in Passwords /\ conn \in Nat
  BY DEF TypeOK, Decisions
<1>2. QED
  BY <1>1 DEF Wanted, Secrets

\* choosePassword.
LEMMA ChooseFields ==
  ASSUME TypeOK, NEW r \in Roles, NEW c \in Passwords
  PROVE  LET d == Choose(r, c) IN
         /\ d \in Decisions /\ d.value # NoPw
         /\ lref # NoPw => d.value = lref /\ ~d.generated
         /\ lref = NoPw => ~d.force /\ (~d.generated => d.value = c /\ c # NoPw)
         /\ d.generated => d.value = gen + 1 /\ lref = NoPw
         /\ d.rotated => d.generated /\ (PendingRequest(r) # 0 \/ RotationDue(r)) /\ d.request = PendingRequest(r)
         /\ d.request \in {0, r.req}
<1>1. lref \in UserPws \cup {NoPw} /\ gen \in Nat /\ r.req \in Nat /\ r.done \in Nat
  BY DEF TypeOK, Roles
<1>2. gen + 1 \in Passwords /\ gen + 1 # NoPw /\ lref \in Passwords
  BY <1>1, PasswordTypes DEF NoPw
<1>3. PendingRequest(r) \in {0, r.req} /\ PendingRequest(r) \in Nat
  BY <1>1 DEF PendingRequest
<1>4. QED
  BY <1>1, <1>2, <1>3 DEF Choose, Decisions

\* decidePassword: the decision, the Role it is based on, the last password
\* generated.
LEMMA DecideFields ==
  ASSUME TypeOK, NEW s \in Secrets, DecidePassword(s)
  PROVE  /\ dp' \in Decisions /\ dp'.value # NoPw /\ lrole' \in {role, lrole}
         /\ gen' = (IF dp'.generated THEN gen + 1 ELSE gen)
         /\ lref # NoPw => dp'.value = lref /\ ~dp'.generated
         /\ lref = NoPw => ~dp'.force /\ (~dp'.generated => dp'.value = s.pw /\ s.pw # NoPw)
         /\ dp'.generated => dp'.value = gen' /\ lref = NoPw /\ ~dp'.applied
         /\ ~dp'.generated => (dp'.applied <=> Applied(lrole', s, dp'.value))
         /\ dp'.rotated => /\ dp'.generated /\ lrole' = role
                           /\ \/ PendingRequest(role) # 0 /\ dp'.request = PendingRequest(role)
                              \/ RotationDue(role)
         /\ dp'.request \in {0, lrole'.req}
<1> DEFINE r == IF Choose(lrole, s.pw).rotated THEN role ELSE lrole
           d == Choose(r, s.pw)
           a == ~d.generated /\ Applied(r, s, d.value)
<1>1. r \in Roles /\ lrole \in Roles /\ s.pw \in Passwords
  BY DEF TypeOK, Secrets
<1>2. lrole' = r /\ dp' = [d EXCEPT !.applied = a] /\ gen' = IF d.generated THEN gen + 1 ELSE gen
  BY DEF DecidePassword
<1>3. d.rotated => r = role
  OBVIOUS
<1>4. a \in BOOLEAN
  BY DEF Applied
<1>5. /\ d \in Decisions /\ d.value # NoPw
      /\ lref # NoPw => d.value = lref /\ ~d.generated
      /\ lref = NoPw => ~d.force /\ (~d.generated => d.value = s.pw /\ s.pw # NoPw)
      /\ d.generated => d.value = gen + 1 /\ lref = NoPw
      /\ d.rotated => d.generated /\ (PendingRequest(r) # 0 \/ RotationDue(r)) /\ d.request = PendingRequest(r)
      /\ d.request \in {0, r.req}
  BY <1>1, ChooseFields
<1>6. r \in {role, lrole} /\ (d.generated => ~a) /\ (~d.generated => (a <=> Applied(r, s, d.value)))
  OBVIOUS
<1> HIDE DEF r, d, a
<1>7. /\ dp' \in Decisions /\ dp'.value = d.value /\ dp'.generated = d.generated /\ dp'.rotated = d.rotated
      /\ dp'.force = d.force /\ dp'.applied = a /\ dp'.request = d.request
  BY <1>2, <1>4, <1>5 DEF Decisions
<1>8. QED
  BY <1>2, <1>3, <1>5, <1>6, <1>7
-----------------------------------------------------------------------------
(* Types. *)

\* TypeOK, the one variable with a Boolean value apart.
Flags == patient \in BOOLEAN
Rest ==
  /\ role \in Roles /\ roleCache \in Roles /\ lrole \in Roles
  /\ secret \in Secrets /\ secretCache \in Secrets /\ base \in Secrets /\ copy \in Secrets
  /\ refPw \in UserPws \cup {NoPw} /\ refCache \in UserPws \cup {NoPw}
  /\ lref \in UserPws \cup {NoPw}
  /\ conn \in Nat /\ srv \in Nat /\ gen \in Nat /\ reqs \in Nat
  /\ pgPw \in Passwords
  /\ clock \in 1..(MaxTicks + 1) /\ now \in 0..(MaxTicks + 1)
  /\ pc \in {"idle", "decide", "confirm", "send", "write", "status"}
  /\ dp \in Decisions
  /\ used \subseteq UserPws /\ retired \subseteq Nat
  /\ rotations \in Nat
  /\ edits \in 0..MaxEdits /\ faults \in 0..MaxFaults /\ stale \in 0..MaxStale

LEMMA TypeParts == (TypeOK <=> Flags /\ Rest) /\ (TypeOK' <=> Flags' /\ Rest')
  BY DEF TypeOK, Flags, Rest

\* The users.
LEMMA UsersTypeOK ==
  ASSUME TypeOK, Users
  PROVE  Rest'
<1>0. Rest /\ MaxEdits \in Nat /\ (Edit => edits' \in 0..MaxEdits)
  BY TypeParts, BoundsAssumption DEF Edit, Rest
<1>1. ASSUME NEW r \in Roles, EditRole(r), reqs' \in Nat PROVE Rest'
  <2>1. role' \in Roles
    <3>1. role.rv + 1 \in Nat
      BY <1>0 DEF Rest, Roles
    <3>2. QED
      BY <1>1, <3>1, RoleTypes DEF EditRole
  <2>2. QED
    BY <1>0, <1>1, <2>1 DEF Rest, EditRole, caches, local, ghosts
<1>2. CASE RequestRotation \/ CancelRequest \/ TouchRole \/ \E on \in BOOLEAN : SetSchedule(on) \/ SetRef(on)
  <2>1. \E r \in Roles : EditRole(r) /\ reqs' \in {reqs, reqs + 1}
    <3>1. \A b \in BOOLEAN : /\ [role EXCEPT !.req = reqs + 1] \in Roles /\ [role EXCEPT !.req = 0] \in Roles
                             /\ [role EXCEPT !.every = b] \in Roles /\ [role EXCEPT !.ref = b] \in Roles
      BY <1>0 DEF Rest, Roles
    <3>2. QED
      BY <1>0, <1>2, <3>1 DEF Rest, RequestRotation, CancelRequest, TouchRole, SetSchedule, SetRef
  <2>2. QED
    BY <1>0, <1>1, <2>1 DEF Rest
<1>3. ASSUME NEW p \in UserPws, SetRefPassword(p) PROVE Rest'
  BY <1>0, <1>3 DEF Rest, SetRefPassword, Supply, caches, local, ghosts
<1>4. ASSUME NEW p \in UserPws, EditSecret(p) PROVE Rest'
  <2>1. secret' \in Secrets /\ srv' \in Nat
    <3>1. p \in Passwords /\ srv + 1 \in Nat /\ secret \in Secrets
      BY <1>0, PasswordTypes DEF Rest
    <3>2. [secret EXCEPT !.pw = p, !.rv = srv + 1] \in Secrets
      BY <3>1 DEF Secrets
    <3>3. QED
      BY <1>4, <3>1, <3>2 DEF EditSecret
  <2>2. QED
    BY <1>0, <1>4, <2>1 DEF Rest, EditSecret, Supply, caches, local, ghosts
<1>5. CASE DeleteSecret
  BY <1>0, <1>5, EmptyTypes DEF Rest, DeleteSecret, caches, local, names, ghosts
<1>6. CASE ChangeConnection
  BY <1>0, <1>6 DEF Rest, ChangeConnection, caches, local, names, ghosts
<1>7. CASE LoseRole
  BY <1>0, <1>7, PasswordTypes DEF Rest, LoseRole, api, caches, local, names, ghosts
<1>8. QED
  BY <1>2, <1>3, <1>4, <1>5, <1>6, <1>7 DEF Users

\* The end of a reconcile.
LEMMA StopTypes ==
  ASSUME Stop
  PROVE  /\ pc' = "idle" /\ lrole' = NoRole /\ now' = 0 /\ lref' = NoPw /\ base' = NoSecret /\ copy' = NoSecret
         /\ dp' = NoDecision /\ lrole' \in Roles /\ base' \in Secrets /\ copy' \in Secrets /\ dp' \in Decisions
  BY EmptyTypes DEF Stop

\* The operator, time and the caches.
LEMMA OperatorTypeOK ==
  ASSUME TypeOK, rotations >= Unrecorded, Controller \/ Tick \/ Fail \/ SyncRole \/ SyncSecret \/ SyncRef
  PROVE  Rest'
<1>0. Rest /\ MaxTicks \in Nat /\ MaxFaults \in Nat /\ MaxStale \in Nat
  BY TypeParts, BoundsAssumption
<1>1. CASE Tick
  BY <1>0, <1>1 DEF Rest, Tick, api, caches, local, names, ghosts, budgets
<1>2. CASE SyncRole \/ SyncSecret \/ SyncRef
  BY <1>0, <1>2 DEF Rest, SyncRole, SyncSecret, SyncRef, api, caches, local, names, ghosts, budgets
<1>3. CASE RefuseRef
  BY <1>0, <1>3 DEF Rest, RefuseRef, vars, api, caches, local, names, ghosts, budgets
<1>4. CASE Start
  BY <1>0, <1>4 DEF Rest, Start, Outside, caches, ghosts
<1>5. CASE Decide
  <2>1. dp' \in Decisions /\ lrole' \in Roles /\ gen' \in Nat
    BY <1>0, <1>5, DecideFields DEF Rest, Decide
  <2>2. QED
    BY <1>0, <1>5, <2>1 DEF Rest, Decide, Outside, caches, ghosts
<1>6. CASE Confirm
  <2>1. dp' \in Decisions /\ lrole' \in Roles /\ gen' \in Nat
    BY <1>0, <1>6, DecideFields DEF Rest, Confirm
  <2>2. QED
    BY <1>0, <1>6, <2>1 DEF Rest, Confirm, Outside, caches, ghosts
<1>7. CASE Send
  <2>1. pgPw' \in Passwords /\ rotations' \in Nat
    BY <1>0, <1>7 DEF Rest, Send, Decisions
  <2>2. retired' \subseteq Nat
    <3>1. retired' \in {retired, retired \cup {pgPw}} /\ (pgPw \in Nat \/ retired' = retired)
      BY <1>7 DEF Send
    <3>2. QED
      BY <1>0, <3>1 DEF Rest
  <2>3. QED
    BY <1>0, <1>7, <2>1, <2>2 DEF Rest, Send, Outside, caches
<1>8. CASE WriteSecret
  <2>1. Wanted(copy) \in Secrets /\ lrole' \in Roles
    BY <1>0, <1>8, WantedFields, RecordedFields DEF Rest, WriteSecret
  <2>2. secret' \in Secrets /\ srv' \in Nat
    BY <1>0, <1>8, <2>1 DEF Rest, WriteSecret, Secrets
  <2>3. QED
    BY <1>0, <1>8, <2>1, <2>2 DEF Rest, WriteSecret, Outside, caches
<1>9. CASE RetryWrite
  BY <1>0, <1>9 DEF Rest, RetryWrite, Outside, caches, ghosts
<1>10. CASE Abandon /\ (UNCHANGED faults \/ faults' \in 0..MaxFaults)
  <2>1. rotations' \in Nat
    BY <1>0, <1>10 DEF Rest, Abandon, Unrecorded
  <2>2. QED
    BY <1>0, <1>10, <2>1, StopTypes DEF Rest, Abandon, Outside, caches
<1>11. CASE RefuseEdited \/ WriteRefused \/ StatusConflict \/ Fail
  <2>1. Abandon /\ (UNCHANGED faults \/ faults' \in 0..MaxFaults)
    BY <1>0, <1>11 DEF Rest, RefuseEdited, WriteRefused, StatusConflict, Fail
  <2>2. QED
    BY <1>10, <2>1
<1>12. CASE SaveStatus
  <2>1. role' \in Roles
    <3>1. role.rv + 1 \in Nat
      BY <1>0 DEF Rest, Roles
    <3>2. QED
      BY <1>0, <1>12, <3>1, RoleTypes DEF Rest, SaveStatus
  <2>2. QED
    BY <1>0, <1>12, <2>1, StopTypes DEF Rest, SaveStatus, Outside, caches, ghosts
<1>13. QED
  BY <1>1, <1>2, <1>3, <1>4, <1>5, <1>6, <1>7, <1>8, <1>9, <1>11, <1>12 DEF Controller

\* Nobody changes the kind of users.
LEMMA NextTypeOK == TypeOK /\ rotations >= Unrecorded /\ [Next]_vars => TypeOK'
<1> SUFFICES ASSUME TypeOK, rotations >= Unrecorded, [Next]_vars PROVE TypeOK'
  OBVIOUS
<1>1. CASE UNCHANGED vars
  BY <1>1 DEF TypeOK, vars, api, caches, local, names, ghosts, budgets
<1>2. CASE Next
  <2>1. patient' = patient
    BY <1>2, Zenon DEF Next, Controller, Users, RefuseRef, Start, Decide, Confirm, RefuseEdited, Send, WriteSecret, RetryWrite,
       WriteRefused, SaveStatus, StatusConflict, Abandon, Outside, RequestRotation, CancelRequest, TouchRole, SetSchedule,
       SetRef, EditRole, SetRefPassword, EditSecret, DeleteSecret, ChangeConnection, LoseRole, Tick, Fail, SyncRole,
       SyncSecret, SyncRef, vars
  <2>2. Flags'
    BY <2>1, TypeParts, Zenon DEF Flags
  <2>3. QED
    BY <1>2, <2>2, UsersTypeOK, OperatorTypeOK, TypeParts DEF Next
<1>3. QED
  BY <1>1, <1>2
-----------------------------------------------------------------------------
(* Versions of the Secret and of the Role. *)

\* The steps that leave the Secret and its copies alone.
OtherSteps ==
  \/ RequestRotation \/ CancelRequest \/ TouchRole \/ (\E on \in BOOLEAN : SetSchedule(on) \/ SetRef(on))
  \/ (\E p \in UserPws : SetRefPassword(p)) \/ ChangeConnection \/ LoseRole \/ Tick \/ SyncRole \/ SyncRef
  \/ RefuseRef \/ Decide \/ Send

\* The steps that end a reconcile.
Ending == RefuseEdited \/ WriteRefused \/ StatusConflict \/ Fail

\* Every step, sorted by what it does to the Secret.
LEMMA Steps ==
  ASSUME Next
  PROVE  \/ OtherSteps \/ (\E p \in UserPws : EditSecret(p)) \/ DeleteSecret \/ SyncSecret \/ Start \/ Confirm
         \/ WriteSecret \/ RetryWrite \/ Ending \/ SaveStatus
  BY DEF Next, Controller, Users, OtherSteps, Ending

LEMMA OtherStepsFrame ==
  ASSUME OtherSteps
  PROVE  UNCHANGED <<secret, srv, secretCache, base, copy>>
  BY DEF OtherSteps, RequestRotation, CancelRequest, TouchRole, SetSchedule, SetRef, EditRole, SetRefPassword,
     ChangeConnection, LoseRole, Tick, SyncRole, SyncRef, RefuseRef, Decide, Send, Outside, vars, api, caches, local

\* What the end of a reconcile, in an error or not, leaves behind.
LEMMA EndingFrame ==
  ASSUME TypeOK, Ending \/ SaveStatus
  PROVE  /\ Stop /\ UNCHANGED <<secret, srv, secretCache, roleCache, pgPw, gen, retired, reqs, clock>>
         /\ Ending => UNCHANGED role /\ rotations' = rotations - Unrecorded
         /\ SaveStatus => UNCHANGED rotations
<1>1. Ending => Abandon
  BY DEF Ending, RefuseEdited, WriteRefused, StatusConflict, Fail
<1>2. Unrecorded = IF pc \in {"write", "status"} /\ dp.rotated THEN 1 ELSE 0
  BY DEF Unrecorded
<1>3. CASE Abandon /\ Ending
  <2>1. /\ Stop /\ UNCHANGED <<secret, srv, secretCache, roleCache, pgPw, gen, retired, reqs, clock, role>>
        /\ rotations' = IF pc \in {"write", "status"} /\ dp.rotated THEN rotations - 1 ELSE rotations
    BY <1>3 DEF Abandon, Outside, caches
  <2>2. ~SaveStatus
    BY <1>3 DEF TypeOK, Ending, SaveStatus, RefuseEdited, WriteRefused, StatusConflict, Fail
  <2>3. QED
    BY <1>2, <2>1, <2>2
<1>4. CASE SaveStatus /\ ~Ending
  BY <1>4 DEF SaveStatus, Outside, caches, ghosts
<1>5. QED
  BY <1>1, <1>3, <1>4

\* A version of the Secret stands for one content.
LEMMA NextSecretVersions ==
  ASSUME TypeOK, SecretVersions, Next
  PROVE  SecretVersions'
<1>0. /\ secret \in Secrets /\ srv \in Nat /\ secret.rv \in Nat /\ NoSecret.rv = 0
      /\ \A s \in Copies : s \in Secrets /\ s.rv \in Nat
  BY DEF TypeOK, Secrets, NoSecret, Copies
<1>1. ASSUME srv' = srv + 1, secret'.rv = srv + 1, UNCHANGED <<secretCache, base, copy>>
      PROVE  SecretVersions'
  BY <1>0, <1>1 DEF SecretVersions, Copies
<1>2. ASSUME UNCHANGED <<srv, secret>>, Copies' \subseteq Copies \cup {secret, NoSecret}
      PROVE  SecretVersions'
  BY <1>0, <1>2 DEF SecretVersions
<1>3. CASE OtherSteps
  BY <1>2, <1>3, OtherStepsFrame DEF Copies
<1>4. ASSUME NEW p \in UserPws, EditSecret(p) PROVE SecretVersions'
  <2>1. secret' = [secret EXCEPT !.pw = p, !.rv = srv + 1] /\ srv' = srv + 1 /\ UNCHANGED <<secretCache, base, copy>>
    BY <1>4 DEF EditSecret, caches, local
  <2>2. secret'.rv = srv + 1
    BY <1>0, <2>1 DEF Secrets
  <2>3. QED
    BY <1>1, <2>1, <2>2
<1>5. CASE DeleteSecret
  <2>1. secret' = NoSecret /\ UNCHANGED <<srv, secretCache, base, copy>>
    BY <1>5 DEF DeleteSecret, caches, local
  <2>2. QED
    BY <1>0, <2>1 DEF SecretVersions, Copies
<1>6. CASE SyncSecret \/ Start \/ Confirm \/ RetryWrite
  <2>1. /\ UNCHANGED <<srv, secret>> /\ secretCache' \in {secretCache, secret}
        /\ base' \in {base, secretCache, secret} /\ copy' \in {copy, base', secret}
    BY <1>6 DEF SyncSecret, Start, Confirm, RetryWrite, api, local, Outside, caches
  <2>2. QED
    BY <1>2, <2>1 DEF Copies
<1>7. CASE WriteSecret
  <2>1. UNCHANGED <<secretCache, base, copy>>
    BY <1>7 DEF WriteSecret, Outside, caches
  <2>2. CASE UNCHANGED <<secret, srv>>
    BY <1>2, <2>1, <2>2 DEF Copies
  <2>3. CASE secret' = [Wanted(copy) EXCEPT !.rv = srv + 1] /\ srv' = srv + 1
    <3>1. Wanted(copy) \in Secrets
      BY WantedFields DEF TypeOK
    <3>2. secret'.rv = srv + 1
      BY <2>3, <3>1 DEF Secrets
    <3>3. QED
      BY <1>1, <2>1, <2>3, <3>2
  <2>4. QED
    BY <1>7, <2>2, <2>3 DEF WriteSecret
<1>8. CASE Ending \/ SaveStatus
  <2>1. UNCHANGED <<srv, secret, secretCache>> /\ base' = NoSecret /\ copy' = NoSecret
    BY <1>8, EndingFrame, StopTypes
  <2>2. QED
    BY <1>2, <2>1 DEF Copies
<1>9. QED
  BY <1>3, <1>4, <1>5, <1>6, <1>7, <1>8, Steps

\* A user's change of the Role.
RoleEdits ==
  RequestRotation \/ CancelRequest \/ TouchRole \/ \E on \in BOOLEAN : SetSchedule(on) \/ SetRef(on)

LEMMA RoleEditsFrame ==
  ASSUME TypeOK, RoleEdits
  PROVE  /\ UNCHANGED <<secret, srv, caches, pgPw, clock, local, gen, ghosts>> /\ reqs' >= reqs
         /\ role'.rv = role.rv + 1 /\ role'.done = role.done /\ role'.at = role.at /\ role'.hash = role.hash
         /\ role'.req \in {0, role.req} \/ (role'.req = reqs' /\ reqs' > reqs)
<1>0. role \in Roles /\ reqs \in Nat /\ role.rv \in Nat
  BY DEF TypeOK, Roles
<1>1. ASSUME NEW r \in Roles, EditRole(r), r.done = role.done, r.at = role.at, r.hash = role.hash
      PROVE  /\ UNCHANGED <<secret, srv, caches, pgPw, clock, local, gen, ghosts>> /\ role'.req = r.req
             /\ role'.rv = role.rv + 1 /\ role'.done = role.done /\ role'.at = role.at /\ role'.hash = role.hash
  BY <1>0, <1>1 DEF EditRole, Roles
<1>2. CASE RequestRotation
  <2> DEFINE r == [role EXCEPT !.req = reqs + 1]
  <2>1. /\ r \in Roles /\ r.done = role.done /\ r.at = role.at /\ r.hash = role.hash /\ r.req = reqs + 1
    BY <1>0 DEF Roles
  <2>2. EditRole(r) /\ reqs' = reqs + 1
    BY <1>2 DEF RequestRotation
  <2> HIDE DEF r
  <2>3. /\ UNCHANGED <<secret, srv, caches, pgPw, clock, local, gen, ghosts>> /\ role'.req = r.req
        /\ role'.rv = role.rv + 1 /\ role'.done = role.done /\ role'.at = role.at /\ role'.hash = role.hash
    BY <1>1, <2>1, <2>2
  <2>4. QED
    BY <1>0, <2>1, <2>2, <2>3
<1>3. CASE CancelRequest
  <2>1. [role EXCEPT !.req = 0] \in Roles
    BY <1>0 DEF Roles
  <2>2. QED
    BY <1>0, <1>1, <1>3, <2>1 DEF CancelRequest, Roles
<1>4. CASE TouchRole
  BY <1>0, <1>1, <1>4 DEF TouchRole
<1>5. ASSUME NEW on \in BOOLEAN, SetSchedule(on) \/ SetRef(on)
      PROVE  /\ UNCHANGED <<secret, srv, caches, pgPw, clock, local, gen, ghosts, reqs>> /\ role'.req = role.req
             /\ role'.rv = role.rv + 1 /\ role'.done = role.done /\ role'.at = role.at /\ role'.hash = role.hash
  <2>1. [role EXCEPT !.every = on] \in Roles /\ [role EXCEPT !.ref = on] \in Roles
    BY <1>0 DEF Roles
  <2>2. CASE SetSchedule(on)
    BY <1>0, <1>1, <2>1, <2>2 DEF SetSchedule, Roles
  <2>3. CASE SetRef(on)
    BY <1>0, <1>1, <2>1, <2>3 DEF SetRef, Roles
  <2>4. QED
    BY <1>5, <2>2, <2>3
<1>6. QED
  BY <1>0, <1>2, <1>3, <1>4, <1>5 DEF RoleEdits

\* The other steps outside the reconcile.
Surroundings ==
  \/ (\E p \in UserPws : SetRefPassword(p) \/ EditSecret(p)) \/ DeleteSecret \/ ChangeConnection \/ LoseRole
  \/ Tick \/ SyncSecret \/ SyncRef \/ RefuseRef

LEMMA SurroundingsFrame ==
  ASSUME TypeOK, Surroundings
  PROVE  /\ UNCHANGED <<role, roleCache, local, gen, reqs, ghosts>> /\ clock' \in Nat /\ clock' >= clock
         /\ pgPw' \in {pgPw, NoPw}
<1>1. clock \in Nat
  BY BoundsAssumption DEF TypeOK
<1>2. UNCHANGED <<role, roleCache, local, gen, reqs, ghosts>> /\ pgPw' \in {pgPw, NoPw} /\ clock' \in {clock, clock + 1}
  BY DEF Surroundings, SetRefPassword, EditSecret, DeleteSecret, ChangeConnection, LoseRole, Tick, SyncSecret, SyncRef,
     RefuseRef, vars, api, caches, names
<1>3. QED
  BY <1>1, <1>2

\* Every step, sorted by who takes it.
LEMMA Actors ==
  ASSUME Next
  PROVE  \/ RoleEdits \/ Surroundings \/ SyncRole \/ Start \/ Decide \/ Confirm \/ Send \/ WriteSecret \/ RetryWrite
         \/ Ending \/ SaveStatus
  BY DEF Next, Controller, Users, RoleEdits, Surroundings, Ending

\* A version of the Role stands for one content.
LEMMA NextRoleVersions ==
  ASSUME TypeOK, RoleVersions, Next
  PROVE  RoleVersions'
<1>0. role \in Roles /\ roleCache \in Roles /\ lrole \in Roles /\ role.rv \in Nat /\ roleCache.rv \in Nat /\ lrole.rv \in Nat
  BY DEF TypeOK, Roles
<1>1. CASE RoleEdits
  <2>1. role'.rv = role.rv + 1 /\ UNCHANGED <<roleCache, lrole, pc>>
    BY <1>1, RoleEditsFrame DEF caches, local
  <2>2. QED
    BY <1>0, <2>1 DEF RoleVersions, Running
<1>2. ASSUME UNCHANGED <<role, lrole, pc, dp, now, lref>>, roleCache' \in {roleCache, role} PROVE RoleVersions'
  <2>1. Recorded(role)' = Recorded(role)
    BY <1>2 DEF Recorded
  <2>2. QED
    BY <1>0, <1>2, <2>1 DEF RoleVersions, Running
<1>3. CASE Surroundings \/ SyncRole \/ RetryWrite
  <2>1. UNCHANGED <<role, lrole, pc, dp, now, lref>> /\ roleCache' \in {roleCache, role}
    BY <1>3, SurroundingsFrame DEF SyncRole, RetryWrite, local, api, Outside, caches
  <2>2. QED
    BY <1>2, <2>1
<1>4. ASSUME UNCHANGED <<role, roleCache>>, pc # "status", pc' \in Running \ {"status"},
             lrole' = roleCache \/ (pc \in Running /\ lrole' \in {lrole, role})
      PROVE  RoleVersions'
  BY <1>0, <1>4 DEF RoleVersions, Running
<1>5. CASE Start
  <2>1. UNCHANGED <<role, roleCache>> /\ pc = "idle" /\ pc' = "decide" /\ lrole' = roleCache
    BY <1>5 DEF Start, Outside, caches
  <2>2. QED
    BY <1>4, <2>1 DEF Running
<1>6. CASE Decide
  <2>1. lrole' \in {lrole, role}
    BY <1>6, DecideFields DEF Decide, TypeOK
  <2>2. QED
    BY <1>4, <1>6, <2>1 DEF Decide, Outside, caches, Running
<1>7. CASE Confirm
  <2>1. lrole' \in {lrole, role}
    BY <1>7, DecideFields DEF Confirm, TypeOK
  <2>2. QED
    BY <1>4, <1>7, <2>1 DEF Confirm, Outside, caches, Running
<1>8. CASE Send
  BY <1>4, <1>8 DEF Send, Outside, caches, Running
<1>9. CASE WriteSecret
  <2>1. /\ UNCHANGED <<role, roleCache, dp, now, lref>> /\ pc = "write" /\ pc' = "status" /\ lrole' = Recorded(lrole)
    BY <1>9 DEF WriteSecret, Outside, caches
  <2>2. Recorded(lrole).rv = lrole.rv
    BY <1>0, RecordedFields
  <2>3. Recorded(role)' = Recorded(role)
    BY <2>1 DEF Recorded
  <2>4. QED
    BY <1>0, <2>1, <2>2, <2>3 DEF RoleVersions, Running
<1>10. CASE Ending
  BY <1>10, EndingFrame, StopTypes DEF RoleVersions, Running
<1>11. CASE SaveStatus
  <2>1. UNCHANGED roleCache /\ pc' = "idle" /\ (role' = role \/ role' = [lrole EXCEPT !.rv = role.rv + 1])
    BY <1>11, EndingFrame, StopTypes DEF SaveStatus
  <2>2. role' = role \/ role'.rv = role.rv + 1
    BY <1>0, <2>1 DEF Roles
  <2>3. QED
    BY <1>0, <2>1, <2>2 DEF RoleVersions, Running
<1>12. QED
  BY <1>1, <1>3, <1>5, <1>6, <1>7, <1>8, <1>9, <1>10, <1>11, Actors
-----------------------------------------------------------------------------
(* The password that is sent. *)

\* A generated password in the Secret counts as set.
LEMMA GeneratedIsApplied ==
  ASSUME TypeOK, Fingerprints, pc \in Running, secret.pw \in Nat, secret.pw # NoPw, NEW r \in {role, lrole}
  PROVE  Applied(r, secret, secret.pw)
<1>1. secret # NoSecret
  BY DEF NoSecret
<1>2. CASE secret.fp = secret.pw
  BY <1>1, <1>2 DEF Applied
<1>3. CASE secret.fp = NoPw
  BY <1>1, <1>3 DEF Applied, Fingerprints
<1>4. QED
  BY <1>2, <1>3 DEF Fingerprints

\* The fingerprints.
LEMMA NextFingerprints ==
  ASSUME TypeOK, Fingerprints, Chosen, Next
  PROVE  Fingerprints'
<1>0. secret \in Secrets /\ NoSecret.fp = NoPw /\ NoSecret.pw = NoPw /\ NoPw \in Nat /\ \A p \in UserPws : p \notin Nat
  BY PasswordTypes DEF TypeOK, NoSecret
<1> DEFINE Old == secret # NoSecret /\ secret.fp = NoPw
<1>1. ASSUME UNCHANGED <<secret, roleCache, role>>, Copies' \subseteq Copies \cup {secret, NoSecret},
             pc' # "status" \/ (pc' = "status" /\ UNCHANGED pc), pc' \in Running => lrole' \in {role, roleCache} \/ (pc \in Running /\ UNCHANGED lrole)
      PROVE  Fingerprints'
  BY <1>0, <1>1 DEF Fingerprints, Copies
<1>2. CASE RoleEdits
  <2>1. UNCHANGED <<secret, secretCache, base, copy, roleCache, pc, lrole>> /\ role'.hash = role.hash
    BY <1>2, RoleEditsFrame DEF caches, local
  <2>2. QED
    BY <2>1 DEF Fingerprints, Copies
<1>3. ASSUME NEW p \in UserPws, EditSecret(p) PROVE Fingerprints'
  <2>1. /\ secret' = [secret EXCEPT !.pw = p, !.rv = srv + 1] /\ secret # NoSecret
        /\ UNCHANGED <<secretCache, base, copy, roleCache, role, pc, lrole>>
    BY <1>3 DEF EditSecret, caches, local
  <2>2. secret'.pw = p /\ secret'.fp = secret.fp
    BY <1>0, <2>1 DEF Secrets
  <2>3. QED
    BY <1>0, <2>1, <2>2 DEF Fingerprints, Copies
<1>4. CASE DeleteSecret
  BY <1>0, <1>4 DEF DeleteSecret, Fingerprints
<1>5. CASE SyncRole
  <2>1. UNCHANGED <<secret, secretCache, base, copy, role, pc, lrole>> /\ roleCache' = role
    BY <1>5 DEF SyncRole, api, caches, local
  <2>2. QED
    BY <2>1 DEF Fingerprints, Copies
<1>6. CASE (Surroundings /\ ~DeleteSecret /\ ~\E p \in UserPws : EditSecret(p)) \/ RetryWrite
  <2>1. UNCHANGED <<secret, roleCache, role, pc, lrole>>
    BY <1>6 DEF Surroundings, SetRefPassword, ChangeConnection, LoseRole, Tick, SyncSecret, SyncRef, RefuseRef, RetryWrite,
       vars, api, caches, local, Outside
  <2>2. Copies' \subseteq Copies \cup {secret, NoSecret}
    BY <1>6 DEF Surroundings, SetRefPassword, ChangeConnection, LoseRole, Tick, SyncSecret, SyncRef, RefuseRef, RetryWrite,
       vars, api, caches, local, Outside, Copies
  <2>3. QED
    BY <1>0, <2>1, <2>2 DEF Fingerprints, Copies
<1>7. CASE Start
  <2>1. UNCHANGED <<secret, roleCache, role>> /\ pc' = "decide" /\ lrole' = roleCache
    BY <1>7 DEF Start, Outside, caches
  <2>2. Copies' \subseteq Copies \cup {secret, NoSecret}
    BY <1>7 DEF Start, Outside, caches, Copies
  <2>3. QED
    BY <1>1, <2>1, <2>2
<1>8. CASE Decide \/ Confirm \/ Send
  <2>1. UNCHANGED <<secret, roleCache, role>> /\ pc \in Running /\ pc' # "status"
    BY <1>8 DEF Decide, Confirm, Send, Outside, caches, Running
  <2>2. Copies' \subseteq Copies \cup {secret, NoSecret}
    BY <1>8 DEF Decide, Confirm, Send, Outside, caches, Copies
  <2>3. lrole' \in {role, lrole}
    BY <1>8, DecideFields DEF Decide, Confirm, Send, TypeOK
  <2>4. QED
    BY <1>1, <2>1, <2>2, <2>3
<1>9. CASE WriteSecret
  <2>1. dp.value # NoPw /\ copy \in Secrets /\ Wanted(copy) \in Secrets /\ Wanted(copy).fp = dp.value /\ Wanted(copy).pw = dp.value
    BY <1>9, WantedFields DEF WriteSecret, Chosen, Decided, TypeOK
  <2>2. CASE UNCHANGED secret /\ copy = Wanted(copy)
    <3>1. ~Old
      BY <2>1, <2>2 DEF Fingerprints, Copies
    <3>2. QED
      BY <2>2, <3>1 DEF Fingerprints
  <2>3. CASE secret' = [Wanted(copy) EXCEPT !.rv = srv + 1]
    <3>1. secret'.fp = dp.value /\ secret'.pw = dp.value
      BY <2>1, <2>3 DEF Secrets
    <3>2. QED
      BY <2>1, <3>1 DEF Fingerprints
  <2>4. QED
    BY <1>9, <2>2, <2>3 DEF WriteSecret
<1>10. CASE Ending
  <2>1. UNCHANGED <<secret, roleCache, role, secretCache>> /\ pc' = "idle" /\ base' = NoSecret /\ copy' = NoSecret
    BY <1>10, EndingFrame, StopTypes
  <2>2. QED
    BY <1>1, <2>1 DEF Running, Copies
<1>11. CASE SaveStatus
  <2>1. UNCHANGED secret /\ pc = "status"
    BY <1>11, EndingFrame DEF SaveStatus
  <2>2. QED
    BY <2>1 DEF Fingerprints
<1>12. QED
  BY <1>2, <1>3, <1>4, <1>5, <1>6, <1>7, <1>8, <1>9, <1>10, <1>11, Actors

\* Generated passwords stay numbered, and what is recorded as set usable.
LEMMA NextNumbered ==
  ASSUME TypeOK, Numbered, Next
  PROVE  Numbered'
<1>0. /\ secret \in Secrets /\ gen \in Nat /\ NoSecret.pw = NoPw /\ NoPw \in Nat /\ NoPw <= gen /\ NoDecision.value = NoPw
      /\ \A p \in UserPws : p \notin Nat
  BY PasswordTypes DEF TypeOK, NoSecret, NoPw, NoDecision
<1>1. ASSUME UNCHANGED <<gen, retired>>, pgPw' \in {pgPw, NoPw}, dp'.value \in {dp.value, NoPw},
             Copies' \cup {secret'} \subseteq Copies \cup {secret, NoSecret}
      PROVE  Numbered'
  BY <1>0, <1>1 DEF Numbered
<1>2. CASE RoleEdits \/ SyncRole \/ Start \/ RetryWrite
  <2>1. UNCHANGED <<gen, retired, pgPw, dp>>
    BY <1>2, RoleEditsFrame DEF SyncRole, Start, RetryWrite, Outside, local, ghosts, names
  <2>2. Copies' \cup {secret'} \subseteq Copies \cup {secret, NoSecret}
    BY <1>2, RoleEditsFrame DEF SyncRole, Start, RetryWrite, Outside, local, caches, api, Copies
  <2>3. QED
    BY <1>1, <2>1, <2>2
<1>3. ASSUME NEW p \in UserPws, EditSecret(p) PROVE Numbered'
  <2>1. secret' = [secret EXCEPT !.pw = p, !.rv = srv + 1] /\ UNCHANGED <<secretCache, base, copy, gen, retired, pgPw, dp>>
    BY <1>3 DEF EditSecret, caches, local, ghosts
  <2>2. secret'.pw = p
    BY <1>0, <2>1 DEF Secrets
  <2>3. QED
    BY <1>0, <2>1, <2>2 DEF Numbered, Copies
<1>4. CASE Surroundings /\ ~\E p \in UserPws : EditSecret(p)
  <2>1. UNCHANGED <<gen, retired, dp>> /\ pgPw' \in {pgPw, NoPw}
    BY <1>4, SurroundingsFrame DEF local, ghosts
  <2>2. Copies' \cup {secret'} \subseteq Copies \cup {secret, NoSecret}
    BY <1>4 DEF Surroundings, SetRefPassword, DeleteSecret, ChangeConnection, LoseRole, Tick, SyncSecret, SyncRef,
       RefuseRef, vars, api, caches, local, Copies
  <2>3. QED
    BY <1>1, <2>1, <2>2
<1>5. CASE Decide \/ Confirm
  <2>1. UNCHANGED <<retired, pgPw, secret>>
    BY <1>5 DEF Decide, Confirm, Outside, ghosts
  <2>2. Copies' \subseteq Copies \cup {secret}
    BY <1>5 DEF Decide, Confirm, Outside, caches, Copies
  <2>3. UNCHANGED <<gen, dp>> \/ \E s \in Copies \cup {secret} : s \in Secrets /\ DecidePassword(s)
    BY <1>5 DEF Decide, Confirm, Copies, TypeOK
  <2>4. gen' \in Nat /\ gen' >= gen /\ (dp'.value \in Nat => dp'.value <= gen')
    <3>1. CASE UNCHANGED <<gen, dp>>
      BY <1>0, <3>1 DEF Numbered
    <3>2. ASSUME NEW s \in Copies \cup {secret}, s \in Secrets, DecidePassword(s)
          PROVE  gen' \in Nat /\ gen' >= gen /\ (dp'.value \in Nat => dp'.value <= gen')
      <4>1. /\ gen' = (IF dp'.generated THEN gen + 1 ELSE gen) /\ (dp'.generated => dp'.value = gen')
            /\ dp'.value \in {lref, s.pw, gen'} /\ (~dp'.generated => dp'.value \in {lref, s.pw})
        BY <3>2, DecideFields
      <4>2. lref \in Nat => lref <= gen
        BY <1>0 DEF TypeOK
      <4>3. s.pw \in Nat => s.pw <= gen
        BY <3>2 DEF Numbered
      <4>4. QED
        BY <1>0, <4>1, <4>2, <4>3
    <3>3. QED
      BY <2>3, <3>1, <3>2
  <2>5. ASSUME NEW n \in Nat, n <= gen PROVE n <= gen'
    BY <1>0, <2>4, <2>5
  <2>6. \A p \in retired' : p \in Nat /\ p <= gen
    BY <2>1 DEF Numbered, TypeOK
  <2>7. QED
    BY <2>1, <2>2, <2>4, <2>5, <2>6 DEF Numbered
<1>6. CASE Send
  <2>1. /\ UNCHANGED <<gen, dp, secret, secretCache, base, copy>> /\ pgPw' \in {pgPw, dp.value}
        /\ retired' = retired \/ (retired' = retired \cup {pgPw} /\ pgPw \in Nat \ {NoPw})
    BY <1>6 DEF Send, Outside, caches
  <2>2. QED
    BY <2>1 DEF Numbered, Copies
<1>7. CASE WriteSecret
  <2>1. UNCHANGED <<gen, dp, retired, pgPw, secretCache, base, copy>>
    BY <1>7 DEF WriteSecret, Outside, caches
  <2>2. UNCHANGED secret \/ secret'.pw = dp.value
    <3>1. Wanted(copy) \in Secrets /\ Wanted(copy).pw = dp.value
      BY WantedFields DEF TypeOK
    <3>2. [Wanted(copy) EXCEPT !.rv = srv + 1].pw = dp.value
      BY <3>1 DEF Secrets
    <3>3. QED
      BY <1>7, <3>2 DEF WriteSecret
  <2>3. QED
    BY <2>1, <2>2 DEF Numbered, Copies
<1>8. CASE Ending \/ SaveStatus
  <2>1. /\ UNCHANGED <<gen, retired, pgPw, secret, secretCache>> /\ dp' = NoDecision /\ base' = NoSecret
        /\ copy' = NoSecret
    BY <1>8, EndingFrame, StopTypes
  <2>2. QED
    BY <1>0, <1>1, <2>1 DEF Copies
<1>9. QED
  BY <1>2, <1>3, <1>4, <1>5, <1>6, <1>7, <1>8, Actors

LEMMA NextUsable ==
  ASSUME TypeOK, UsableRecords, Chosen, Next
  PROVE  UsableRecords'
<1>0. /\ secret \in Secrets /\ NoSecret.fp = NoPw /\ NoPw \notin BadPws /\ NoRole.hash = NoPw
      /\ role \in Roles /\ lrole \in Roles
  BY PasswordTypes DEF TypeOK, NoSecret, NoRole
<1>1. ASSUME {r.hash : r \in {role', roleCache', lrole'}} \subseteq {role.hash, roleCache.hash, lrole.hash, NoPw},
             {s.fp : s \in Copies' \cup {secret'}} \subseteq {s.fp : s \in Copies \cup {secret, NoSecret}},
             lref' \in {lref, NoPw} \/ lref' \notin BadPws
      PROVE  UsableRecords'
  <2>1. \A r \in {role', roleCache', lrole'} : r.hash \notin BadPws
    BY <1>0, <1>1 DEF UsableRecords
  <2>2. \A s \in Copies' \cup {secret'} : s.fp \notin BadPws
    BY <1>0, <1>1 DEF UsableRecords
  <2>3. QED
    BY <1>0, <1>1, <2>1, <2>2 DEF UsableRecords
<1>2. CASE RoleEdits \/ SyncRole
  <2>1. UNCHANGED <<secret, secretCache, base, copy, lrole, lref>> /\ role'.hash = role.hash /\ roleCache' \in {roleCache, role}
    BY <1>2, RoleEditsFrame DEF SyncRole, caches, local, api
  <2>2. QED
    BY <1>1, <2>1 DEF Copies
<1>3. CASE Surroundings
  <2>1. UNCHANGED <<role, roleCache, lrole, lref, base, copy>>
    BY <1>3, SurroundingsFrame DEF local
  <2>2. secretCache' \in {secretCache, secret}
    BY <1>3 DEF Surroundings, SetRefPassword, EditSecret, DeleteSecret, ChangeConnection, LoseRole, Tick, SyncSecret, SyncRef,
       RefuseRef, vars, api, caches
  <2>3. secret' \in {secret, NoSecret} \/ \E p \in UserPws : secret' = [secret EXCEPT !.pw = p, !.rv = srv + 1]
    BY <1>3 DEF Surroundings, SetRefPassword, EditSecret, DeleteSecret, ChangeConnection, LoseRole, Tick, SyncSecret, SyncRef,
       RefuseRef, vars, api, caches
  <2>4. secret'.fp \in {secret.fp, NoSecret.fp}
    BY <1>0, <2>3 DEF Secrets
  <2>5. QED
    BY <1>0, <2>1, <2>2, <2>4 DEF UsableRecords, Copies
<1>4. CASE Start
  <2>1. UNCHANGED <<role, roleCache, secret, secretCache>> /\ lrole' = roleCache /\ base' \in {secret, secretCache} /\ copy' = base'
    BY <1>4 DEF Start, Outside, caches
  <2>2. lref' = NoPw \/ lref' \notin BadPws
    BY <1>4 DEF Start, RefUnusable
  <2>3. QED
    BY <1>0, <2>1, <2>2 DEF UsableRecords, Copies
<1>5. CASE Decide \/ Confirm \/ Send \/ RetryWrite
  <2>1. lrole' \in {role, lrole}
    BY <1>5, DecideFields DEF Decide, Confirm, Send, RetryWrite, TypeOK
  <2>2. UNCHANGED <<role, roleCache, secret, secretCache, lref>> /\ base' \in {base, secret} /\ copy' \in {copy, secret}
    BY <1>5 DEF Decide, Confirm, Send, RetryWrite, Outside, caches
  <2>3. QED
    BY <1>0, <2>1, <2>2 DEF UsableRecords, Copies
<1>6. CASE WriteSecret
  <2>1. UNCHANGED <<role, roleCache, secretCache, base, copy, lref>> /\ lrole' = Recorded(lrole) /\ dp.value \notin BadPws
    BY <1>6 DEF WriteSecret, Outside, caches, Chosen
  <2>2. lrole'.hash = NoPw
    BY <1>0, <2>1, RecordedFields
  <2>3. UNCHANGED secret \/ secret'.fp = dp.value
    <3>1. Wanted(copy) \in Secrets /\ Wanted(copy).fp = dp.value
      BY WantedFields DEF TypeOK
    <3>2. [Wanted(copy) EXCEPT !.rv = srv + 1].fp = dp.value
      BY <3>1 DEF Secrets
    <3>3. QED
      BY <1>6, <3>2 DEF WriteSecret
  <2>4. QED
    BY <1>0, <2>1, <2>2, <2>3 DEF UsableRecords, Copies
<1>7. CASE Ending \/ SaveStatus
  <2>1. /\ UNCHANGED <<roleCache, secret, secretCache>> /\ lrole' = NoRole /\ lref' = NoPw /\ base' = NoSecret
        /\ copy' = NoSecret
    BY <1>7, EndingFrame, StopTypes
  <2>2. role'.hash \in {role.hash, lrole.hash}
    <3>1. role' \in {role, lrole} \/ role' = [lrole EXCEPT !.rv = role.rv + 1]
      BY <1>7, EndingFrame DEF SaveStatus
    <3>2. QED
      BY <1>0, <3>1 DEF Roles
  <2>3. QED
    BY <1>0, <2>1, <2>2 DEF UsableRecords, Copies
<1>8. QED
  BY <1>2, <1>3, <1>4, <1>5, <1>6, <1>7, Actors

\* What decidePassword chooses, for the Secret read from the cache or again.
LEMMA DecideChosen ==
  ASSUME TypeOK, Numbered, UsableRecords, NEW s \in Copies \cup {secret}, s \in Secrets, DecidePassword(s),
         UNCHANGED <<lref, pgPw, retired>>, base' = s
  PROVE  /\ dp'.value # NoPw
         /\ dp'.force => dp'.value \in UserPws
         /\ dp'.applied => dp'.value \notin BadPws
         /\ dp'.generated => dp'.value \in Nat /\ dp'.value = gen' /\ gen' \notin retired' \cup {pgPw'}
         /\ lref' # NoPw => dp'.value = lref' /\ lref' \in UserPws
         /\ lref' = NoPw /\ ~dp'.generated /\ ~dp'.applied =>
              dp'.value = base'.pw /\ base'.pw # NoPw /\ ~Applied(lrole', base', base'.pw)
         /\ base' = NoSecret => dp'.generated \/ lref' # NoPw
<1>1. /\ dp' \in Decisions /\ dp'.value # NoPw /\ lrole' \in {role, lrole}
      /\ gen' = (IF dp'.generated THEN gen + 1 ELSE gen)
      /\ lref # NoPw => dp'.value = lref /\ ~dp'.generated
      /\ lref = NoPw => ~dp'.force /\ (~dp'.generated => dp'.value = s.pw /\ s.pw # NoPw)
      /\ dp'.generated => dp'.value = gen' /\ lref = NoPw /\ ~dp'.applied
      /\ ~dp'.generated => (dp'.applied <=> Applied(lrole', s, dp'.value))
  BY DecideFields
<1>2. lref \in UserPws \cup {NoPw} /\ gen \in Nat /\ NoSecret.pw = NoPw /\ retired \subseteq Nat
  BY DEF TypeOK, NoSecret
<1>3. Applied(lrole', s, dp'.value) => dp'.value \notin BadPws
  BY <1>1 DEF Applied, UsableRecords
<1>4. dp'.generated => gen' \in Nat /\ gen' \notin retired' \cup {pgPw'}
  BY <1>1, <1>2 DEF Numbered
<1>5. QED
  BY <1>1, <1>2, <1>3, <1>4

\* The password chosen stays as sound as it was chosen.
LEMMA NextChosen ==
  ASSUME TypeOK, SecretVersions, Fingerprints, Numbered, UsableRecords, Chosen, Next
  PROVE  Chosen'
<1>1. ASSUME UNCHANGED <<pc, dp, lref, base, lrole, gen, retired>>, pgPw' \in {pgPw, NoPw} PROVE Chosen'
  <2>1. Applied(lrole, base, base.pw)' <=> Applied(lrole, base, base.pw)
    BY <1>1 DEF Applied
  <2>2. QED
    BY <1>1, <2>1 DEF Chosen, Decided
<1>2. CASE RoleEdits \/ Surroundings \/ SyncRole \/ RetryWrite
  <2>1. UNCHANGED <<pc, dp, lref, base, lrole, gen, retired>> /\ pgPw' \in {pgPw, NoPw}
    BY <1>2, RoleEditsFrame, SurroundingsFrame DEF SyncRole, RetryWrite, local, names, ghosts, Outside
  <2>2. QED
    BY <1>1, <2>1
<1>3. CASE Start \/ Ending \/ SaveStatus
  <2>1. pc' \in {"idle", "decide"}
    BY <1>3, EndingFrame, StopTypes DEF Start
  <2>2. QED
    BY <2>1 DEF Chosen, Decided
<1>4. CASE Decide
  <2>1. DecidePassword(base) /\ base \in Copies \cup {secret} /\ base \in Secrets /\ UNCHANGED <<lref, pgPw, retired, base>>
    BY <1>4 DEF Decide, Copies, TypeOK, ghosts
  <2>2. pc' = IF dp'.applied \/ dp'.generated \/ base' = NoSecret THEN "send" ELSE "confirm"
    BY <1>4, <2>1 DEF Decide
  <2>3. QED
    BY <2>1, <2>2, DecideChosen DEF Chosen
<1>5. CASE Confirm
  <2>0. UNCHANGED <<lref, pgPw, retired>> /\ base' = secret /\ pc = "confirm" /\ pc' = "send"
    BY <1>5 DEF Confirm, ghosts
  <2>1. secret \in Secrets /\ secret.pw \in Passwords /\ lrole \in Roles
    BY DEF TypeOK, Secrets
  <2>2. ASSUME NEW r \in {role, lrole}, secret.pw # NoPw, ~Applied(r, secret, secret.pw)
        PROVE  secret.pw \in UserPws
    BY <2>0, <2>1, <2>2, GeneratedIsApplied DEF Running, Passwords
  <2>3. CASE secret.rv = base.rv /\ UNCHANGED <<lrole, dp, gen>>
    <3>1. base = secret
      BY <2>3 DEF SecretVersions, Copies
    <3>2. dp.value \in UserPws
      BY <2>0, <2>2, <3>1 DEF Chosen, Decided
    <3>3. QED
      BY <2>0, <2>3, <3>1, <3>2 DEF Chosen, Decided
  <2>4. CASE DecidePassword(secret)
    <3>1. lrole' \in {role, lrole}
      BY <2>1, <2>4, DecideFields
    <3>2. QED
      BY <2>0, <2>1, <2>2, <2>4, <3>1, DecideChosen DEF Chosen
  <2>5. QED
    BY <1>5, <2>3, <2>4 DEF Confirm
<1>6. CASE Send
  <2>1. UNCHANGED <<dp, lref, base, lrole, gen>> /\ pc = "send" /\ pc' = "write" /\ ~EditedBad
    BY <1>6 DEF Send
  <2>2. dp.value \notin BadPws
    BY <2>1, PasswordTypes DEF Chosen, Decided, EditedBad, UsableRecords
  <2>3. QED
    BY <2>1, <2>2 DEF Chosen, Decided
<1>7. CASE WriteSecret
  <2>1. UNCHANGED <<dp, lref>> /\ pc = "write" /\ pc' = "status"
    BY <1>7 DEF WriteSecret
  <2>2. QED
    BY <2>1 DEF Chosen, Decided
<1>8. QED
  BY <1>2, <1>3, <1>4, <1>5, <1>6, <1>7, Actors

\* PostgreSQL is never given a password that cannot be used.
LEMMA NextNeverSetsBad ==
  ASSUME TypeOK, NeverSetsBad, UsableRecords, Chosen, Next
  PROVE  NeverSetsBad'
<1>1. CASE Send
  <2>1. pgPw' \in {pgPw, dp.value} /\ pc = "send" /\ ~EditedBad
    BY <1>1 DEF Send
  <2>2. dp.value \notin BadPws
    BY <2>1, PasswordTypes DEF Chosen, Decided, EditedBad, UsableRecords
  <2>3. QED
    BY <2>1, <2>2 DEF NeverSetsBad
<1>2. CASE ~Send
  <2>1. pgPw' \in {pgPw, NoPw}
    BY <1>2, Actors, RoleEditsFrame, SurroundingsFrame, EndingFrame
    DEF SyncRole, Start, Decide, Confirm, WriteSecret, RetryWrite
  <2>2. QED
    BY <2>1, PasswordTypes DEF NeverSetsBad
<1>3. QED
  BY <1>1, <1>2
-----------------------------------------------------------------------------
(* Rotations. *)

\* The numbers in Role, decision and clock.
LEMMA Numbers ==
  ASSUME TypeOK
  PROVE  /\ role.done \in Nat /\ role.at \in Nat /\ role.req \in Nat /\ lrole.req \in Nat /\ roleCache.req \in Nat
         /\ dp.request \in Nat /\ clock \in Nat /\ now \in Nat /\ reqs \in Nat /\ rotations \in Nat
         /\ Time \in Nat /\ Unrecorded \in {0, 1}
<1>1. /\ role.done \in Nat /\ role.at \in Nat /\ role.req \in Nat /\ lrole.req \in Nat /\ roleCache.req \in Nat
      /\ dp.request \in Nat /\ clock \in Nat /\ now \in Nat /\ reqs \in Nat /\ rotations \in Nat
  BY BoundsAssumption DEF TypeOK, Roles, Decisions
<1>2. Time \in Nat /\ Unrecorded \in {0, 1}
  BY <1>1 DEF Time, Unrecorded
<1>3. QED
  BY <1>1, <1>2

\* What a successful status update records.
LEMMA SavedFields ==
  ASSUME TypeOK, RoleVersions, Counted, SaveStatus
  PROVE  /\ pc = "status" /\ pc' = "idle" /\ UNCHANGED <<reqs, clock, roleCache, rotations>> /\ lrole' = NoRole
         /\ role'.req = role.req
         /\ role'.done = (IF dp.request # 0 THEN dp.request ELSE role.done)
         /\ role'.at = (IF lref # NoPw THEN 0
                        ELSE IF dp.generated \/ (role.at = 0 /\ role.every) THEN now ELSE role.at)
         /\ dp.request \in {0, role.req}
<1>1. role \in Roles /\ lrole \in Roles
  BY DEF TypeOK
<1>2. pc = "status" /\ lrole = Recorded(role)
  BY DEF SaveStatus, RoleVersions
<1>3. /\ lrole.rv = role.rv /\ lrole.req = role.req
      /\ lrole.done = (IF dp.request # 0 THEN dp.request ELSE role.done)
      /\ lrole.at = (IF lref # NoPw THEN 0
                     ELSE IF dp.generated \/ (role.at = 0 /\ role.every) THEN now ELSE role.at)
  BY <1>1, <1>2, RecordedFields
<1>4. role'.req = lrole.req /\ role'.done = lrole.done /\ role'.at = lrole.at
  BY <1>1 DEF SaveStatus, Roles
<1>5. dp.request \in {0, role.req}
  BY <1>2, <1>3 DEF Counted, Decided
<1>6. QED
  BY <1>2, <1>3, <1>4, <1>5, EndingFrame, StopTypes

\* Requests and rotation times.
LEMMA NextCounted ==
  ASSUME TypeOK, RoleVersions, Counted, Next
  PROVE  Counted'
<1>0. /\ role.done \in Nat /\ role.at \in Nat /\ role.req \in Nat /\ lrole.req \in Nat /\ roleCache.req \in Nat
      /\ dp.request \in Nat /\ clock \in Nat /\ now \in Nat /\ reqs \in Nat /\ Time \in Nat
  BY Numbers
<1>1. CASE RoleEdits
  <2>1. /\ UNCHANGED <<roleCache, clock, pc, lrole, now, lref, dp>> /\ reqs' >= reqs /\ reqs' \in Nat
        /\ role'.done = role.done /\ role'.at = role.at
        /\ role'.req \in {0, role.req} \/ (role'.req = reqs' /\ reqs' > reqs)
    BY <1>1, RoleEditsFrame, NextTypeOK, UsersTypeOK DEF caches, local, Rest, Users, RoleEdits
  <2>2. UNCHANGED Time
    BY <2>1 DEF Time
  <2>3. Time' \in 1..clock' /\ role'.at <= Time'
    BY <2>1, <2>2 DEF Counted
  <2>4. role'.done <= reqs' /\ (role'.req # 0 => role'.req >= role'.done)
    BY <1>0, <2>1 DEF Counted
  <2>5. \A r \in {role', roleCache', lrole'} : r.req <= reqs'
    BY <1>0, <2>1 DEF Counted
  <2>6. QED
    BY <2>1, <2>3, <2>4, <2>5 DEF Counted, Decided
<1>2. ASSUME UNCHANGED <<role, pc, lrole, now, lref, dp, reqs>>, clock' >= clock, clock' \in Nat, roleCache' \in {roleCache, role}
      PROVE  Counted'
  <2>1. Time' \in 1..clock' /\ role'.at <= Time'
    BY <1>0, <1>2 DEF Counted, Time
  <2>2. QED
    BY <1>0, <1>2, <2>1 DEF Counted, Decided
<1>3. CASE Surroundings \/ SyncRole \/ RetryWrite
  <2>1. UNCHANGED <<role, pc, lrole, now, lref, dp, reqs>> /\ clock' >= clock /\ roleCache' \in {roleCache, role}
    BY <1>0, <1>3, SurroundingsFrame DEF SyncRole, RetryWrite, local, api, names, Outside, caches
  <2>2. clock' \in Nat
    BY <1>0, <1>3, SurroundingsFrame DEF SyncRole, RetryWrite, Outside
  <2>3. QED
    BY <1>2, <2>1, <2>2
<1>4. CASE Start
  <2>1. /\ UNCHANGED <<role, roleCache, clock, reqs>> /\ now' = clock /\ pc = "idle" /\ pc' = "decide"
        /\ lrole' = roleCache
    BY <1>4 DEF Start, Outside, caches
  <2>2. QED
    BY <1>0, <2>1 DEF Counted, Time, Decided
<1>5. CASE Decide \/ Confirm
  <2>1. /\ UNCHANGED <<role, roleCache, clock, reqs, now, lref>> /\ pc \in {"decide", "confirm"}
        /\ pc' \in {"confirm", "send"} /\ (pc' = "confirm" => ~dp'.generated)
    BY <1>5 DEF Decide, Confirm, Outside, caches
  <2>2. UNCHANGED Time
    BY <2>1 DEF Time
  <2>3. CASE UNCHANGED <<lrole, dp>> /\ pc = "confirm"
    BY <2>1, <2>2, <2>3 DEF Counted, Decided
  <2>4. ASSUME NEW s \in Secrets, DecidePassword(s)
        PROVE  Counted'
    <3>1. /\ lrole' \in {role, lrole} /\ dp'.request \in {0, lrole'.req} /\ (dp'.generated => lref = NoPw)
          /\ dp'.rotated => /\ dp'.generated
                            /\ \/ PendingRequest(role) # 0 /\ dp'.request = PendingRequest(role)
                               \/ RotationDue(role)
      BY <2>4, DecideFields
    <3>2. PendingRequest(role) # 0 => PendingRequest(role) = role.req /\ role.req > role.done
      BY <1>0 DEF PendingRequest, Counted
    <3>3. RotationDue(role) => role.at # 0 /\ now > role.at
      BY DEF RotationDue
    <3>4. QED
      BY <2>1, <2>2, <3>1, <3>2, <3>3 DEF Counted
  <2>5. QED
    BY <1>5, <2>3, <2>4 DEF Decide, Confirm, TypeOK
<1>6. CASE Send \/ WriteSecret
  <2>1. /\ UNCHANGED <<role, roleCache, clock, reqs, now, lref, dp>> /\ pc \in {"send", "write"}
        /\ pc' \in {"write", "status"} /\ lrole' \in {lrole, Recorded(lrole)}
    BY <1>6 DEF Send, WriteSecret, Outside, caches
  <2>2. lrole'.req = lrole.req
    BY <2>1, RecordedFields DEF TypeOK
  <2>3. UNCHANGED Time
    BY <2>1 DEF Time
  <2>4. QED
    BY <2>1, <2>2, <2>3 DEF Counted, Decided
<1>7. CASE Ending
  <2>1. UNCHANGED <<role, roleCache, clock, reqs>> /\ lrole'.req = 0 /\ pc' = "idle"
    BY <1>7, EndingFrame, StopTypes DEF NoRole
  <2>2. QED
    BY <1>0, <2>1 DEF Counted, Time, Decided
<1>8. CASE SaveStatus
  <2>1. /\ pc = "status" /\ pc' = "idle" /\ UNCHANGED <<reqs, clock, roleCache>> /\ lrole'.req = 0
        /\ role'.req = role.req
        /\ role'.done \in {role.done, role.req} /\ (role'.done # role.done => role.req # 0)
        /\ role'.at \in {0, now, role.at}
    BY <1>0, <1>8, SavedFields DEF NoRole
  <2>2. QED
    BY <1>0, <2>1 DEF Counted, Time, Decided
<1>9. QED
  BY <1>1, <1>3, <1>4, <1>5, <1>6, <1>7, <1>8, Actors

\* Every rotation that counts is in the status.
LEMMA NextAccounted ==
  ASSUME TypeOK, RoleVersions, Counted, Accounted, Next
  PROVE  Accounted'
<1>0. /\ role.done \in Nat /\ role.at \in Nat /\ role.req \in Nat
      /\ dp.request \in Nat /\ clock \in Nat /\ now \in Nat /\ rotations \in Nat /\ Time \in Nat /\ Unrecorded \in {0, 1}
  BY Numbers
<1>1. ASSUME role'.done = role.done, role'.at = role.at, rotations' - Unrecorded' = rotations - Unrecorded,
             rotations' >= Unrecorded', Time' >= Time, Time' \in Nat
      PROVE  Accounted'
  BY <1>0, <1>1 DEF Accounted
<1>2. CASE RoleEdits \/ Surroundings \/ SyncRole \/ RetryWrite
  <2>1. UNCHANGED <<pc, now, dp, rotations>> /\ role'.done = role.done /\ role'.at = role.at
    BY <1>2, RoleEditsFrame, SurroundingsFrame DEF SyncRole, RetryWrite, local, ghosts, Outside, api
  <2>2. clock' \in Nat /\ clock' >= clock
    BY <1>0, <1>2, RoleEditsFrame, SurroundingsFrame DEF SyncRole, RetryWrite, Outside
  <2>3. UNCHANGED Unrecorded /\ Time' \in Nat /\ Time' >= Time
    BY <1>0, <2>1, <2>2 DEF Unrecorded, Time
  <2>4. QED
    BY <1>1, <2>1, <2>3 DEF Accounted
<1>3. CASE Start \/ Decide \/ Confirm
  <2>1. /\ UNCHANGED <<role, rotations>> /\ Time' = Time
        /\ pc \notin {"write", "status"} /\ pc' \notin {"write", "status"}
    BY <1>3 DEF Start, Decide, Confirm, Outside, ghosts, Time
  <2>2. Unrecorded = 0 /\ Unrecorded' = 0
    BY <2>1 DEF Unrecorded
  <2>3. QED
    BY <1>0, <1>1, <2>1, <2>2
<1>4. CASE Send
  <2>1. /\ UNCHANGED <<role, dp, now>> /\ pc = "send" /\ pc' = "write"
        /\ rotations' = IF dp.rotated THEN rotations + 1 ELSE rotations
    BY <1>4 DEF Send
  <2>2. UNCHANGED Time /\ Unrecorded = 0 /\ Unrecorded' = IF dp.rotated THEN 1 ELSE 0
    BY <2>1 DEF Time, Unrecorded
  <2>3. QED
    BY <1>0, <1>1, <2>1, <2>2
<1>5. CASE WriteSecret
  <2>1. UNCHANGED <<role, dp, now, rotations>> /\ pc = "write" /\ pc' = "status"
    BY <1>5 DEF WriteSecret
  <2>2. UNCHANGED <<Time, Unrecorded>>
    BY <2>1 DEF Time, Unrecorded
  <2>3. QED
    BY <1>0, <1>1, <2>1, <2>2 DEF Accounted
<1>6. CASE Ending
  <2>1. UNCHANGED <<role, clock>> /\ pc' = "idle" /\ rotations' = rotations - Unrecorded
    BY <1>6, EndingFrame, StopTypes
  <2>2. Unrecorded' = 0 /\ Time' = clock
    BY <2>1 DEF Unrecorded, Time
  <2>3. QED
    BY <1>0, <1>1, <2>1, <2>2 DEF Accounted, Counted
<1>7. CASE SaveStatus
  <2>1. /\ pc = "status" /\ pc' = "idle" /\ UNCHANGED <<clock, rotations>>
        /\ role'.done = (IF dp.request # 0 THEN dp.request ELSE role.done)
        /\ role'.at = (IF lref # NoPw THEN 0
                       ELSE IF dp.generated \/ (role.at = 0 /\ role.every) THEN now ELSE role.at)
        /\ dp.request \in {0, role.req}
    BY <1>7, SavedFields
  <2>2. Unrecorded' = 0 /\ Time' = clock /\ Time = now
    BY <2>1 DEF Unrecorded, Time
  <2>3. role'.done \in Nat /\ role'.done >= role.done /\ now \in 1..clock /\ role.at <= now
    BY <1>0, <2>1, <2>2 DEF Counted
  <2>4. CASE dp.rotated
    <3>1. /\ Unrecorded = 1 /\ role'.at = now
          /\ (dp.request > role.done /\ role'.done = dp.request) \/ (role.at # 0 /\ now > role.at)
      BY <1>0, <2>1, <2>4 DEF Unrecorded, Counted, Decided
    <3>2. QED
      BY <1>0, <2>1, <2>2, <2>3, <3>1 DEF Accounted
  <2>5. CASE ~dp.rotated
    <3>1. Unrecorded = 0 /\ role'.at \in {0, now, role.at} /\ (role'.at = role.at \/ role'.at = 0 \/ role'.at = now)
      BY <2>1, <2>5 DEF Unrecorded
    <3>2. QED
      BY <1>0, <2>1, <2>2, <2>3, <3>1 DEF Accounted
  <2>6. QED
    BY <2>4, <2>5
<1>8. QED
  BY <1>2, <1>3, <1>4, <1>5, <1>6, <1>7, Actors

\* So each rotation has a request or an interval of its own.
LEMMA CountsSuffice == TypeOK /\ Counted /\ Accounted => RotationsAccounted
<1> SUFFICES ASSUME TypeOK, Counted, Accounted PROVE RotationsAccounted
  OBVIOUS
<1>0. /\ role.done \in Nat /\ role.at \in Nat /\ dp.request \in Nat /\ clock \in Nat /\ now \in Nat /\ reqs \in Nat
      /\ rotations \in Nat /\ Time \in Nat /\ lrole.req \in Nat
  BY Numbers
<1>1. Time <= clock /\ role.at <= Time /\ Time >= 1 /\ role.done <= reqs
  BY <1>0 DEF Counted
<1>2. CASE Unrecorded = 0
  BY <1>0, <1>1, <1>2 DEF Accounted, RotationsAccounted
<1>3. CASE Unrecorded = 1
  <2>1. pc \in {"write", "status"} /\ dp.rotated /\ Time = now
    BY <1>3 DEF Unrecorded, Time
  <2>2. dp.request <= reqs /\ (dp.request > role.done \/ (role.at # 0 /\ now > role.at))
    BY <1>0, <2>1 DEF Counted, Decided
  <2>3. QED
    BY <1>0, <1>1, <1>3, <2>1, <2>2 DEF Accounted, RotationsAccounted
<1>4. QED
  BY <1>2, <1>3, Numbers
-----------------------------------------------------------------------------
(* The invariant holds. *)

\* It holds at first, for a new Role and for one of an older pgop.
LEMMA InitInv == Init => IInv
<1> SUFFICES ASSUME Init PROVE IInv
  OBVIOUS
<1>1. PICK legacy \in BOOLEAN :
        LET pw == IF legacy THEN 1 ELSE NoPw
        IN /\ patient \in {TRUE, ~legacy}
           /\ role = [NoRole EXCEPT !.rv = 1, !.hash = pw]
           /\ secret = IF legacy THEN [rv |-> 1, pw |-> pw, fp |-> NoPw, conn |-> 1] ELSE NoSecret
           /\ pgPw = pw /\ gen = pw /\ srv = pw
  BY DEF Init
<1> DEFINE pw == IF legacy THEN 1 ELSE NoPw
<1>2. pw \in Passwords /\ pw \in Nat /\ NoPw = 0 /\ 0 \in Passwords /\ 0 \notin UserPws /\ (legacy => pw = 1) /\ (~legacy => pw = 0)
  BY PasswordTypes DEF NoPw
<1>3. /\ role \in Roles /\ role.rv = 1 /\ role.hash = pw /\ role.done = 0 /\ role.at = 0 /\ role.req = 0
  BY <1>1, <1>2 DEF NoRole, Roles
<1>4. /\ secret \in Secrets /\ secret.rv = pw /\ secret.pw = pw /\ secret.fp = 0 /\ (~legacy => secret = NoSecret)
      /\ pgPw = pw /\ gen = pw /\ srv = pw
  BY <1>1, <1>2 DEF NoSecret, Secrets
<1> HIDE DEF pw
<1>5. /\ roleCache = role /\ secretCache = secret
      /\ refPw = NoPw /\ refCache = NoPw /\ conn = 1 /\ clock = 1
      /\ pc = "idle" /\ lrole = NoRole /\ now = 0 /\ lref = NoPw
      /\ base = NoSecret /\ copy = NoSecret /\ dp = NoDecision
      /\ used = {} /\ reqs = 0 /\ retired = {} /\ rotations = 0
      /\ edits = 0 /\ faults = 0 /\ stale = 0
  BY DEF Init
<1>6. Flags
  BY <1>1, Zenon DEF Flags
<1>7. Rest
  BY <1>2, <1>3, <1>4, <1>5, BoundsAssumption, EmptyTypes DEF Rest
<1>8. NoSecret.rv = 0 /\ NoSecret.fp = 0 /\ NoSecret.pw = 0 /\ NoRole.hash = 0 /\ NoRole.req = 0 /\ NoDecision.value = 0
  BY <1>2 DEF NoSecret, NoRole, NoDecision
<1>9. SecretVersions /\ RoleVersions
  BY <1>2, <1>3, <1>4, <1>5, <1>8 DEF SecretVersions, RoleVersions, Copies, Running
<1>10. Fingerprints
  BY <1>2, <1>3, <1>4, <1>5, <1>8 DEF Fingerprints, Copies, Running
<1>11. Numbered /\ UsableRecords /\ NeverSetsBad
  BY <1>2, <1>3, <1>4, <1>5, <1>8, PasswordTypes DEF Numbered, UsableRecords, NeverSetsBad, Copies
<1>12. Chosen
  BY <1>5 DEF Chosen, Decided
<1>13. Counted /\ Accounted
  BY <1>3, <1>5, <1>8 DEF Counted, Accounted, Time, Unrecorded, Decided
<1>14. QED
  BY <1>6, <1>7, <1>9, <1>10, <1>11, <1>12, <1>13, TypeParts DEF IInv, SecretInv

\* Every step keeps it.
LEMMA NextInv == IInv /\ [Next]_vars => IInv'
<1> SUFFICES ASSUME IInv, [Next]_vars PROVE IInv'
  OBVIOUS
<1>1. TypeOK'
  BY NextTypeOK DEF IInv, Accounted
<1>2. CASE Next
  BY <1>1, <1>2, NextSecretVersions, NextRoleVersions, NextFingerprints, NextNumbered, NextUsable, NextChosen,
     NextNeverSetsBad, NextCounted, NextAccounted DEF IInv, SecretInv
<1>3. CASE UNCHANGED vars
  <2>1. /\ UNCHANGED <<role, secret, srv, roleCache, secretCache, pgPw, clock>>
        /\ UNCHANGED <<pc, lrole, now, lref, base, copy, dp, gen, reqs, retired, rotations>>
    BY <1>3 DEF vars, api, caches, local, names, ghosts
  <2>2. Recorded(role)' = Recorded(role) /\ (Applied(lrole, base, base.pw)' <=> Applied(lrole, base, base.pw))
    BY <2>1 DEF Recorded, Applied
  <2>3. SecretInv' /\ NeverSetsBad'
    BY <2>1, <2>2 DEF IInv, SecretInv, SecretVersions, RoleVersions, Fingerprints, Numbered, UsableRecords, NeverSetsBad, Copies,
       Running
  <2>4. Chosen'
    BY <2>1, <2>2 DEF IInv, Chosen, Decided
  <2>5. Counted' /\ Accounted'
    BY <2>1 DEF IInv, Counted, Accounted, Time, Unrecorded, Decided
  <2>6. QED
    BY <1>1, <2>3, <2>4, <2>5 DEF IInv
<1>4. QED
  BY <1>2, <1>3

\* The state stays well formed; PostgreSQL never has a password that
\* checkEditedPassword or the check of the referenced Secret refuses, even when
\* the Secret changes between the cached read and the confirming one; and
\* stale caches alone never rotate a password twice.
THEOREM PasswordSound == Spec => []PasswordInv
<1>1. IInv => PasswordInv
  BY CountsSuffice DEF IInv, PasswordInv
<1>2. QED
  BY InitInv, NextInv, <1>1, PTL DEF Spec

\* However stale the caches are, whatever fails: a generated password that was
\* replaced in PostgreSQL is not set again while the role exists.
THEOREM PasswordNeverRollsBack == Spec => NeverRollsBack
<1>1. ASSUME IInv, [Next]_vars, pgPw' # pgPw, pgPw # NoPw
      PROVE  pgPw' \notin retired
  <2>1. TypeOK /\ Chosen /\ retired \subseteq Nat /\ Numbered
    BY <1>1 DEF IInv, SecretInv, TypeOK
  <2>2. CASE Send
    <3>1. pc = "send" /\ pgPw' = dp.value /\ ~KeepExisting
      BY <1>1, <2>2 DEF Send
    <3>2. dp.value \notin retired
      BY <2>1, <3>1, PasswordTypes DEF Chosen, KeepExisting
    <3>3. QED
      BY <3>1, <3>2
  <2>3. CASE ~Send
    <3>1. pgPw' \in {pgPw, NoPw}
      BY <1>1, <2>1, <2>3, Actors, RoleEditsFrame, SurroundingsFrame, EndingFrame
      DEF SyncRole, Start, Decide, Confirm, WriteSecret, RetryWrite, vars
    <3>2. NoPw \notin retired
      BY <2>1 DEF Numbered
    <3>3. QED
      BY <1>1, <3>1, <3>2
  <2>4. QED
    BY <2>2, <2>3
<1>2. IInv /\ [Next]_vars => [pgPw' # pgPw /\ pgPw # NoPw => pgPw' \notin retired]_vars
  BY <1>1
<1>3. QED
  BY InitInv, NextInv, <1>2, PTL DEF Spec, NeverRollsBack
=============================================================================

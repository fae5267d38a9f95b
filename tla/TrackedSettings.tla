--------------------------- MODULE TrackedSettings ---------------------------
(***************************************************************************)
(* The settings of one Role (ALTER ROLE ... SET, and IN DATABASE ... SET   *)
(* for a database the Role owns), applied and tracked by applySettings,    *)
(* and the Database controller that creates the database once the Role is  *)
(* Ready.  Unlike grants, settings are applied first and recorded in the   *)
(* status afterwards.                                                      *)
(***************************************************************************)
EXTENDS RoleStatus

CONSTANTS Names,      \* settings
          DbNames     \* those that are set in the database

ASSUME NamesAssumption == DbNames \subseteq Names

\* spec and the ledgers are sets of settings.
VARIABLES
  \* The Role's readiness.
  ready,
  \* The Cluster's rolePolicy: settings it refuses, and whether it allows the
  \* Role's attributes.
  refused, attrsOK,
  \* PostgreSQL: does the database exist, which settings are stored.
  dbUp, inForce,
  \* The running reconcile: declared and allowed settings, settings left to set
  \* and to reset, errors.
  want, allowed, toSet, toReset, failed

api    == <<spec, ledger, ready, rv>>
policy == <<refused, attrsOK>>
server == <<dbUp, inForce>>
local  == <<pc, lrv, want, allowed, tracked, toSet, toReset, failed>>
vars   == <<api, cache, policy, server, local, ours, losses, edits, faults>>

TypeOK ==
  /\ spec \subseteq Names /\ ledger \subseteq Names /\ ready \in BOOLEAN /\ rv \in Nat
  /\ cache \in [spec : SUBSET Names, ledger : SUBSET Names, rv : Nat]
  /\ refused \subseteq Names /\ attrsOK \in BOOLEAN
  /\ dbUp \in BOOLEAN /\ inForce \subseteq Names /\ (~dbUp => inForce \cap DbNames = {})
  /\ pc \in {"idle", "role", "db", "save"} /\ lrv \in Nat
  /\ want \subseteq Names /\ allowed \subseteq want /\ tracked \subseteq Names
  /\ toSet \subseteq allowed /\ toReset \subseteq tracked /\ failed \in BOOLEAN
  /\ ours \subseteq inForce /\ lost \subseteq Names /\ taken \subseteq Names
  /\ edits \in 0..MaxEdits /\ faults \in 0..MaxFaults

Init ==
  /\ spec \in SUBSET Names /\ ledger = {} /\ ready = FALSE /\ rv = 0
  /\ cache = [spec |-> spec, ledger |-> {}, rv |-> 0]
  /\ refused = {} /\ attrsOK = TRUE
  /\ dbUp = FALSE /\ inForce = {} /\ ours = {} /\ lost = {} /\ taken = {}
  /\ pc = "idle" /\ lrv = 0 /\ want = {} /\ allowed = {} /\ tracked = {}
  /\ toSet = {} /\ toReset = {} /\ failed = FALSE
  /\ edits = 0 /\ faults = 0

-----------------------------------------------------------------------------
(* Users, DBAs and the Database controller. *)

Toggle(S, n) == IF n \in S THEN S \ {n} ELSE S \cup {n}

\* A setting is added to or removed from the Role.
EditSpec(n) ==
  /\ Edit /\ spec' = Toggle(spec, n) /\ rv' = rv + 1
  /\ IF n \in spec THEN Takes(n) ELSE UNCHANGED losses
  /\ UNCHANGED <<ledger, ready, cache, policy, server, local, ours, faults>>

\* The Cluster's policy changes: a setting, or the Role's attributes.
RefuseSetting(n) ==
  /\ Edit /\ refused' = Toggle(refused, n)
  /\ IF n \notin refused THEN Takes(n) ELSE UNCHANGED losses
  /\ UNCHANGED <<api, cache, attrsOK, server, local, ours, faults>>
RefuseAttributes ==
  /\ Edit /\ attrsOK' = ~attrsOK
  /\ UNCHANGED <<api, cache, refused, server, local, ours, losses, faults>>

\* A DBA stores or removes a setting outside pgop.
Drift(n) ==
  /\ Edit /\ (n \in DbNames => dbUp)
  /\ inForce' = Toggle(inForce, n) /\ ours' = ours \ {n}
  /\ UNCHANGED <<api, cache, policy, dbUp, local, losses, faults>>

\* The database is dropped, and with it the settings stored in it.
DropDatabase ==
  /\ Edit /\ dbUp /\ dbUp' = FALSE
  /\ inForce' = inForce \ DbNames /\ ours' = ours \ DbNames
  /\ UNCHANGED <<api, cache, policy, local, losses, faults>>

\* resolveOwnerRole: the Database waits for its owner Role to be Ready.
CreateDatabase ==
  /\ ~dbUp /\ ready /\ dbUp' = TRUE
  /\ UNCHANGED <<api, cache, policy, inForce, local, ours, losses, edits, faults>>

CacheSync ==
  /\ cache.rv # rv /\ cache' = [spec |-> spec, ledger |-> ledger, rv |-> rv]
  /\ UNCHANGED <<api, policy, server, local, ours, losses, edits, faults>>

-----------------------------------------------------------------------------
(* The reconcile: the role's settings, then those in the database. *)

Kept == UNCHANGED <<cache, policy, dbUp, edits>>
Env == Kept /\ UNCHANGED losses

\* A Role whose attributes the policy refuses gets no settings and keeps its
\* ledger.
Begin ==
  /\ pc = "idle"
  /\ lrv' = cache.rv /\ want' = cache.spec /\ tracked' = cache.ledger
  /\ allowed' = cache.spec \ refused
  /\ IF attrsOK
     THEN /\ pc' = "role"
          /\ toSet' = allowed' \ DbNames
          /\ toReset' = tracked' \ (DbNames \cup allowed')
     ELSE pc' = "save" /\ toSet' = {} /\ toReset' = {}
  /\ failed' = ~attrsOK
  /\ Env /\ UNCHANGED <<api, inForce, ours, faults>>

InGroup == pc \in {"role", "db"}

\* Mutant of SetName: the setting is not tracked.
SetNameUntracked(n) ==
  /\ InGroup /\ n \in toSet /\ (n \in DbNames => dbUp)
  /\ inForce' = inForce \cup {n} /\ ours' = ours \cup {n}
  /\ toSet' = toSet \ {n}
  /\ Env /\ UNCHANGED <<api, pc, lrv, want, allowed, tracked, toReset, failed, faults>>

\* Settings are applied every time, which repairs drift.
SetName(n) ==
  /\ InGroup /\ n \in toSet /\ (n \in DbNames => dbUp)
  /\ inForce' = inForce \cup {n} /\ ours' = ours \cup {n}
  /\ tracked' = tracked \cup {n} /\ toSet' = toSet \ {n}
  /\ Env /\ UNCHANGED <<api, pc, lrv, want, allowed, toReset, failed, faults>>

\* Mutant of ResetName: the entry stays in the ledger.
ResetNameKeeps(n) ==
  /\ InGroup /\ toSet = {} /\ n \in toReset /\ (n \in DbNames => dbUp)
  /\ inForce' = inForce \ {n} /\ ours' = ours \ {n}
  /\ toReset' = toReset \ {n}
  /\ Env /\ UNCHANGED <<api, pc, lrv, want, allowed, tracked, toSet, failed, faults>>

\* Then the recorded settings that are not declared or not allowed any more
\* are reset.
ResetName(n) ==
  /\ InGroup /\ toSet = {} /\ n \in toReset /\ (n \in DbNames => dbUp)
  /\ inForce' = inForce \ {n} /\ ours' = ours \ {n}
  /\ tracked' = tracked \ {n} /\ toReset' = toReset \ {n}
  /\ Env /\ UNCHANGED <<api, pc, lrv, want, allowed, toSet, failed, faults>>

\* Mutant of GroupFails: the resets still pending are forgotten.
GroupFailsForgets ==
  /\ toSet' = {} /\ toReset' = {} /\ failed' = TRUE /\ tracked' = tracked \ toReset
  /\ Env /\ UNCHANGED <<api, inForce, ours, pc, lrv, want, allowed>>

\* The first statement that fails ends the group; what was set so far and the
\* resets still pending stay recorded.
GroupFails ==
  /\ toSet' = {} /\ toReset' = {} /\ failed' = TRUE
  /\ Env /\ UNCHANGED <<api, inForce, ours, pc, lrv, want, allowed, tracked>>
StatementFails == InGroup /\ toSet \cup toReset # {} /\ faults < MaxFaults /\ faults' = faults + 1
                  /\ GroupFails
DatabaseGone == InGroup /\ (toSet \cup toReset) \cap DbNames # {} /\ ~dbUp /\ GroupFails /\ UNCHANGED faults

\* Settings that the policy refuses are reported after the others were applied.
Refused(group) == (want \ allowed) \cap group # {}

\* Mutant of RoleDone: a database that does not exist yet is an error.
RoleDonePendingFails ==
  /\ pc = "role" /\ toSet = {} /\ toReset = {}
  /\ pc' = "db"
  /\ IF dbUp
     THEN /\ toSet' = allowed \cap DbNames /\ toReset' = (tracked \cap DbNames) \ allowed
          /\ failed' = (failed \/ Refused(Names)) /\ UNCHANGED tracked
     ELSE /\ tracked' = tracked \ DbNames /\ failed' = (failed \/ want \cap DbNames # {})
          /\ UNCHANGED <<toSet, toReset>>
  /\ Env /\ UNCHANGED <<api, inForce, ours, lrv, want, allowed, faults>>

\* The settings in the database: while it does not exist they are pending, not
\* looked at, and the ledger forgets those of an earlier database.
RoleDone ==
  /\ pc = "role" /\ toSet = {} /\ toReset = {}
  /\ pc' = "db"
  /\ IF dbUp
     THEN /\ toSet' = allowed \cap DbNames /\ toReset' = (tracked \cap DbNames) \ allowed
          /\ failed' = (failed \/ Refused(Names)) /\ UNCHANGED tracked
     ELSE /\ tracked' = tracked \ DbNames /\ failed' = (failed \/ Refused(Names \ DbNames))
          /\ UNCHANGED <<toSet, toReset>>
  /\ Env /\ UNCHANGED <<api, inForce, ours, lrv, want, allowed, faults>>

\* The look for the database fails: its settings and their ledger stay.
ExistsFails ==
  /\ pc = "role" /\ toSet = {} /\ toReset = {} /\ (want \cup tracked) \cap DbNames # {}
  /\ faults < MaxFaults /\ faults' = faults + 1
  /\ pc' = "db" /\ failed' = TRUE
  /\ Env /\ UNCHANGED <<api, inForce, ours, lrv, want, allowed, tracked, toSet, toReset>>

DbDone ==
  /\ pc = "db" /\ toSet = {} /\ toReset = {} /\ pc' = "save"
  /\ Env /\ UNCHANGED <<api, inForce, ours, lrv, want, allowed, tracked, toSet, toReset, failed, faults>>

Stop == pc' = "idle" /\ lrv' = 0 /\ want' = {} /\ allowed' = {} /\ tracked' = {}
        /\ toSet' = {} /\ toReset' = {} /\ failed' = FALSE

\* The status update; a conflict is not retried.
Save ==
  /\ pc = "save" /\ lrv = rv
  /\ ledger' = tracked /\ ready' = ~failed
  /\ rv' = IF ledger' = ledger /\ ready' = ready THEN rv ELSE rv + 1
  /\ Stop /\ Records
  /\ Kept /\ UNCHANGED <<spec, inForce, ours, faults>>
SaveConflict ==
  /\ pc = "save" /\ lrv # rv /\ Stop /\ Loses
  /\ Kept /\ UNCHANGED <<api, inForce, ours, faults>>

Crash ==
  /\ pc # "idle" /\ faults < MaxFaults /\ faults' = faults + 1 /\ Stop /\ Loses
  /\ Kept /\ UNCHANGED <<api, inForce, ours>>

-----------------------------------------------------------------------------
Controller == Begin \/ RoleDone \/ DbDone \/ DatabaseGone \/ Save \/ SaveConflict
              \/ \E n \in Names : SetName(n) \/ ResetName(n)

Users == \/ \E n \in Names : EditSpec(n) \/ RefuseSetting(n) \/ Drift(n)
         \/ RefuseAttributes \/ DropDatabase

Next == Controller \/ Users \/ CreateDatabase \/ CacheSync \/ StatementFails \/ ExistsFails \/ Crash

Spec == Init /\ [][Next]_vars

\* Watch events, requeues after errors and the backoff of pending settings run
\* the reconcile again; the Database controller retries until it is Ready.
Fairness == WF_vars(Controller) /\ WF_vars(CacheSync) /\ WF_vars(CreateDatabase)

FairSpec == Spec /\ Fairness
-----------------------------------------------------------------------------
(* Properties. *)

\* A Role that its policy lets be.
Clean == attrsOK /\ spec \cap refused = {}

\* What pgop set is in the ledger or, after a status update was lost, still
\* wanted or taken away before it was recorded.  (applySettings, and the status
\* update that conflicts)
SettingsCovered == Covers(spec \ refused)

\* No deadlock between the Role's databaseSettings, which need the database,
\* and the Database, which waits for the Role to be Ready: once changes stop,
\* both exist and every setting is in force and recorded.
SettingsAndDatabaseReady == <>[](Clean => ready /\ dbUp /\ spec \subseteq inForce \cap ledger)

\* What roles.md says of a setting pgop set that is removed from the spec: it
\* is reset.  The code does not keep it: an edit that removes the setting while
\* the reconcile runs makes the status update that records it conflict.
RemovedSettingsReset == <>[](attrsOK => ours \subseteq spec \ refused)

\* Once changes stop, nothing pgop tracks is stored that is not declared and
\* allowed, unless the Role's attributes violate the policy; and of all that
\* pgop ever set only that is left whose only record was lost.
TrackedSettingsConverge ==
  <>[](attrsOK => ledger \subseteq spec \ refused /\ ours \subseteq (spec \ refused) \cup (lost \cap taken))

\* applySettings keeps its books: the state is well-formed and the ledger
\* covers what pgop set.
SettingsInv == TypeOK /\ SettingsCovered

\* Once changes stop, Role, database and settings are as the specs say.
SettingsConverge == SettingsAndDatabaseReady /\ TrackedSettingsConverge
=============================================================================

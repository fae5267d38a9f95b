-------------------------- MODULE PrivilegeLedger --------------------------
(***************************************************************************)
(* The grant-tracking engine of pgop (applyPrivilegeGrants): one Database  *)
(* or Role resource, its status ledger in the Kubernetes API, the ACLs in  *)
(* PostgreSQL, and the reconcile that brings the ACLs to the declared      *)
(* grants, interleaved with spec edits, an informer cache that lags, a     *)
(* DBA working outside pgop, failing SQL statements and operator crashes.  *)
(*                                                                         *)
(* A target is a ledger key (object and grantee).  A grant on a target is  *)
(* a record [priv, opt]: the privileges, and those with the grant option.  *)
(* A target without an entry has the empty grant.                          *)
(***************************************************************************)
EXTENDS Naturals, FiniteSets

CONSTANTS Targets,      \* ledger keys: object and grantee
          Privs,        \* privilege names
          LedgerLimit,  \* most entries the status ledger may hold
          MaxEdits,     \* bound on spec, policy and grantee changes
          MaxFaults,    \* bound on failing SQL statements and crashes
          MaxDBA,       \* bound on statements the DBA runs
          RacyDBA       \* may the DBA act between a target's read and its GRANT

ASSUME LedgerLimitAssumption == LedgerLimit \in Nat
ASSUME TargetsFinite == IsFiniteSet(Targets)
ASSUME BoundsAssumption == MaxEdits \in Nat /\ MaxFaults \in Nat /\ MaxDBA \in Nat
ASSUME RacyDBAAssumption == RacyDBA \in BOOLEAN

VARIABLES
  \* The resource in the API server: declared grants, status ledger, version.
  spec, ledger, rv,
  \* The informer cache's copy of the resource.
  cache,
  \* Targets the grantee policy refuses (or whose Role is being deleted).
  refused,
  \* PostgreSQL: grantees that exist, what they hold, what they passed on.
  present, held, passed,
  \* The running reconcile: control state, version it read, filtered desired
  \* grants, ledger being built, planned grants, targets left in this phase.
  pc, lrv, want, tracked, plan, todo,
  \* Observation only: what pgop's own GRANTs added and nobody revoked since,
  \* and what the DBA's GRANTs added and nobody revoked since.
  added, outside,
  \* Bounds used up.
  edits, faults, dba

api     == <<spec, ledger, rv>>
server  == <<present, held, passed>>
local   == <<pc, lrv, want, tracked, plan, todo>>
ghosts  == <<added, outside>>
budgets == <<edits, faults, dba>>
vars    == <<api, cache, refused, server, local, ghosts, budgets>>

Grant == [priv : SUBSET Privs, opt : SUBSET Privs]
None  == [priv |-> {}, opt |-> {}]
NoGrants == [t \in Targets |-> None]

\* What a spec may declare: the grant option for all privileges or for none.
Declarable == {g \in Grant : g.opt = {} \/ g.opt = g.priv}

Empty(g) == g.priv = {} /\ g.opt = {}

\* The targets a ledger (or a set of desired grants) has an entry for.
Entries(l) == {t \in Targets : ~Empty(l[t])}
Merge(a, b) == [priv |-> a.priv \cup b.priv, opt |-> a.opt \cup b.opt]
Minus(g, ps) == [priv |-> g.priv \ ps, opt |-> g.opt \ ps]

TypeOK ==
  /\ spec \in [Targets -> Declarable]
  /\ ledger \in [Targets -> Grant]
  /\ rv \in Nat
  /\ cache \in [rv : Nat, spec : [Targets -> Declarable], ledger : [Targets -> Grant]]
  /\ refused \subseteq Targets
  /\ present \subseteq Targets
  /\ held \in [Targets -> Grant]
  /\ passed \in [Targets -> SUBSET Privs]
  /\ pc \in {"idle", "plan", "persist", "grant", "revoke", "save"}
  /\ lrv \in Nat
  /\ want \in [Targets -> Declarable]
  /\ tracked \in [Targets -> Grant]
  /\ plan \in [Targets -> Grant]
  /\ todo \subseteq Targets
  /\ added \in [Targets -> Grant]
  /\ outside \in [Targets -> SUBSET Privs]
  /\ edits \in 0..MaxEdits /\ faults \in 0..MaxFaults /\ dba \in 0..MaxDBA

Init ==
  /\ spec = NoGrants /\ ledger = NoGrants /\ rv = 0
  /\ cache = [rv |-> 0, spec |-> NoGrants, ledger |-> NoGrants]
  /\ refused = {}
  /\ present = Targets
  \* A grantee may hold privileges before pgop manages anything.
  /\ \E base \in SUBSET Privs :
       /\ held = [t \in Targets |-> [priv |-> base, opt |-> {}]]
       /\ outside = [t \in Targets |-> base]
  /\ passed = [t \in Targets |-> {}]
  /\ pc = "idle" /\ lrv = 0 /\ want = NoGrants /\ tracked = NoGrants
  /\ plan = NoGrants /\ todo = {}
  /\ added = NoGrants
  /\ edits = 0 /\ faults = 0 /\ dba = 0

-----------------------------------------------------------------------------
(* The environment of the reconcile. *)

\* Someone edits the declared grants of one target.
EditSpec(t, g) ==
  /\ edits < MaxEdits /\ edits' = edits + 1
  /\ g # spec[t]
  /\ spec' = [spec EXCEPT ![t] = g]
  /\ rv' = rv + 1
  /\ UNCHANGED <<ledger, cache, refused, server, local, ghosts, faults, dba>>

\* The Cluster's rolePolicy, or the deletion of the grantee's Role, starts or
\* stops holding back the grants to a grantee.
ChangePolicy(t) ==
  /\ edits < MaxEdits /\ edits' = edits + 1
  /\ refused' = IF t \in refused THEN refused \ {t} ELSE refused \cup {t}
  /\ UNCHANGED <<api, cache, server, local, ghosts, faults, dba>>

\* The informer cache catches up with the API server.
CacheSync ==
  /\ cache.rv # rv
  /\ cache' = [rv |-> rv, spec |-> spec, ledger |-> ledger]
  /\ UNCHANGED <<api, refused, server, local, ghosts, budgets>>

\* The reconcile has read what t's grantee holds and not yet granted what it
\* found missing.
InWindow(t) == pc \in {"persist", "grant"} \/ (pc = "plan" /\ t \notin todo)

DBAMayAct(t) == dba < MaxDBA /\ (RacyDBA \/ ~InWindow(t))

\* GRANT by someone other than pgop (recorded by PostgreSQL with the owner as
\* grantor, exactly as pgop's own).
DBAGrant(t, p, withOption) ==
  /\ DBAMayAct(t) /\ dba' = dba + 1
  /\ t \in present
  /\ held' = [held EXCEPT ![t] = Merge(@, [priv |-> {p}, opt |-> IF withOption THEN {p} ELSE {}])]
  /\ outside' = [outside EXCEPT ![t] = IF p \in held[t].priv THEN @ ELSE @ \cup {p}]
  /\ UNCHANGED <<api, cache, refused, present, passed, local, added, edits, faults>>

\* REVOKE ... CASCADE by someone other than pgop.
DBARevoke(t, p) ==
  /\ DBAMayAct(t) /\ dba' = dba + 1
  /\ p \in held[t].priv
  /\ held' = [held EXCEPT ![t] = Minus(@, {p})]
  /\ passed' = [passed EXCEPT ![t] = @ \ {p}]
  /\ added' = [added EXCEPT ![t] = Minus(@, {p})]
  /\ outside' = [outside EXCEPT ![t] = @ \ {p}]
  /\ UNCHANGED <<api, cache, refused, present, local, edits, faults>>

\* The grantee grants p to someone else with the grant option it holds.
PassOn(t, p) ==
  /\ dba < MaxDBA /\ dba' = dba + 1
  /\ p \in held[t].opt /\ p \notin passed[t]
  /\ passed' = [passed EXCEPT ![t] = @ \cup {p}]
  /\ UNCHANGED <<api, cache, refused, present, held, local, ghosts, edits, faults>>

\* The grantee (or the object) is dropped: its ACL entries go with it.
DropGrantee(t) ==
  /\ DBAMayAct(t) /\ dba' = dba + 1
  /\ t \in present
  /\ present' = present \ {t}
  /\ held' = [held EXCEPT ![t] = None]
  /\ passed' = [passed EXCEPT ![t] = {}]
  /\ added' = [added EXCEPT ![t] = None]
  /\ outside' = [outside EXCEPT ![t] = {}]
  /\ UNCHANGED <<api, cache, refused, local, edits, faults>>

CreateGrantee(t) ==
  /\ t \notin present
  /\ present' = present \cup {t}
  /\ UNCHANGED <<api, cache, refused, held, passed, local, ghosts, budgets>>

-----------------------------------------------------------------------------
(* The reconcile. *)

\* Mutant of Begin: the limit counts the declared grants only.
BeginCountsDeclared ==
  /\ pc = "idle"
  /\ lrv' = cache.rv
  /\ tracked' = cache.ledger
  /\ want' = [t \in Targets |-> IF t \in present \ refused THEN cache.spec[t] ELSE None]
  /\ plan' = NoGrants
  /\ todo' = IF Cardinality(Entries(want')) > LedgerLimit THEN {} ELSE Entries(want')
  /\ pc' = "plan"
  /\ UNCHANGED <<api, cache, refused, server, ghosts, budgets>>

\* Read the resource from the cache and drop the desired grants the grantee
\* checker holds back.  Over the ledger limit nothing is planned.
Begin ==
  /\ pc = "idle"
  /\ lrv' = cache.rv
  /\ tracked' = cache.ledger
  /\ want' = [t \in Targets |-> IF t \in present \ refused THEN cache.spec[t] ELSE None]
  /\ plan' = NoGrants
  /\ todo' = IF Cardinality(Entries(cache.ledger) \cup Entries(want')) > LedgerLimit
             THEN {} ELSE Entries(want')
  /\ pc' = "plan"
  /\ UNCHANGED <<api, cache, refused, server, ghosts, budgets>>

\* Mutant of PlanMissing: trusts the ledger instead of reading the ACL.
PlanMissingFromLedger(t) ==
  [priv |-> want[t].priv \ tracked[t].priv, opt |-> want[t].opt \ tracked[t].opt]

\* planMissing: what want[t] declares and the grantee does not hold.
PlanMissing(t) ==
  [priv |-> want[t].priv \ held[t].priv, opt |-> want[t].opt \ held[t].opt]

PlanTarget(t) ==
  /\ pc = "plan" /\ t \in todo
  /\ todo' = todo \ {t}
  /\ plan' = [plan EXCEPT ![t] = PlanMissing(t)]
  /\ UNCHANGED <<api, cache, refused, server, pc, lrv, want, tracked, ghosts, budgets>>

\* HeldPrivileges fails: the target is left out of the plan, the rest goes on.
PlanFails(t) ==
  /\ pc = "plan" /\ t \in todo
  /\ faults < MaxFaults /\ faults' = faults + 1
  /\ todo' = todo \ {t}
  /\ UNCHANGED <<api, cache, refused, server, pc, lrv, want, tracked, plan, ghosts, edits, dba>>

PlanDone ==
  /\ pc = "plan" /\ todo = {}
  /\ IF Entries(plan) = {}
     THEN pc' = "revoke" /\ todo' = Entries(tracked)
     ELSE pc' = "persist" /\ UNCHANGED todo
  /\ UNCHANGED <<api, cache, refused, server, lrv, want, tracked, plan, ghosts, budgets>>

\* Mutant of Intended: only the planned targets, the other entries are lost.
IntendedPlanOnly == [t \in Entries(plan) |-> Merge(tracked[t], plan[t])]

Intended == [t \in Targets |-> Merge(tracked[t], plan[t])]

\* A status update of a copy read at version lrv: the API server refuses it
\* when the resource changed since, and a write that changes nothing leaves
\* the version alone.
SaveStatus(l) ==
  /\ lrv = rv
  /\ ledger' = l
  /\ rv' = IF l = ledger THEN rv ELSE rv + 1
  /\ lrv' = rv'
  /\ UNCHANGED spec

\* Mutant of Persist: the additions are recorded in memory only, for the
\* status update at the end of the reconcile.
PersistInMemory ==
  /\ pc = "persist"
  /\ tracked' = Intended
  /\ pc' = "grant" /\ todo' = Entries(plan)
  /\ UNCHANGED <<api, lrv, cache, refused, server, want, plan, ghosts, budgets>>

\* The intended additions are recorded durably before any GRANT.
Persist ==
  /\ pc = "persist"
  /\ SaveStatus(Intended)
  /\ tracked' = Intended
  /\ pc' = "grant" /\ todo' = Entries(plan)
  /\ UNCHANGED <<cache, refused, server, want, plan, ghosts, budgets>>

\* The status write conflicts: nothing is granted (or revoked), and the
\* status update that reports it conflicts as well.
PersistConflict ==
  /\ pc = "persist" /\ lrv # rv
  /\ pc' = "save"
  /\ UNCHANGED <<api, cache, refused, server, lrv, want, tracked, plan, todo, ghosts, budgets>>

\* What the two GRANT statements of t give the grantee: g.opt with the grant
\* option first, then the rest without.
Granted(t, g) ==
  /\ held' = [held EXCEPT ![t] = Merge(@, [priv |-> g.priv \cup g.opt, opt |-> g.opt])]
  /\ added' = [added EXCEPT ![t] = Merge(@, [priv |-> (g.priv \cup g.opt) \ held[t].priv,
                                             opt  |-> g.opt \ held[t].opt])]

GrantTarget(t) ==
  /\ pc = "grant" /\ t \in todo /\ t \in present
  /\ todo' = todo \ {t}
  /\ Granted(t, plan[t])
  /\ UNCHANGED <<api, cache, refused, present, passed, pc, lrv, want, tracked, plan, outside, budgets>>

\* The grantee was dropped after it was planned for: its GRANTs fail.
GrantGone(t) ==
  /\ pc = "grant" /\ t \in todo /\ t \notin present
  /\ todo' = todo \ {t}
  /\ UNCHANGED <<api, cache, refused, server, pc, lrv, want, tracked, plan, ghosts, budgets>>

\* A GRANT fails: a failed GRANT WITH GRANT OPTION skips the plain one of the
\* same target, a failed plain one leaves the first in place.
GrantFails(t) ==
  /\ pc = "grant" /\ t \in todo /\ t \in present
  /\ faults < MaxFaults /\ faults' = faults + 1
  /\ todo' = todo \ {t}
  /\ \/ UNCHANGED <<held, added>>
     \/ plan[t].opt # {} /\ Granted(t, [priv |-> {}, opt |-> plan[t].opt])
  /\ UNCHANGED <<api, cache, refused, present, passed, pc, lrv, want, tracked, plan, outside, edits, dba>>

GrantDone ==
  /\ pc = "grant" /\ todo = {}
  /\ pc' = "revoke" /\ todo' = Entries(tracked)
  /\ UNCHANGED <<api, cache, refused, server, lrv, want, tracked, plan, ghosts, budgets>>

\* What the entry of t records and the desired grant no longer declares:
\* privileges, grant options of privileges that stay, and of the removed
\* privileges those pgop also gave the grant option for.
Removed(t)    == tracked[t].priv \ want[t].priv
OptionOnly(t) == (tracked[t].opt \ want[t].opt) \ Removed(t)

\* Mutant of WithOption: every removed privilege is revoked with CASCADE.
WithOptionAll(t) == Removed(t)

WithOption(t) == Removed(t) \cap tracked[t].opt
Plain(t) == Removed(t) \ WithOption(t)

\* The effect in PostgreSQL of revoking the grant option of os and the
\* privileges ps, with what depended on either.
Revoked(t, os, ps) ==
  /\ held' = [held EXCEPT ![t] = [priv |-> @.priv \ ps, opt |-> @.opt \ (os \cup ps)]]
  /\ passed' = [passed EXCEPT ![t] = @ \ (os \cup ps)]
  /\ outside' = [outside EXCEPT ![t] = @ \ ps]

\* revokeRemoved for the entry of t.  Grant options pgop gave are revoked
\* with CASCADE; the other privileges without, and those the grantee passed
\* on (blocked) are left granted and leave the ledger.
RevokeTarget(t) ==
  /\ pc = "revoke" /\ t \in todo /\ t \in present
  /\ LET blocked == Plain(t) \cap passed[t]
         revoked == Removed(t) \ blocked
     IN /\ Revoked(t, OptionOnly(t), revoked)
        /\ added' = [added EXCEPT ![t] =
                       [priv |-> @.priv \ Removed(t), opt |-> @.opt \ (OptionOnly(t) \cup revoked)]]
        /\ tracked' = [tracked EXCEPT ![t] =
                       [priv |-> @.priv \ Removed(t), opt |-> @.opt \ (OptionOnly(t) \cup WithOption(t))]]
  /\ todo' = todo \ {t}
  /\ UNCHANGED <<api, cache, refused, present, pc, lrv, want, plan, budgets>>

\* Mutant of RevokeGone: an entry whose grantee is gone stays.
RevokeGoneKeeps(t) ==
  /\ pc = "revoke" /\ t \in todo /\ t \notin present
  /\ todo' = todo \ {t}
  /\ UNCHANGED <<api, cache, refused, server, pc, lrv, want, tracked, plan, ghosts, budgets>>

\* The grantee is gone: it holds nothing, and an entry with something to
\* revoke leaves the ledger.
RevokeGone(t) ==
  /\ pc = "revoke" /\ t \in todo /\ t \notin present
  /\ tracked' = IF Removed(t) = {} /\ OptionOnly(t) = {} THEN tracked
                ELSE [tracked EXCEPT ![t] = None]
  /\ todo' = todo \ {t}
  /\ UNCHANGED <<api, cache, refused, server, pc, lrv, want, plan, ghosts, budgets>>

\* One or more of the REVOKE statements of t fail: only what succeeded leaves
\* the ledger.  Plain privileges go in one statement, and one at a time once
\* PostgreSQL refused that statement because some were passed on.  When the
\* check that the grantee exists fails, nothing is tried.
RevokeFails(t) ==
  /\ pc = "revoke" /\ t \in todo
  /\ faults < MaxFaults /\ faults' = faults + 1
  /\ \E os \in {{}, OptionOnly(t)}, ws \in {{}, WithOption(t)}, tried \in SUBSET Plain(t) :
       /\ Plain(t) \cap passed[t] = {} => tried \in {{}, Plain(t)}
       /\ t \notin present => os = {} /\ ws = {} /\ tried = {}
       /\ LET blocked == tried \cap passed[t]
              revoked == ws \cup (tried \ blocked)
          IN /\ Revoked(t, os, revoked)
             /\ added' = [added EXCEPT ![t] =
                            [priv |-> @.priv \ (ws \cup tried), opt |-> @.opt \ (os \cup revoked)]]
             /\ tracked' = [tracked EXCEPT ![t] =
                            [priv |-> @.priv \ (ws \cup tried), opt |-> @.opt \ (os \cup ws)]]
  /\ todo' = todo \ {t}
  /\ UNCHANGED <<api, cache, refused, present, pc, lrv, want, plan, edits, dba>>

RevokeDone ==
  /\ pc = "revoke" /\ todo = {}
  /\ pc' = "save"
  /\ UNCHANGED <<api, cache, refused, server, lrv, want, tracked, plan, todo, ghosts, budgets>>

Forget == lrv' = 0 /\ want' = NoGrants /\ tracked' = NoGrants /\ plan' = NoGrants /\ todo' = {}

\* Mutant of Save: the status is written whatever version was read.
SaveForced ==
  /\ pc = "save"
  /\ ledger' = tracked
  /\ rv' = IF tracked = ledger THEN rv ELSE rv + 1
  /\ pc' = "idle" /\ Forget
  /\ UNCHANGED <<spec, cache, refused, server, ghosts, budgets>>

\* updateStatus at the end of the reconcile; a conflict is not retried.
Save ==
  /\ pc = "save" /\ lrv = rv
  /\ ledger' = tracked
  /\ rv' = IF tracked = ledger THEN rv ELSE rv + 1
  /\ pc' = "idle" /\ Forget
  /\ UNCHANGED <<spec, cache, refused, server, ghosts, budgets>>

SaveConflict ==
  /\ pc = "save" /\ lrv # rv
  /\ pc' = "idle" /\ Forget
  /\ UNCHANGED <<api, cache, refused, server, ghosts, budgets>>

\* The operator stops between two statements, or the status write is lost.
Crash ==
  /\ pc # "idle"
  /\ faults < MaxFaults /\ faults' = faults + 1
  /\ pc' = "idle" /\ Forget
  /\ UNCHANGED <<api, cache, refused, server, ghosts, edits, dba>>

-----------------------------------------------------------------------------
Controller ==
  \/ Begin \/ PlanDone \/ Persist \/ PersistConflict \/ GrantDone \/ RevokeDone
  \/ Save \/ SaveConflict
  \/ \E t \in Targets : PlanTarget(t) \/ GrantTarget(t) \/ GrantGone(t)
                        \/ RevokeTarget(t) \/ RevokeGone(t)

Faults ==
  \/ Crash
  \/ \E t \in Targets : PlanFails(t) \/ GrantFails(t) \/ RevokeFails(t)

Environment ==
  \E t \in Targets :
    \/ \E g \in Declarable : EditSpec(t, g)
    \/ ChangePolicy(t)
    \/ \E p \in Privs : DBARevoke(t, p) \/ PassOn(t, p)
                        \/ \E w \in BOOLEAN : DBAGrant(t, p, w)
    \/ DropGrantee(t)
    \/ CreateGrantee(t)

Next == Controller \/ Faults \/ Environment \/ CacheSync

Spec == Init /\ [][Next]_vars

\* Errors requeue, watch events and the periodic resync run the reconcile
\* again; the informer delivers every change.
Fairness == WF_vars(Controller) /\ WF_vars(CacheSync)

FairSpec == Spec /\ Fairness
-----------------------------------------------------------------------------
(* Properties. *)

\* Every privilege and grant option that a GRANT of pgop added, and that
\* nobody took away since, is in the durable status ledger - at every moment,
\* so whatever is lost (a status write, the operator) pgop can still revoke it.
\* (applyPrivilegeGrants: the ledger as an intent log.)
LedgerCoversGrants ==
  \A t \in Targets : added[t].priv \subseteq ledger[t].priv /\ added[t].opt \subseteq ledger[t].opt

\* The ledger never outgrows the maxItems of its status field, so the API
\* server never rejects the write that records it (TooManyGrants).
LedgerWithinLimit == Cardinality(Entries(ledger)) <= LedgerLimit

\* A REVOKE of pgop takes away what a grantee passed on only where the ledger
\* the reconcile works from records that pgop gave the grant option.
NoForeignCascade ==
  [][pc = "revoke" /\ todo' # todo =>
       \A t \in Targets : passed[t] \ passed'[t] \subseteq tracked[t].opt]_vars

\* The grants in force: declared, to a grantee that exists and the policy
\* does not hold back.
Effective(t) == IF t \in present \ refused THEN spec[t] ELSE None

\* Once changes stop, the ledger is left with declared, allowed grants only:
\* every other privilege pgop added is revoked, also over the ledger limit and
\* whatever failed, crashed or conflicted before; and every declared and
\* allowed grant is held, drift made outside pgop included, unless the declared
\* grants alone exceed the limit.  (applyPrivilegeGrants)
GrantsConverge ==
  <>[](/\ \A t \in Targets : /\ ledger[t].priv \subseteq Effective(t).priv
                             /\ ledger[t].opt \subseteq Effective(t).opt
       /\ Cardinality({t \in Targets : ~Empty(Effective(t))}) <= LedgerLimit =>
            \A t \in Targets : /\ Effective(t).priv \subseteq held[t].priv
                               /\ Effective(t).opt \subseteq held[t].opt)

\* What a ledger can record: a privilege of a target, or its grant option.
LedgerItems == [target : Targets, priv : Privs, kind : {"privilege", "option"}]
Recorded(l) ==
  {i \in LedgerItems :
     i.priv \in IF i.kind = "privilege" THEN l[i.target].priv ELSE l[i.target].opt}

Log == INSTANCE IntentLog WITH
  Items <- LedgerItems, record <- Recorded(ledger), made <- Recorded(added)

\* The status ledger implements the abstract intent log: it grows before any
\* GRANT, shrinks only by what is no longer there, and no step changes the
\* ledger and the grants at once.  (applyPrivilegeGrants, saveStatus)
ImplementsIntentLog == Log!Spec

\* What privilege_grants.go says of grants made outside pgop: removing a
\* grant from the spec never revokes one of them.  The code does not keep it:
\* an intent recorded for a GRANT that failed claims the grant someone else
\* makes later.
OutsideGrantsKept ==
  [][pc = "revoke" /\ todo' # todo => \A t \in Targets : outside[t] \subseteq outside'[t]]_vars
=============================================================================

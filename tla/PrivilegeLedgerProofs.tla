----------------------- MODULE PrivilegeLedgerProofs -----------------------
(***************************************************************************)
(* Proofs about PrivilegeLedger, for every set of targets and privileges   *)
(* and every bound: type correctness, that the durable ledger always       *)
(* covers what pgop granted and stays within its limit, that no REVOKE     *)
(* cascades to what pgop did not make possible, and that the engine        *)
(* implements the abstract intent log.                                     *)
(***************************************************************************)
EXTENDS PrivilegeLedger, FiniteSetTheorems, TLAPS

-----------------------------------------------------------------------------
(* Typing of the operators on grants. *)

\* Merging, subtracting from and declaring grants yields grants.
LEMMA GrantTypes ==
  /\ None \in Grant /\ None \in Declarable
  /\ NoGrants \in [Targets -> Grant] /\ NoGrants \in [Targets -> Declarable]
  /\ Declarable \subseteq Grant
  /\ \A a, b \in Grant : Merge(a, b) \in Grant
  /\ \A a \in Grant, ps \in SUBSET Privs : Minus(a, ps) \in Grant
  BY DEF None, NoGrants, Grant, Declarable, Merge, Minus

\* The initial states are well typed.
LEMMA InitTypeOK == Init => TypeOK
  BY GrantTypes, BoundsAssumption DEF Init, TypeOK, Grant, NoGrants, None

\* Every step keeps the types: one case per action.
LEMMA NextTypeOK == TypeOK /\ [Next]_vars => TypeOK'
<1> SUFFICES ASSUME TypeOK, [Next]_vars PROVE TypeOK'
  OBVIOUS
<1> USE GrantTypes, BoundsAssumption
<1>1. ASSUME NEW t \in Targets, NEW g \in Declarable, EditSpec(t, g) PROVE TypeOK'
  BY <1>1 DEF EditSpec, TypeOK, server, local, ghosts
<1>2. ASSUME NEW t \in Targets, ChangePolicy(t) PROVE TypeOK'
  BY <1>2 DEF ChangePolicy, TypeOK, api, server, local, ghosts
<1>3. CASE CacheSync
  BY <1>3 DEF CacheSync, TypeOK, api, server, local, ghosts, budgets
<1>4. ASSUME NEW t \in Targets, NEW p \in Privs, NEW w \in BOOLEAN, DBAGrant(t, p, w)
      PROVE TypeOK'
  <2>1. [priv |-> {p}, opt |-> IF w THEN {p} ELSE {}] \in Grant
    BY DEF Grant
  <2>2. QED
    BY <1>4, <2>1 DEF DBAGrant, DBAMayAct, TypeOK, api, local
<1>5. ASSUME NEW t \in Targets, NEW p \in Privs, DBARevoke(t, p) PROVE TypeOK'
  BY <1>5 DEF DBARevoke, DBAMayAct, TypeOK, api, local
<1>6. ASSUME NEW t \in Targets, NEW p \in Privs, PassOn(t, p) PROVE TypeOK'
  BY <1>6 DEF PassOn, TypeOK, api, local, ghosts
<1>7. ASSUME NEW t \in Targets, DropGrantee(t) PROVE TypeOK'
  BY <1>7 DEF DropGrantee, DBAMayAct, TypeOK, api, local
<1>8. ASSUME NEW t \in Targets, CreateGrantee(t) PROVE TypeOK'
  BY <1>8 DEF CreateGrantee, TypeOK, api, local, ghosts, budgets
<1>9. CASE Begin
  BY <1>9 DEF Begin, Entries, TypeOK, api, server, ghosts, budgets
<1>10. ASSUME NEW t \in Targets, PlanTarget(t) PROVE TypeOK'
  <2>1. PlanMissing(t) \in Grant
    BY DEF PlanMissing, TypeOK, Grant, Declarable
  <2>2. QED
    BY <1>10, <2>1 DEF PlanTarget, TypeOK, api, server, ghosts, budgets
<1>11. ASSUME NEW t \in Targets, PlanFails(t) PROVE TypeOK'
  BY <1>11 DEF PlanFails, TypeOK, api, server, ghosts
<1>12. CASE PlanDone
  BY <1>12 DEF PlanDone, Entries, TypeOK, api, server, ghosts, budgets
<1>13. CASE Persist
  <2>1. Intended \in [Targets -> Grant]
    BY DEF Intended, TypeOK
  <2>2. QED
    BY <1>13, <2>1 DEF Persist, SaveStatus, Entries, TypeOK, server, ghosts, budgets
<1>14. CASE PersistConflict
  BY <1>14 DEF PersistConflict, TypeOK, api, server, ghosts, budgets
<1>15. ASSUME NEW t \in Targets, NEW g \in Grant, Granted(t, g)
       PROVE held' \in [Targets -> Grant] /\ added' \in [Targets -> Grant]
  BY <1>15 DEF Granted, Merge, Grant, TypeOK
<1>16. ASSUME NEW t \in Targets, GrantTarget(t) PROVE TypeOK'
  <2>1. held' \in [Targets -> Grant] /\ added' \in [Targets -> Grant]
    BY <1>15, <1>16 DEF GrantTarget, TypeOK
  <2>2. QED
    BY <1>16, <2>1 DEF GrantTarget, TypeOK, api, budgets
<1>17. ASSUME NEW t \in Targets, GrantGone(t) PROVE TypeOK'
  BY <1>17 DEF GrantGone, TypeOK, api, server, ghosts, budgets
<1>18. ASSUME NEW t \in Targets, GrantFails(t) PROVE TypeOK'
  <2>1. [priv |-> {}, opt |-> plan[t].opt] \in Grant
    BY DEF TypeOK, Grant
  <2>2. held' \in [Targets -> Grant] /\ added' \in [Targets -> Grant]
    BY <1>15, <1>18, <2>1 DEF GrantFails, TypeOK
  <2>3. QED
    BY <1>18, <2>2 DEF GrantFails, TypeOK, api
<1>19. CASE GrantDone
  BY <1>19 DEF GrantDone, Entries, TypeOK, api, server, ghosts, budgets
<1>20. ASSUME NEW t \in Targets, RevokeTarget(t) PROVE TypeOK'
  BY <1>20 DEF RevokeTarget, Revoked, TypeOK, Grant, api, budgets
<1>21. ASSUME NEW t \in Targets, RevokeGone(t) PROVE TypeOK'
  BY <1>21 DEF RevokeGone, TypeOK, api, server, ghosts, budgets
<1>22. ASSUME NEW t \in Targets, RevokeFails(t) PROVE TypeOK'
  BY <1>22 DEF RevokeFails, Revoked, TypeOK, Grant, api
<1>23. CASE RevokeDone
  BY <1>23 DEF RevokeDone, TypeOK, api, server, ghosts, budgets
<1>24. CASE Save
  BY <1>24 DEF Save, Forget, TypeOK, server, ghosts, budgets
<1>25. CASE SaveConflict
  BY <1>25 DEF SaveConflict, Forget, TypeOK, api, server, ghosts, budgets
<1>26. CASE Crash
  BY <1>26 DEF Crash, Forget, TypeOK, api, server, ghosts
<1>27. CASE UNCHANGED vars
  BY <1>27 DEF vars, TypeOK, api, server, local, ghosts, budgets
<1>28. QED
  BY <1>1, <1>2, <1>3, <1>4, <1>5, <1>6, <1>7, <1>8, <1>9, <1>10, <1>11, <1>12,
     <1>13, <1>14, <1>16, <1>17, <1>18, <1>19, <1>20, <1>21, <1>22, <1>23, <1>24,
     <1>25, <1>26, <1>27 DEF Next, Controller, Faults, Environment

\* Every reachable state is well typed; in particular what a reconcile plans,
\* tracks and writes to the status is always a grant per target.
THEOREM TypeCorrect == Spec => []TypeOK
<1>1. QED
  BY InitTypeOK, NextTypeOK, PTL DEF Spec

-----------------------------------------------------------------------------
(* The ledger covers what pgop granted. *)

Within(a, b) == a.priv \subseteq b.priv /\ a.opt \subseteq b.opt

\* Versions read are versions the resource had, and an up to date cache holds
\* the current ledger.
Versions ==
  /\ lrv <= rv /\ cache.rv <= rv
  /\ cache.rv = rv => cache.ledger = ledger

\* Unless its status write is bound to conflict, the reconcile's own ledger
\* covers what pgop granted as well.
TrackedCovers == pc # "idle" /\ lrv = rv => \A t \in Targets : Within(added[t], tracked[t])

\* Whatever is about to be granted was recorded first.
PlanRecorded ==
  pc = "grant" => \A t \in Targets : /\ Within(plan[t], ledger[t])
                                     /\ lrv = rv => Within(plan[t], tracked[t])

\* GRANT ... WITH GRANT OPTION also gives the privilege: where it is planned,
\* the privilege is planned as well or was held when the plan was made.
OptionsPlanned ==
  \A t \in Targets : InWindow(t) => plan[t].opt \subseteq plan[t].priv \cup held[t].priv

\* A target whose privileges are still to be read is not planned for.
UnreadUnplanned == pc = "plan" => \A t \in todo : plan[t] = None

GoneHoldsNothing == \A t \in Targets \ present : Empty(added[t])

IInv ==
  /\ TypeOK
  /\ LedgerCoversGrants
  /\ Versions
  /\ TrackedCovers
  /\ PlanRecorded
  /\ OptionsPlanned
  /\ UnreadUnplanned
  /\ GoneHoldsNothing

\* The part of IInv beyond the types.
Cover == LedgerCoversGrants /\ Versions /\ TrackedCovers /\ PlanRecorded
         /\ OptionsPlanned /\ UnreadUnplanned /\ GoneHoldsNothing

\* Initially pgop granted nothing.
LEMMA InitIInv == Init => IInv
<1>1. Init => Cover
  BY DEF Init, Cover, LedgerCoversGrants, Versions, TrackedCovers, PlanRecorded, OptionsPlanned,
         UnreadUnplanned, GoneHoldsNothing, Empty, InWindow, Within, NoGrants, None
<1>2. QED
  BY <1>1, InitTypeOK DEF IInv, Cover

\* Every step keeps IInv when the DBA does not act between the read of a
\* grantee's privileges and the GRANT planned from it.
LEMMA NextIInv == ASSUME RacyDBA = FALSE PROVE IInv /\ [Next]_vars => IInv'
<1> SUFFICES ASSUME IInv, [Next]_vars PROVE Cover'
  BY NextTypeOK DEF IInv, Cover
<1> USE DEF Cover, IInv
<1>1. ASSUME NEW t \in Targets, NEW g \in Declarable, EditSpec(t, g) PROVE Cover'
  BY <1>1 DEF EditSpec, server, local, ghosts, LedgerCoversGrants, TypeOK, Versions, TrackedCovers, PlanRecorded, OptionsPlanned, UnreadUnplanned, GoneHoldsNothing, Empty, InWindow, Within
<1>2. ASSUME NEW t \in Targets, ChangePolicy(t) PROVE Cover'
  BY <1>2 DEF ChangePolicy, api, server, local, ghosts, LedgerCoversGrants, Versions, TrackedCovers, PlanRecorded, OptionsPlanned, UnreadUnplanned, GoneHoldsNothing, Empty, InWindow, Within
<1>3. CASE CacheSync
  BY <1>3 DEF CacheSync, api, server, local, ghosts, budgets, LedgerCoversGrants, TypeOK, Versions, TrackedCovers, PlanRecorded, OptionsPlanned, UnreadUnplanned, GoneHoldsNothing, Empty, InWindow, Within
<1>4. ASSUME NEW t \in Targets, NEW p \in Privs, NEW w \in BOOLEAN, DBAGrant(t, p, w)
      PROVE Cover'
  BY <1>4 DEF DBAGrant, DBAMayAct, Merge, api, local, LedgerCoversGrants, TypeOK, Versions, TrackedCovers, PlanRecorded, OptionsPlanned, UnreadUnplanned, GoneHoldsNothing, Empty, InWindow, Within
<1>5. ASSUME NEW t \in Targets, NEW p \in Privs, DBARevoke(t, p) PROVE Cover'
  <2>1. /\ ~InWindow(t) /\ UNCHANGED <<ledger, rv, cache, present, pc, lrv, tracked, plan, todo>>
        /\ held' = [held EXCEPT ![t] = Minus(@, {p})]
        /\ added' = [added EXCEPT ![t] = Minus(@, {p})]
    BY <1>5 DEF DBARevoke, DBAMayAct, api, local
  <2>2. /\ \A u \in Targets : Within(added'[u], added[u])
        /\ \A u \in Targets \ {t} : held'[u] = held[u]
    BY <2>1 DEF Minus, Within, TypeOK
  <2>3. (LedgerCoversGrants /\ Versions /\ TrackedCovers /\ PlanRecorded)'
    BY <2>1, <2>2 DEF LedgerCoversGrants, Versions, TrackedCovers, PlanRecorded, Within
  <2>4. (OptionsPlanned /\ UnreadUnplanned /\ GoneHoldsNothing)'
    BY <2>1, <2>2 DEF OptionsPlanned, UnreadUnplanned, GoneHoldsNothing, InWindow, Empty, Within
  <2>5. QED
    BY <2>3, <2>4
<1>6. ASSUME NEW t \in Targets, NEW p \in Privs, PassOn(t, p) PROVE Cover'
  BY <1>6 DEF PassOn, api, local, ghosts, LedgerCoversGrants, Versions, TrackedCovers, PlanRecorded, OptionsPlanned, UnreadUnplanned, GoneHoldsNothing, Empty, InWindow, Within
<1>7. ASSUME NEW t \in Targets, DropGrantee(t) PROVE Cover'
  BY <1>7 DEF DropGrantee, DBAMayAct, None, api, local, LedgerCoversGrants, TypeOK, Versions, TrackedCovers, PlanRecorded, OptionsPlanned, UnreadUnplanned, GoneHoldsNothing, Empty, InWindow, Within
<1>8. ASSUME NEW t \in Targets, CreateGrantee(t) PROVE Cover'
  BY <1>8 DEF CreateGrantee, api, local, ghosts, LedgerCoversGrants, Versions, TrackedCovers, PlanRecorded, OptionsPlanned, UnreadUnplanned, GoneHoldsNothing, Empty, InWindow, Within
<1>9. CASE Begin
  <2>1. /\ pc' = "plan" /\ plan' = NoGrants /\ lrv' = cache.rv /\ tracked' = cache.ledger
        /\ todo' \subseteq Targets
        /\ UNCHANGED <<ledger, rv, cache, present, held, added>>
    BY <1>9 DEF Begin, Entries, api, server, ghosts
  <2>2. \A t \in Targets : plan'[t] = None
    BY <2>1 DEF NoGrants
  <2>3. (OptionsPlanned /\ UnreadUnplanned /\ GoneHoldsNothing)'
    BY <2>1, <2>2 DEF OptionsPlanned, UnreadUnplanned, GoneHoldsNothing, InWindow, None
  <2>4. (LedgerCoversGrants /\ Versions /\ TrackedCovers /\ PlanRecorded)'
    BY <2>1 DEF LedgerCoversGrants, Versions, TrackedCovers, PlanRecorded, Within, TypeOK
  <2>5. QED
    BY <2>3, <2>4
<1>10. ASSUME NEW t \in Targets, PlanTarget(t) PROVE Cover'
  BY <1>10 DEF PlanTarget, PlanMissing, Declarable, api, server, ghosts, LedgerCoversGrants, TypeOK, Versions, TrackedCovers, PlanRecorded, OptionsPlanned, UnreadUnplanned, GoneHoldsNothing, Empty, InWindow, Within
<1>11. ASSUME NEW t \in Targets, PlanFails(t) PROVE Cover'
  BY <1>11 DEF PlanFails, None, api, server, ghosts, LedgerCoversGrants, TypeOK, Versions, TrackedCovers, PlanRecorded, OptionsPlanned, UnreadUnplanned, GoneHoldsNothing, Empty, InWindow, Within
<1>12. CASE PlanDone
  BY <1>12 DEF PlanDone, api, server, ghosts, LedgerCoversGrants, Versions, TrackedCovers, PlanRecorded, OptionsPlanned, UnreadUnplanned, GoneHoldsNothing, Empty, InWindow, Within
<1>13. CASE Persist
  <2>1. /\ lrv = rv /\ lrv' = rv' /\ UNCHANGED <<cache, present, held, added, plan>>
        /\ pc' = "grant" /\ rv' = IF Intended = ledger THEN rv ELSE rv + 1
        /\ ledger' = Intended /\ tracked' = Intended
    BY <1>13 DEF Persist, SaveStatus, server, ghosts
  <2>2. \A t \in Targets : /\ Within(added[t], Intended[t])
                           /\ Within(plan[t], Intended[t])
    BY <1>13, <2>1 DEF Persist, TrackedCovers, Intended, Merge, Within
  <2>3. (LedgerCoversGrants /\ TrackedCovers /\ PlanRecorded /\ GoneHoldsNothing)'
    BY <2>1, <2>2 DEF LedgerCoversGrants, TrackedCovers, PlanRecorded, GoneHoldsNothing, Empty, Within
  <2>4. Versions'
    BY <2>1 DEF Versions, TypeOK
  <2>5. (OptionsPlanned /\ UnreadUnplanned)'
    BY <1>13, <2>1 DEF Persist, OptionsPlanned, UnreadUnplanned, InWindow
  <2>6. QED
    BY <2>3, <2>4, <2>5
<1>14. CASE PersistConflict
  BY <1>14 DEF PersistConflict, api, server, ghosts, LedgerCoversGrants, Versions, TrackedCovers, PlanRecorded, OptionsPlanned, UnreadUnplanned, GoneHoldsNothing, Empty, InWindow, Within
<1>16. ASSUME NEW t \in Targets, GrantTarget(t) PROVE Cover'
  BY <1>16 DEF GrantTarget, Granted, Merge, Grant, api, LedgerCoversGrants, TypeOK, Versions, TrackedCovers, PlanRecorded, OptionsPlanned, UnreadUnplanned, GoneHoldsNothing, Empty, InWindow, Within
<1>17. ASSUME NEW t \in Targets, GrantGone(t) PROVE Cover'
  BY <1>17 DEF GrantGone, api, server, ghosts, LedgerCoversGrants, Versions, TrackedCovers, PlanRecorded, OptionsPlanned, UnreadUnplanned, GoneHoldsNothing, Empty, InWindow, Within
<1>18. ASSUME NEW t \in Targets, GrantFails(t) PROVE Cover'
  <2>1. CASE UNCHANGED <<held, added>>
    BY <1>18, <2>1 DEF GrantFails, api, LedgerCoversGrants, Versions, TrackedCovers, PlanRecorded, OptionsPlanned, UnreadUnplanned, GoneHoldsNothing, Empty, InWindow, Within
  <2>2. CASE Granted(t, [priv |-> {}, opt |-> plan[t].opt])
    BY <1>18, <2>2 DEF GrantFails, Granted, Merge, Grant, api, LedgerCoversGrants, TypeOK,
                       Versions, TrackedCovers, PlanRecorded, OptionsPlanned, UnreadUnplanned, GoneHoldsNothing, Empty, InWindow, Within
  <2>3. QED
    BY <1>18, <2>1, <2>2 DEF GrantFails
<1>19. CASE GrantDone
  BY <1>19 DEF GrantDone, api, server, ghosts, LedgerCoversGrants, Versions, TrackedCovers, PlanRecorded, OptionsPlanned, UnreadUnplanned, GoneHoldsNothing, Empty, InWindow, Within
<1>20. ASSUME NEW t \in Targets, RevokeTarget(t) PROVE Cover'
  BY <1>20 DEF RevokeTarget, Revoked, Removed, OptionOnly, WithOption, Plain, Grant, api, LedgerCoversGrants, TypeOK, Versions, TrackedCovers, PlanRecorded, OptionsPlanned, UnreadUnplanned, GoneHoldsNothing, Empty, InWindow, Within
<1>21. ASSUME NEW t \in Targets, RevokeGone(t) PROVE Cover'
  BY <1>21 DEF RevokeGone, api, server, ghosts, LedgerCoversGrants, TypeOK, Versions, TrackedCovers, PlanRecorded, OptionsPlanned, UnreadUnplanned, GoneHoldsNothing, Empty, InWindow, Within
<1>22. ASSUME NEW t \in Targets, RevokeFails(t) PROVE Cover'
  <2>1. PICK os \in {{}, OptionOnly(t)}, ws \in {{}, WithOption(t)}, tried \in SUBSET Plain(t) :
          LET blocked == tried \cap passed[t]
              revoked == ws \cup (tried \ blocked)
          IN /\ added' = [added EXCEPT ![t] =
                            [priv |-> @.priv \ (ws \cup tried), opt |-> @.opt \ (os \cup revoked)]]
             /\ tracked' = [tracked EXCEPT ![t] =
                            [priv |-> @.priv \ (ws \cup tried), opt |-> @.opt \ (os \cup ws)]]
    BY <1>22, Zenon DEF RevokeFails
  <2>2. pc = "revoke" /\ UNCHANGED <<ledger, rv, cache, present, pc, lrv, plan>>
    BY <1>22 DEF RevokeFails, api
  <2>3. \A u \in Targets : Within(added'[u], added[u])
    BY <2>1 DEF Within, TypeOK, Grant
  <2>4. Within(added[t], tracked[t]) => Within(added'[t], tracked'[t])
    BY <2>1 DEF Within, TypeOK, Grant
  <2>5. \A u \in Targets \ {t} : added'[u] = added[u] /\ tracked'[u] = tracked[u]
    BY <2>1 DEF TypeOK
  <2>6. QED
    BY <2>2, <2>3, <2>4, <2>5 DEF LedgerCoversGrants, Versions, TrackedCovers, PlanRecorded, OptionsPlanned, UnreadUnplanned, GoneHoldsNothing, Empty, InWindow, Within
<1>23. CASE RevokeDone
  BY <1>23 DEF RevokeDone, api, server, ghosts, LedgerCoversGrants, Versions, TrackedCovers, PlanRecorded, OptionsPlanned, UnreadUnplanned, GoneHoldsNothing, Empty, InWindow, Within
<1>24. CASE Save
  BY <1>24 DEF Save, Forget, server, ghosts, LedgerCoversGrants, TypeOK, Versions, TrackedCovers, PlanRecorded, OptionsPlanned, UnreadUnplanned, GoneHoldsNothing, Empty, InWindow, Within
<1>25. CASE SaveConflict
  BY <1>25 DEF SaveConflict, Forget, api, server, ghosts, LedgerCoversGrants, TypeOK, Versions, TrackedCovers, PlanRecorded, OptionsPlanned, UnreadUnplanned, GoneHoldsNothing, Empty, InWindow, Within
<1>26. CASE Crash
  BY <1>26 DEF Crash, Forget, api, server, ghosts, LedgerCoversGrants, TypeOK, Versions, TrackedCovers, PlanRecorded, OptionsPlanned, UnreadUnplanned, GoneHoldsNothing, Empty, InWindow, Within
<1>27. CASE UNCHANGED vars
  BY <1>27 DEF vars, api, server, local, ghosts, LedgerCoversGrants, Versions, TrackedCovers, PlanRecorded, OptionsPlanned, UnreadUnplanned, GoneHoldsNothing, Empty, InWindow, Within
<1>28. QED
  BY <1>1, <1>2, <1>3, <1>4, <1>5, <1>6, <1>7, <1>8, <1>9, <1>10, <1>11, <1>12,
     <1>13, <1>14, <1>16, <1>17, <1>18, <1>19, <1>20, <1>21, <1>22, <1>23, <1>24,
     <1>25, <1>26, <1>27 DEF Next, Controller, Faults, Environment

\* At every moment the durable ledger records whatever pgop's GRANTs added and
\* nobody revoked since, whatever crashes, conflicts or fails: the intent log
\* of applyPrivilegeGrants works for any number of grants.
THEOREM LedgerCovers == ASSUME RacyDBA = FALSE PROVE Spec => []LedgerCoversGrants
<1>1. IInv => LedgerCoversGrants
  BY DEF IInv
<1>2. QED
  BY <1>1, InitIInv, NextIInv, PTL DEF Spec
-----------------------------------------------------------------------------
(* The ledger stays within its limit. *)

\* The targets that have a ledger entry, or may get one from the running
\* reconcile before its intents are recorded.
Reserved == Entries(tracked) \cup (IF pc \in {"plan", "persist"} THEN Entries(plan) ELSE {})
                             \cup (IF pc = "plan" THEN todo ELSE {})

Fits(S) == Cardinality(S) <= LedgerLimit

\* The room for the reconcile is checked once, in Begin, for all it may record.
RoomInv == Fits(Entries(ledger)) /\ Fits(Entries(cache.ledger)) /\ Fits(Reserved)

\* A set of targets within one that fits, fits; the empty one always does.
LEMMA FitsWithin ==
  ASSUME NEW T \in SUBSET Targets, NEW S \in SUBSET T, Fits(T) PROVE Fits(S)
<1>1. IsFiniteSet(T)
  BY TargetsFinite, FS_Subset
<1>2. IsFiniteSet(S) /\ Cardinality(S) <= Cardinality(T)
  BY <1>1, FS_Subset
<1>3. Cardinality(S) \in Nat /\ Cardinality(T) \in Nat
  BY <1>1, <1>2, FS_CardinalityType
<1>4. QED
  BY <1>2, <1>3, LedgerLimitAssumption DEF Fits

\* Nothing is recorded and nothing reserved at first.
LEMMA InitRoom == Init => RoomInv
<1> SUFFICES ASSUME Init PROVE RoomInv
  OBVIOUS
<1>1. Entries(ledger) = {} /\ Entries(cache.ledger) = {} /\ Reserved = {}
  BY DEF Init, Reserved, Entries, Empty, NoGrants, None
<1>2. Fits({})
  BY FS_EmptySet, LedgerLimitAssumption DEF Fits
<1>3. QED
  BY <1>1, <1>2 DEF RoomInv

\* A reconcile that starts reserves no more than fits: over the limit it plans
\* nothing.
LEMMA BeginRoom == ASSUME TypeOK, RoomInv, Begin PROVE Fits(Reserved')
<1> DEFINE all == Entries(cache.ledger) \cup Entries(want')
<1>1. Entries(plan') = {}
  BY DEF Begin, Entries, Empty, NoGrants, None
<1>2. tracked' = cache.ledger /\ pc' = "plan"
  BY DEF Begin
<1>3. CASE Cardinality(all) > LedgerLimit
  <2>1. Reserved' = Entries(cache.ledger)
    BY <1>1, <1>2, <1>3 DEF Begin, Reserved, Entries
  <2>2. QED
    BY <2>1 DEF RoomInv
<1>4. CASE ~(Cardinality(all) > LedgerLimit)
  <2>1. Reserved' = all
    BY <1>1, <1>2, <1>4 DEF Begin, Reserved, Entries
  <2>2. Cardinality(all) \in Nat
    <3>1. all \in SUBSET Targets
      BY DEF Entries
    <3>2. QED
      BY <3>1, TargetsFinite, FS_Subset, FS_CardinalityType
  <2>3. QED
    BY <1>4, <2>1, <2>2, LedgerLimitAssumption DEF Fits
<1>5. QED
  BY <1>3, <1>4

\* Recording the intents makes entries only of what was reserved.
LEMMA IntendedReserved ==
  ASSUME TypeOK, pc = "persist" PROVE Entries(Intended) \subseteq Reserved
  BY DEF Entries, Intended, Merge, Empty, Reserved, TypeOK, Grant

\* A reconcile that goes on reserves nothing new: what it plans was in todo,
\* and revoking only removes entries.
LEMMA ReservedShrinks ==
  ASSUME TypeOK, TypeOK', [Next]_vars, ~Begin PROVE Reserved' \subseteq Reserved
<1> USE DEF Reserved, Entries, Empty
<1>1. ASSUME Environment \/ CacheSync \/ UNCHANGED vars PROVE UNCHANGED <<pc, tracked, plan, todo>>
  BY <1>1 DEF Environment, CacheSync, EditSpec, ChangePolicy, DBARevoke, PassOn, DBAGrant,
       DropGrantee, CreateGrantee, vars, local
<1>2. ASSUME NEW t \in Targets, PlanTarget(t) PROVE Reserved' \subseteq Reserved
  BY <1>2 DEF PlanTarget, TypeOK
<1>3. ASSUME NEW t \in Targets, PlanFails(t) PROVE Reserved' \subseteq Reserved
  BY <1>3 DEF PlanFails
<1>4. CASE PlanDone \/ PersistConflict \/ GrantDone \/ RevokeDone
  BY <1>4 DEF PlanDone, PersistConflict, GrantDone, RevokeDone
<1>5. CASE Persist
  <2>1. Reserved' = Entries(Intended)
    BY <1>5 DEF Persist
  <2>2. QED
    BY <1>5, <2>1, IntendedReserved DEF Persist
<1>6. ASSUME NEW t \in Targets, GrantTarget(t) \/ GrantGone(t) \/ GrantFails(t)
      PROVE Reserved' \subseteq Reserved
  BY <1>6 DEF GrantTarget, GrantGone, GrantFails
<1>7. ASSUME NEW t \in Targets, RevokeTarget(t) \/ RevokeGone(t) \/ RevokeFails(t)
      PROVE /\ pc = "revoke" /\ pc' = pc
            /\ \A u \in Targets : Within(tracked'[u], tracked[u])
  <2>1. CASE RevokeTarget(t)
    BY <2>1 DEF RevokeTarget, Within, TypeOK, Grant
  <2>2. CASE RevokeGone(t)
    BY <2>2 DEF RevokeGone, Within, TypeOK, Grant, None
  <2>3. CASE RevokeFails(t)
    <3>1. PICK os \in {{}, OptionOnly(t)}, ws \in {{}, WithOption(t)}, tried \in SUBSET Plain(t) :
            tracked' = [tracked EXCEPT ![t] =
                         [priv |-> @.priv \ (ws \cup tried), opt |-> @.opt \ (os \cup ws)]]
      BY <2>3, Zenon DEF RevokeFails
    <3>2. pc = "revoke" /\ pc' = pc
      BY <2>3 DEF RevokeFails
    <3>3. QED
      BY <3>1, <3>2 DEF Within, TypeOK, Grant
  <2>4. QED
    BY <1>7, <2>1, <2>2, <2>3
<1>8. CASE Save \/ SaveConflict \/ Crash
  BY <1>8 DEF Save, SaveConflict, Crash, Forget, NoGrants, None
<1>9. ASSUME NEW t \in Targets, RevokeTarget(t) \/ RevokeGone(t) \/ RevokeFails(t)
      PROVE Reserved' \subseteq Reserved
  BY <1>7, <1>9 DEF Within
<1>10. CASE Environment \/ CacheSync \/ UNCHANGED vars
  BY <1>1, <1>10
<1>11. QED
  BY <1>2, <1>3, <1>4, <1>5, <1>6, <1>8, <1>9, <1>10 DEF Next, Controller, Faults

\* Every step keeps the room: the ledger is only written from what is reserved.
LEMMA NextRoom == TypeOK /\ TypeOK' /\ RoomInv /\ [Next]_vars => RoomInv'
<1> SUFFICES ASSUME TypeOK, TypeOK', RoomInv, [Next]_vars PROVE RoomInv'
  OBVIOUS
<1>0. Reserved \in SUBSET Targets
  BY DEF Reserved, Entries, TypeOK
<1>1. Fits(Reserved')
  BY <1>0, BeginRoom, ReservedShrinks, FitsWithin DEF RoomInv
<1>2. Fits(Entries(ledger'))
  <2>1. CASE Persist
    <3>1. Entries(ledger') \subseteq Reserved
      BY <2>1, IntendedReserved DEF Persist, SaveStatus
    <3>2. QED
      BY <1>0, <3>1, FitsWithin DEF RoomInv
  <2>2. CASE Save
    <3>1. Entries(ledger') \subseteq Reserved
      BY <2>2 DEF Save, Reserved
    <3>2. QED
      BY <1>0, <3>1, FitsWithin DEF RoomInv
  <2>3. CASE ~Persist /\ ~Save
    <3>1. ledger' = ledger
      BY <2>3 DEF Next, Controller, Faults, Environment, CacheSync, EditSpec, ChangePolicy,
           DBARevoke, PassOn, DBAGrant, DropGrantee, CreateGrantee, Begin, PlanDone,
           PersistConflict, GrantDone, RevokeDone, SaveConflict, PlanTarget, GrantTarget,
           GrantGone, RevokeTarget, RevokeGone, Crash, PlanFails, GrantFails, RevokeFails, vars, api
    <3>2. QED
      BY <3>1 DEF RoomInv
  <2>4. QED
    BY <2>1, <2>2, <2>3
<1>3. Fits(Entries(cache'.ledger))
  <2>1. CASE CacheSync
    BY <2>1 DEF CacheSync, RoomInv
  <2>2. CASE ~CacheSync
    <3>1. cache' = cache
      BY <2>2 DEF Next, Controller, Faults, Environment, EditSpec, ChangePolicy, DBARevoke,
           PassOn, DBAGrant, DropGrantee, CreateGrantee, Begin, PlanDone, Persist,
           PersistConflict, GrantDone, RevokeDone, Save, SaveConflict, PlanTarget, GrantTarget,
           GrantGone, RevokeTarget, RevokeGone, Crash, PlanFails, GrantFails, RevokeFails, vars
    <3>2. QED
      BY <3>1 DEF RoomInv
  <2>3. QED
    BY <2>1, <2>2
<1>4. Entries(ledger)' = Entries(ledger') /\ Entries(cache.ledger)' = Entries(cache'.ledger)
  BY DEF Entries
<1>5. QED
  BY <1>1, <1>2, <1>3, <1>4 DEF RoomInv, Fits

\* The ledger never outgrows its status field, whatever fails, crashes or
\* conflicts: the one count at the start of applyPrivilegeGrants is enough,
\* for every limit and any number of targets.
THEOREM LedgerLimited == Spec => []LedgerWithinLimit
<1>1. RoomInv => LedgerWithinLimit
  BY DEF RoomInv, Fits, LedgerWithinLimit
<1>2. QED
  BY <1>1, InitRoom, NextRoom, TypeCorrect, PTL DEF Spec
-----------------------------------------------------------------------------
(* No REVOKE cascades to what pgop did not make possible. *)

\* The step that NoForeignCascade allows.
OwnCascade ==
  pc = "revoke" /\ todo' # todo =>
    \A t \in Targets : passed[t] \ passed'[t] \subseteq tracked[t].opt

\* Every step is one: privileges without pgop's grant option are revoked
\* without CASCADE, and those passed on are left alone.
LEMMA NextOwnCascade == TypeOK /\ [Next]_vars => [OwnCascade]_vars
<1> SUFFICES ASSUME TypeOK, Next PROVE OwnCascade
  BY DEF OwnCascade, vars
<1>1. ASSUME NEW t \in Targets, NEW os, NEW ps, Revoked(t, os, ps),
             (os \cup ps) \cap passed[t] \subseteq tracked[t].opt
      PROVE  OwnCascade
  BY <1>1 DEF Revoked, OwnCascade, TypeOK
<1>2. ASSUME NEW t \in Targets, RevokeTarget(t) PROVE OwnCascade
  <2> DEFINE revoked == Removed(t) \ (Plain(t) \cap passed[t])
  <2>1. Revoked(t, OptionOnly(t), revoked)
    BY <1>2 DEF RevokeTarget
  <2>2. (OptionOnly(t) \cup revoked) \cap passed[t] \subseteq tracked[t].opt
    BY DEF OptionOnly, Plain, WithOption
  <2>3. QED
    BY <1>1, <2>1, <2>2
<1>3. ASSUME NEW t \in Targets, RevokeFails(t) PROVE OwnCascade
  <2>1. PICK os \in {{}, OptionOnly(t)}, ws \in {{}, WithOption(t)}, tried \in SUBSET Plain(t) :
          Revoked(t, os, ws \cup (tried \ (tried \cap passed[t])))
    BY <1>3, Zenon DEF RevokeFails
  <2>2. (os \cup (ws \cup (tried \ (tried \cap passed[t])))) \cap passed[t] \subseteq tracked[t].opt
    BY DEF OptionOnly, WithOption
  <2>3. QED
    BY <1>1, <2>1, <2>2
<1>4. CASE ~\E t \in Targets : RevokeTarget(t) \/ RevokeFails(t)
  <2>1. pc # "revoke" \/ todo' = todo \/ passed' = passed
    BY <1>4 DEF Next, Controller, Faults, Environment, CacheSync, EditSpec, ChangePolicy,
         DBARevoke, PassOn, DBAGrant, DropGrantee, CreateGrantee, Begin, PlanDone, Persist,
         PersistConflict, GrantDone, RevokeDone, Save, SaveConflict, PlanTarget, GrantTarget,
         GrantGone, RevokeGone, Crash, PlanFails, GrantFails, server, local
  <2>2. QED
    BY <2>1 DEF OwnCascade
<1>5. QED
  BY <1>2, <1>3, <1>4

\* What a grantee passed on is taken away by a REVOKE of pgop only where the
\* ledger records that pgop gave the grant option: revokeRemoved, for any
\* mixture of privileges, failures and passed-on grants.
THEOREM CascadesOwn == Spec => NoForeignCascade
<1>1. TypeOK /\ [Next]_vars => [OwnCascade]_vars
  BY NextOwnCascade
<1>2. QED
  BY <1>1, TypeCorrect, PTL DEF Spec, NoForeignCascade, OwnCascade
-----------------------------------------------------------------------------
(* The ledger implements the abstract intent log. *)

\* Unless its status write is bound to conflict, the reconcile works from the
\* durable ledger: until it revokes its own ledger is that one, and from then
\* on it only shrinks.
WorksFromLedger ==
  pc # "idle" /\ lrv = rv =>
    /\ \A t \in Targets : Within(tracked[t], ledger[t])
    /\ pc \in {"plan", "persist", "grant"} => tracked = ledger

\* Nothing runs at first.
LEMMA InitWorks == Init => WorksFromLedger
  BY DEF Init, WorksFromLedger

\* Begin reads the version it will write against; only Persist and Save write.
LEMMA NextWorks == IInv /\ WorksFromLedger /\ [Next]_vars => WorksFromLedger'
<1> SUFFICES ASSUME IInv, WorksFromLedger, [Next]_vars PROVE WorksFromLedger'
  OBVIOUS
<1> USE DEF IInv, WorksFromLedger, Within
<1>1. ASSUME NEW t \in Targets, NEW g \in Declarable, EditSpec(t, g) PROVE WorksFromLedger'
  BY <1>1 DEF EditSpec, local, Versions, TypeOK
<1>2. CASE Begin
  BY <1>2 DEF Begin, api, Versions
<1>3. CASE Persist
  BY <1>3 DEF Persist, SaveStatus
<1>4. ASSUME NEW t \in Targets, RevokeTarget(t) PROVE WorksFromLedger'
  BY <1>4 DEF RevokeTarget, api, TypeOK, Grant
<1>5. ASSUME NEW t \in Targets, RevokeGone(t) PROVE WorksFromLedger'
  BY <1>5 DEF RevokeGone, api, TypeOK, Grant, None
<1>6. ASSUME NEW t \in Targets, RevokeFails(t) PROVE WorksFromLedger'
  <2>1. PICK os \in {{}, OptionOnly(t)}, ws \in {{}, WithOption(t)}, tried \in SUBSET Plain(t) :
          tracked' = [tracked EXCEPT ![t] =
                        [priv |-> @.priv \ (ws \cup tried), opt |-> @.opt \ (os \cup ws)]]
    BY <1>6, Zenon DEF RevokeFails
  <2>2. pc = "revoke" /\ UNCHANGED <<ledger, rv, lrv, pc>>
    BY <1>6 DEF RevokeFails, api
  <2>3. QED
    BY <2>1, <2>2 DEF TypeOK, Grant
<1>7. CASE Save \/ SaveConflict \/ Crash
  BY <1>7 DEF Save, SaveConflict, Crash
<1>8. CASE UNCHANGED <<ledger, rv, lrv, pc, tracked>>
  BY <1>8
<1>9. ASSUME NEW t \in Targets, PlanTarget(t) \/ PlanFails(t) \/ GrantTarget(t) \/ GrantGone(t) \/ GrantFails(t)
      PROVE UNCHANGED <<ledger, rv, lrv, pc, tracked>>
  BY <1>9 DEF PlanTarget, PlanFails, GrantTarget, GrantGone, GrantFails, api
<1>10. ASSUME PlanDone \/ PersistConflict \/ GrantDone \/ RevokeDone PROVE WorksFromLedger'
  BY <1>10 DEF PlanDone, PersistConflict, GrantDone, RevokeDone, api
<1>11. ASSUME NEW t \in Targets, NEW p \in Privs, NEW w \in BOOLEAN,
              DBARevoke(t, p) \/ PassOn(t, p) \/ DBAGrant(t, p, w)
       PROVE UNCHANGED <<ledger, rv, lrv, pc, tracked>>
  BY <1>11 DEF DBARevoke, PassOn, DBAGrant, api, local
<1>12. ASSUME NEW t \in Targets, ChangePolicy(t) \/ DropGrantee(t) \/ CreateGrantee(t)
       PROVE UNCHANGED <<ledger, rv, lrv, pc, tracked>>
  BY <1>12 DEF ChangePolicy, DropGrantee, CreateGrantee, api, local
<1>13. ASSUME CacheSync \/ UNCHANGED vars PROVE UNCHANGED <<ledger, rv, lrv, pc, tracked>>
  BY <1>13 DEF CacheSync, vars, api, local
<1>14. QED
  BY <1>1, <1>2, <1>3, <1>4, <1>5, <1>6, <1>7, <1>8, <1>9, <1>10, <1>11, <1>12, <1>13
  DEF Next, Controller, Faults, Environment

\* The items of a ledger within another are among the other's.
LEMMA RecordedMonotone ==
  ASSUME NEW a \in [Targets -> Grant], NEW b \in [Targets -> Grant],
         \A t \in Targets : Within(a[t], b[t])
  PROVE Recorded(a) \subseteq Recorded(b) /\ Recorded(b) \subseteq LedgerItems
<1>1. \A i \in LedgerItems : i.target \in Targets
  BY DEF LedgerItems
<1>2. QED
  BY <1>1 DEF Recorded, Within

\* What the steps do to the durable ledger and to the grants, in the terms of
\* the abstract log: a step changes at most one of them.
LEMMA StepKinds ==
  ASSUME IInv, IInv', WorksFromLedger, [Next]_vars
  PROVE  \/ UNCHANGED <<ledger, added>>
         \/ UNCHANGED ledger /\ \A t \in Targets : Within(added'[t], added[t])
         \/ UNCHANGED ledger /\ \A t \in Targets : Within(added[t], added'[t])
         \/ UNCHANGED added /\ \A t \in Targets : Within(ledger[t], ledger'[t])
         \/ UNCHANGED added /\ \A t \in Targets : Within(ledger'[t], ledger[t])
<1> DEFINE Down == UNCHANGED ledger /\ \A t \in Targets : Within(added'[t], added[t])
           Up   == UNCHANGED ledger /\ \A t \in Targets : Within(added[t], added'[t])
           More == UNCHANGED added /\ \A t \in Targets : Within(ledger[t], ledger'[t])
           Less == UNCHANGED added /\ \A t \in Targets : Within(ledger'[t], ledger[t])
<1> USE DEF IInv, Within
<1>1. ASSUME NEW t \in Targets, NEW p \in Privs, DBARevoke(t, p) PROVE Down
  BY <1>1 DEF DBARevoke, Minus, api, TypeOK, Grant
<1>2. ASSUME NEW t \in Targets, DropGrantee(t) PROVE Down
  BY <1>2 DEF DropGrantee, api, TypeOK, Grant, None
<1>3. ASSUME NEW t \in Targets, RevokeTarget(t) PROVE Down
  BY <1>3 DEF RevokeTarget, api, TypeOK, Grant
<1>4. ASSUME NEW t \in Targets, RevokeFails(t) PROVE Down
  <2>1. PICK ps, os : added' = [added EXCEPT ![t] = [priv |-> @.priv \ ps, opt |-> @.opt \ os]]
    BY <1>4, Zenon DEF RevokeFails
  <2>2. QED
    BY <1>4, <2>1 DEF RevokeFails, api, TypeOK, Grant
<1>5. ASSUME NEW t \in Targets, NEW g \in Grant, Granted(t, g), UNCHANGED ledger PROVE Up
  BY <1>5 DEF Granted, Merge, TypeOK, Grant
<1>6. ASSUME NEW t \in Targets, GrantTarget(t) PROVE Up
  BY <1>5, <1>6 DEF GrantTarget, TypeOK, api
<1>7. ASSUME NEW t \in Targets, GrantFails(t) PROVE Up
  <2>1. [priv |-> {}, opt |-> plan[t].opt] \in Grant /\ UNCHANGED ledger
    BY <1>7 DEF GrantFails, TypeOK, Grant, api
  <2>2. CASE UNCHANGED <<held, added>>
    BY <2>1, <2>2
  <2>3. CASE Granted(t, [priv |-> {}, opt |-> plan[t].opt])
    BY <1>5, <2>1, <2>3
  <2>4. QED
    BY <1>7, <2>2, <2>3 DEF GrantFails
<1>8. CASE Persist
  BY <1>8 DEF Persist, SaveStatus, Intended, Merge, WorksFromLedger, ghosts
<1>9. CASE Save
  BY <1>9 DEF Save, WorksFromLedger, ghosts
<1>10a. ASSUME NEW t \in Targets, NEW g \in Declarable, EditSpec(t, g)
        PROVE UNCHANGED <<ledger, added>>
  BY <1>10a DEF EditSpec, ghosts
<1>10b. ASSUME NEW t \in Targets, NEW p \in Privs, PassOn(t, p)
        PROVE UNCHANGED <<ledger, added>>
  BY <1>10b DEF PassOn, api, ghosts
<1>10c. ASSUME NEW t \in Targets, NEW p \in Privs, NEW w \in BOOLEAN, DBAGrant(t, p, w)
        PROVE UNCHANGED <<ledger, added>>
  BY <1>10c DEF DBAGrant, api
<1>11. ASSUME NEW t \in Targets, ChangePolicy(t) \/ CreateGrantee(t) \/ PlanTarget(t) \/ PlanFails(t)
                                 \/ GrantGone(t) \/ RevokeGone(t)
       PROVE UNCHANGED <<ledger, added>>
  BY <1>11 DEF ChangePolicy, CreateGrantee, PlanTarget, PlanFails, GrantGone, RevokeGone, api, ghosts
<1>12. ASSUME Begin \/ PlanDone \/ PersistConflict \/ GrantDone \/ RevokeDone \/ SaveConflict \/ Crash
              \/ CacheSync \/ UNCHANGED vars
       PROVE UNCHANGED <<ledger, added>>
  BY <1>12 DEF Begin, PlanDone, PersistConflict, GrantDone, RevokeDone, SaveConflict, Crash, CacheSync,
               vars, api, ghosts
<1>13. QED
  <2> HIDE DEF IInv, Within
  <2>1. QED
    BY <1>1, <1>2, <1>3, <1>4, <1>6, <1>7, <1>8, <1>9, <1>10a, <1>10b, <1>10c,
       <1>11, <1>12
    DEF Next, Controller, Faults, Environment

\* The status ledger of applyPrivilegeGrants implements IntentLog, for every
\* set of targets and privileges: privileges are made only once they are in the
\* durable record and leave the record only when they are gone.
THEOREM LedgerImplementsLog == ASSUME RacyDBA = FALSE PROVE Spec => ImplementsIntentLog
<1>1. Init => Log!Init
  <2> SUFFICES ASSUME Init PROVE Log!Init
    OBVIOUS
  <2>1. \A i \in LedgerItems : i.target \in Targets
    BY DEF LedgerItems
  <2>2. QED
    BY <2>1 DEF Log!Init, Init, Recorded, NoGrants, None
<1>2. ASSUME IInv, IInv', WorksFromLedger, [Next]_vars
      PROVE  [Log!Next]_<<Recorded(ledger), Recorded(added)>>
  <2> DEFINE L == Recorded(ledger)  M == Recorded(added)
  <2>1. /\ ledger \in [Targets -> Grant] /\ ledger' \in [Targets -> Grant]
        /\ added \in [Targets -> Grant] /\ added' \in [Targets -> Grant]
    BY <1>2 DEF IInv, TypeOK
  <2>2. M \subseteq L /\ M' \subseteq L' /\ L \subseteq LedgerItems /\ L' \subseteq LedgerItems
    BY <1>2, <2>1, RecordedMonotone DEF IInv, LedgerCoversGrants, Within
  <2>3. CASE UNCHANGED <<ledger, added>>
    BY <2>3
  <2>4. CASE UNCHANGED ledger /\ \A t \in Targets : Within(added'[t], added[t])
    <3>1. L' = L /\ M' \subseteq M
      BY <2>1, <2>4, RecordedMonotone
    <3>2. QED
      BY <3>1 DEF Log!Next, Log!Withdraw
  <2>5. CASE UNCHANGED ledger /\ \A t \in Targets : Within(added[t], added'[t])
    <3>1. L' = L /\ M \subseteq M'
      BY <2>1, <2>5, RecordedMonotone
    <3>2. QED
      BY <2>2, <3>1 DEF Log!Next, Log!Make
  <2>6. CASE UNCHANGED added /\ \A t \in Targets : Within(ledger[t], ledger'[t])
    <3>1. M' = M /\ L \subseteq L'
      BY <2>1, <2>6, RecordedMonotone
    <3>2. QED
      BY <2>2, <3>1 DEF Log!Next, Log!Announce
  <2>7. CASE UNCHANGED added /\ \A t \in Targets : Within(ledger'[t], ledger[t])
    <3>1. M' = M /\ L' \subseteq L
      BY <2>1, <2>7, RecordedMonotone
    <3>2. QED
      BY <2>2, <3>1 DEF Log!Next, Log!Forget
  <2>8. QED
    BY <1>2, <2>3, <2>4, <2>5, <2>6, <2>7, StepKinds
<1>3. QED
  BY <1>1, <1>2, InitIInv, NextIInv, InitWorks, NextWorks, PTL
  DEF Spec, ImplementsIntentLog, Log!Spec
=============================================================================

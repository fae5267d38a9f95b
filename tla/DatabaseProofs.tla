--------------------------- MODULE DatabaseProofs ---------------------------
(***************************************************************************)
(* Proofs about Database and its extension, for every bound: the state     *)
(* stays well formed and the status knows what pgop took from PUBLIC, no   *)
(* extension script that is not trusted runs where others can write, and   *)
(* pgop drops only databases and extensions of its own.                    *)
(***************************************************************************)
EXTENDS Database, TLAPS

-----------------------------------------------------------------------------
(* The inductive invariant. *)

\* What a reconcile read.
Mys == [spec : Specs, allow : BOOLEAN, paused : BOOLEAN, found : Schemata]

\* The oid of an entry is that of an installation of pgop, or of none that is
\* still there.
OidsOwn == \A s \in {st, w} : s.ext.oid # 0 /\ s.ext.oid = ext.oid => ext.by = "pgop"

\* From the check of the schema to the script the schema stays the superusers',
\* or it was the database owner's and the script is trusted; an update's script
\* never is.  Until CREATE EXTENSION the entry names no installation.
SchemaChecked ==
  /\ pc \in {"intent", "create"} => where = "super" \/ (my.found = "owner" /\ ~Strict(0, my.spec.ver))
  /\ pc = "update" => where = "super"
  /\ pc \in {"schema", "intent", "create"} => w.ext.oid = 0
  /\ pc = "create" => w.ext.created

\* The steps of a reconcile of a Database that is not being deleted, once it
\* has its finalizer.
Working == {"ensure", "database", "comment", "grants", "grant", "revoke", "public", "revoke public",
            "schemas", "ext", "schema", "intent", "create", "update", "drop", "secret", "status"}

\* A decision to go on with an existing database rests on the recorded name.
DecisionRecorded == pc = "database" => decision = "absent" \/ (decision # "none" /\ w.name)

\* What the working copy says was revoked is in the status, which stays as long
\* as the finalizer.
RevokedSaved ==
  /\ pc \in Working => fin /\ (w.revoked => st.revoked)
  /\ pc = "finalizer" /\ fresh => (w.revoked => st.revoked)
  /\ pc = "revoke public" => w.revoked

\* PublicRecorded, for the copy that will be the status.
CopyKnows == Exists /\ w.name /\ default /\ ~public => w.revoked \/ mixed

\* Only a spec that grants to PUBLIC puts PUBLIC into the ledger.
MixedKnown ==
  /\ "both" \in {spec.public, my.spec.public} => mixed
  /\ \A s \in {st, w} : "PUBLIC" \in s.ledger => mixed

\* The finalizer is added to a Database that is still there.
FreshThere == pc = "finalizer" /\ fresh => life # "none"

PublicInv == PublicRecorded /\ DecisionRecorded /\ RevokedSaved /\ CopyKnows /\ MixedKnown
ExtInv == OidsOwn /\ SchemaChecked
IInv == TypeOK /\ FreshThere /\ ExtInv /\ PublicInv
-----------------------------------------------------------------------------
(* The records of the status. *)

\* The status with one field changed.
LEMMA StatusTypes ==
  ASSUME NEW s \in Statuses, NEW e \in Entries, NEW g \in SUBSET Grantees, NEW b \in BOOLEAN
  PROVE  /\ [s EXCEPT !.ext = e] \in Statuses /\ [s EXCEPT !.ledger = g] \in Statuses
         /\ [s EXCEPT !.revoked = b] \in Statuses /\ [s EXCEPT !.app = b] \in Statuses
         /\ [s EXCEPT !.name = b] \in Statuses /\ [s EXCEPT !.ready = b] \in Statuses
  BY DEF Statuses

\* The empty records, and an entry with some fields changed.
LEMMA EntryTypes ==
  /\ NoEntry \in Entries /\ NoStatus \in Statuses /\ NoExt \in Exts
  /\ \A e \in Entries, b \in BOOLEAN, n \in Nat :
       [e EXCEPT !.drop = b] \in Entries /\ [e EXCEPT !.created = b] \in Entries /\ [e EXCEPT !.oid = n] \in Entries
  BY DEF NoEntry, Entries, NoStatus, Statuses, NoExt, Exts, Versions

\* Only the entry of the extension changes.
LEMMA EntryFields ==
  ASSUME w \in Statuses, NEW e \in Entries
  PROVE  LET s == Entry(e) IN
         /\ s \in Statuses /\ s.ext = e
         /\ s.name = w.name /\ s.revoked = w.revoked /\ s.ledger = w.ledger
  BY DEF Entry, Statuses

-----------------------------------------------------------------------------
(* The extension. *)

\* What a step of the rest of the reconcile, of users or of a DBA does about
\* the extension: nothing, or the database goes with it or is new.
ExtFrame ==
  /\ UNCHANGED extVars \/ ExtGone \/ ExtFresh
  /\ {st'.ext, w'.ext} \subseteq {st.ext, w.ext, NoEntry}
  /\ pc' \notin {"schema", "intent", "create", "update"} \/ UNCHANGED <<extVars, pc, my, w>>

\* Such a step keeps what is known about the extension.
LEMMA ExtFrameKeeps ==
  ASSUME ExtTypeOK, ExtInv, ExtFrame
  PROVE  ExtTypeOK' /\ ExtInv'
<1>1. NoEntry \in Entries /\ NoEntry.oid = 0 /\ NoExt \in Exts /\ NoExt.oid = 0
  BY EntryTypes DEF NoEntry, NoExt
<1>2. ExtTypeOK'
  <2>1. oids' = oids /\ oids \in Nat
    BY DEF ExtFrame, ExtGone, ExtFresh, extVars, ExtTypeOK
  <2>2. \A s \in {st', w'} : s.ext \in Entries /\ s.ext.oid \in 0..oids /\ (s.ext.oid # 0 => s.ext.created)
    BY <1>1, <2>1 DEF ExtTypeOK, ExtFrame
  <2>3. CASE UNCHANGED extVars
    BY <2>1, <2>2, <2>3, Zenon DEF ExtTypeOK, extVars, Installed
  <2>4. CASE ExtGone \/ ExtFresh
    <3>1. where' \in Schemata
      BY <2>4 DEF ExtGone, ExtFresh, Schemata
    <3>2. QED
      BY <1>1, <2>1, <2>2, <2>4, <3>1, Zenon DEF ExtTypeOK, ExtGone, ExtFresh, Installed
  <2>5. QED
    BY <2>3, <2>4 DEF ExtFrame
<1>3. OidsOwn'
  BY <1>1 DEF ExtInv, OidsOwn, ExtFrame, ExtGone, ExtFresh, extVars
<1>4. SchemaChecked'
  BY DEF ExtInv, SchemaChecked, ExtFrame, extVars
<1>5. QED
  BY <1>2, <1>3, <1>4 DEF ExtInv

\* The users' steps leave the extension alone.
LEMMA UsersFrame ==
  ASSUME TypeOK, (\E s \in Specs : EditSpec(s)) \/ DeleteDatabase \/ EditOthers \/ RoleController
  PROVE  ExtFrame
<1>1. UNCHANGED <<extVars, pc, my, w>> /\ st' \in {st, NoStatus}
  BY DEF EditSpec, DeleteDatabase, EditOthers, RoleController, RevokeRole, DropRole, UserQuiet, ReconcileVars
<1>2. QED
  BY <1>1 DEF ExtFrame, NoStatus, extVars

\* The same for what a DBA does to the database.
LEMMA OutsideFrame ==
  ASSUME TypeOK, OutsideDatabase
  PROVE  ExtFrame
<1>1. UNCHANGED <<st, pc, my, w>> /\ (UNCHANGED extVars \/ ((ExtGone \/ ExtFresh) /\ pc \in {"idle", "database", "comment", "grant", "schemas"}))
  BY DEF OutsideDatabase, OutsideQuiet, ReconcileVars, Fresh, At
<1>2. QED
  BY <1>1 DEF ExtFrame, extVars

\* And for the steps of the reconcile up to the extensions, and after them.
LEMMA ReconcileFrame ==
  ASSUME TypeOK, Reconcile \/ Fail \/ Crash, ~Extensions, ~UpdateStatus
  PROVE  ExtFrame
<1>1. pc' \notin {"schema", "intent", "create", "update"}
  BY DEF Reconcile, Begin, AddFinalizer, DecideOwnership, EnsureDatabase, MarkDatabase, RecordGrants, Grant, Revoke,
     LeavePublic, RecordPublic, RevokePublic, Schemas, DatabaseGone, DropDatabase, Release, Fail, Crash, Go
<1>2. UNCHANGED extVars \/ ExtGone \/ ExtFresh
  BY DEF Reconcile, Begin, AddFinalizer, DecideOwnership, EnsureDatabase, MarkDatabase, RecordGrants, Grant, Revoke,
     LeavePublic, RecordPublic, RevokePublic, Schemas, DatabaseGone, DropDatabase, Release, Fail, Crash, Local, Fresh
<1>3. w \in Statuses /\ st \in Statuses /\ NoStatus.ext = NoEntry
  BY DEF TypeOK, NoStatus
<1>4. CASE Begin \/ AddFinalizer \/ DecideOwnership \/ MarkDatabase \/ Grant \/ RevokePublic \/ DatabaseGone
           \/ DropDatabase \/ Fail
  <2>1. w' \in {w, st} /\ st' = st
    BY <1>4 DEF Begin, AddFinalizer, DecideOwnership, MarkDatabase, Grant, RevokePublic, DatabaseGone, DropDatabase,
       Fail, Local
  <2>2. QED
    BY <1>1, <1>2, <2>1 DEF ExtFrame
<1>5. CASE Release \/ Crash
  <2>1. w' = NoStatus /\ st' \in {st, NoStatus}
    BY <1>5 DEF Release, Crash, Stop
  <2>2. QED
    BY <1>1, <1>2, <1>3, <2>1 DEF ExtFrame
<1>6. CASE EnsureDatabase \/ Revoke \/ LeavePublic \/ Schemas
  <2>1. w'.ext = w.ext /\ st' = st
    BY <1>3, <1>6 DEF EnsureDatabase, Revoke, LeavePublic, Schemas, Statuses
  <2>2. QED
    BY <1>1, <1>2, <2>1 DEF ExtFrame
<1>7. CASE RecordGrants \/ RecordPublic
  <2>1. w'.ext = w.ext /\ st'.ext \in {st.ext, w.ext}
    BY <1>3, <1>7 DEF RecordGrants, RecordPublic, Save, Statuses
  <2>2. QED
    BY <1>1, <1>2, <2>1 DEF ExtFrame
<1>8. QED
  BY <1>4, <1>5, <1>6, <1>7 DEF Reconcile
\* The status update remembers which installation is due, for the properties;
\* nothing else of it changes.
LEMMA UpdateKeepsInstalled ==
  ASSUME TypeOK, UpdateStatus
  PROVE  /\ ext' \in Exts /\ ext'.oid = ext.oid /\ ext'.ver = ext.ver /\ ext'.by = ext.by
         /\ ext = NoExt => ext' = NoExt
<1> DEFINE due == IF fresh /\ my.spec.ext # "no" THEN Mine(w.ext) /\ w.ext.drop ELSE ext.due
<1>0. w \in Statuses /\ ext \in Exts
  BY DEF TypeOK, ExtTypeOK
<1>1. ext' = [ext EXCEPT !.due = due]
  BY DEF UpdateStatus
<1>2. due \in BOOLEAN
  <2>1. w.ext \in Entries
    BY <1>0 DEF Statuses
  <2>2. ext.due \in BOOLEAN /\ w.ext.drop \in BOOLEAN /\ w.ext.created \in BOOLEAN
    BY <1>0, <2>1 DEF Exts, Entries
  <2>3. QED
    BY <2>2, Zenon DEF Mine
<1>3. ext = NoExt => due = FALSE
  BY DEF Mine, NoExt
<1> HIDE DEF due
<1>4. ext' \in Exts /\ ext'.oid = ext.oid /\ ext'.ver = ext.ver /\ ext'.by = ext.by
  BY <1>0, <1>1, <1>2 DEF Exts
<1>5. ext = NoExt => ext'.due = FALSE /\ ext'.elsewhere = ext.elsewhere
  BY <1>0, <1>1, <1>3 DEF Exts
<1>6. \A a \in Exts : a.oid = 0 /\ a.ver = 0 /\ a.by = "nobody" /\ a.elsewhere = FALSE /\ a.due = FALSE => a = NoExt
  BY DEF Exts, NoExt
<1>7. ext = NoExt => ext.oid = 0 /\ ext.ver = 0 /\ ext.by = "nobody" /\ ext.elsewhere = FALSE
  BY DEF NoExt
<1>8. QED
  BY <1>4, <1>5, <1>6, <1>7

\* So it keeps what is known about the extension.
LEMMA UpdateKeepsExt ==
  ASSUME TypeOK, ExtInv, UpdateStatus
  PROVE  ExtTypeOK' /\ ExtInv'
<1>0. ExtTypeOK /\ w \in Statuses /\ st \in Statuses /\ oids \in Nat /\ UNCHANGED <<where, needed, oids>> /\ pc' = "idle"
  BY DEF TypeOK, ExtTypeOK, UpdateStatus, Go
<1>1. /\ ext' \in Exts /\ ext'.oid = ext.oid /\ ext'.ver = ext.ver /\ ext'.by = ext.by
      /\ ext = NoExt => ext' = NoExt
  BY UpdateKeepsInstalled
<1>2. NoStatus.ext = NoEntry /\ NoEntry.oid = 0 /\ NoEntry \in Entries
  BY EntryTypes DEF NoStatus, NoEntry
<1>3. w' = NoStatus /\ st'.ext \in {st.ext, w.ext}
  BY <1>0 DEF UpdateStatus, Stop, Statuses
<1>4. ext # NoExt => ext' # NoExt
  BY <1>0, <1>1 DEF ExtTypeOK, NoExt
<1>5. \A s \in {st', w'} : s.ext \in Entries /\ s.ext.oid \in 0..oids /\ (s.ext.oid # 0 => s.ext.created)
  BY <1>0, <1>2, <1>3 DEF ExtTypeOK
<1>6. ExtTypeOK'
  BY <1>0, <1>1, <1>4, <1>5, Zenon DEF ExtTypeOK, Installed
<1>7. ExtInv'
  BY <1>0, <1>1, <1>2, <1>3 DEF ExtInv, OidsOwn, SchemaChecked
<1>8. QED
  BY <1>6, <1>7

\* What someone else installs gets an oid that no entry has.
LEMMA OutsideKeepsExt ==
  ASSUME ExtTypeOK, ExtInv, OutsideExtension
  PROVE  ExtTypeOK' /\ ExtInv'
<1>0. UNCHANGED <<st, pc, my, w>> /\ oids \in Nat /\ NoExt \in Exts /\ NoExt.oid = 0
  BY EntryTypes DEF OutsideExtension, ReconcileVars, ExtTypeOK, NoExt
<1>1. CASE Installed /\ ext' = NoExt /\ needed' = FALSE /\ UNCHANGED <<where, oids>>
  <2>1. ExtTypeOK'
    BY <1>0, <1>1, Zenon DEF ExtTypeOK, Installed
  <2>2. QED
    BY <1>0, <1>1, <2>1 DEF ExtInv, OidsOwn, SchemaChecked
<1>2. ASSUME ~Installed, oids' = oids + 1, UNCHANGED <<where, needed>>, NEW e \in BOOLEAN,
             ext' = [oid |-> oids + 1, ver |-> 1, by |-> "dba", elsewhere |-> e, due |-> FALSE]
      PROVE  ExtTypeOK' /\ ExtInv'
  <2>1. ext' \in Exts /\ ext'.oid \in 1..oids' /\ ext'.ver \in Versions /\ ext'.by # "nobody" /\ oids' \in Nat
    BY <1>0, <1>2 DEF Exts, Versions
  <2>2. \A s \in {st', w'} : s.ext \in Entries /\ s.ext.oid \in 0..oids' /\ (s.ext.oid # 0 => s.ext.created)
    BY <1>0, <1>2 DEF ExtTypeOK, Entries
  <2>3. needed' = FALSE
    BY <1>2, Zenon DEF ExtTypeOK
  <2>4. ExtTypeOK'
    BY <1>0, <1>2, <2>1, <2>2, <2>3, Zenon DEF ExtTypeOK
  <2>5. \A s \in {st, w} : s.ext.oid # ext'.oid
    BY <1>0, <1>2 DEF ExtTypeOK, Entries
  <2>6. ExtInv'
    BY <1>0, <1>2, <2>5 DEF ExtInv, OidsOwn, SchemaChecked
  <2>7. QED
    BY <2>4, <2>6
<1>3. CASE Installed /\ needed' = ~needed /\ UNCHANGED <<ext, where, oids>>
  <2>1. ExtTypeOK'
    BY <1>0, <1>3, Zenon DEF ExtTypeOK, Installed
  <2>2. QED
    BY <1>0, <1>3, <2>1 DEF ExtInv, OidsOwn, SchemaChecked
<1>4. ASSUME where # "super", where' \in Schemata, UNCHANGED oids,
             UNCHANGED <<ext, needed>> \/ (ext' = NoExt /\ needed' = FALSE)
      PROVE  ExtTypeOK' /\ ExtInv'
  <2>1. /\ where' \in Schemata /\ oids' \in Nat
        /\ \A s \in {st', w'} : s.ext \in Entries /\ s.ext.oid \in 0..oids' /\ (s.ext.oid # 0 => s.ext.created)
    BY <1>0, <1>4 DEF ExtTypeOK
  <2>2. ASSUME UNCHANGED <<ext, needed>> PROVE ExtTypeOK'
    <3>1. /\ needed' \in BOOLEAN /\ (needed' => Installed')
          /\ ext' \in Exts /\ (ext' = NoExt \/ (ext'.oid \in 1..oids' /\ ext'.ver \in Versions /\ ext'.by # "nobody"))
      BY <1>4, <2>2, Zenon DEF ExtTypeOK, Installed
    <3>2. QED
      BY <2>1, <3>1, Zenon DEF ExtTypeOK
  <2>3. ASSUME ext' = NoExt, needed' = FALSE PROVE ExtTypeOK'
    BY <1>0, <2>1, <2>3, Zenon DEF ExtTypeOK, Installed
  <2>4. QED
    BY <1>0, <1>4, <2>2, <2>3 DEF ExtInv, OidsOwn, SchemaChecked
<1>5. CASE where # "super" /\ where' \in {"owner", "open"} \ {where} /\ UNCHANGED <<ext, needed, oids>>
  BY <1>4, <1>5 DEF Schemata
<1>6. CASE /\ where \in {"owner", "open"} /\ where' = "none" /\ UNCHANGED oids
           /\ IF ext.elsewhere THEN UNCHANGED <<ext, needed>> ELSE ext' = NoExt /\ needed' = FALSE
  BY <1>4, <1>6 DEF Schemata
<1>7. QED
  <2>1. \A e \in IF where = "none" THEN {TRUE} ELSE BOOLEAN : e \in BOOLEAN
    BY Zenon
  <2>2. QED
    BY <1>1, <1>2, <1>3, <1>5, <1>6, <2>1 DEF OutsideExtension

\* A step of reconcileExtensions: what is installed, and the entry that comes
\* out, which may be saved.
ExtOutcome(e) ==
  /\ e \in Entries /\ e.oid \in 0..oids' /\ (e.oid # 0 => e.created)
  /\ e.oid # 0 /\ e.oid = ext'.oid => ext'.by = "pgop"
  /\ w' = Entry(e) /\ st' \in {st, w'}

\* The entry before the step is a possible outcome as long as no extension was
\* installed.
LEMMA EntryStays ==
  ASSUME TypeOK, ExtInv, UNCHANGED <<oids, w>>, (ext'.oid = ext.oid /\ ext'.by = ext.by) \/ ext' = NoExt,
         st' \in {st, w}
  PROVE  ExtOutcome(w.ext)
<1>1. w \in Statuses /\ ExtTypeOK /\ OidsOwn
  BY DEF TypeOK, ExtInv
<1>2. w = Entry(w.ext)
  BY <1>1 DEF Entry, Statuses
<1>3. QED
  BY <1>1, <1>2 DEF ExtOutcome, ExtTypeOK, OidsOwn, NoExt

\* Every step of reconcileExtensions has one.
LEMMA ExtensionsOutcome ==
  ASSUME TypeOK, ExtInv, Extensions
  PROVE  \E e : ExtOutcome(e)
<1>0. /\ w \in Statuses /\ st \in Statuses /\ ExtTypeOK /\ OidsOwn /\ oids \in Nat /\ w.ext \in Entries
      /\ w.ext.oid \in 0..oids /\ (w.ext.oid # 0 => w.ext.created) /\ NoEntry \in Entries /\ NoEntry.oid = 0
      /\ w = Entry(w.ext)
  BY EntryTypes DEF TypeOK, ExtTypeOK, ExtInv, NoEntry, Entry, Statuses
<1>1. CASE ExtUnlisted
  BY <1>0, <1>1, EntryStays DEF ExtUnlisted, ExtQuiet, extVars
<1>2. CASE PlanCreate
  <2> DEFINE none == [NoEntry EXCEPT !.drop = my.spec.ext = "drop"]
  <2>1. none \in Entries /\ none.oid = 0
    BY DEF NoEntry, Entries
  <2>2. w' = Entry(none) /\ UNCHANGED <<ext, oids, st>>
    BY <1>2 DEF PlanCreate, Refuse, ExtQuiet, extVars
  <2>3. ExtOutcome(none)
    BY <1>0, <2>1, <2>2 DEF ExtOutcome
  <2>4. QED
    BY <2>3
<1>3. CASE CreateSchema
  <2>1. w' = w /\ UNCHANGED <<ext, oids, st>>
    BY <1>0, <1>3 DEF CreateSchema, Refuse
  <2>2. QED
    BY <2>1, EntryStays
<1>4. CASE RecordIntent
  <2> DEFINE e == [w.ext EXCEPT !.created = TRUE]
  <2>1. e \in Entries /\ e.oid = w.ext.oid /\ e.created
    BY <1>0 DEF Entries
  <2>2. UNCHANGED <<ext, oids>>
    BY <1>4 DEF RecordIntent, extVars
  <2>3. CASE w' = Entry(e) /\ st' = Entry(e)
    <3>1. ExtOutcome(e)
      BY <1>0, <2>1, <2>2, <2>3 DEF ExtOutcome, OidsOwn
    <3>2. QED
      BY <3>1
  <2>4. CASE UNCHANGED <<w, st>>
    BY <2>2, <2>4, EntryStays
  <2>5. QED
    BY <1>4, <2>3, <2>4 DEF RecordIntent, Save
<1>5. ASSUME NEW e \in Entries, e.oid = oids + 1, e.created, w' = Entry(e), UNCHANGED st,
             oids' = oids + 1, ext'.by = "pgop"
      PROVE  ExtOutcome(e)
  BY <1>0, <1>5 DEF ExtOutcome
<1>6. CASE CreateExtension
  <2> DEFINE e == [w.ext EXCEPT !.oid = oids + 1]
  <2>1. e \in Entries /\ e.oid = oids + 1 /\ e.created = w.ext.created
    BY <1>0 DEF Entries
  <2>2. w.ext.created /\ w' = Entry(e) /\ UNCHANGED st /\ oids' = oids + 1 /\ ext'.by = "pgop"
    BY <1>6 DEF CreateExtension, ExtInv, SchemaChecked
  <2>3. QED
    BY <1>5, <2>1, <2>2
<1>7. CASE CreateFails
  <2>1. w.ext.oid = 0 /\ UNCHANGED st
    BY <1>7 DEF CreateFails, ExtInv, SchemaChecked
  <2> DEFINE e == [w.ext EXCEPT !.created = FALSE]
  <2>2. e \in Entries /\ e.oid = 0
    BY <1>0, <2>1 DEF Entries
  <2>3. w' \in {Entry(e), Entry(w.ext)} /\ oids' \in Nat
    BY <1>0, <1>7 DEF CreateFails, Refuse, extVars
  <2>4. ExtOutcome(e) \/ ExtOutcome(w.ext)
    BY <1>0, <2>1, <2>2, <2>3 DEF ExtOutcome
  <2>5. QED
    BY <2>4
<1>8. CASE PlanUpdate \/ UpdateExtension \/ LeaveInstalled
  <2>1. w' = Entry(Listed(w.ext)) /\ UNCHANGED <<oids, st>> /\ ext'.oid = ext.oid /\ ext'.by = ext.by
    BY <1>0, <1>8 DEF PlanUpdate, UpdateExtension, LeaveInstalled, ExtQuiet, extVars, ExtTypeOK, Exts
  <2>2. /\ Listed(w.ext) \in Entries /\ Listed(w.ext).oid \in {0, w.ext.oid}
        /\ Listed(w.ext).oid # 0 => Listed(w.ext).created = w.ext.created
    BY <1>0 DEF Listed, NoEntry, Entries
  <2>3. ExtOutcome(Listed(w.ext))
    BY <1>0, <2>1, <2>2 DEF ExtOutcome, OidsOwn
  <2>4. QED
    BY <2>3
<1>9. CASE DropRemoved
  <2>1. (w' = w \/ w' = Entry(NoEntry)) /\ UNCHANGED <<oids, st>> /\ ext' \in {ext, NoExt}
    BY <1>0, <1>9 DEF DropRemoved, Refuse
  <2>2. CASE w' = w
    BY <2>1, <2>2, EntryStays
  <2>3. CASE w' = Entry(NoEntry)
    <3>1. ExtOutcome(NoEntry)
      BY <1>0, <2>1, <2>3 DEF ExtOutcome
    <3>2. QED
      BY <3>1
  <2>4. QED
    BY <2>1, <2>2, <2>3
<1>10. CASE UpdateGone
  BY <1>0, <1>10, EntryStays DEF UpdateGone, ExtQuiet, extVars
<1>11. QED
  BY <1>1, <1>2, <1>3, <1>4, <1>6, <1>7, <1>8, <1>9, <1>10 DEF Extensions, ReconcileExtensions
\* What is installed is well formed after such a step, and the schema is
\* checked.
LEMMA ExtensionsInstall ==
  ASSUME TypeOK, ExtInv, Extensions
  PROVE  /\ oids' \in Nat /\ oids <= oids' /\ needed' \in BOOLEAN /\ (needed' => Installed')
         /\ ext' \in Exts /\ (ext' = NoExt \/ (ext'.oid \in 1..oids' /\ ext'.ver \in Versions /\ ext'.by # "nobody"))
         /\ where' \in Schemata /\ SchemaChecked'
<1>0. /\ w \in Statuses /\ ExtTypeOK /\ SchemaChecked /\ oids \in Nat /\ w.ext \in Entries /\ NoExt \in Exts
      /\ my \in Mys /\ my.spec \in Specs /\ my.spec.ver \in Versions
      /\ \A s : [my EXCEPT !.found = s].found = s /\ [my EXCEPT !.found = s].spec = my.spec
  BY EntryTypes DEF TypeOK, ExtTypeOK, ExtInv, Statuses, Specs, Mys
<1>1. oids <= oids
  BY <1>0
<1>2. ASSUME UNCHANGED <<ext, needed, oids>>, where' \in {where, "super"}
      PROVE  /\ oids' \in Nat /\ oids <= oids' /\ needed' \in BOOLEAN /\ (needed' => Installed')
             /\ ext' \in Exts /\ (ext' = NoExt \/ (ext'.oid \in 1..oids' /\ ext'.ver \in Versions /\ ext'.by # "nobody"))
             /\ where' \in Schemata
  <2>1. where' \in Schemata
    BY <1>0, <1>2 DEF ExtTypeOK, Schemata
  <2>2. QED
    BY <1>0, <1>1, <1>2, <2>1, Zenon DEF ExtTypeOK, Installed
<1>3. CASE ExtUnlisted \/ LeaveInstalled \/ UpdateGone
  <2>1. UNCHANGED extVars /\ pc' = "drop"
    BY <1>3 DEF ExtUnlisted, LeaveInstalled, UpdateGone, ExtQuiet, ExtStep, ExtCheck
  <2>2. QED
    BY <1>2, <2>1 DEF extVars, SchemaChecked
<1>4. CASE PlanCreate
  <2>1. UNCHANGED extVars /\ w'.ext = [NoEntry EXCEPT !.drop = my.spec.ext = "drop"]
    BY <1>0, <1>4 DEF PlanCreate, ExtQuiet, Refuse, Entry, Statuses
  <2>2. w'.ext.oid = 0
    BY <2>1 DEF NoEntry
  <2>3. /\ pc' \in {"schema", "intent", "drop"}
        /\ pc' = "intent" => where = "super" \/ (my'.found = "owner" /\ ~Strict(0, my'.spec.ver))
    BY <1>0, <1>4 DEF PlanCreate, ExtStep, ExtCheck, Acceptable
  <2>4. QED
    BY <1>2, <2>1, <2>2, <2>3 DEF extVars, SchemaChecked
<1>5. CASE CreateSchema
  <2>1. UNCHANGED <<ext, needed, oids>> /\ w'.ext = w.ext /\ where' \in {where, "super"}
    BY <1>0, <1>5 DEF CreateSchema, Refuse, Entry, Statuses
  <2>2. /\ pc = "schema" /\ pc' \in {"intent", "drop"}
        /\ pc' = "intent" => where' = "super" \/ (my'.found = "owner" /\ ~Strict(0, my'.spec.ver))
    BY <1>0, <1>5 DEF CreateSchema, ExtStep, ExtCheck, Acceptable
  <2>3. QED
    BY <1>0, <1>2, <2>1, <2>2 DEF SchemaChecked
<1>6. CASE RecordIntent
  <2>1. UNCHANGED <<extVars, my>> /\ pc = "intent" /\ pc' \in {"create", "drop"}
    BY <1>6 DEF RecordIntent, ExtStep
  <2>2. pc' = "create" => w'.ext.oid = w.ext.oid /\ w'.ext.created
    BY <1>0, <1>6 DEF RecordIntent, ExtStep, Entry, Statuses, Entries
  <2>3. QED
    BY <1>0, <1>2, <2>1, <2>2 DEF extVars, SchemaChecked
<1>7. ASSUME oids' = oids + 1, UNCHANGED <<where, needed>>, ~Installed, pc' = "drop",
             ext' = [oid |-> oids + 1, ver |-> my.spec.ver, by |-> "pgop", elsewhere |-> FALSE, due |-> FALSE]
      PROVE  /\ oids' \in Nat /\ oids <= oids' /\ needed' \in BOOLEAN /\ (needed' => Installed')
             /\ ext' \in Exts /\ (ext' = NoExt \/ (ext'.oid \in 1..oids' /\ ext'.ver \in Versions /\ ext'.by # "nobody"))
             /\ where' \in Schemata /\ SchemaChecked'
  <2>1. oids' \in Nat /\ oids <= oids' /\ ext' \in Exts /\ ext'.oid \in 1..oids' /\ ext'.ver \in Versions /\ ext'.by # "nobody"
    BY <1>0, <1>7 DEF Exts
  <2>2. needed' = FALSE
    BY <1>0, <1>7, Zenon DEF ExtTypeOK
  <2>3. where' \in Schemata /\ SchemaChecked'
    BY <1>0, <1>7 DEF ExtTypeOK, SchemaChecked
  <2>4. QED
    BY <2>1, <2>2, <2>3, Zenon
<1>8. CASE CreateExtension
  BY <1>7, <1>8 DEF CreateExtension, ExtStep
<1>9. CASE CreateFails
  <2>1. CASE UNCHANGED extVars
    BY <1>2, <1>9, <2>1 DEF extVars, CreateFails, ExtStep, SchemaChecked
  <2>2. CASE ~UNCHANGED extVars
    BY <1>7, <1>9, <2>2 DEF CreateFails, ExtStep
  <2>3. QED
    BY <2>1, <2>2
<1>10. CASE UpdateExtension
  <2>1. UNCHANGED <<where, needed, oids>> /\ Installed /\ ext' = [ext EXCEPT !.ver = my.spec.ver] /\ pc' = "drop"
    BY <1>10 DEF UpdateExtension, ExtStep
  <2>2. ext \in Exts /\ ext.oid \in 1..oids /\ ext.by # "nobody"
    BY <1>0, <2>1 DEF ExtTypeOK, Installed
  <2>3. ext' \in Exts /\ ext'.oid \in 1..oids /\ ext'.ver \in Versions /\ ext'.by # "nobody"
    BY <1>0, <2>1, <2>2 DEF Exts
  <2>4. Installed'
    BY <2>3 DEF Installed, NoExt
  <2>5. needed \in BOOLEAN /\ where \in Schemata
    BY <1>0 DEF ExtTypeOK
  <2>6. QED
    BY <1>0, <1>1, <2>1, <2>3, <2>4, <2>5 DEF SchemaChecked
<1>11. CASE DropRemoved
  <2>1. UNCHANGED <<where, oids>> /\ pc' = "secret"
    BY <1>11 DEF DropRemoved, ExtStep, ExtCheck
  <2>2. CASE UNCHANGED <<ext, needed>>
    BY <1>2, <2>1, <2>2 DEF SchemaChecked
  <2>3. CASE ext' = NoExt /\ needed' = needed /\ ~needed
    <3>1. needed' = FALSE
      BY <1>0, <2>3, Zenon DEF ExtTypeOK
    <3>2. where \in Schemata
      BY <1>0 DEF ExtTypeOK
    <3>3. QED
      BY <1>0, <1>1, <2>1, <2>3, <3>1, <3>2 DEF SchemaChecked
  <2>4. QED
    BY <1>11, <2>2, <2>3 DEF DropRemoved
<1>12. CASE PlanUpdate
  <2>1. UNCHANGED extVars /\ pc' = "update" /\ ext # NoExt /\ Acceptable(where, Strict(ext.ver, my.spec.ver))
    BY <1>12 DEF PlanUpdate, Updates, Installed, ExtCheck, ExtQuiet
  <2>2. ext.ver \in {1, 2} /\ my.spec.ver \in {1, 2} /\ my.spec.ver > ext.ver
    BY <1>0, <1>12, <2>1 DEF ExtTypeOK, PlanUpdate, Updates, Versions
  <2>3. Strict(ext.ver, my.spec.ver)
    BY <2>2 DEF Strict, Trusted
  <2>4. where = "super"
    BY <2>1, <2>3 DEF Acceptable
  <2>5. QED
    BY <1>2, <2>1, <2>4 DEF extVars, SchemaChecked
<1>13. QED
  BY <1>3, <1>4, <1>5, <1>6, <1>8, <1>9, <1>10, <1>11, <1>12 DEF Extensions, ReconcileExtensions

\* So reconcileExtensions keeps what is known about the extension.
LEMMA ExtensionsKeepExt ==
  ASSUME TypeOK, ExtInv, Extensions
  PROVE  ExtTypeOK' /\ ExtInv'
<1>0. ExtTypeOK /\ OidsOwn /\ w \in Statuses /\ oids \in Nat
  BY DEF TypeOK, ExtTypeOK, ExtInv
<1>1. PICK e : ExtOutcome(e)
  BY ExtensionsOutcome
<1>2. w'.ext = e
  BY <1>0, <1>1, EntryFields DEF ExtOutcome
<1>3. /\ oids' \in Nat /\ oids <= oids' /\ needed' \in BOOLEAN /\ (needed' => Installed')
      /\ ext' \in Exts /\ (ext' = NoExt \/ (ext'.oid \in 1..oids' /\ ext'.ver \in Versions /\ ext'.by # "nobody"))
      /\ where' \in Schemata /\ SchemaChecked'
  BY ExtensionsInstall
<1>4. \A s \in {st', w'} : s.ext \in Entries /\ s.ext.oid \in 0..oids' /\ (s.ext.oid # 0 => s.ext.created)
  BY <1>0, <1>1, <1>2, <1>3 DEF ExtTypeOK, ExtOutcome
<1>5. ExtTypeOK'
  BY <1>3, <1>4 DEF ExtTypeOK
<1>6. st' = st => (st.ext.oid # 0 /\ st.ext.oid = ext'.oid => ext'.by = "pgop")
  <2>1. (ext'.oid \in {ext.oid, 0} /\ ext'.by \in {ext.by, "nobody"}) \/ ext'.by = "pgop"
    BY <1>0 DEF Extensions, ReconcileExtensions, ExtUnlisted, PlanCreate, CreateSchema, RecordIntent, CreateExtension,
       CreateFails, PlanUpdate, UpdateExtension, UpdateGone, LeaveInstalled, DropRemoved, ExtQuiet, extVars, NoExt, ExtTypeOK, Exts
  <2>2. ext'.by = "nobody" => ext'.oid = 0
    BY <1>3 DEF NoExt
  <2>3. QED
    BY <1>0, <2>1, <2>2 DEF OidsOwn
<1>7. OidsOwn'
  BY <1>1, <1>2, <1>6 DEF OidsOwn, ExtOutcome
<1>8. QED
  BY <1>3, <1>5, <1>7 DEF ExtInv

\* Every step does.
LEMMA NextExt == TypeOK /\ ExtInv /\ [Next]_vars => ExtTypeOK' /\ ExtInv'
<1> SUFFICES ASSUME TypeOK, ExtInv, [Next]_vars PROVE ExtTypeOK' /\ ExtInv'
  OBVIOUS
<1>1. ExtTypeOK
  BY DEF TypeOK
<1>2. CASE UNCHANGED vars
  <2>1. ExtFrame
    BY <1>2 DEF vars, extVars, ReconcileVars, ExtFrame
  <2>2. QED
    BY <1>1, <2>1, ExtFrameKeeps
<1>3. QED
  BY <1>1, <1>2, ExtFrameKeeps, UsersFrame, OutsideFrame, ReconcileFrame, UpdateKeepsExt, OutsideKeepsExt,
     ExtensionsKeepExt DEF Next, Others
-----------------------------------------------------------------------------
(* Types. *)

Flags ==
  /\ public \in BOOLEAN /\ priv \in BOOLEAN /\ fin \in BOOLEAN /\ secret \in BOOLEAN /\ fresh \in BOOLEAN
  /\ problem \in BOOLEAN /\ default \in BOOLEAN /\ mixed \in BOOLEAN /\ allow \in BOOLEAN
Dbs == [by : {"nobody", "pgop", "dba"}, mark : {"none", "mine", "other"}]
Rest ==
  /\ db \in Dbs /\ (db.by = "nobody" => db = NoDb)
  /\ app \in {"none", "owner", "other"} /\ life \in {"none", "live", "deleting"}
  /\ role \in {"live", "deleting", "gone"} /\ rolePc \in {"idle", "drop"}
  /\ spec \in Specs /\ my \in Mys /\ st \in Statuses /\ w \in Statuses
  /\ pc \in Working \cup {"idle", "finalizer", "drop database", "release"}
  /\ decision \in {"none", "absent", "owned", "remark"}
  /\ edits \in 0..MaxEdits /\ outside \in 0..MaxOutside /\ faults \in 0..MaxFaults
FinThere == fin => life # "none"
Bare == ~Exists => ~public /\ ~priv /\ app = "none" /\ ~Installed /\ where = "none"

\* TypeOK is these and the extension's.
LEMMA TypeParts == TypeOK <=> ExtTypeOK /\ Flags /\ Rest /\ FinThere /\ Bare
<1>1. Flags <=> {public, priv, fin, secret, fresh, problem, default, mixed, allow} \subseteq BOOLEAN
  BY Zenon DEF Flags
<1>2. QED
  BY <1>1 DEF TypeOK, Rest, FinThere, Bare, Working, Dbs, Mys

\* Every step keeps the flags.
LEMMA NextFlags == TypeOK /\ [Next]_vars => Flags'
<1> SUFFICES ASSUME TypeOK, [Next]_vars PROVE Flags'
  OBVIOUS
<1>0. Flags
  BY TypeParts
<1> USE <1>0 DEF Flags
<1>1. ASSUME NEW s \in Specs, EditSpec(s) PROVE Flags'
  BY <1>1, Zenon DEF EditSpec, UserQuiet, pgVars, apiVars
<1>2. CASE DeleteDatabase
  BY <1>2, Zenon DEF DeleteDatabase, pgVars, ghosts
<1>3. CASE EditOthers
  BY <1>3, Zenon DEF EditOthers, UserQuiet, pgVars
<1>4. ASSUME NEW b, Fresh(b) PROVE public' \in BOOLEAN /\ default' \in BOOLEAN /\ priv' \in BOOLEAN
  BY <1>4, Zenon DEF Fresh
<1>5. CASE OutsideDatabase
  <2>1. UNCHANGED <<fin, secret, fresh, problem, mixed, allow>>
    BY <1>5 DEF OutsideDatabase, OutsideQuiet, ReconcileVars, apiVars
  <2>2. public' \in BOOLEAN /\ default' \in BOOLEAN /\ priv' \in BOOLEAN
    BY <1>4, <1>5, Zenon DEF OutsideDatabase
  <2>3. QED
    BY <2>1, <2>2, Zenon
<1>6. CASE OutsideExtension /\ UNCHANGED own
  BY <1>6, Zenon DEF OutsideExtension, ReconcileVars, own, pgVars, apiVars, ghosts
<1>7. CASE RoleController
  BY <1>7, Zenon DEF RoleController, RevokeRole, DropRole, ReconcileVars, pgVars, apiVars, ghosts
<1>8. CASE Begin
  BY <1>8, Zenon DEF Begin, Go, Quiet, pgVars
<1>9. CASE AddFinalizer
  BY <1>9, Zenon DEF AddFinalizer, Go, Quiet, pgVars
<1>10. CASE DecideOwnership
  <2>1. UNCHANGED <<public, priv, fin, secret, fresh, default, mixed, allow>> /\ \E d : problem' = (d = "none")
    BY <1>10 DEF DecideOwnership, Local, Go, Quiet, pgVars
  <2>2. QED
    BY <2>1, Zenon
<1>11. CASE EnsureDatabase
  <2>1. UNCHANGED <<fin, secret, fresh, mixed, allow>> /\ problem' \in {problem, TRUE}
    BY <1>11 DEF EnsureDatabase, Go, Quiet
  <2>2. (\E b : Fresh(b)) \/ UNCHANGED <<public, default, priv>>
    BY <1>11 DEF EnsureDatabase, pgVars
  <2>3. public' \in BOOLEAN /\ default' \in BOOLEAN /\ priv' \in BOOLEAN
    BY <1>4, <2>2, Zenon
  <2>4. QED
    BY <2>1, <2>3, Zenon
<1>12. CASE MarkDatabase
  BY <1>12, Zenon DEF MarkDatabase, Go, Quiet
<1>13. CASE RecordGrants
  <2>1. /\ UNCHANGED <<public, priv, fin, secret, fresh, default, mixed, allow>>
        /\ problem' = ("role" \notin Declared) \/ problem' = TRUE
    BY <1>13 DEF RecordGrants, Save, Go, Quiet, pgVars
  <2>2. QED
    BY <2>1, Zenon
<1>14. CASE Grant \/ Revoke
  BY <1>14, Zenon DEF Grant, Revoke, Go, Quiet
<1>15. CASE LeavePublic
  BY <1>15, Zenon DEF LeavePublic, Go, Quiet
<1>16. CASE RecordPublic
  <2>1. UNCHANGED <<public, priv, fin, secret, fresh, default, mixed, allow>> /\ problem' \in {problem, TRUE}
    BY <1>16 DEF RecordPublic, Save, Go, Quiet, pgVars
  <2>2. QED
    BY <2>1, Zenon
<1>17. CASE RevokePublic \/ DatabaseGone
  BY <1>17, Zenon DEF RevokePublic, DatabaseGone, Local, Go, Quiet, pgVars
<1>18. CASE Schemas
  <2>1. UNCHANGED <<public, priv, fin, secret, fresh, default, mixed, allow>> /\ problem' \in {problem, TRUE}
    BY <1>18 DEF Schemas, Go, Quiet
  <2>2. QED
    BY <2>1, Zenon
<1>19. CASE Extensions
  <2>1. UNCHANGED <<public, priv, fin, secret, default, mixed>>
    BY <1>19 DEF Extensions, own, pgVars, apiVars, ghosts
  <2>2. UNCHANGED <<fresh, allow>>
    BY <1>19 DEF Extensions, ReconcileExtensions, ExtUnlisted, PlanCreate, CreateSchema, RecordIntent, CreateExtension,
       CreateFails, PlanUpdate, UpdateExtension, UpdateGone, LeaveInstalled, DropRemoved, ExtQuiet, ExtStep, ExtCheck, Save
  <2>3. problem' \in {problem, TRUE} \/ LeaveInstalled
    BY <1>19 DEF Extensions, ReconcileExtensions, ExtUnlisted, PlanCreate, CreateSchema, RecordIntent, CreateExtension,
       CreateFails, PlanUpdate, UpdateExtension, UpdateGone, DropRemoved, Refuse
  <2>4. LeaveInstalled => problem' \in BOOLEAN
    BY Zenon DEF LeaveInstalled
  <2>5. QED
    BY <2>1, <2>2, <2>3, <2>4, Zenon
<1>20. CASE UpdateStatus
  BY <1>20, Zenon DEF UpdateStatus, Stop, Go, Quiet, pgVars
<1>21. CASE DropDatabase
  <2>1. UNCHANGED <<fin, secret, fresh, problem, mixed, allow>>
    BY <1>21 DEF DropDatabase, Go, Quiet
  <2>2. Fresh(NoDb) \/ UNCHANGED <<public, default, priv>>
    BY <1>21 DEF DropDatabase, pgVars
  <2>3. public' \in BOOLEAN /\ default' \in BOOLEAN /\ priv' \in BOOLEAN
    BY <1>4, <2>2, Zenon
  <2>4. QED
    BY <2>1, <2>3, Zenon
<1>22. CASE Release
  BY <1>22, Zenon DEF Release, Stop, pgVars, ghosts
<1>23. CASE Fail \/ Crash
  BY <1>23, Zenon DEF Fail, Crash, Local, Stop, Go, Quiet, pgVars
<1>24. CASE UNCHANGED vars
  BY <1>24, Zenon DEF vars, own, ReconcileVars, pgVars, apiVars, ghosts
<1>25. QED
  BY <1>1, <1>2, <1>3, <1>5, <1>6, <1>7, <1>8, <1>9, <1>10, <1>11, <1>12, <1>13, <1>14, <1>15, <1>16, <1>17, <1>18,
     <1>19, <1>20, <1>21, <1>22, <1>23, <1>24, Zenon DEF Next, Others, Reconcile
\* The bounds are kept.
LEMMA Budgets ==
  ASSUME Rest, Edit \/ (Outside /\ UNCHANGED <<edits, faults>>) \/ Fault \/ UNCHANGED budgets
  PROVE  edits' \in 0..MaxEdits /\ outside' \in 0..MaxOutside /\ faults' \in 0..MaxFaults
<1>1. edits \in 0..MaxEdits /\ outside \in 0..MaxOutside /\ faults \in 0..MaxFaults
  BY DEF Rest
<1>2. CASE Edit
  BY <1>1, <1>2, BoundsAssumption DEF Edit
<1>3. CASE Outside /\ UNCHANGED <<edits, faults>>
  BY <1>1, <1>3, BoundsAssumption DEF Outside
<1>4. CASE Fault
  BY <1>1, <1>4, BoundsAssumption DEF Fault
<1>5. CASE UNCHANGED budgets
  BY <1>1, <1>5 DEF budgets
<1>6. QED
  BY <1>2, <1>3, <1>4, <1>5

\* Every step keeps the rest.
LEMMA NextRest == TypeOK /\ ExtInv /\ [Next]_vars => Rest'
<1> SUFFICES ASSUME TypeOK, ExtInv, [Next]_vars PROVE Rest'
  OBVIOUS
<1>0. Rest
  BY TypeParts
<1>1. NoStatus \in Statuses /\ Nothing \in Mys /\ NoDb \in Dbs
  BY EntryTypes DEF Nothing, Mys, Schemata, Specs, Versions, NoDb, Dbs
<1>2. \A s \in Statuses : s.ext \in Entries
  BY DEF Statuses
<1>3. Declared \subseteq Grantees
  BY DEF Declared, Grantees
<1> USE <1>0
<1>4. ASSUME NEW s \in Specs, EditSpec(s) PROVE Rest'
  BY <1>4, Budgets DEF EditSpec, UserQuiet, pgVars, apiVars, Rest
<1>5. CASE DeleteDatabase
  BY <1>1, <1>5, Budgets DEF DeleteDatabase, pgVars, ghosts, Rest
<1>6. CASE EditOthers
  <2>1. edits' \in 0..MaxEdits /\ outside' \in 0..MaxOutside /\ faults' \in 0..MaxFaults
    BY <1>6, Budgets DEF EditOthers
  <2>2. UNCHANGED <<db, app, life, rolePc, decision, spec, my, st, w, pc>> /\ role' \in {role, "deleting"}
    BY <1>6 DEF EditOthers, UserQuiet, pgVars
  <2>3. QED
    BY <2>1, <2>2 DEF Rest
<1>7. ASSUME NEW b \in Dbs, b.by # "nobody" \/ b = NoDb, Fresh(b)
      PROVE  db' \in Dbs /\ (db'.by = "nobody" => db' = NoDb) /\ app' = "none"
  BY <1>7 DEF Fresh
<1>8. CASE OutsideDatabase
  <2>1. \A m \in {"none", "other"} : [by |-> "dba", mark |-> m] \in Dbs
    BY DEF Dbs
  <2>2. db' \in Dbs /\ (db'.by = "nobody" => db' = NoDb) /\ app' \in {"none", "owner", "other"}
    BY <1>1, <1>7, <1>8, <2>1 DEF OutsideDatabase, Rest
  <2>3. UNCHANGED <<spec, allow, st, ReconcileVars, edits, faults, apiVars, rolePc, decision>> /\ Outside
    BY <1>8 DEF OutsideDatabase, OutsideQuiet
  <2>4. edits' \in 0..MaxEdits /\ outside' \in 0..MaxOutside /\ faults' \in 0..MaxFaults
    BY <2>3, Budgets
  <2>5. QED
    BY <2>2, <2>3, <2>4 DEF ReconcileVars, apiVars, Rest
<1>9. CASE OutsideExtension /\ UNCHANGED own
  <2>1. Outside /\ UNCHANGED <<spec, allow, st, ReconcileVars, edits, faults, own>>
    BY <1>9 DEF OutsideExtension
  <2>2. edits' \in 0..MaxEdits /\ outside' \in 0..MaxOutside /\ faults' \in 0..MaxFaults
    BY <2>1, Budgets
  <2>3. QED
    BY <2>1, <2>2 DEF ReconcileVars, own, pgVars, apiVars, Rest
<1>10. CASE RoleController
  BY <1>10 DEF RoleController, RevokeRole, DropRole, ReconcileVars, pgVars, apiVars, budgets, Rest
<1>11. CASE Begin
  <2>1. my' \in Mys
    <3>1. allow \in BOOLEAN /\ Paused \in BOOLEAN /\ spec \in Specs
      BY TypeParts, Zenon DEF Flags, Rest, Paused
    <3>2. QED
      BY <1>11, <3>1 DEF Begin, Mys, Schemata
  <2>2. QED
    BY <1>11, <2>1 DEF Begin, Go, Quiet, pgVars, budgets, Rest, Working
<1>12. CASE AddFinalizer
  BY <1>12 DEF AddFinalizer, Go, Quiet, pgVars, budgets, Rest, Working
<1>13. CASE DecideOwnership
  BY <1>13 DEF DecideOwnership, Local, Go, Quiet, pgVars, budgets, Rest, Working
<1>14. CASE EnsureDatabase
  <2>1. [by |-> "pgop", mark |-> "none"] \in Dbs
    BY DEF Dbs
  <2>2. db' \in Dbs /\ (db'.by = "nobody" => db' = NoDb) /\ app' \in {"none", "owner", "other"}
    BY <1>7, <1>14, <2>1 DEF EnsureDatabase, pgVars, Rest
  <2>3. w' \in Statuses
    BY <1>14, StatusTypes, EntryTypes DEF EnsureDatabase, Rest
  <2>4. QED
    BY <1>14, <2>2, <2>3 DEF EnsureDatabase, Go, Quiet, budgets, Rest, Working
<1>15. CASE MarkDatabase
  <2>1. db' \in Dbs /\ db'.by # "nobody"
    BY <1>15 DEF MarkDatabase, Exists, Rest, Dbs
  <2>2. QED
    BY <1>15, <2>1 DEF MarkDatabase, Go, Quiet, budgets, Rest, Working
<1>16. CASE RecordGrants
  <2>1. [w EXCEPT !.ledger = @ \cup (Declared \ Held)] \in Statuses
    BY <1>3 DEF Rest, Statuses
  <2>2. w' \in Statuses /\ st' \in Statuses /\ pc' \in {"revoke", "grant", "public"}
    BY <1>16, <2>1 DEF RecordGrants, Save, Go, Rest
  <2>3. QED
    BY <1>16, <2>2 DEF RecordGrants, Go, Quiet, pgVars, budgets, Rest, Working
<1>17. CASE Grant
  BY <1>17 DEF Grant, Go, Quiet, budgets, Rest, Working
<1>18. CASE Revoke
  <2>1. w' \in Statuses
    BY <1>18 DEF Revoke, Rest, Statuses
  <2>2. QED
    BY <1>18, <2>1 DEF Revoke, Go, Quiet, budgets, Rest, Working
<1>19. CASE LeavePublic
  <2>1. w' \in Statuses
    BY <1>19, StatusTypes, EntryTypes DEF LeavePublic, Rest
  <2>2. QED
    BY <1>19, <2>1 DEF LeavePublic, Go, Quiet, budgets, Rest, Working
<1>20. CASE RecordPublic
  <2>1. [w EXCEPT !.revoked = TRUE] \in Statuses
    BY DEF Rest, Statuses
  <2>2. w' \in Statuses /\ st' \in Statuses /\ pc' \in {"revoke public", "schemas"}
    BY <1>20, <2>1 DEF RecordPublic, Save, Go, Rest
  <2>3. QED
    BY <1>20, <2>2 DEF RecordPublic, Go, Quiet, pgVars, budgets, Rest, Working
<1>21. CASE RevokePublic \/ DatabaseGone
  BY <1>21 DEF RevokePublic, DatabaseGone, Local, Go, Quiet, pgVars, budgets, Rest, Working
<1>22. CASE Schemas
  <2>1. w' \in Statuses
    BY <1>22, StatusTypes, EntryTypes DEF Schemas, Rest
  <2>2. app' \in {"none", "owner", "other"}
    BY <1>22 DEF Schemas, Rest
  <2>3. QED
    BY <1>22, <2>1, <2>2 DEF Schemas, Go, Quiet, budgets, Rest, Working
<1>23. CASE Extensions
  <2>1. PICK e : ExtOutcome(e)
    BY <1>23, ExtensionsOutcome
  <2>2. w' \in Statuses /\ st' \in Statuses
    BY <2>1, EntryFields DEF ExtOutcome, Rest
  <2>3. /\ UNCHANGED <<spec, allow, own>> /\ pc' \in {"drop", "schema", "intent", "create", "update", "secret"}
        /\ my' = my \/ (\E s \in {where, "super"} : my' = [my EXCEPT !.found = s])
    BY <1>23 DEF Extensions, ReconcileExtensions, ExtUnlisted, PlanCreate, CreateSchema, RecordIntent, CreateExtension,
       CreateFails, PlanUpdate, UpdateExtension, UpdateGone, LeaveInstalled, DropRemoved, ExtStep, ExtCheck
  <2>4. Fault \/ UNCHANGED budgets
    BY <1>23 DEF Extensions, ReconcileExtensions, ExtUnlisted, PlanCreate, CreateSchema, RecordIntent, CreateExtension,
       CreateFails, PlanUpdate, UpdateExtension, UpdateGone, LeaveInstalled, DropRemoved
  <2>5. edits' \in 0..MaxEdits /\ outside' \in 0..MaxOutside /\ faults' \in 0..MaxFaults
    BY <2>4, Budgets
  <2>6. QED
    <3>1. UNCHANGED <<db, app, life, role, rolePc, decision, spec>> /\ my' \in Mys
      <4>1. where \in Schemata /\ "super" \in Schemata
        BY DEF TypeOK, ExtTypeOK, Schemata
      <4>2. QED
        BY <2>3, <4>1 DEF own, pgVars, apiVars, Rest, Mys
    <3>2. pc' \in Working
      BY <2>3 DEF Working
    <3>3. QED
      BY <2>2, <2>5, <3>1, <3>2 DEF Rest
<1>24. CASE UpdateStatus
  <2>1. [w EXCEPT !.ready = ~problem] \in Statuses
    BY DEF Rest, Statuses
  <2>2. st' \in Statuses
    BY <1>24, <2>1 DEF UpdateStatus, Rest
  <2>3. QED
    BY <1>1, <1>24, <2>2 DEF UpdateStatus, Stop, Go, Quiet, pgVars, budgets, Rest
<1>25. CASE DropDatabase
  <2>1. db' \in Dbs /\ (db'.by = "nobody" => db' = NoDb) /\ app' \in {"none", "owner", "other"}
    BY <1>1, <1>7, <1>25 DEF DropDatabase, pgVars, Rest
  <2>2. QED
    BY <1>25, <2>1 DEF DropDatabase, Go, Quiet, budgets, Rest
<1>26. CASE Release
  BY <1>1, <1>26 DEF Release, Stop, pgVars, budgets, Rest
<1>27. CASE Fail
  BY <1>27, Budgets DEF Fail, Local, Go, Quiet, pgVars, Rest, Working
<1>28. CASE Crash
  BY <1>1, <1>28, Budgets DEF Crash, Stop, Go, Quiet, pgVars, Rest
<1>29. CASE UNCHANGED vars
  BY <1>29 DEF vars, own, ReconcileVars, pgVars, apiVars, budgets, Rest
<1>30. QED
  BY <1>4, <1>5, <1>6, <1>8, <1>9, <1>10, <1>11, <1>12, <1>13, <1>14, <1>15, <1>16, <1>17, <1>18, <1>19, <1>20, <1>21,
     <1>22, <1>23, <1>24, <1>25, <1>26, <1>27, <1>28, <1>29 DEF Next, Others, Reconcile
\* The finalizer is there only with the Database.
LEMMA NextLife == TypeOK /\ FreshThere /\ [Next]_vars => FinThere' /\ FreshThere'
<1> SUFFICES ASSUME TypeOK, FreshThere, [Next]_vars PROVE FinThere' /\ FreshThere'
  OBVIOUS
<1>0. FinThere
  BY TypeParts
<1> USE <1>0 DEF FinThere, FreshThere
<1>1. ASSUME UNCHANGED <<life, fin>>, UNCHANGED <<pc, fresh>> \/ pc' # "finalizer" \/ fresh' = FALSE \/ life # "none"
      PROVE  FinThere' /\ FreshThere'
  <2>1. life' = life /\ fin' = fin
    BY <1>1
  <2>2. FinThere'
    BY <2>1, Zenon
  <2>3. CASE pc' = pc /\ fresh' = fresh
    BY <2>1, <2>2, <2>3, Zenon
  <2>4. CASE pc' # "finalizer" \/ life # "none"
    BY <2>1, <2>2, <2>4
  <2>5. CASE fresh' = FALSE
    BY <2>2, <2>5
  <2>6. QED
    BY <1>1, <2>3, <2>4, <2>5
<1>2. ASSUME NEW s \in Specs, EditSpec(s) PROVE FinThere' /\ FreshThere'
  BY <1>1, <1>2, Zenon DEF EditSpec, apiVars
<1>3. CASE DeleteDatabase
  BY <1>3, Zenon DEF DeleteDatabase
<1>4. CASE EditOthers
  BY <1>1, <1>4, Zenon DEF EditOthers, UserQuiet
<1>5. CASE OutsideDatabase
  BY <1>1, <1>5, Zenon DEF OutsideDatabase, OutsideQuiet, ReconcileVars, apiVars
<1>6. CASE OutsideExtension /\ UNCHANGED own
  BY <1>1, <1>6, Zenon DEF OutsideExtension, ReconcileVars, own, apiVars
<1>7. CASE RoleController
  BY <1>1, <1>7, Zenon DEF RoleController, RevokeRole, DropRole, ReconcileVars, apiVars
<1>8. CASE Begin
  BY <1>1, <1>8, Zenon DEF Begin, Go, Quiet
<1>9. CASE AddFinalizer
  <2>1. "ensure" # "finalizer" /\ "idle" # "finalizer"
    OBVIOUS
  <2>2. QED
    BY <1>9, <2>1, Zenon DEF AddFinalizer, Go, Quiet
<1>10. CASE DecideOwnership \/ EnsureDatabase \/ MarkDatabase \/ RecordGrants \/ Grant \/ Revoke \/ LeavePublic
            \/ RecordPublic \/ RevokePublic \/ Schemas \/ UpdateStatus \/ DatabaseGone \/ DropDatabase \/ Fail \/ Crash
  <2>1. UNCHANGED <<life, fin>> /\ pc' # "finalizer"
    BY <1>10 DEF DecideOwnership, EnsureDatabase, MarkDatabase, RecordGrants, Grant, Revoke, LeavePublic, RecordPublic,
       RevokePublic, Schemas, UpdateStatus, DatabaseGone, DropDatabase, Fail, Crash, Local, Go, Quiet
  <2>2. QED
    BY <1>1, <2>1
<1>11. CASE Extensions
  <2>1. UNCHANGED <<life, fin>>
    BY <1>11 DEF Extensions, own, apiVars
  <2>2. pc' # "finalizer"
    BY <1>11 DEF Extensions, ReconcileExtensions, ExtUnlisted, PlanCreate, CreateSchema, RecordIntent, CreateExtension,
       CreateFails, PlanUpdate, UpdateExtension, UpdateGone, LeaveInstalled, DropRemoved, ExtStep, ExtCheck
  <2>3. QED
    BY <1>1, <2>1, <2>2
<1>12. CASE Release
  <2>1. "idle" # "finalizer"
    OBVIOUS
  <2>2. QED
    BY <1>1, <1>12, <2>1, Zenon DEF Release, Stop
<1>13. CASE UNCHANGED vars
  BY <1>1, <1>13, Zenon DEF vars, own, ReconcileVars, apiVars
<1>14. QED
  BY <1>2, <1>3, <1>4, <1>5, <1>6, <1>7, <1>8, <1>9, <1>10, <1>11, <1>12, <1>13, Zenon DEF Next, Others, Reconcile

\* Without the database there is nothing in it.
LEMMA NextBare == TypeOK /\ ExtInv /\ [Next]_vars => Bare'
<1> SUFFICES ASSUME TypeOK, ExtInv, [Next]_vars PROVE Bare'
  OBVIOUS
<1>0. Bare /\ Rest
  BY TypeParts
<1> USE <1>0
<1>1. ASSUME UNCHANGED <<db, public, priv, app, ext, where>> PROVE Bare'
  BY <1>1 DEF Bare, Exists, Installed
<1>2. ASSUME NEW b, Fresh(b) PROVE Bare'
  BY <1>2 DEF Bare, Exists, Installed, Fresh, ExtGone, NoDb
<1>3. ASSUME db' # NoDb PROVE Bare'
  BY <1>3 DEF Bare, Exists
<1>4. CASE (\E s \in Specs : EditSpec(s)) \/ DeleteDatabase \/ EditOthers
  BY <1>1, <1>4 DEF EditSpec, DeleteDatabase, EditOthers, UserQuiet, pgVars, extVars
<1>5. CASE OutsideDatabase
  BY <1>2, <1>3, <1>5 DEF OutsideDatabase, Exists
<1>6. CASE Exists /\ OutsideExtension /\ UNCHANGED own
  BY <1>3, <1>6 DEF own, pgVars, Exists
<1>7. CASE RoleController
  BY <1>7 DEF RoleController, RevokeRole, DropRole, pgVars, extVars, Bare, Exists, Installed
<1>8. CASE Begin \/ AddFinalizer \/ DecideOwnership \/ RecordGrants \/ RecordPublic \/ DatabaseGone \/ Release
           \/ Fail \/ Crash
  BY <1>1, <1>8 DEF Begin, AddFinalizer, DecideOwnership, RecordGrants, RecordPublic, DatabaseGone, Release, Fail,
     Crash, Local, pgVars, extVars
<1>9. CASE EnsureDatabase
  BY <1>1, <1>2, <1>9 DEF EnsureDatabase, pgVars, extVars
<1>10. CASE MarkDatabase
  <2>1. db' # NoDb
    BY <1>10 DEF MarkDatabase, NoDb, Rest, Dbs
  <2>2. QED
    BY <1>3, <2>1
<1>11. CASE Grant \/ Revoke \/ LeavePublic \/ RevokePublic \/ Schemas
  BY <1>3, <1>11 DEF Grant, Revoke, LeavePublic, RevokePublic, Schemas, Exists
<1>12. CASE Extensions
  <2>1. CASE RecordIntent
    BY <1>1, <1>12, <2>1 DEF Extensions, RecordIntent, own, pgVars, extVars
  <2>2. CASE Exists
    BY <1>3, <1>12, <2>2 DEF Extensions, own, pgVars, Exists
  <2>3. pc = "intent" => RecordIntent
    BY <1>12 DEF Extensions, ReconcileExtensions, ExtUnlisted, PlanCreate, CreateSchema, CreateExtension, CreateFails,
       PlanUpdate, UpdateExtension, UpdateGone, LeaveInstalled, DropRemoved
  <2>4. QED
    BY <1>12, <2>1, <2>2, <2>3 DEF Extensions
<1>13. CASE UpdateStatus
  <2>1. UNCHANGED <<db, public, priv, app, where>>
    BY <1>13 DEF UpdateStatus, pgVars
  <2>2. CASE Exists
    BY <1>3, <2>1, <2>2 DEF Exists
  <2>3. CASE ~Exists
    <3>1. ext = NoExt
      BY <2>3 DEF Bare, Installed
    <3>2. ext' = NoExt
      BY <1>13, <3>1, UpdateKeepsInstalled
    <3>3. QED
      BY <2>1, <2>3, <3>2 DEF Bare, Exists, Installed
  <2>4. QED
    BY <2>2, <2>3
<1>14. CASE DropDatabase
  BY <1>1, <1>2, <1>14 DEF DropDatabase, pgVars, extVars
<1>15. CASE UNCHANGED vars
  BY <1>1, <1>15 DEF vars, own, pgVars, extVars
<1>16. QED
  BY <1>4, <1>5, <1>6, <1>7, <1>8, <1>9, <1>10, <1>11, <1>12, <1>13, <1>14, <1>15 DEF Next, Others, Reconcile

\* The state stays well formed.
LEMMA NextTypeOK ==
  TypeOK /\ FreshThere /\ ExtInv /\ [Next]_vars => TypeOK' /\ FreshThere' /\ ExtInv'
  BY TypeParts, NextExt, NextFlags, NextRest, NextLife, NextBare, PTL
-----------------------------------------------------------------------------
(* What pgop took from PUBLIC. *)

\* A spec that once granted to PUBLIC is not forgotten.
LEMMA NextMixed == TypeOK /\ MixedKnown /\ [Next]_vars => (mixed => mixed') /\ MixedKnown'
<1> SUFFICES ASSUME TypeOK, MixedKnown, [Next]_vars PROVE (mixed => mixed') /\ MixedKnown'
  OBVIOUS
<1>0. w \in Statuses /\ st \in Statuses
  BY DEF TypeOK
<1>1. "PUBLIC" \notin NoStatus.ledger /\ Nothing.spec.public = "default"
  BY DEF NoStatus, Nothing
<1>2. mixed => mixed'
  BY Zenon DEF Next, Others, EditSpec, DeleteDatabase, EditOthers, OutsideDatabase, OutsideQuiet, own, ghosts,
     RoleController, RevokeRole, DropRole, Reconcile, Begin, AddFinalizer, DecideOwnership, EnsureDatabase, MarkDatabase,
     RecordGrants, Grant, Revoke, LeavePublic, RecordPublic, RevokePublic, Schemas, Extensions, UpdateStatus, DatabaseGone,
     DropDatabase, Release, Fail, Crash, Go, Quiet, vars
<1> USE DEF MixedKnown
<1>3. ASSUME NEW s \in Specs, EditSpec(s) PROVE MixedKnown'
  <2>1. UNCHANGED <<my, st, w>> /\ spec' = s /\ mixed' = (mixed \/ s.public = "both")
    BY <1>3 DEF EditSpec, UserQuiet
  <2>2. QED
    BY <1>2, <2>1
<1>4. CASE spec' = spec /\ my'.spec = my.spec /\ st'.ledger \in {st.ledger, w.ledger, {}} /\ w'.ledger \in {st.ledger, w.ledger, {}}
  BY <1>2, <1>4
<1>5. CASE DeleteDatabase \/ EditOthers \/ RoleController \/ OutsideDatabase \/ (OutsideExtension /\ UNCHANGED own)
  <2>1. UNCHANGED <<spec, my, w>> /\ st' \in {st, NoStatus}
    BY <1>5 DEF DeleteDatabase, EditOthers, RoleController, RevokeRole, DropRole, OutsideDatabase, OutsideQuiet,
       OutsideExtension, UserQuiet, ReconcileVars
  <2>2. QED
    BY <1>4, <2>1 DEF NoStatus
<1>6. CASE Begin
  BY <1>2, <1>6 DEF Begin, Go, Quiet
<1>7. CASE AddFinalizer \/ DecideOwnership \/ MarkDatabase \/ Grant \/ RevokePublic \/ DatabaseGone \/ DropDatabase \/ Fail
  BY <1>4, <1>7 DEF AddFinalizer, DecideOwnership, MarkDatabase, Grant, RevokePublic, DatabaseGone, DropDatabase, Fail,
     Local, Go, Quiet
<1>8. CASE EnsureDatabase \/ LeavePublic \/ Schemas
  <2>1. w'.ledger = w.ledger /\ UNCHANGED <<spec, my, st>>
    BY <1>0, <1>8 DEF EnsureDatabase, LeavePublic, Schemas, Go, Quiet, Statuses
  <2>2. QED
    BY <1>4, <2>1
<1>9. CASE RecordPublic
  <2>1. w'.ledger = w.ledger /\ st'.ledger \in {st.ledger, w.ledger} /\ UNCHANGED <<spec, my>>
    BY <1>0, <1>9 DEF RecordPublic, Save, Go, Quiet, Statuses
  <2>2. QED
    BY <1>4, <2>1
<1>10. "PUBLIC" \in Declared => mixed
  BY DEF Declared
<1>11. CASE RecordGrants
  <2>1. /\ w'.ledger \in {w.ledger, w.ledger \cup (Declared \ Held)} /\ st'.ledger \in {st.ledger, w'.ledger}
        /\ UNCHANGED <<spec, my>>
    BY <1>0, <1>11 DEF RecordGrants, Save, Go, Quiet, Statuses
  <2>2. QED
    BY <1>2, <1>10, <2>1
<1>12. CASE Revoke
  <2>1. w'.ledger = w.ledger \cap Declared /\ UNCHANGED <<spec, my, st>>
    BY <1>0, <1>12 DEF Revoke, Go, Quiet, Statuses
  <2>2. QED
    BY <1>2, <2>1
<1>13. CASE Extensions
  <2>1. w'.ledger = w.ledger /\ st'.ledger \in {st.ledger, w.ledger}
    BY <1>0, <1>13 DEF Extensions, ReconcileExtensions, ExtUnlisted, PlanCreate, CreateSchema, RecordIntent,
       CreateExtension, CreateFails, PlanUpdate, UpdateExtension, UpdateGone, LeaveInstalled, DropRemoved, ExtQuiet, Refuse, Save, Entry, Statuses
  <2>2. spec' = spec /\ my'.spec = my.spec
    <3>1. \A s : [my EXCEPT !.found = s].spec = my.spec
      BY DEF TypeOK
    <3>2. QED
      BY <1>13, <3>1 DEF Extensions, ReconcileExtensions, ExtUnlisted, PlanCreate, CreateSchema, RecordIntent,
         CreateExtension, CreateFails, PlanUpdate, UpdateExtension, UpdateGone, LeaveInstalled, DropRemoved, ExtStep,
         ExtCheck
  <2>3. QED
    BY <1>4, <2>1, <2>2
<1>14. CASE UpdateStatus \/ Release \/ Crash
  <2>1. UNCHANGED spec /\ my' = Nothing /\ w' = NoStatus /\ st'.ledger \in {st.ledger, w.ledger, {}}
    <3>1. st' \in {st, NoStatus, [w EXCEPT !.ready = ~problem]} /\ UNCHANGED spec /\ my' = Nothing /\ w' = NoStatus
      BY <1>14 DEF UpdateStatus, Release, Crash, Stop, Go, Quiet
    <3>2. NoStatus.ledger = {} /\ [w EXCEPT !.ready = ~problem].ledger = w.ledger
      BY <1>0 DEF Statuses, NoStatus
    <3>3. QED
      BY <3>1, <3>2
  <2>2. QED
    BY <1>1, <1>2, <2>1
<1>15. CASE UNCHANGED vars
  BY <1>4, <1>15 DEF vars, ReconcileVars
<1>16. QED
  BY <1>2, <1>3, <1>5, <1>6, <1>7, <1>8, <1>9, <1>11, <1>12, <1>13, <1>14, <1>15 DEF Next, Others, Reconcile
\* What a step must keep for PUBLIC: the invariant without MixedKnown.
Known == PublicRecorded /\ DecisionRecorded /\ RevokedSaved /\ CopyKnows

\* A step that leaves PUBLIC and the records about it alone.
LEMMA KnownFrame ==
  ASSUME Known, mixed => mixed', UNCHANGED <<db, public, default, fin>>,
         st'.name = st.name /\ st'.revoked = st.revoked, w'.name = w.name /\ w'.revoked = w.revoked,
         \/ UNCHANGED <<pc, decision>> /\ (pc = "finalizer" /\ fresh' => fresh)
         \/ pc \in Working /\ pc' \in Working \ {"database", "revoke public"}
  PROVE  Known'
<1>1. PublicRecorded' /\ CopyKnows'
  BY DEF Known, PublicRecorded, CopyKnows, Exists
<1>2. DecisionRecorded'
  BY DEF Known, DecisionRecorded, Working
<1>3. RevokedSaved'
  <2>1. pc' \in Working => pc \in Working
    BY DEF Working
  <2>2. pc' \in Working => fin' /\ (w'.revoked => st'.revoked)
    BY <2>1 DEF Known, RevokedSaved
  <2>3. pc' = "finalizer" /\ fresh' => (w'.revoked => st'.revoked)
    BY DEF Known, RevokedSaved, Working
  <2>4. pc' = "revoke public" => w'.revoked
    BY DEF Known, RevokedSaved
  <2>5. QED
    BY <2>2, <2>3, <2>4 DEF RevokedSaved
<1>4. QED
  BY <1>1, <1>2, <1>3 DEF Known
\* Users, the Role controller and DBAs.
LEMMA OthersKnown ==
  ASSUME TypeOK, Known, mixed => mixed', Others \/ RoleController
  PROVE  Known'
<1>1. ASSUME NEW s \in Specs, EditSpec(s) PROVE Known'
  <2>1. UNCHANGED <<db, public, default, fin, st, w, pc, decision>> /\ fresh' = FALSE
    BY <1>1 DEF EditSpec, UserQuiet, pgVars, apiVars
  <2>2. QED
    BY <2>1, KnownFrame
<1>2. CASE DeleteDatabase
  <2>1. UNCHANGED <<db, public, default, fin, w, pc, decision>> /\ fresh' = FALSE /\ (fin => UNCHANGED st)
        /\ st' \in {st, NoStatus}
    BY <1>2 DEF DeleteDatabase, pgVars, ghosts
  <2>2. CASE UNCHANGED st
    BY <2>1, <2>2, KnownFrame
  <2>3. CASE ~fin /\ st' = NoStatus
    <3>1. ~NoStatus.name /\ pc \notin Working
      BY <2>3 DEF NoStatus, Known, RevokedSaved
    <3>2. PublicRecorded' /\ CopyKnows'
      BY <2>1, <2>3, <3>1 DEF Known, PublicRecorded, CopyKnows, Exists
    <3>3. DecisionRecorded' /\ RevokedSaved'
      BY <2>1, <3>1 DEF Known, DecisionRecorded, RevokedSaved, Working
    <3>4. QED
      BY <3>2, <3>3 DEF Known
  <2>4. QED
    BY <2>1, <2>2, <2>3
<1>3. CASE EditOthers \/ RoleController \/ (OutsideExtension /\ UNCHANGED own)
  <2>1. UNCHANGED <<db, public, default, fin, st, w, pc, decision, fresh>>
    BY <1>3 DEF EditOthers, UserQuiet, RoleController, RevokeRole, DropRole, OutsideExtension, ReconcileVars, own, pgVars,
       apiVars, ghosts
  <2>2. QED
    BY <2>1, KnownFrame
<1>4. CASE OutsideDatabase
  <2>1. UNCHANGED <<st, w, pc, fresh, fin, decision>>
    BY <1>4 DEF OutsideDatabase, OutsideQuiet, ReconcileVars, apiVars
  <2>2. CASE UNCHANGED <<db, public, default>>
    BY <2>1, <2>2, KnownFrame
  <2>3. CASE public' = default'
    <3>1. PublicRecorded' /\ CopyKnows'
      BY <2>3 DEF PublicRecorded, CopyKnows
    <3>2. DecisionRecorded' /\ RevokedSaved'
      BY <2>1 DEF Known, DecisionRecorded, RevokedSaved
    <3>3. QED
      BY <3>1, <3>2 DEF Known
  <2>4. QED
    BY <1>4, <2>2, <2>3 DEF OutsideDatabase, Fresh
<1>5. QED
  BY <1>1, <1>2, <1>3, <1>4 DEF Others

\* The reconcile up to the database.
LEMMA EnsureKnown ==
  ASSUME TypeOK, Known, mixed => mixed', FinThere,
         Begin \/ AddFinalizer \/ DecideOwnership \/ EnsureDatabase \/ MarkDatabase
  PROVE  Known'
<1>0. w \in Statuses /\ st \in Statuses /\ life \in {"none", "live", "deleting"}
  BY DEF TypeOK
<1>1. CASE Begin
  <2>1. UNCHANGED <<db, public, default, fin, st>> /\ w' = st
    BY <1>1 DEF Begin, pgVars
  <2>2. pc' \in {"drop database", "finalizer", "ensure"} /\ (pc' = "ensure" => fin)
    BY <1>0, <1>1 DEF Begin, Go
  <2>3. PublicRecorded' /\ CopyKnows'
    BY <2>1 DEF Known, PublicRecorded, CopyKnows, Exists
  <2>4. DecisionRecorded' /\ RevokedSaved'
    BY <2>1, <2>2 DEF DecisionRecorded, RevokedSaved, Working
  <2>5. QED
    BY <2>3, <2>4 DEF Known
<1>2. CASE AddFinalizer
  <2>1. UNCHANGED <<db, public, default, st, w, fresh>> /\ pc = "finalizer"
    BY <1>2 DEF AddFinalizer, pgVars
  <2>2. (pc' = "ensure" /\ fin' = TRUE /\ fresh) \/ pc' = "idle"
    BY <1>2 DEF AddFinalizer, Go
  <2>3. PublicRecorded' /\ CopyKnows'
    BY <2>1 DEF Known, PublicRecorded, CopyKnows, Exists
  <2>4. DecisionRecorded' /\ RevokedSaved'
    BY <2>1, <2>2 DEF Known, DecisionRecorded, RevokedSaved, Working
  <2>5. QED
    BY <2>3, <2>4 DEF Known
<1>3. CASE DecideOwnership
  <2>1. UNCHANGED <<db, public, default, fin, st, w, fresh>> /\ pc = "ensure"
    BY <1>3 DEF DecideOwnership, Local, pgVars
  <2>2. pc' \in {"status", "database"} /\ (pc' = "database" => decision' = "absent" \/ (decision' # "none" /\ w.name))
    BY <1>3 DEF DecideOwnership, Go
  <2>3. PublicRecorded' /\ CopyKnows'
    BY <2>1 DEF Known, PublicRecorded, CopyKnows, Exists
  <2>4. DecisionRecorded' /\ RevokedSaved'
    BY <2>1, <2>2 DEF Known, DecisionRecorded, RevokedSaved, Working
  <2>5. QED
    BY <2>3, <2>4 DEF Known
<1>4. CASE EnsureDatabase
  <2>1. UNCHANGED <<fin, st, fresh>> /\ pc = "database" /\ pc' \in {"status", "grants", "comment"}
    BY <1>4 DEF EnsureDatabase, Go
  <2>2. w'.revoked = w.revoked /\ (w'.name = w.name \/ w'.name = TRUE)
    BY <1>0, <1>4 DEF EnsureDatabase, Statuses
  <2>3. DecisionRecorded' /\ RevokedSaved'
    BY <2>1, <2>2 DEF Known, DecisionRecorded, RevokedSaved, Working
  <2>4. CASE UNCHANGED <<db, public, default>>
    <3>1. Exists /\ w'.name => w.name
      BY <1>0, <1>4, <2>1, <2>4 DEF EnsureDatabase, Known, DecisionRecorded, Fresh, Exists, NoDb
    <3>2. PublicRecorded' /\ CopyKnows'
      BY <2>1, <2>2, <2>4, <3>1 DEF Known, PublicRecorded, CopyKnows, Exists
    <3>3. QED
      BY <2>3, <3>2 DEF Known
  <2>5. CASE public' = default'
    BY <2>3, <2>5 DEF Known, PublicRecorded, CopyKnows
  <2>6. QED
    BY <1>4, <2>4, <2>5 DEF EnsureDatabase, Fresh, pgVars
<1>5. CASE MarkDatabase
  <2>1. UNCHANGED <<public, default, fin, st, w, fresh>> /\ Exists /\ pc = "comment" /\ pc' = "grants"
    BY <1>5 DEF MarkDatabase, Go
  <2>2. PublicRecorded' /\ CopyKnows'
    BY <2>1 DEF Known, PublicRecorded, CopyKnows
  <2>3. DecisionRecorded' /\ RevokedSaved'
    BY <2>1 DEF Known, DecisionRecorded, RevokedSaved, Working
  <2>4. QED
    BY <2>2, <2>3 DEF Known
<1>6. QED
  BY <1>1, <1>2, <1>3, <1>4, <1>5

\* The grants and PUBLIC.
LEMMA GrantsKnown ==
  ASSUME TypeOK, Known, MixedKnown, mixed => mixed',
         RecordGrants \/ Grant \/ Revoke \/ LeavePublic \/ RecordPublic \/ RevokePublic
  PROVE  Known'
<1>0. w \in Statuses /\ st \in Statuses /\ pc \in Working
  BY DEF TypeOK, Working, RecordGrants, Grant, Revoke, LeavePublic, RecordPublic, RevokePublic
<1>1. UNCHANGED <<db, default, fin>> /\ fin /\ (w.revoked => st.revoked)
  BY <1>0 DEF RecordGrants, Grant, Revoke, LeavePublic, RecordPublic, RevokePublic, pgVars, Known, RevokedSaved
<1>2. pc' \in {"grant", "revoke", "public", "revoke public", "schemas"}
  BY DEF RecordGrants, Grant, Revoke, LeavePublic, RecordPublic, RevokePublic, Go
<1>3. DecisionRecorded'
  BY <1>2 DEF DecisionRecorded
<1>4. CASE RecordGrants
  <2>1. /\ UNCHANGED public /\ w'.name = w.name /\ w'.revoked = w.revoked /\ pc' # "revoke public"
        /\ st' \in {st, w'}
    BY <1>0, <1>4 DEF RecordGrants, Save, Go, pgVars, Statuses
  <2>2. PublicRecorded' /\ CopyKnows'
    BY <1>1, <2>1 DEF Known, PublicRecorded, CopyKnows, Exists
  <2>3. RevokedSaved'
    BY <1>1, <1>2, <2>1 DEF RevokedSaved, Working
  <2>4. QED
    BY <1>3, <2>2, <2>3 DEF Known
<1>5. CASE Grant \/ Revoke
  <2>1. /\ w'.name = w.name /\ w'.revoked = w.revoked /\ UNCHANGED st /\ pc' \in {"revoke", "public"}
        /\ public /\ ~public' => mixed
    BY <1>0, <1>5 DEF Grant, Revoke, Go, Statuses, MixedKnown
  <2>2. PublicRecorded' /\ CopyKnows'
    BY <1>1, <2>1 DEF Known, PublicRecorded, CopyKnows, Exists
  <2>3. RevokedSaved'
    BY <1>1, <2>1 DEF RevokedSaved, Working
  <2>4. QED
    BY <1>3, <2>2, <2>3 DEF Known
<1>6. CASE LeavePublic
  <2>1. /\ w'.name = w.name /\ UNCHANGED st /\ pc' = "schemas"
        /\ \/ w'.revoked = w.revoked /\ UNCHANGED public
           \/ w'.revoked = FALSE /\ public' = (public \/ w.revoked)
    BY <1>0, <1>6 DEF LeavePublic, Go, Statuses
  <2>2. PublicRecorded' /\ CopyKnows'
    BY <1>1, <2>1 DEF Known, PublicRecorded, CopyKnows, Exists
  <2>3. RevokedSaved'
    BY <1>1, <2>1 DEF RevokedSaved, Working
  <2>4. QED
    BY <1>3, <2>2, <2>3 DEF Known
<1>7. CASE RecordPublic
  <2>1. /\ UNCHANGED public /\ w'.name = w.name /\ (w.revoked => w'.revoked) /\ st' \in {st, w'}
        /\ w'.revoked => st'.revoked
        /\ pc' = "revoke public" => w'.revoked
    BY <1>0, <1>1, <1>7 DEF RecordPublic, Save, Go, pgVars, Statuses
  <2>2. PublicRecorded' /\ CopyKnows'
    BY <1>1, <2>1 DEF Known, PublicRecorded, CopyKnows, Exists
  <2>3. RevokedSaved'
    BY <1>1, <1>2, <2>1 DEF RevokedSaved, Working
  <2>4. QED
    BY <1>3, <2>2, <2>3 DEF Known
<1>8. CASE RevokePublic
  <2>1. UNCHANGED <<st, w>> /\ pc' = "schemas" /\ w.revoked /\ st.revoked
    BY <1>1, <1>8 DEF RevokePublic, Go, Known, RevokedSaved
  <2>2. QED
    BY <1>1, <1>3, <2>1 DEF Known, PublicRecorded, CopyKnows, RevokedSaved, Working
<1>9. QED
  BY <1>4, <1>5, <1>6, <1>7, <1>8

\* Schemas, extensions, the end of the reconcile.
LEMMA FinishKnown ==
  ASSUME TypeOK, Known, mixed => mixed',
         Schemas \/ Extensions \/ UpdateStatus \/ DatabaseGone \/ DropDatabase \/ Release \/ Fail \/ Crash
  PROVE  Known'
<1>0. w \in Statuses /\ st \in Statuses
  BY DEF TypeOK
<1>1. CASE Schemas
  <2>1. /\ UNCHANGED <<db, public, default, fin, st>> /\ w'.name = w.name /\ w'.revoked = w.revoked
        /\ pc = "schemas" /\ pc' = "ext"
    BY <1>0, <1>1 DEF Schemas, Go, Statuses
  <2>2. QED
    BY <2>1, KnownFrame DEF Working
<1>2. CASE Extensions
  <2>1. UNCHANGED <<db, public, default, fin>>
    BY <1>2 DEF Extensions, own, pgVars, apiVars, ghosts
  <2>2. pc \in Working /\ pc' \in Working \ {"database", "revoke public"}
    BY <1>2 DEF Extensions, ReconcileExtensions, ExtUnlisted, PlanCreate, CreateSchema, RecordIntent, CreateExtension,
       CreateFails, PlanUpdate, UpdateExtension, UpdateGone, LeaveInstalled, DropRemoved, ExtStep, ExtCheck, Working
  <2>3. w'.name = w.name /\ w'.revoked = w.revoked /\ st' \in {st, w'}
    BY <1>0, <1>2 DEF Extensions, ReconcileExtensions, ExtUnlisted, PlanCreate, CreateSchema, RecordIntent,
       CreateExtension, CreateFails, PlanUpdate, UpdateExtension, UpdateGone, LeaveInstalled, DropRemoved, ExtQuiet, Refuse, Save, Entry, Statuses
  <2>4. fin /\ (w.revoked => st.revoked)
    BY <2>2 DEF Known, RevokedSaved
  <2>5. PublicRecorded' /\ CopyKnows'
    BY <2>1, <2>3 DEF Known, PublicRecorded, CopyKnows, Exists
  <2>6. DecisionRecorded' /\ RevokedSaved'
    BY <2>1, <2>2, <2>3, <2>4 DEF DecisionRecorded, RevokedSaved, Working
  <2>7. QED
    BY <2>5, <2>6 DEF Known
<1>3. ASSUME UNCHANGED <<db, public, default>>, w' = NoStatus, pc' = "idle",
             \/ UNCHANGED st \/ st' = NoStatus
             \/ st'.name = w.name /\ st'.revoked = w.revoked
      PROVE  Known'
  <2>1. ~NoStatus.name
    BY DEF NoStatus
  <2>2. PublicRecorded' /\ CopyKnows'
    BY <1>3, <2>1 DEF Known, PublicRecorded, CopyKnows, Exists
  <2>3. DecisionRecorded' /\ RevokedSaved'
    BY <1>3 DEF DecisionRecorded, RevokedSaved, Working
  <2>4. QED
    BY <2>2, <2>3 DEF Known
<1>4. CASE UpdateStatus
  <2>1. UNCHANGED st \/ (st'.name = w.name /\ st'.revoked = w.revoked)
    BY <1>0, <1>4 DEF UpdateStatus, Statuses
  <2>2. QED
    BY <1>3, <1>4, <2>1 DEF UpdateStatus, Stop, Go, pgVars
<1>5. CASE Release \/ Crash
  BY <1>3, <1>5 DEF Release, Crash, Stop, Go, pgVars, ghosts
<1>6. CASE DatabaseGone \/ Fail
  <2>1. UNCHANGED <<db, public, default, fin, st, w>>
    BY <1>6 DEF DatabaseGone, Fail, Local, pgVars
  <2>2. pc \in Working /\ pc' \in Working \ {"database", "revoke public"}
    BY <1>6 DEF DatabaseGone, Fail, Go, Connected, Working
  <2>3. QED
    BY <2>1, <2>2, KnownFrame
<1>7. CASE DropDatabase
  <2>1. UNCHANGED <<st, w, fin>> /\ pc' = "release"
    BY <1>7 DEF DropDatabase, Go
  <2>2. UNCHANGED <<db, public, default>> \/ public' = default'
    BY <1>7 DEF DropDatabase, Fresh, pgVars
  <2>3. PublicRecorded' /\ CopyKnows'
    BY <2>1, <2>2 DEF Known, PublicRecorded, CopyKnows, Exists
  <2>4. DecisionRecorded' /\ RevokedSaved'
    BY <2>1 DEF DecisionRecorded, RevokedSaved, Working
  <2>5. QED
    BY <2>3, <2>4 DEF Known
<1>8. QED
  BY <1>1, <1>2, <1>4, <1>5, <1>6, <1>7
-----------------------------------------------------------------------------
(* The invariant holds. *)

\* It holds at first.
LEMMA InitInv == Init => IInv
<1> SUFFICES ASSUME Init PROVE IInv
  OBVIOUS
<1>1. NoStatus \in Statuses /\ NoEntry \in Entries /\ NoExt \in Exts /\ NoStatus.ext = NoEntry /\ NoEntry.oid = 0
  BY EntryTypes DEF NoStatus, NoEntry
<1>2. ExtTypeOK
  <2>1. \A s \in {st, w} : s.ext \in Entries /\ s.ext.oid \in 0..oids /\ (s.ext.oid # 0 => s.ext.created)
    BY <1>1 DEF Init
  <2>2. oids \in Nat
    BY DEF Init
  <2>3. QED
    BY <1>1, <2>1, <2>2, Zenon DEF Init, ExtTypeOK, Schemata
<1>3. Flags
  BY Zenon DEF Init, Flags
<1>4. Nothing \in Mys /\ spec \in Specs /\ NoDb \in Dbs
  BY DEF Init, Nothing, Mys, Schemata, Specs, Versions, NoDb, Dbs
<1>5. Rest
  BY <1>1, <1>4, BoundsAssumption DEF Init, Rest, Working
<1>6. FinThere /\ Bare /\ FreshThere
  BY DEF Init, FinThere, Bare, Exists, Installed, FreshThere
<1>7. ExtInv
  BY <1>1 DEF Init, ExtInv, OidsOwn, SchemaChecked, NoExt
<1>8. PublicInv
  BY DEF Init, PublicInv, PublicRecorded, DecisionRecorded, RevokedSaved, CopyKnows, MixedKnown, Exists, Working,
     NoStatus, Nothing
<1>9. QED
  BY <1>2, <1>3, <1>5, <1>6, <1>7, <1>8, TypeParts DEF IInv

\* Every step keeps it.
LEMMA NextInv == IInv /\ [Next]_vars => IInv'
<1> SUFFICES ASSUME IInv, [Next]_vars PROVE IInv'
  OBVIOUS
<1>1. TypeOK /\ FreshThere /\ ExtInv /\ Known /\ MixedKnown /\ FinThere
  BY TypeParts DEF IInv, PublicInv, Known
<1>2. TypeOK' /\ FreshThere' /\ ExtInv'
  BY <1>1, NextTypeOK
<1>3. (mixed => mixed') /\ MixedKnown'
  BY <1>1, NextMixed
<1>4. Known'
  <2>1. CASE UNCHANGED vars
    BY <1>1, <2>1 DEF vars, own, ReconcileVars, pgVars, apiVars, ghosts, Known, PublicRecorded, DecisionRecorded,
       RevokedSaved, CopyKnows, Exists
  <2>2. QED
    BY <1>1, <1>3, <2>1, OthersKnown, EnsureKnown, GrantsKnown, FinishKnown DEF Next, Reconcile
<1>5. QED
  BY <1>2, <1>3, <1>4 DEF IInv, PublicInv, Known

\* The state stays well formed, and what PUBLIC lacks because of pgop is in the
\* durable status: saveStatus comes before the REVOKE, and no conflict, crash
\* or change by a DBA in between loses the record.
THEOREM RevokedIsRecorded == Spec => []DatabaseInv
<1>1. IInv => DatabaseInv
  BY DEF IInv, PublicInv, DatabaseInv
<1>2. QED
  BY InitInv, NextInv, <1>1, PTL DEF Spec

\* The step that ScriptInCheckedSchema allows.
ScriptChecked ==
  pc' = "drop" /\ pc \in {"create", "update"} /\ ext' # ext /\ ~ext'.elsewhere =>
    /\ Strict(IF pc = "create" THEN 0 ELSE ext.ver, ext'.ver) => where = "super"
    /\ where = "open" => my.found = "owner"

\* A script that is not trusted finds a schema only superusers can write to,
\* whoever creates or opens schemas between the check and CREATE or ALTER
\* EXTENSION; a trusted one finds a schema open to others only if it was the
\* database owner's at the last check (extensionSchemaProblem, createSchemas).
THEOREM ScriptsInCheckedSchema == Spec => ScriptInCheckedSchema
<1>1. ASSUME IInv, [Next]_vars, pc' = "drop", pc \in {"create", "update"}, ext' # ext
      PROVE  ScriptChecked
  <2>1. SchemaChecked /\ my.spec.ver \in Versions
    BY <1>1 DEF IInv, ExtInv, TypeOK, Specs
  <2>2. CASE CreateExtension \/ CreateFails
    <3>1. ext'.ver = my.spec.ver /\ pc = "create"
      BY <1>1, <2>2 DEF CreateExtension, CreateFails, extVars
    <3>2. QED
      BY <2>1, <3>1 DEF SchemaChecked, ScriptChecked
  <2>3. CASE UpdateExtension
    BY <2>1, <2>3 DEF UpdateExtension, SchemaChecked, ScriptChecked
  <2>4. ~UNCHANGED vars /\ ~Others /\ ~RoleController
    BY <1>1 DEF vars, ReconcileVars, Others, EditSpec, DeleteDatabase, EditOthers, UserQuiet, RoleController,
       RevokeRole, DropRole, OutsideExtension, OutsideDatabase, OutsideQuiet
  <2>5. CASE Reconcile /\ ~(CreateExtension \/ CreateFails \/ UpdateExtension)
    BY <1>1, <2>5 DEF Reconcile, Begin, AddFinalizer, DecideOwnership, EnsureDatabase, MarkDatabase, RecordGrants,
       Grant, Revoke, LeavePublic, RecordPublic, RevokePublic, Schemas, Extensions, ReconcileExtensions, ExtUnlisted,
       PlanCreate, CreateSchema, RecordIntent, PlanUpdate, UpdateGone, LeaveInstalled, DropRemoved, UpdateStatus,
       DatabaseGone, DropDatabase, Release, ExtQuiet, extVars, Go
  <2>6. CASE Fail \/ Crash
    BY <1>1, <2>6 DEF Fail, Crash, Local, Go, extVars
  <2>7. QED
    BY <1>1, <2>2, <2>3, <2>4, <2>5, <2>6 DEF Next
<1>2. IInv /\ [Next]_vars => [ScriptChecked]_<<pc, ext>>
  BY <1>1 DEF ScriptChecked
<1>3. QED
  BY InitInv, NextInv, <1>2, PTL DEF Spec, ScriptInCheckedSchema, ScriptChecked

\* DROP EXTENSION hits only the installation whose oid pgop recorded, and DROP
\* DATABASE only a database the check right before it found to be this
\* Database's, whatever was dropped and created again in between.
THEOREM DropsOwn == Spec => OnlyOwnDropped
<1>1. ASSUME IInv, [Next]_vars, pc = "drop", pc' = "secret", ext' = NoExt
      PROVE  ext.by # "dba"
  <2>1. TypeOK /\ OidsOwn /\ NoExt.by = "nobody"
    BY <1>1 DEF IInv, ExtInv, NoExt
  <2>2. CASE UNCHANGED ext
    BY <1>1, <2>1, <2>2
  <2>3. CASE DropRemoved
    BY <1>1, <2>1, <2>3 DEF DropRemoved, Mine, OidsOwn
  <2>4. ~UNCHANGED vars /\ ~Others /\ ~RoleController
    BY <1>1 DEF vars, own, ReconcileVars, Others, EditSpec, DeleteDatabase, EditOthers, UserQuiet, RoleController,
       RevokeRole, DropRole, OutsideExtension, OutsideDatabase, OutsideQuiet
  <2>5. CASE Reconcile /\ ~DropRemoved
    BY <1>1, <2>5 DEF Reconcile, Begin, AddFinalizer, DecideOwnership, EnsureDatabase, MarkDatabase, RecordGrants,
       Grant, Revoke, LeavePublic, RecordPublic, RevokePublic, Schemas, Extensions, ReconcileExtensions, ExtUnlisted,
       PlanCreate, CreateSchema, RecordIntent, CreateExtension, CreateFails, PlanUpdate, UpdateExtension, UpdateGone, LeaveInstalled, UpdateStatus,
       DatabaseGone, DropDatabase, Release, Go
  <2>6. CASE Fail \/ Crash
    BY <1>1, <2>2, <2>6 DEF Fail, Crash, Local, Go, extVars
  <2>7. QED
    BY <1>1, <2>3, <2>4, <2>5, <2>6 DEF Next
<1>2. ASSUME IInv, [Next]_vars, pc = "drop database", ~Exists', Exists
      PROVE  db.mark # "other"
  <2>1. db' # db
    BY <1>2 DEF Exists
  <2>2. CASE DropDatabase
    BY <2>1, <2>2 DEF DropDatabase, DropAllowed, pgVars
  <2>3. ~UNCHANGED vars /\ ~Others /\ ~RoleController /\ ~Fail /\ ~Crash
    BY <1>2, <2>1 DEF vars, own, pgVars, Others, EditSpec, DeleteDatabase, EditOthers, UserQuiet, RoleController,
       RevokeRole, DropRole, OutsideExtension, OutsideDatabase, At, Fail, Crash
  <2>4. CASE Reconcile /\ ~DropDatabase
    BY <1>2, <2>1, <2>4 DEF Reconcile, Begin, AddFinalizer, DecideOwnership, EnsureDatabase, MarkDatabase,
       RecordGrants, Grant, Revoke, LeavePublic, RecordPublic, RevokePublic, Schemas, Extensions, own, pgVars,
       UpdateStatus, DatabaseGone, Release, Local
  <2>5. QED
    BY <1>2, <2>2, <2>3, <2>4 DEF Next
<1>3. IInv /\ [Next]_vars => [pc = "drop" /\ pc' = "secret" /\ ext' = NoExt => ext.by # "dba"]_<<pc, ext>>
  BY <1>1
<1>4. IInv /\ [Next]_vars => [pc = "drop database" /\ ~Exists' => ~Exists \/ db.mark # "other"]_<<pc, db>>
  BY <1>2
<1>5. QED
  BY InitInv, NextInv, <1>3, <1>4, PTL DEF Spec, OnlyOwnDropped, OnlyOwnExtensionDropped, OnlyOwnDatabaseDropped
=============================================================================

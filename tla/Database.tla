------------------------------ MODULE Database ------------------------------
(***************************************************************************)
(* One Database: its PostgreSQL database (created, marked, dropped), the   *)
(* database grants to a Role and to PUBLIC, PUBLIC's default privilege and *)
(* the record of what was revoked from it, one schema of spec.schemas, its *)
(* extension (DatabaseExtensions) and its credentials Secret, with the     *)
(* Role controller deleting the grantee and what a DBA does.  The Cluster  *)
(* is ready, its marker key is there and it allowlists no database; the    *)
(* name is not reserved and no other Database has it.                      *)
(***************************************************************************)
EXTENDS DatabaseExtensions

VARIABLES
  \* In PostgreSQL:
  db,      \* the database: who made it, its comment
  public,  \* PUBLIC holds the privilege that spec.publicPrivileges is about
  priv,    \* the grantee holds the granted privilege
  app,     \* the schema of spec.schemas: absent, owned by the declared owner, by another role
  \* In the API server:
  life,    \* the Database: absent, there, or being deleted
  fin,     \* its finalizer
  role,    \* the grantee's Role: there, being deleted, gone (with its PostgreSQL role)
  secret,  \* the Database's credentials Secret, copied from the owner's
  \* Control state of the Role controller, the decision on who owns the
  \* database.
  rolePc, decision,
  \* Would PUBLIC hold its privilege if there were no pgop; was it ever granted
  \* to PUBLIC by the spec.
  default, mixed

pgVars   == <<db, public, priv, app>>
apiVars  == <<life, fin, role, secret>>
ghosts   == <<default, mixed>>
own      == <<pgVars, apiVars, rolePc, decision, ghosts>>
vars     == <<extVars, spec, allow, st, ReconcileVars, budgets, own>>

NoDb == [by |-> "nobody", mark |-> "none"]
Exists == db # NoDb
Grantees == {"role", "PUBLIC"}
Statuses == [name : BOOLEAN, ledger : SUBSET Grantees, revoked : BOOLEAN, app : BOOLEAN, ext : Entries, ready : BOOLEAN]
NoStatus == [name |-> FALSE, ledger |-> {}, revoked |-> FALSE, app |-> FALSE, ext |-> NoEntry, ready |-> FALSE]
Specs == [ext : {"no", "keep", "drop"}, ver : Versions, public : {"default", "revoke", "both"}]
\* "both": the spec revokes the privilege from PUBLIC and grants it to PUBLIC.

TypeOK ==
  /\ ExtTypeOK
  /\ db \in [by : {"nobody", "pgop", "dba"}, mark : {"none", "mine", "other"}] /\ (db.by = "nobody" => db = NoDb)
  /\ {public, priv, fin, secret, fresh, problem, default, mixed, allow} \subseteq BOOLEAN
  /\ app \in {"none", "owner", "other"} /\ life \in {"none", "live", "deleting"} /\ (fin => life # "none")
  /\ role \in {"live", "deleting", "gone"} /\ rolePc \in {"idle", "drop"}
  /\ spec \in Specs /\ my \in [spec : Specs, allow : BOOLEAN, paused : BOOLEAN, found : Schemata]
  /\ st \in Statuses /\ w \in Statuses
  /\ ~Exists => ~public /\ ~priv /\ app = "none" /\ ~Installed /\ where = "none"
  /\ pc \in {"idle", "finalizer", "ensure", "database", "comment", "grants", "grant", "revoke", "public", "revoke public",
             "schemas", "ext", "schema", "intent", "create", "update", "drop", "secret", "status",
             "drop database", "release"}
  /\ decision \in {"none", "absent", "owned", "remark"}
  /\ edits \in 0..MaxEdits /\ outside \in 0..MaxOutside /\ faults \in 0..MaxFaults

Nothing == [spec |-> [ext |-> "no", ver |-> 1, public |-> "default"], allow |-> FALSE, paused |-> FALSE, found |-> "none"]

Init ==
  /\ ext = NoExt /\ where = "none" /\ needed = FALSE /\ oids = 0
  /\ db = NoDb /\ public = FALSE /\ priv = FALSE /\ app = "none"
  /\ life = "live" /\ fin = FALSE /\ role = "live" /\ secret = FALSE
  /\ spec = [ext |-> "drop", ver |-> 1, public |-> "revoke"]
  /\ allow = FALSE /\ st = NoStatus
  /\ pc = "idle" /\ my = Nothing /\ w = NoStatus /\ fresh = FALSE /\ problem = FALSE
  /\ rolePc = "idle" /\ decision = "none"
  /\ default = FALSE /\ mixed = FALSE
  /\ edits = 0 /\ outside = 0 /\ faults = 0

-----------------------------------------------------------------------------
(* Users, DBAs and the Role controller. *)

Edit == edits < MaxEdits /\ edits' = edits + 1 /\ UNCHANGED <<outside, faults>>

\* A change from outside commutes with the steps of the reconcile that do not
\* depend on it: it happens between reconciles or where it may be noticed.
At(steps) == pc \in {"idle"} \cup steps
Saves == {"finalizer", "grants", "public", "intent", "secret", "status", "release"}
UserQuiet == UNCHANGED <<extVars, st, pc, my, w, problem, pgVars, rolePc, decision, default>>

EditSpec(s) ==
  /\ Edit /\ At(Saves) /\ life = "live" /\ s # spec
  /\ \E f \in {"ext", "ver", "public"} : s = [spec EXCEPT ![f] = s[f]]
  /\ spec' = s /\ fresh' = FALSE /\ mixed' = (mixed \/ s.public = "both")
  /\ UserQuiet /\ UNCHANGED <<allow, apiVars>>
DeleteDatabase ==
  /\ Edit /\ At(Saves) /\ life = "live" /\ fresh' = FALSE
  /\ life' = (IF fin THEN "deleting" ELSE "none") /\ st' = (IF fin THEN st ELSE NoStatus)
  /\ UNCHANGED <<extVars, pc, my, w, problem, pgVars, rolePc, decision, spec, allow, fin, role, secret, ghosts>>
EditOthers ==
  /\ Edit
  /\ \/ At({}) /\ allow' = ~allow /\ UNCHANGED role
     \/ At({"grants", "grant"}) /\ role = "live" /\ role' = "deleting" /\ UNCHANGED allow
  /\ UserQuiet /\ UNCHANGED <<spec, fresh, life, fin, secret, mixed>>

\* A new database: PUBLIC holds its default privilege.
Fresh(b) ==
  /\ db' = b /\ public' = (b # NoDb) /\ default' = (b # NoDb) /\ priv' = FALSE /\ app' = "none"
  /\ IF b = NoDb THEN ExtGone ELSE ExtFresh
OutsideQuiet == UNCHANGED <<spec, allow, st, ReconcileVars, edits, faults, apiVars, rolePc, decision, mixed>>
OutsideDatabase ==
  /\ Outside /\ OutsideQuiet
  /\ \/ Exists /\ At({"database", "comment", "grant", "schemas"}) /\ Fresh(NoDb)
     \/ ~Exists /\ At({"database"}) /\ \E m \in {"none", "other"} : Fresh([by |-> "dba", mark |-> m])
     \/ /\ Exists /\ At({"grants", "public", "revoke public"}) /\ public' = ~public /\ default' = ~public
        /\ UNCHANGED <<db, priv, app, extVars>>
     \/ /\ Exists /\ At({"schemas"}) /\ app' = (IF app = "none" THEN "other" ELSE "none")
        /\ UNCHANGED <<db, public, priv, default, extVars>>

\* The deletion of a Role: every database privilege is revoked, then DROP ROLE,
\* which fails while the role holds one, and is tried again.
RevokeRole ==
  /\ rolePc = "idle" /\ role = "deleting" /\ rolePc' = "drop" /\ priv' = FALSE
  /\ UNCHANGED <<extVars, spec, allow, st, ReconcileVars, budgets, db, public, app, apiVars, decision, ghosts>>
DropRole ==
  /\ rolePc = "drop" /\ rolePc' = "idle" /\ role' = IF priv THEN role ELSE "gone"
  /\ UNCHANGED <<extVars, spec, allow, st, ReconcileVars, budgets, pgVars, life, fin, secret, decision, ghosts>>

-----------------------------------------------------------------------------
(* The reconcile: the database itself. *)

Quiet == UNCHANGED <<spec, allow, life, role, rolePc, mixed>>
Go(p) == pc' = p /\ Quiet
Local == UNCHANGED <<extVars, pgVars, st, fin, secret, my, fresh, default>>

\* Mutant of Paused: the grants of a Role being deleted go on.
PausedNever == FALSE

\* granteeChecker reads which Roles are being deleted.
Paused == role = "deleting"

\* Reconcile reads the Database, its owner Role and the policy.
Begin ==
  /\ pc = "idle" /\ life # "none"
  /\ Go(CASE life = "deleting" -> "drop database" [] life = "live" /\ ~fin -> "finalizer" [] OTHER -> "ensure")
  /\ my' = [spec |-> spec, allow |-> allow, paused |-> Paused, found |-> "none"] /\ w' = st /\ fresh' = TRUE /\ problem' = FALSE
  /\ UNCHANGED <<extVars, pgVars, st, fin, secret, decision, default, budgets>>

AddFinalizer ==
  /\ pc = "finalizer" /\ IF fresh THEN Go("ensure") /\ fin' = TRUE ELSE Go("idle") /\ UNCHANGED fin
  /\ UNCHANGED <<extVars, pgVars, st, secret, my, w, fresh, problem, decision, default, budgets>>

\* decideOwnership, with the marker as the only comment that counts.
DecideOwnership ==
  /\ pc = "ensure"
  /\ LET d == IF ~Exists THEN "absent" ELSE IF w.name /\ db.mark = "mine" THEN "owned"
              ELSE IF w.name /\ db.mark = "none" THEN "remark" ELSE "none"
     IN /\ decision' = d /\ Go(IF d = "none" THEN "status" ELSE "database")
        /\ problem' = (d = "none")
  /\ Local /\ UNCHANGED <<w, budgets>>

\* CreateDatabase: a database that was absent is only ever created, the owner
\* of another one is set.  Then its name is recorded in memory.
EnsureDatabase ==
  /\ pc = "database"
  /\ IF decision = "absent" /\ Exists
     THEN Go("status") /\ problem' = TRUE /\ UNCHANGED <<w, pgVars, extVars, default>>
     ELSE /\ Go(IF decision = "owned" THEN "grants" ELSE "comment") /\ w' = [w EXCEPT !.name = TRUE]
          /\ IF Exists THEN UNCHANGED <<pgVars, extVars, default>> ELSE Fresh([by |-> "pgop", mark |-> "none"])
          /\ UNCHANGED problem
  /\ decision' = "none" /\ UNCHANGED <<st, fin, secret, my, fresh, budgets>>
MarkDatabase ==
  /\ pc = "comment" /\ Exists /\ Go("grants") /\ db' = [db EXCEPT !.mark = "mine"]
  /\ UNCHANGED <<extVars, public, priv, app, st, fin, secret, my, w, fresh, problem, decision, default, budgets>>

-----------------------------------------------------------------------------
(* Database grants (PrivilegeLedger has the details) and PUBLIC. *)

Declared == (IF my.paused \/ role = "gone" THEN {} ELSE {"role"})
            \cup (IF my.spec.public = "both" THEN {"PUBLIC"} ELSE {})
Held == (IF priv THEN {"role"} ELSE {}) \cup (IF public THEN {"PUBLIC"} ELSE {})

\* The intended additions are recorded before any GRANT.
RecordGrants ==
  /\ pc = "grants" /\ Exists
  /\ LET l == [w EXCEPT !.ledger = @ \cup (Declared \ Held)]
         held == "role" \notin Declared
     IN CASE Declared \subseteq Held -> Go("revoke") /\ problem' = held /\ UNCHANGED <<w, st, fresh>>
          [] fresh /\ ~(Declared \subseteq Held) -> Go("grant") /\ w' = l /\ Save(l) /\ problem' = held
          [] OTHER -> Go("public") /\ problem' = TRUE /\ UNCHANGED <<w, st, fresh>>
  /\ UNCHANGED <<extVars, pgVars, fin, secret, my, decision, default, budgets>>
Grant ==
  /\ pc = "grant" /\ Exists /\ Go("revoke")
  /\ priv' = (priv \/ ("role" \in Declared /\ role # "gone")) /\ public' = (public \/ "PUBLIC" \in Declared)
  /\ UNCHANGED <<extVars, db, app, st, fin, secret, my, w, fresh, problem, decision, default, budgets>>
Revoke ==
  /\ pc = "revoke" /\ Exists /\ Go("public")
  /\ priv' = (priv /\ ~("role" \in w.ledger /\ "role" \notin Declared))
  /\ public' = (public /\ ~("PUBLIC" \in w.ledger /\ "PUBLIC" \notin Declared))
  /\ w' = [w EXCEPT !.ledger = @ \cap Declared]
  /\ UNCHANGED <<extVars, db, app, st, fin, secret, my, fresh, problem, decision, default, budgets>>

\* reconcilePublicPrivileges: a conflict with the grants is reported, and what
\* is recorded is granted back once the spec no longer asks for the revoke.
LeavePublic ==
  /\ pc = "public" /\ Exists /\ Go("schemas")
  /\ \/ my.spec.public = "both" /\ problem' = TRUE /\ UNCHANGED <<w, public>>
     \/ my.spec.public = "revoke" /\ ~public /\ UNCHANGED <<problem, w, public>>
     \/ /\ my.spec.public = "default" /\ UNCHANGED problem
        /\ public' = (public \/ w.revoked) /\ w' = [w EXCEPT !.revoked = FALSE]
  /\ UNCHANGED <<extVars, db, priv, app, st, fin, secret, my, fresh, decision, default, budgets>>

\* Mutant of RecordPublic: the record waits for the end of the reconcile.
RecordPublicInMemory ==
  /\ pc = "public" /\ Exists /\ my.spec.public = "revoke" /\ public
  /\ Go("revoke public") /\ w' = [w EXCEPT !.revoked = TRUE]
  /\ UNCHANGED <<extVars, pgVars, st, fin, secret, my, fresh, problem, decision, default, budgets>>

\* Mutant of RecordPublic: what is recorded counts as revoked.
RecordPublicOnce ==
  /\ pc = "public" /\ Exists /\ my.spec.public = "revoke" /\ public
  /\ LET l == [w EXCEPT !.revoked = TRUE]
     IN CASE w.revoked -> Go("schemas") /\ UNCHANGED <<problem, w, st, fresh>>
          [] ~w.revoked /\ fresh -> Go("revoke public") /\ w' = l /\ Save(l) /\ UNCHANGED problem
          [] OTHER -> Go("schemas") /\ problem' = TRUE /\ UNCHANGED <<w, st, fresh>>
  /\ UNCHANGED <<extVars, pgVars, fin, secret, my, decision, default, budgets>>

\* What pgop is about to revoke is recorded first, or not revoked.
RecordPublic ==
  /\ pc = "public" /\ Exists /\ my.spec.public = "revoke" /\ public
  /\ LET l == [w EXCEPT !.revoked = TRUE]
     IN CASE w.revoked -> Go("revoke public") /\ UNCHANGED <<problem, w, st, fresh>>
          [] ~w.revoked /\ fresh -> Go("revoke public") /\ w' = l /\ Save(l) /\ UNCHANGED problem
          [] OTHER -> Go("schemas") /\ problem' = TRUE /\ UNCHANGED <<w, st, fresh>>
  /\ UNCHANGED <<extVars, pgVars, fin, secret, my, decision, default, budgets>>
RevokePublic ==
  /\ pc = "revoke public" /\ Exists /\ Go("schemas") /\ public' = FALSE
  /\ UNCHANGED <<extVars, db, priv, app, st, fin, secret, my, w, fresh, problem, decision, default, budgets>>

-----------------------------------------------------------------------------
(* Schemas, extensions, credentials, status. *)

\* Mutant of Manageable: only a recorded schema.
ManageableRecorded == w.app

\* reconcileSchemas: an existing schema is managed if it is recorded or has
\* the declared owner.
Manageable == w.app \/ app = "owner"
Schemas ==
  /\ pc = "schemas" /\ Exists /\ Go("ext")
  /\ IF app = "none" \/ Manageable
     THEN app' = "owner" /\ w' = [w EXCEPT !.app = TRUE] /\ UNCHANGED problem
     ELSE problem' = TRUE /\ w' = [w EXCEPT !.app = FALSE] /\ UNCHANGED app
  /\ UNCHANGED <<extVars, db, public, priv, st, fin, secret, my, fresh, decision, default, budgets>>

Extensions == (Exists \/ pc = "intent") /\ (ReconcileExtensions \/ CreateFails \/ DropRemoved) /\ UNCHANGED own

Stop == my' = Nothing /\ w' = NoStatus /\ fresh' = FALSE /\ problem' = FALSE /\ decision' = "none"

\* reconcileCredentialsSecret, unless an error came first, and updateStatus; a
\* conflict loses the status.
UpdateStatus ==
  /\ pc \in {"secret", "status"} /\ Go("idle") /\ Stop
  /\ secret' = (secret \/ pc = "secret")
  /\ IF fresh THEN st' = [w EXCEPT !.ready = ~problem] ELSE UNCHANGED st
  /\ ext' = [ext EXCEPT !.due = IF fresh /\ my.spec.ext # "no" THEN Mine(w.ext) /\ w.ext.drop ELSE @]
  /\ UNCHANGED <<where, needed, oids, pgVars, fin, default, budgets>>

\* An error about the database or its schemas ends the reconcile; one about
\* grants, PUBLIC or an extension is reported once the rest is done.
Connected == {"comment", "grants", "grant", "revoke", "public", "revoke public", "schemas", "ext", "schema", "create", "update", "drop"}
DatabaseGone ==
  /\ pc \in Connected /\ ~Exists /\ Go("status") /\ problem' = TRUE
  /\ Local /\ UNCHANGED <<w, decision, budgets>>
Fail ==
  /\ Fault /\ problem' = TRUE
  /\ \/ pc \in {"ensure", "database", "comment", "schemas"} /\ Go("status")
     \/ pc \in {"grant", "revoke"} /\ Go("public")
     \/ pc = "revoke public" /\ Go("schemas")
     \/ pc \in {"ext", "schema", "update"} /\ Go("drop")
  /\ Local /\ UNCHANGED <<w, decision>>

\* Mutant of DropAllowed: the record alone.
DropAllowedRecorded == w.name

\* dropPostgresDatabase: the recorded database, if it has the marker or no
\* comment.  Then the finalizer is removed.
DropAllowed == w.name /\ db.mark # "other"
DropDatabase ==
  /\ pc = "drop database" /\ Go("release")
  /\ IF Exists /\ DropAllowed THEN Fresh(NoDb) ELSE UNCHANGED <<pgVars, extVars, default>>
  /\ UNCHANGED <<st, fin, secret, my, w, fresh, problem, decision, budgets>>
Release ==
  /\ pc = "release" /\ pc' = "idle" /\ Stop
  /\ IF fresh THEN life' = "none" /\ fin' = FALSE /\ st' = NoStatus /\ secret' = FALSE ELSE UNCHANGED <<life, fin, st, secret>>
  /\ UNCHANGED <<extVars, pgVars, spec, allow, role, rolePc, ghosts, budgets>>

\* The operator stops, or a call of the deletion fails (before anything was
\* done it is as if the reconcile had not begun).
Crash ==
  /\ pc \notin {"idle", "finalizer", "ensure", "database", "drop database"} /\ Fault /\ Go("idle") /\ Stop
  /\ UNCHANGED <<extVars, pgVars, st, fin, secret, default>>

-----------------------------------------------------------------------------
Reconcile ==
  \/ Begin \/ AddFinalizer \/ DecideOwnership \/ EnsureDatabase \/ MarkDatabase
  \/ RecordGrants \/ Grant \/ Revoke \/ LeavePublic \/ RecordPublic \/ RevokePublic
  \/ Schemas \/ Extensions \/ UpdateStatus \/ DatabaseGone \/ DropDatabase \/ Release
RoleController == RevokeRole \/ DropRole
Others ==
  \/ \E s \in Specs : EditSpec(s)
  \/ DeleteDatabase \/ EditOthers \/ OutsideDatabase
  \/ Exists /\ At({"schema", "create", "update", "drop"}) /\ OutsideExtension /\ UNCHANGED own

Next == Reconcile \/ RoleController \/ Others \/ Fail \/ Crash
Spec == Init /\ [][Next]_vars

\* Watch events, requeues and the resync run both controllers again.
Fairness == WF_vars(Reconcile) /\ WF_vars(RoleController)
FairSpec == Spec /\ Fairness

-----------------------------------------------------------------------------
(* Properties. *)

\* What PUBLIC lacks because pgop revoked it is in the durable record, so that
\* no crash or lost status write makes pgop forget to grant it back.
\* (reconcilePublicPrivileges; not once the spec also granted it to PUBLIC)
PublicRecorded == Exists /\ st.name /\ default /\ ~public => st.revoked \/ mixed

\* pgop drops no database that carries somebody else's comment or that it did
\* not record.  (dropPostgresDatabase)
OnlyOwnDatabaseDropped ==
  [][pc = "drop database" /\ ~Exists' => ~Exists \/ db.mark # "other"]_<<pc, db>>

Managed == life = "live" /\ Exists /\ st.name /\ db.mark # "other"

\* Once users stop, PUBLIC has what the spec says: nothing while the spec
\* revokes it, its default back when it no longer does.
PublicSettles ==
  <>[](Managed /\ ~mixed => /\ spec.public = "revoke" => ~public
                            /\ spec.public = "default" /\ default => public)

\* Once users stop, an extension that pgop recorded as its own and to be
\* dropped, and that left the spec, is dropped, whatever failed or was lost
\* since, unless other objects need it.  (dropRemoved keeps what it could not drop)
RemovedExtensionDropped == <>[](Managed /\ spec.ext = "no" /\ ~needed => ~ext.due)

\* A Role being deleted is dropped although the Database grants to it, and a
\* Database being deleted goes.  (granteeChecker pauses its grants)
DeletionsComplete == <>[](role # "deleting" /\ life # "deleting")

\* Once users stop, a Database that nothing blocks is ready, with its schema
\* and its credentials.
BecomesReady ==
  <>[](Managed /\ role = "live" /\ spec.public # "both" /\ app # "other" /\ spec.ext = "no" /\ ~st.ext.created =>
         st.ready /\ app = "owner" /\ secret)

\* The state is well-formed, and the status knows what pgop took from PUBLIC.
DatabaseInv == TypeOK /\ PublicRecorded

\* What pgop drops, databases and extensions, is its own.
OnlyOwnDropped == OnlyOwnExtensionDropped /\ OnlyOwnDatabaseDropped

\* Once users stop, the Database is as its spec says: PUBLIC's privilege,
\* removed extensions, deletions and readiness.
DatabaseSettles == PublicSettles /\ RemovedExtensionDropped /\ DeletionsComplete /\ BecomesReady
=============================================================================

------------------------ MODULE DatabaseExtensions ------------------------
(***************************************************************************)
(* The extensions of a Database: one extension of the spec, its target     *)
(* schema (named in spec.extensions, not listed in spec.schemas), and the  *)
(* part of the Database's reconcile that installs, updates and drops it.   *)
(* Database extends this module with the rest of the reconcile.            *)
(* Version 1 of the extension is trusted by the server, version 2 is not.  *)
(* The dependencies of an extension are checked like the extension itself  *)
(* and are not kept apart from it.                                         *)
(* A schema is what extensionSchemaProblem tells apart: "super" is owned   *)
(* by a superuser and only superusers may create in it; in "owner" the     *)
(* database owner may too (as in public, or in a schema the Database       *)
(* manages); in "open" another role may.                                   *)
(***************************************************************************)
EXTENDS Naturals

CONSTANTS MaxEdits,   \* bound on what users change
          MaxOutside, \* bound on what happens in PostgreSQL outside pgop
          MaxFaults   \* bound on failing calls and crashes

ASSUME BoundsAssumption == MaxEdits \in Nat /\ MaxOutside \in Nat /\ MaxFaults \in Nat

VARIABLES
  \* In PostgreSQL:
  ext,     \* the installed extension
  where,   \* its target schema: absent, or who may create objects in it
  needed,  \* other objects depend on the extension
  oids,    \* object ids handed out
  \* In the API server:
  spec, allow,  \* spec.extensions and spec.publicPrivileges; rolePolicy.allowedExtensions
  st,           \* the Database's status
  \* In the reconcile:
  pc,      \* control state
  my,      \* spec, policy and deleted Roles as it read them, and the target
           \* schema as its last check found it
  w,       \* the working copy of the status
  fresh,   \* nobody wrote the Database since it was read
  problem, \* an error to report
  edits, outside, faults

extVars == <<ext, where, needed, oids>>
budgets == <<edits, outside, faults>>

Versions == {1, 2}
Schemata == {"none", "super", "owner", "open"}
Trusted == {1}
\* due: recorded as pgop's and to be dropped when it leaves the spec (not in
\* PostgreSQL; for the properties).
Exts == [oid : Nat, ver : Versions \cup {0}, by : {"nobody", "pgop", "dba"}, elsewhere : BOOLEAN, due : BOOLEAN]
NoExt == [oid |-> 0, ver |-> 0, by |-> "nobody", elsewhere |-> FALSE, due |-> FALSE]
\* The extension's entry in the status.
Entries == [created : BOOLEAN, oid : Nat, drop : BOOLEAN]
NoEntry == [created |-> FALSE, oid |-> 0, drop |-> FALSE]
Installed == ext # NoExt

ExtTypeOK ==
  /\ oids \in Nat /\ needed \in BOOLEAN /\ (needed => Installed)
  /\ ext \in Exts /\ (ext = NoExt \/ (ext.oid \in 1..oids /\ ext.ver \in Versions /\ ext.by # "nobody"))
  /\ where \in Schemata
  /\ \A s \in {st, w} : /\ s.ext \in Entries /\ s.ext.oid \in 0..oids
                        /\ s.ext.oid # 0 => s.ext.created

\* A database that is gone, and a fresh one, which has no extension; the target
\* schema may be one it has from its template, such as public.
ExtGone == ext' = NoExt /\ where' = "none" /\ needed' = FALSE /\ UNCHANGED oids
ExtFresh == ext' = NoExt /\ where' \in {"none", "owner"} /\ needed' = FALSE /\ UNCHANGED oids

-----------------------------------------------------------------------------
(* Outside pgop. *)

Outside == outside < MaxOutside /\ outside' = outside + 1
ReconcileVars == <<pc, my, w, fresh, problem>>

\* Someone else installs or drops the extension, in the target schema or
\* elsewhere, or comes to depend on it.  The target schema is created, opened to
\* others, closed again, given away, or dropped with the extension in it, by the
\* roles that may: superusers leave a schema of theirs as it is.
OutsideExtension ==
  /\ Outside
  /\ \/ /\ Installed /\ ext' = NoExt /\ needed' = FALSE /\ UNCHANGED <<where, oids>>
     \/ /\ ~Installed /\ oids' = oids + 1 /\ UNCHANGED <<where, needed>>
        /\ \E e \in IF where = "none" THEN {TRUE} ELSE BOOLEAN :
             ext' = [oid |-> oids + 1, ver |-> 1, by |-> "dba", elsewhere |-> e, due |-> FALSE]
     \/ Installed /\ needed' = ~needed /\ UNCHANGED <<ext, where, oids>>
     \/ where # "super" /\ where' \in {"owner", "open"} \ {where} /\ UNCHANGED <<ext, needed, oids>>
     \/ /\ where \in {"owner", "open"} /\ where' = "none" /\ UNCHANGED oids
        /\ IF ext.elsewhere THEN UNCHANGED <<ext, needed>> ELSE ext' = NoExt /\ needed' = FALSE
  /\ UNCHANGED <<spec, allow, st, ReconcileVars, edits, faults>>

-----------------------------------------------------------------------------
(* reconcileExtensions. *)

Fault == faults < MaxFaults /\ faults' = faults + 1 /\ UNCHANGED <<edits, outside>>
ExtStep(p) == pc' = p /\ UNCHANGED <<spec, allow, my>>
\* A step whose last check of the schema found s.
ExtCheck(p, s) == pc' = p /\ UNCHANGED <<spec, allow>> /\ my' = [my EXCEPT !.found = s]
ExtQuiet == UNCHANGED <<extVars, st, fresh>>

\* saveStatus: a status written on the copy that was read.
Save(s) == fresh /\ st' = s /\ UNCHANGED fresh

Entry(e) == [w EXCEPT !.ext = e]
Refuse(e) == problem' = TRUE /\ w' = Entry(e)

\* Only the installation whose oid was recorded is pgop's.
Mine(e) == e.created /\ e.oid # 0 /\ e.oid = ext.oid

\* The entry of a listed extension.
Listed(e) == IF Mine(e) THEN [e EXCEPT !.drop = my.spec.ext = "drop"]
             ELSE [NoEntry EXCEPT !.drop = my.spec.ext = "drop"]

\* checkVersions: the scripts of the versions after from up to v are all trusted,
\* or the Cluster allows the extension and the rules for its schema are strict.
Strict(from, v) == \E i \in from+1..v : i \notin Trusted
Allowed(from, v) == my.allow \/ ~Strict(from, v)

\* Mutant of Acceptable: strict or not.
AcceptableAlways(s, strict) == s \in {"super", "owner"}

\* extensionSchemaProblem: may a script run there as a superuser.
Acceptable(s, strict) == s = "super" \/ (s = "owner" /\ ~strict)

ExtUnlisted ==
  /\ pc = "ext" /\ my.spec.ext = "no" /\ ExtStep("drop")
  /\ ExtQuiet /\ UNCHANGED <<w, problem, budgets>>

\* reconcileOne for an extension that is not installed: planCreate and
\* checkInstallSchemas.  A record of an installation that is gone is void.
PlanCreate ==
  /\ pc = "ext" /\ my.spec.ext # "no" /\ ~Installed
  /\ LET none == [NoEntry EXCEPT !.drop = my.spec.ext = "drop"]
     IN IF Allowed(0, my.spec.ver) /\ (where = "none" \/ Acceptable(where, Strict(0, my.spec.ver)))
        THEN ExtCheck(IF where = "none" THEN "schema" ELSE "intent", where) /\ w' = Entry(none) /\ UNCHANGED problem
        ELSE ExtStep("drop") /\ Refuse(none)
  /\ ExtQuiet /\ UNCHANGED budgets

\* Mutant of CreateSchema: a schema that exists by now is taken as it is.
CreateSchemaUnchecked ==
  /\ pc = "schema" /\ ExtStep("intent") /\ UNCHANGED <<w, problem>>
  /\ where' = IF where = "none" THEN "super" ELSE where
  /\ UNCHANGED <<ext, needed, oids, st, fresh, budgets>>

\* createSchemas: owned by the operator; one that someone created since the
\* check is checked again.
CreateSchema ==
  /\ pc = "schema"
  /\ IF where = "none" \/ Acceptable(where, Strict(0, my.spec.ver))
     THEN /\ LET s == IF where = "none" THEN "super" ELSE where IN where' = s /\ ExtCheck("intent", s)
          /\ UNCHANGED <<w, problem>>
     ELSE ExtStep("drop") /\ Refuse(w.ext) /\ UNCHANGED where
  /\ UNCHANGED <<ext, needed, oids, st, fresh, budgets>>

\* persist: the creation is recorded before it happens, or nothing is created.
RecordIntent ==
  /\ pc = "intent"
  /\ LET e == [w.ext EXCEPT !.created = TRUE]
     IN IF fresh THEN ExtStep("create") /\ w' = Entry(e) /\ Save(Entry(e)) /\ UNCHANGED problem
        ELSE ExtStep("drop") /\ problem' = TRUE /\ UNCHANGED <<w, st, fresh>>
  /\ UNCHANGED <<extVars, budgets>>

\* Mutant of CreateFails: a failed CREATE EXTENSION has an oid.
CreateFailsWithOid ==
  /\ pc = "create" /\ ExtStep("drop")
  /\ \/ Installed /\ Refuse([w.ext EXCEPT !.created = FALSE, !.oid = ext.oid]) /\ UNCHANGED <<extVars, budgets>>
     \/ ~Installed /\ Fault /\ Refuse([w.ext EXCEPT !.created = FALSE]) /\ UNCHANGED extVars
  /\ UNCHANGED <<st, fresh>>

\* CREATE EXTENSION, in the target schema as it is by now, and InstalledExtension
\* for its oid.
CreateExtension ==
  /\ pc = "create" /\ ~Installed /\ where # "none" /\ ExtStep("drop")
  /\ oids' = oids + 1 /\ ext' = [oid |-> oids + 1, ver |-> my.spec.ver, by |-> "pgop", elsewhere |-> FALSE, due |-> FALSE]
  /\ w' = Entry([w.ext EXCEPT !.oid = oids + 1])
  /\ UNCHANGED <<where, needed, st, fresh, problem, budgets>>

\* It exists by now, or its schema is gone, or it fails, or its oid is not learnt.
CreateFails ==
  /\ pc = "create" /\ ExtStep("drop")
  /\ \/ (Installed \/ where = "none") /\ Refuse([w.ext EXCEPT !.created = FALSE]) /\ UNCHANGED <<extVars, budgets>>
     \/ ~Installed /\ Fault /\ Refuse([w.ext EXCEPT !.created = FALSE]) /\ UNCHANGED extVars
     \/ /\ ~Installed /\ where # "none" /\ Fault /\ Refuse(w.ext) /\ UNCHANGED <<where, needed>>
        /\ oids' = oids + 1 /\ ext' = [oid |-> oids + 1, ver |-> my.spec.ver, by |-> "pgop", elsewhere |-> FALSE, due |-> FALSE]
  /\ UNCHANGED <<st, fresh>>

\* update, for an installed extension: only to a higher version, by scripts
\* that are allowed, in a schema nobody else can write to.
Updates ==
  /\ ~ext.elsewhere /\ my.spec.ver > ext.ver /\ Allowed(ext.ver, my.spec.ver)
  /\ Acceptable(where, Strict(ext.ver, my.spec.ver))
PlanUpdate ==
  /\ pc = "ext" /\ my.spec.ext # "no" /\ Installed /\ Updates /\ ExtCheck("update", where)
  /\ w' = Entry(Listed(w.ext)) /\ ExtQuiet /\ UNCHANGED <<problem, budgets>>

\* ALTER EXTENSION ... UPDATE, of what has that name by now; what it returns is
\* compared with the record.
UpdateExtension ==
  /\ pc = "update" /\ Installed /\ ExtStep("drop")
  /\ ext' = [ext EXCEPT !.ver = my.spec.ver] /\ w' = Entry(Listed(w.ext))
  /\ UNCHANGED <<where, needed, oids, st, fresh, problem, budgets>>
UpdateGone ==
  /\ pc = "update" /\ ~Installed /\ ExtStep("drop") /\ problem' = TRUE
  /\ ExtQuiet /\ UNCHANGED <<w, budgets>>

\* Left as it is: at its version and allowed, or refused (in another schema,
\* a downgrade, a version the policy does not allow, an unsafe schema).
LeaveInstalled ==
  /\ pc = "ext" /\ my.spec.ext # "no" /\ Installed /\ ~Updates /\ ExtStep("drop")
  /\ LET asWanted == ~ext.elsewhere /\ my.spec.ver = ext.ver /\ Allowed(ext.ver - 1, ext.ver)
     IN problem' = (problem \/ ~asWanted) /\ w' = Entry(Listed(w.ext))
  /\ ExtQuiet /\ UNCHANGED budgets

\* Mutants of DropRemoved: the installation is not compared with the record;
\* an extension that left the spec is forgotten.
DropRemovedByName ==
  /\ pc = "drop" /\ ExtStep("secret") /\ UNCHANGED <<oids, where, st, fresh, budgets>>
  /\ LET e == w.ext
         drops == my.spec.ext = "no" /\ e.created /\ e.drop /\ Installed /\ ~needed
     IN /\ ext' = IF drops THEN NoExt ELSE ext
        /\ needed' = needed
        /\ w' = IF my.spec.ext # "no" \/ (e.created /\ e.drop /\ Installed /\ needed) THEN w ELSE Entry(NoEntry)
        /\ UNCHANGED problem
DropRemovedForgets ==
  /\ pc = "drop" /\ ExtStep("secret") /\ w' = IF my.spec.ext = "no" THEN Entry(NoEntry) ELSE w
  /\ ExtQuiet /\ UNCHANGED <<problem, budgets>>

\* dropRemoved: what left the spec is dropped, without CASCADE, if it is the
\* installation pgop recorded and dropOnRemoval was recorded with it; a drop
\* that is blocked or fails is kept for the next reconcile.
DropRemoved ==
  /\ pc = "drop" /\ ExtStep("secret") /\ UNCHANGED <<oids, where, st, fresh>>
  /\ LET e == w.ext
         drops == my.spec.ext = "no" /\ e.created /\ e.drop /\ Installed
     IN \/ /\ drops /\ Mine(e) /\ ~needed /\ ext' = NoExt /\ w' = Entry(NoEntry)
           /\ UNCHANGED <<needed, problem, budgets>>
        \/ drops /\ Mine(e) /\ needed /\ Refuse(e) /\ UNCHANGED <<ext, needed, budgets>>
        \/ drops /\ Mine(e) /\ Fault /\ Refuse(e) /\ UNCHANGED <<ext, needed>>
        \/ drops /\ ~Mine(e) /\ Refuse(NoEntry) /\ UNCHANGED <<ext, needed, budgets>>
        \/ /\ ~drops /\ w' = IF my.spec.ext = "no" THEN Entry(NoEntry) ELSE w
           /\ UNCHANGED <<ext, needed, problem, budgets>>

ReconcileExtensions ==
  \/ ExtUnlisted \/ PlanCreate \/ CreateSchema \/ RecordIntent \/ CreateExtension
  \/ PlanUpdate \/ UpdateExtension \/ UpdateGone \/ LeaveInstalled

-----------------------------------------------------------------------------
(* Properties. *)

\* CREATE and ALTER EXTENSION run their scripts as a superuser in the target
\* schema.  A script that is not trusted finds a schema that only superusers can
\* write to, whoever was quicker to create it.  A trusted one may find a schema
\* open to others only if it was the database owner's when it was checked last:
\* what its owner does with it until the script runs is not checked again.
\* (checkInstallSchemas, createSchemas, update)
ScriptInCheckedSchema ==
  [][pc' = "drop" /\ pc \in {"create", "update"} /\ ext' # ext /\ ~ext'.elsewhere =>
       /\ Strict(IF pc = "create" THEN 0 ELSE ext.ver, ext'.ver) => where = "super"
       /\ where = "open" => my.found = "owner"]_<<pc, ext>>

\* DROP EXTENSION of pgop never hits an installation that someone else made,
\* whatever was dropped and created again since.  (dropRemoved: the recorded
\* oid and owner)
OnlyOwnExtensionDropped ==
  [][pc = "drop" /\ pc' = "secret" /\ ext' = NoExt => ext.by # "dba"]_<<pc, ext>>
=============================================================================

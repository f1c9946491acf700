----------------------------- MODULE Migrations -----------------------------
(***************************************************************************)
(* StateStore.initialize of storage/db.py and the ladder of migrations it  *)
(* climbs (storage/migrations.py), run by every process that opens a state *)
(* store, new or left by an older release.                                 *)
(*                                                                         *)
(* The sqlite3 module commits each DDL statement by itself until an INSERT *)
(* opens a transaction; from then on everything, later steps and PRAGMA    *)
(* user_version included, is part of it until the next commit.  The copy   *)
(* of a table that is rebuilt is such an INSERT.  One action stands for    *)
(* the statements of initialize's script, and for the columns one step     *)
(* adds to a table; all of them are skipped when they have been done.      *)
(***************************************************************************)
EXTENDS Integers, Sequences

CONSTANTS
    Procs,      \* processes that open the store
    Nobody,     \* not a process
    Olds,       \* versions of the releases that may have left the store
    MaxOpens    \* bound: times it is opened

VARIABLES
    disk,       \* what is committed: version, parts of the schema, temporary
                \* tables of rebuilds, and whether an approval has a retry count
    draft,      \* what the writer sees
    writer,     \* the process with an open transaction
    stage, at,     \* where each process stands, and the version it has come to
    upset,      \* history: "rival" (two processes), "death"
    lost,       \* history: retry counts that were copied away
    opens       \* the bound used up so far

schemaVars == <<disk, draft, writer, stage, at, upset, lost, opens>>

SchemaVersion == 19

(* The store was left by a release there has been, or by a later one.        *)
ASSUME SchemaAssumption ==
    Olds \subseteq 0..SchemaVersion + 1 /\ Nobody \notin Procs /\ MaxOpens \in Nat

(* <<table, k>> is what the step from version k to k + 1 gave to a table: the *)
(* table, or columns of it.  Plain tables come with version 1.               *)
Tables ==
    <<"tasks", "iterations", "approval_requests", "plan_items", "task_events",
      "action_records", "plan_graph_nodes", "replan_decisions", "memory_lessons",
      "dead_letter_items", "autopilot_loop_runs">>
Created ==
    {<<"tasks", 0>>, <<"iterations", 0>>, <<"approval_requests", 1>>, <<"plan_items", 4>>,
     <<"task_events", 8>>, <<"action_records", 9>>, <<"plan_graph_nodes", 11>>,
     <<"replan_decisions", 13>>, <<"memory_lessons", 14>>, <<"dead_letter_items", 15>>,
     <<"autopilot_loop_runs", 16>>}
Extended ==
    {<<"iterations", 3>>, <<"plan_items", 5>>, <<"plan_items", 6>>, <<"action_records", 10>>,
     <<"plan_items", 12>>, <<"task_events", 17>>}
Rebuilt == {<<"approval_requests", 2>>, <<"plan_graph_nodes", 18>>}
Parts == Created \union Extended \union Rebuilt

Full(t) == {p \in Parts : p[1] = t}
Present(schema, t) == Full(t) \intersect schema # {}
Of(S, k) == {p \in S : p[2] = k}
Left(version) == {p \in Parts : p[2] < version}

(* What CREATE TABLE IF NOT EXISTS adds.                                     *)
Fill(schema, ts, form) == schema \union UNION {form[t] : t \in {u \in ts : ~ Present(schema, u)}}

SchemaTypeOK ==
    /\ \A db \in {disk, draft} :
         /\ db.version \in 0..SchemaVersion + 1 /\ db.schema \subseteq Parts
         /\ db.temps \subseteq {2, 18} /\ db.retried \in BOOLEAN
    /\ writer \in Procs \union {Nobody}
    /\ stage \in [Procs -> {"idle", "script", "version", "step", "alter", "drop", "create",
                         "copy", "mark", "indexes", "open", "raised"}]
    /\ at \in [Procs -> 0..SchemaVersion]
    /\ upset \subseteq {"rival", "death"} /\ lost \in BOOLEAN /\ opens \in 0..MaxOpens

SchemaInit ==
    /\ \E v \in Olds :
         disk = [version |-> v, schema |-> IF v = 0 THEN {} ELSE Left(v), temps |-> {},
                 retried |-> FALSE]
    /\ draft = disk /\ writer = Nobody
    /\ stage = [p \in Procs |-> "idle"] /\ at = [p \in Procs |-> 0]
    /\ upset = {} /\ lost = FALSE /\ opens = 0

GoOn(p, label) == stage' = [stage EXCEPT ![p] = label]
View(p) == IF writer = p THEN draft ELSE disk

(* A statement of p: committed at once unless p has a transaction open.      *)
Write(p, db) ==
    /\ writer \in {p, Nobody} /\ UNCHANGED writer
    /\ IF writer = p THEN draft' = db /\ UNCHANGED disk ELSE disk' = db /\ draft' = db

Commit(p, db) == disk' = db /\ draft' = db /\ writer' = IF writer = p THEN Nobody ELSE writer
Rollback(p) ==
    IF writer = p THEN draft' = disk /\ writer' = Nobody /\ UNCHANGED disk
    ELSE UNCHANGED <<disk, draft, writer>>

(* An sqlite3 error leaves initialize; the with block rolls back.            *)
Raise(p) == GoOn(p, "raised") /\ Rollback(p)
-----------------------------------------------------------------------------
(* OPENING THE STORE *)

Open(p) ==
    /\ stage[p] \in {"idle", "raised"} /\ opens < MaxOpens /\ opens' = opens + 1
    /\ GoOn(p, "script")
    /\ upset' = IF \A q \in Procs : stage[q] \in {"idle", "raised"} THEN upset
                ELSE upset \union {"rival"}
    /\ UNCHANGED <<disk, draft, writer, at, lost>>

(* Indexes of the script on columns that a later step adds to old tables.    *)
IndexedEarly == {<<"task_events", 17>>, <<"action_records", 10>>}
Outdated(schema) == {p \in IndexedEarly : Present(schema, p[1]) /\ p \notin schema}

CreateTables(p) ==
    LET bad == Outdated(disk.schema)
        upTo == CHOOSE n \in 0..Len(Tables) :
                  /\ n < Len(Tables) => \E d \in bad : d[1] = Tables[n + 1]
                  /\ \A i \in 1..n : \A d \in bad : d[1] # Tables[i]
        form == [t \in {Tables[i] : i \in 1..upTo} |-> Full(t)]
        db == [disk EXCEPT !.schema = Fill(@, DOMAIN form, form)]
    IN  /\ stage[p] = "script" /\ writer = Nobody
        /\ disk' = db /\ draft' = db /\ UNCHANGED writer
        /\ GoOn(p, IF bad = {} THEN "version" ELSE "raised")
        /\ UNCHANGED <<at, upset, lost, opens>>

(* migrate_schema *)
ReadVersion(p) ==
    /\ stage[p] = "version"
    /\ CASE disk.version = 0 ->
            /\ Write(p, [disk EXCEPT !.version = SchemaVersion])
            /\ GoOn(p, "indexes") /\ UNCHANGED at
         [] disk.version > SchemaVersion -> Raise(p) /\ UNCHANGED at
         [] OTHER ->
            /\ at' = [at EXCEPT ![p] = disk.version]
            /\ GoOn(p, IF disk.version < SchemaVersion THEN "step" ELSE "indexes")
            /\ UNCHANGED <<disk, draft, writer>>
    /\ UNCHANGED <<upset, lost, opens>>

(* What the CREATE statements of step k give to the tables it creates: two   *)
(* of them hold today's form of the table, the others that of their version. *)
Form(k) ==
    [t \in {d[1] : d \in Of(Created, k)} |-> IF k \in {8, 9} THEN Full(t) ELSE {<<t, k>>}]

(* Steps that create tables or indexes.                                      *)
AddTables(p) ==
    LET form == Form(at[p])
    IN  /\ stage[p] = "step" /\ Of(Extended \union Rebuilt, at[p]) = {}
        /\ Write(p, [View(p) EXCEPT !.schema = Fill(@, DOMAIN form, form)])
        /\ GoOn(p, "mark")
        /\ UNCHANGED <<at, upset, lost, opens>>

(* Mutant: a table that is there is taken to have its columns. *)
LookUpTable(p) ==
    /\ stage[p] = "step" /\ Of(Extended, at[p]) # {}
    /\ GoOn(p, IF \A d \in Of(Extended, at[p]) : Present(View(p).schema, d[1])
               THEN "mark" ELSE "alter")
    /\ UNCHANGED <<disk, draft, writer, at, upset, lost, opens>>

(* _add_column_if_missing: the columns are looked up ...                     *)
LookUpColumns(p) ==
    /\ stage[p] = "step" /\ Of(Extended, at[p]) # {}
    /\ GoOn(p, IF Of(Extended, at[p]) \subseteq View(p).schema THEN "mark" ELSE "alter")
    /\ UNCHANGED <<disk, draft, writer, at, upset, lost, opens>>

(* ... and added, unless another process has added them in between.          *)
AddColumns(p) ==
    LET columns == Of(Extended, at[p])
    IN  /\ stage[p] = "alter"
        /\ IF columns \subseteq View(p).schema
           THEN Raise(p)
           ELSE /\ Write(p, [View(p) EXCEPT !.schema = @ \union columns])
                /\ GoOn(p, "mark")
        /\ UNCHANGED <<at, upset, lost, opens>>

(* Mutant: what an interrupted rebuild has left is never dropped. *)
BeginRebuildAnew(p) ==
    /\ stage[p] = "step" /\ Of(Rebuilt, at[p]) # {}
    /\ GoOn(p, "create")
    /\ IF writer = p THEN Commit(p, draft) ELSE UNCHANGED <<disk, draft, writer>>
    /\ UNCHANGED <<at, upset, lost, opens>>

(* Steps 2 and 18 rebuild a table.  The second ends an open transaction and  *)
(* drops what an interrupted rebuild has left; the first does not.           *)
BeginRebuild(p) ==
    /\ stage[p] = "step" /\ Of(Rebuilt, at[p]) # {}
    /\ IF at[p] = 18
       THEN GoOn(p, "drop") /\ (IF writer = p THEN Commit(p, draft)
                                ELSE UNCHANGED <<disk, draft, writer>>)
       ELSE GoOn(p, "create") /\ UNCHANGED <<disk, draft, writer>>
    /\ UNCHANGED <<at, upset, lost, opens>>

DropTemp(p) ==
    /\ stage[p] = "drop" /\ GoOn(p, "create")
    /\ Write(p, [View(p) EXCEPT !.temps = @ \ {at[p]}])
    /\ UNCHANGED <<at, upset, lost, opens>>

CreateTemp(p) ==
    /\ stage[p] = "create"
    /\ IF at[p] \in View(p).temps
       THEN Raise(p)
       ELSE Write(p, [View(p) EXCEPT !.temps = @ \union {at[p]}]) /\ GoOn(p, "copy")
    /\ UNCHANGED <<at, upset, lost, opens>>

(* Mutant: the old table is dropped before its copy is begun. *)
DropTableFirst(p) ==
    /\ stage[p] = "copy" /\ writer \in {p, Nobody}
    /\ IF at[p] \notin View(p).temps
       THEN Raise(p)
       ELSE /\ Write(p, [View(p) EXCEPT !.schema = {d \in @ : \A r \in Of(Rebuilt, at[p]) : r[1] # d[1]}])
            /\ GoOn(p, "mark")
    /\ UNCHANGED <<at, upset, lost, opens>>

(* INSERT ... SELECT begins the transaction in which the old table is        *)
(* dropped and the new one takes its name.  Retry columns are not copied.    *)
CopyTable(p) ==
    LET k == at[p]
        db == [View(p) EXCEPT !.schema = @ \union Of(Rebuilt, k), !.temps = @ \ {k},
                              !.retried = IF k = 2 THEN FALSE ELSE @]
    IN  /\ stage[p] = "copy" /\ writer \in {p, Nobody}
        /\ IF k \notin View(p).temps
           THEN Raise(p) /\ UNCHANGED lost
           ELSE /\ writer' = p /\ draft' = db /\ UNCHANGED disk
                /\ lost' = (lost \/ (View(p).retried /\ k = 2))
                /\ GoOn(p, "mark")
        /\ UNCHANGED <<at, upset, opens>>

(* Each step is followed by its version, whatever version is there.          *)
SetVersion(p) ==
    /\ stage[p] = "mark"
    /\ Write(p, [View(p) EXCEPT !.version = at[p] + 1])
    /\ at' = [at EXCEPT ![p] = @ + 1]
    /\ GoOn(p, IF at[p] + 1 < SchemaVersion THEN "step" ELSE "indexes")
    /\ UNCHANGED <<upset, lost, opens>>

(* _ensure_current_indexes commits and indexes columns that steps added.     *)
EnsureIndexes(p) ==
    LET db == View(p)
    IN  /\ stage[p] = "indexes" /\ writer \in {p, Nobody}
        /\ Commit(p, db)
        /\ GoOn(p, IF {<<"plan_items", 12>>, <<"plan_graph_nodes", 18>>} \subseteq db.schema
                   THEN "open" ELSE "raised")
        /\ UNCHANGED <<at, upset, lost, opens>>

(* Waiting for another's transaction ends after busy_timeout.                *)
LockTimeout(p) ==
    /\ stage[p] \notin {"idle", "open", "raised"} /\ writer \notin {p, Nobody}
    /\ Raise(p)
    /\ UNCHANGED <<at, upset, lost, opens>>

Die(p) ==
    /\ stage[p] \notin {"idle", "raised"} /\ GoOn(p, "idle") /\ Rollback(p)
    /\ upset' = upset \union {"death"}
    /\ UNCHANGED <<at, lost, opens>>

(* The store is used: record_approval_retry counts, or nothing that matters. *)
Use(p) ==
    /\ stage[p] = "open" /\ GoOn(p, "idle")
    /\ \E count \in BOOLEAN : Write(p, [disk EXCEPT !.retried = @ \/ count])
    /\ UNCHANGED <<at, upset, lost, opens>>
-----------------------------------------------------------------------------
Step(p) ==
    \/ CreateTables(p) \/ ReadVersion(p) \/ AddTables(p) \/ LookUpColumns(p)
    \/ AddColumns(p) \/ BeginRebuild(p) \/ DropTemp(p) \/ CreateTemp(p) \/ CopyTable(p)
    \/ SetVersion(p) \/ EnsureIndexes(p) \/ LockTimeout(p)

SchemaNext == \E p \in Procs : Open(p) \/ Step(p) \/ Use(p) \/ Die(p)

SchemaSpec == SchemaInit /\ [][SchemaNext]_schemaVars
-----------------------------------------------------------------------------
(* PROPERTIES *)

(* The version stands for the schema in every committed state, however far   *)
(* several processes have come and wherever they died; a store that was      *)
(* opened is complete; and retry counts are not copied away, unless by a     *)
(* process that read an old version and goes on when another is through.     *)
SchemaMatchesVersion ==
    /\ disk.version > 0 => Left(disk.version) \subseteq disk.schema
    /\ \A p \in Procs : stage[p] = "open" => disk.schema = Parts
    /\ lost => "rival" \in upset

(* No reader and no crash ever finds a table gone that was there: the drop   *)
(* and the rename of a rebuild are committed together.                       *)
TablesStay == [][disk.schema \subseteq disk'.schema]_schemaVars

(* initialize raises only when another process opens the store at the same   *)
(* time, when a step from 2 to 3 was cut short by a death and left its       *)
(* temporary table (then it raises for good), on a store of a later release, *)
(* or on one whose tables lack columns that the script indexes before the    *)
(* migration adds them.                                                      *)
RaisesAreExplained ==
    \A p \in Procs : stage[p] = "raised" =>
      \/ "rival" \in upset
      \/ "death" \in upset /\ 2 \in disk.temps /\ disk.version <= 2
      \/ disk.version > SchemaVersion \/ Outdated(disk.schema) # {}

(* CHANGELOG.md: fields are added "with a schema migration for existing      *)
(* state stores" - one process alone can open a store of any older version.  *)
OldStoresOpen ==
    \A p \in Procs : stage[p] = "raised" => upset # {} \/ disk.version > SchemaVersion
=============================================================================

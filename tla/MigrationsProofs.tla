-------------------------- MODULE MigrationsProofs --------------------------
(***************************************************************************)
(* That the version of a state store stands for its schema, whatever       *)
(* release left it, however many processes run StateStore.initialize on it *)
(* and wherever they die, and why initialize can raise.                    *)
(*                                                                         *)
(* Two invariants carry it.  Sound holds always: each process knows, from  *)
(* where it stands in the ladder, of parts that are in the schema it sees, *)
(* and since nothing is ever taken away it goes on knowing it while others *)
(* write.  Calm holds while no two processes have opened the store at the  *)
(* same time: then the version a process has come to is the one it sees,   *)
(* and a temporary table that was committed is the one it is working on or *)
(* was left by a process that died.                                        *)
(***************************************************************************)
EXTENDS Migrations, TLAPS
-----------------------------------------------------------------------------
(* PARTS OF THE SCHEMA *)

Names == {"tasks", "iterations", "approval_requests", "plan_items", "task_events",
          "action_records", "plan_graph_nodes", "replan_decisions", "memory_lessons",
          "dead_letter_items", "autopilot_loop_runs"}

LEMMA TablesAreNamed == \A n \in 1..Len(Tables) : Tables[n] \in Names
  BY DEF Tables, Names

LEMMA NamesAreTables == \A t \in Names : \E n \in 1..Len(Tables) : Tables[n] = t
  <1>1. Len(Tables) = 11
    BY DEF Tables
  <1>2. \A n \in 1..11 : n \in 1..Len(Tables)
    BY <1>1
  <1>3. /\ Tables[1] = "tasks" /\ Tables[2] = "iterations" /\ Tables[3] = "approval_requests"
        /\ Tables[4] = "plan_items" /\ Tables[5] = "task_events"
        /\ Tables[6] = "action_records" /\ Tables[7] = "plan_graph_nodes"
        /\ Tables[8] = "replan_decisions" /\ Tables[9] = "memory_lessons"
        /\ Tables[10] = "dead_letter_items" /\ Tables[11] = "autopilot_loop_runs"
    BY DEF Tables
  <1> QED
    BY <1>2, <1>3 DEF Names

LEMMA PartsAre ==
    /\ \A d \in Parts : d[2] \in 0..18 /\ d[1] \in Names
    /\ IndexedEarly \subseteq Parts /\ Created \subseteq Parts
    /\ \A c, d \in Created : c[1] = d[1] => c = d
    /\ \A d \in Parts : \E c \in Created : c[1] = d[1]
    /\ \A t \in Names : \E d \in Parts : d[1] = t
    /\ \A c \in Created, d \in Parts : c[1] = d[1] => c = d \/ c[2] < d[2]
    /\ \A c \in Created, d \in Extended \union Rebuilt : c[2] # d[2]
    /\ \A c \in Extended, d \in Rebuilt : c[2] # d[2]
    /\ \A d \in Rebuilt : d[2] \in {2, 18}
    /\ \A d \in Created : d[2] # 2
  <1>1. \A d \in Parts : d[2] \in 0..18 /\ d[1] \in Names
    BY DEF Parts, Created, Extended, Rebuilt, Names
  <1>2. IndexedEarly \subseteq Parts /\ Created \subseteq Parts
    BY DEF Parts, Created, Extended, Rebuilt, IndexedEarly
  <1>3. \A c, d \in Created : c[1] = d[1] => c = d
    BY DEF Created
  <1>4. \A d \in Parts : \E c \in Created : c[1] = d[1]
    BY DEF Parts, Created, Extended, Rebuilt
  <1>5. \A c \in Created, d \in Extended \union Rebuilt : c[1] = d[1] => c[2] < d[2]
    BY DEF Created, Extended, Rebuilt
  <1>6. \A c \in Created, d \in Parts : c[1] = d[1] => c = d \/ c[2] < d[2]
    BY <1>3, <1>5 DEF Parts
  <1>7. \A c \in Created, d \in Extended \union Rebuilt : c[2] # d[2]
    BY DEF Created, Extended, Rebuilt
  <1>8. \A c \in Extended, d \in Rebuilt : c[2] # d[2]
    BY DEF Extended, Rebuilt
  <1>9. \A d \in Rebuilt : d[2] \in {2, 18}
    BY DEF Rebuilt
  <1>10. \A d \in Created : d[2] # 2
    BY DEF Created
  <1>11. \A t \in Names : \E d \in Parts : d[1] = t
    <2> SUFFICES ASSUME NEW t \in Names PROVE \E k : <<t, k>> \in Parts
      OBVIOUS
    <2> QED
      BY DEF Names, Parts, Created
  <1> QED
    BY <1>1, <1>2, <1>3, <1>4, <1>6, <1>7, <1>8, <1>9, <1>10, <1>11

(* A step completes what its version stands for.                             *)
LEMMA LeftGrows ==
    /\ Left(SchemaVersion) = Parts /\ \A v \in 0..SchemaVersion + 1 : Left(v) \subseteq Parts
    /\ Left(SchemaVersion + 1) = Parts
    /\ \A k \in 0..18 : Left(k + 1) = Left(k) \union Of(Parts, k)
    /\ \A k \in 0..18 : Of(Extended \union Rebuilt, k) = {} => Of(Parts, k) = Of(Created, k)
    /\ \A k \in 0..18 : Of(Extended, k) # {} => Of(Parts, k) = Of(Extended, k)
    /\ \A k \in 0..18 : Of(Rebuilt, k) # {} => Of(Parts, k) = Of(Rebuilt, k) /\ k \in {2, 18}
  <1>1. \A d \in Parts : d[2] \in 0..18
    BY PartsAre
  <1>2. SchemaVersion = 19
    BY DEF SchemaVersion
  <1>3. /\ Left(SchemaVersion) = Parts /\ Left(SchemaVersion + 1) = Parts
        /\ \A v \in 0..SchemaVersion + 1 : Left(v) \subseteq Parts
    BY <1>1, <1>2 DEF Left
  <1>4. ASSUME NEW k \in 0..18
        PROVE  Left(k + 1) = Left(k) \union Of(Parts, k)
    <2>1. \A d \in Parts : d[2] < k + 1 <=> (d[2] < k \/ d[2] = k)
      BY <1>1
    <2> QED
      BY <2>1 DEF Left, Of
  <1>5. ASSUME NEW k \in 0..18, Of(Extended \union Rebuilt, k) = {}
        PROVE  Of(Parts, k) = Of(Created, k)
    BY <1>5 DEF Of, Parts
  <1>6. ASSUME NEW k \in 0..18, Of(Extended, k) # {}
        PROVE  Of(Parts, k) = Of(Extended, k)
    BY <1>6, PartsAre DEF Of, Parts
  <1>7. ASSUME NEW k \in 0..18, Of(Rebuilt, k) # {}
        PROVE  Of(Parts, k) = Of(Rebuilt, k) /\ k \in {2, 18}
    BY <1>7, PartsAre DEF Of, Parts
  <1> QED
    BY <1>3, <1>4, <1>5, <1>6, <1>7
-----------------------------------------------------------------------------
(* STORES *)

Stores == [version : 0..SchemaVersion + 1, schema : SUBSET Parts, temps : SUBSET {2, 18},
           retried : BOOLEAN]

LEMMA StoreIs ==
    ASSUME NEW db \in Stores
    PROVE  /\ db.version \in 0..SchemaVersion + 1 /\ db.schema \in SUBSET Parts
           /\ db.temps \in SUBSET {2, 18} /\ db.retried \in BOOLEAN
  BY DEF Stores

LEMMA WithSchema ==
    ASSUME NEW db \in Stores, NEW S \in SUBSET Parts, NEW n, n = [db EXCEPT !.schema = S]
    PROVE  /\ n \in Stores /\ n.schema = S
           /\ n.version = db.version /\ n.temps = db.temps /\ n.retried = db.retried
  BY DEF Stores

LEMMA WithVersion ==
    ASSUME NEW db \in Stores, NEW v \in 0..SchemaVersion + 1, NEW n, n = [db EXCEPT !.version = v]
    PROVE  /\ n \in Stores /\ n.version = v
           /\ n.schema = db.schema /\ n.temps = db.temps /\ n.retried = db.retried
  BY DEF Stores

LEMMA WithTemps ==
    ASSUME NEW db \in Stores, NEW T \in SUBSET {2, 18}, NEW n, n = [db EXCEPT !.temps = T]
    PROVE  /\ n \in Stores /\ n.temps = T
           /\ n.version = db.version /\ n.schema = db.schema /\ n.retried = db.retried
  BY DEF Stores

LEMMA WithRetried ==
    ASSUME NEW db \in Stores, NEW b \in BOOLEAN, NEW n, n = [db EXCEPT !.retried = b]
    PROVE  /\ n \in Stores /\ n.retried = b
           /\ n.version = db.version /\ n.schema = db.schema /\ n.temps = db.temps
  BY DEF Stores

(* Which table a part belongs to is decided by the step that created it.     *)
Founded(schema) == \A d \in schema : \A c \in Created : c[1] = d[1] => c \in schema
Whole(schema) == \A d \in schema : Full(d[1]) \subseteq schema
AllTables(schema) == \A t \in Names : Present(schema, t)

SchemaOK(db) ==
    /\ db.version > 0 => Left(db.version) \subseteq db.schema
    /\ Founded(db.schema)
    /\ db.version = 0 => Whole(db.schema)

LEMMA FillIs ==
    ASSUME NEW schema, NEW ts, NEW form
    PROVE  /\ schema \subseteq Fill(schema, ts, form)
           /\ \A d \in Fill(schema, ts, form) :
                d \in schema \/ \E t \in ts : d \in form[t] /\ ~ Present(schema, t)
           /\ \A t \in ts : ~ Present(schema, t) => form[t] \subseteq Fill(schema, ts, form)
  BY DEF Fill

(* The script adds whole tables only.                                        *)
LEMMA FillWhole ==
    ASSUME NEW schema \in SUBSET Parts, NEW ts, Founded(schema),
           NEW form, form = [t \in ts |-> Full(t)]
    PROVE  /\ Fill(schema, ts, form) \in SUBSET Parts /\ schema \subseteq Fill(schema, ts, form)
           /\ Founded(Fill(schema, ts, form))
           /\ Whole(schema) => Whole(Fill(schema, ts, form))
           /\ \A d \in Fill(schema, ts, form) : d \in schema \/ ~ Present(schema, d[1])
           /\ ts = Names => AllTables(Fill(schema, ts, form))
  <1> DEFINE F == Fill(schema, ts, form)
  <1>1. \A t : Full(t) \subseteq Parts /\ \A d \in Full(t) : d[1] = t
    BY DEF Full
  <1>2. \A d \in F : d \in schema \/ \E t \in ts : d \in Full(t) /\ ~ Present(schema, t)
    BY FillIs
  <1>3. schema \subseteq F /\ \A t \in ts : ~ Present(schema, t) => Full(t) \subseteq F
    BY FillIs
  <1> HIDE DEF F
  <1>4. F \in SUBSET Parts
    BY <1>1, <1>2
  <1>5. \A d \in F : d \in schema \/ (d[1] \in ts /\ ~ Present(schema, d[1]))
    BY <1>1, <1>2
  <1>6. \A c \in Created : c \in Parts
    BY PartsAre
  <1>7. Founded(F)
    <2> SUFFICES ASSUME NEW d \in F, NEW c \in Created, c[1] = d[1] PROVE c \in F
      BY DEF Founded
    <2>1. CASE d \in schema
      BY <1>3, <2>1 DEF Founded
    <2>2. CASE d[1] \in ts /\ ~ Present(schema, d[1])
      BY <1>3, <1>6, <2>2 DEF Full
    <2> QED
      BY <1>5, <2>1, <2>2
  <1>8. Whole(schema) => Whole(F)
    BY <1>3, <1>5 DEF Whole
  <1>9. ASSUME ts = Names
        PROVE  AllTables(F)
    <2> SUFFICES ASSUME NEW t \in Names PROVE Present(F, t)
      BY DEF AllTables
    <2>1. CASE Present(schema, t)
      BY <1>3, <2>1 DEF Present
    <2>2. CASE ~ Present(schema, t)
      <3>1. \E d \in Parts : d[1] = t
        BY PartsAre
      <3> QED
        BY <1>3, <1>9, <2>2, <3>1 DEF Present, Full
    <2> QED
      BY <2>1, <2>2
  <1> QED
    BY <1>3, <1>4, <1>5, <1>7, <1>8, <1>9 DEF F

(* A step adds its tables, unless they are there with their first part.      *)
LEMMA FillStep ==
    ASSUME NEW schema \in SUBSET Parts, NEW k \in 0..18, Founded(schema)
    PROVE  LET F == Fill(schema, DOMAIN Form(k), Form(k))
           IN  /\ F \in SUBSET Parts /\ schema \subseteq F /\ Founded(F)
               /\ Of(Created, k) \subseteq F
  <1> DEFINE ts == {d[1] : d \in Of(Created, k)}
             form == Form(k)
             F == Fill(schema, ts, form)
  <1>1. DOMAIN Form(k) = ts /\ \A t \in ts : form[t] = IF k \in {8, 9} THEN Full(t) ELSE {<<t, k>>}
    BY DEF Form
  <1>2. \A t \in ts : <<t, k>> \in Created
    BY DEF Of, Created
  <1>3. \A t \in ts : /\ form[t] \subseteq Parts /\ <<t, k>> \in form[t]
                      /\ \A d \in form[t] : d[1] = t
    <2> SUFFICES ASSUME NEW t \in ts
                 PROVE  /\ form[t] \subseteq Parts /\ <<t, k>> \in form[t]
                        /\ \A d \in form[t] : d[1] = t
      OBVIOUS
    <2>1. <<t, k>> \in Parts /\ <<t, k>>[1] = t
      BY <1>2, PartsAre
    <2>2. Full(t) \subseteq Parts /\ <<t, k>> \in Full(t) /\ \A d \in Full(t) : d[1] = t
      BY <2>1 DEF Full
    <2>3. form[t] = Full(t) \/ form[t] = {<<t, k>>}
      BY <1>1
    <2> HIDE DEF form
    <2> QED
      BY <2>1, <2>2, <2>3
  <1>4. /\ \A d \in F : d \in schema \/ \E t \in ts : d \in form[t] /\ ~ Present(schema, t)
        /\ schema \subseteq F /\ \A t \in ts : ~ Present(schema, t) => form[t] \subseteq F
    BY FillIs
  <1> HIDE DEF F, ts, form
  <1>5. F \in SUBSET Parts
    BY <1>3, <1>4
  <1>6. \A t \in ts : \A c \in Created : c[1] = t => c = <<t, k>>
    BY <1>2, PartsAre
  <1>7. \A t \in ts : <<t, k>> \in F
    <2> SUFFICES ASSUME NEW t \in ts PROVE <<t, k>> \in F
      OBVIOUS
    <2>1. CASE Present(schema, t)
      <3>1. PICK d \in schema : d[1] = t
        BY <2>1 DEF Present, Full
      <3> QED
        BY <1>2, <1>4, <3>1 DEF Founded
    <2>2. CASE ~ Present(schema, t)
      BY <1>3, <1>4, <2>2
    <2> QED
      BY <2>1, <2>2
  <1>8. Founded(F)
    <2> SUFFICES ASSUME NEW d \in F, NEW c \in Created, c[1] = d[1] PROVE c \in F
      BY DEF Founded
    <2>1. CASE d \in schema
      BY <1>4, <2>1 DEF Founded
    <2>2. ASSUME NEW t \in ts, d \in form[t] PROVE c \in F
      <3>1. d[1] = t /\ c[1] = t
        BY <1>3, <2>2
      <3>2. c = <<t, k>>
        BY <1>6, <3>1
      <3> QED
        BY <1>7, <3>2
    <2> QED
      BY <1>4, <2>1, <2>2
  <1>9. \A c \in Of(Created, k) : c[1] \in ts /\ c[2] = k /\ c = <<c[1], c[2]>>
    BY DEF ts, Of, Created
  <1>10. Of(Created, k) \subseteq F
    BY <1>7, <1>9
  <1> QED
    BY <1>1, <1>4, <1>5, <1>8, <1>10 DEF F, form
-----------------------------------------------------------------------------
(* WHAT A PROCESS KNOWS OF THE SCHEMA *)

Labels == {"idle", "script", "version", "step", "alter", "drop", "create", "copy", "mark",
           "indexes", "open", "raised"}
Working == {"step", "alter", "drop", "create", "copy", "mark", "indexes"}
Inside == Working \union {"open"}
Current == 1..SchemaVersion

Typed == SchemaTypeOK /\ disk \in Stores /\ draft \in Stores

(* What is committed and what a writer has prepared are both such that the   *)
(* version stands for the schema; a draft only adds to it.                   *)
DataOK ==
    /\ SchemaOK(disk) /\ SchemaOK(draft)
    /\ writer = Nobody => draft = disk
    /\ writer # Nobody => disk.schema \subseteq draft.schema

(* What a process at l that has come to version k knows to be in the schema. *)
PlaceOK(l, k, schema) ==
    /\ l \in Inside \union {"version"} => IndexedEarly \subseteq schema /\ AllTables(schema)
    /\ l \in {"step", "alter", "drop", "create", "copy", "mark"} => k \in 1..18
    /\ l \in {"step", "alter", "drop", "create", "copy"} => Left(k) \subseteq schema
    /\ l = "mark" => Left(k + 1) \subseteq schema
    /\ l \in {"indexes", "open"} => Parts \subseteq schema
    /\ l = "alter" => Of(Extended, k) # {}
    /\ l \in {"drop", "create", "copy"} => Of(Rebuilt, k) # {}

PlacesOK ==
    \A p \in Procs :
      /\ PlaceOK(stage[p], at[p], View(p).schema)
      /\ stage[p] \in Inside => disk.version \in Current
      /\ writer = p => stage[p] \in Working /\ at[p] >= 2 /\ draft.version \in Current

Sound == Typed /\ DataOK /\ PlacesOK

LEMMA PlaceGrows ==
    ASSUME NEW l, NEW k, NEW S, NEW T, PlaceOK(l, k, S), S \subseteq T
    PROVE  PlaceOK(l, k, T)
  <1>1. AllTables(S) => AllTables(T)
    BY DEF AllTables, Present
  <1> QED
    BY <1>1 DEF PlaceOK

(* A step of p that leaves p with db before its eyes.                        *)
Moves(p, l, k) == stage' = [stage EXCEPT ![p] = l] /\ at' = [at EXCEPT ![p] = k]

Changes(p, db) ==
    \/ UNCHANGED <<disk, draft, writer>> /\ db = View(p)
    \/ writer = Nobody /\ disk' = db /\ draft' = db /\ writer' = Nobody
    \/ writer \in {p, Nobody} /\ UNCHANGED disk /\ draft' = db /\ writer' = p
    \/ writer = p /\ disk' = db /\ draft' = db /\ writer' = Nobody
    \/ writer = p /\ UNCHANGED disk /\ draft' = disk /\ writer' = Nobody /\ db = disk

LEMMA MoveSound ==
    ASSUME Sound, NEW p \in Procs, NEW l \in Labels, NEW k \in 0..SchemaVersion,
           NEW db \in Stores, Moves(p, l, k), Changes(p, db),
           SchemaOK(db), disk.schema \subseteq db.schema,
           disk.version \in Current => db.version \in Current,
           PlaceOK(l, k, db.schema),
           l \in Inside => disk'.version \in Current,
           writer' = p => l \in Working /\ k >= 2 /\ db.version \in Current,
           upset' \subseteq {"rival", "death"}, lost' \in BOOLEAN, opens' \in 0..MaxOpens
    PROVE  /\ Sound' /\ disk.schema \subseteq disk'.schema /\ View(p)' = db
           /\ stage'[p] = l /\ at'[p] = k
           /\ \A q \in Procs : q # p => stage'[q] = stage[q] /\ at'[q] = at[q]
  <1>1. /\ stage \in [Procs -> Labels] /\ at \in [Procs -> 0..SchemaVersion]
        /\ disk \in Stores /\ draft \in Stores /\ writer \in Procs \union {Nobody}
    BY DEF Sound, Typed, SchemaTypeOK, Labels
  <1>2. /\ stage' \in [Procs -> Labels] /\ at' \in [Procs -> 0..SchemaVersion]
        /\ stage'[p] = l /\ at'[p] = k
        /\ \A q \in Procs : q # p => stage'[q] = stage[q] /\ at'[q] = at[q]
    BY <1>1 DEF Moves
  <1>3. p # Nobody
    BY SchemaAssumption
  <1>4. disk' \in Stores /\ draft' \in Stores /\ writer' \in Procs \union {Nobody}
    BY <1>1 DEF Changes, View
  <1>5. View(p)' = db
    BY <1>1, <1>3 DEF Changes, View, Sound, DataOK
  <1>6. Typed'
    <2>1. \A s \in {disk', draft'} :
            /\ s.version \in 0..SchemaVersion + 1 /\ s.schema \subseteq Parts
            /\ s.temps \subseteq {2, 18} /\ s.retried \in BOOLEAN
      BY <1>4 DEF Stores
    <2>2. stage' \in [Procs -> {"idle", "script", "version", "step", "alter", "drop", "create",
                             "copy", "mark", "indexes", "open", "raised"}]
      BY <1>2 DEF Labels
    <2> QED
      BY <1>2, <1>4, <2>1, <2>2 DEF Typed, SchemaTypeOK
  <1>7. DataOK' /\ disk.schema \subseteq disk'.schema
    <2>1. View(p) = disk \/ View(p) = draft
      BY DEF View
    <2> QED
      BY <1>1, <1>3, <2>1 DEF Sound, DataOK, Changes
  <1>8. ASSUME NEW q \in Procs, q # p
        PROVE  /\ PlaceOK(stage'[q], at'[q], View(q)'.schema)
               /\ stage'[q] \in Inside => disk'.version \in Current
               /\ writer' = q => stage'[q] \in Working /\ at'[q] >= 2 /\ draft'.version \in Current
    <2>1. /\ PlaceOK(stage[q], at[q], View(q).schema)
          /\ stage[q] \in Inside => disk.version \in Current
          /\ writer = q => stage[q] \in Working /\ at[q] >= 2 /\ draft.version \in Current
      BY DEF Sound, PlacesOK
    <2>2. \/ UNCHANGED <<disk, draft, writer>>
          \/ writer # q /\ writer' # q /\ disk' \in {disk, db}
      BY <1>3, <1>8, SchemaAssumption DEF Changes
    <2>3. View(q).schema \subseteq View(q)'.schema
      BY <1>7, <2>2 DEF View
    <2>4. PlaceOK(stage'[q], at'[q], View(q)'.schema)
      BY <1>2, <1>8, <2>1, <2>3, PlaceGrows
    <2> QED
      BY <1>2, <1>8, <2>1, <2>2, <2>4
  <1>9. writer' = p => draft'.version \in Current
    <2>1. writer' = p => draft' = db
      BY <1>3, <1>5 DEF View
    <2> QED
      BY <2>1
  <1>10. PlacesOK'
    <2>1. /\ PlaceOK(stage'[p], at'[p], View(p)'.schema)
          /\ stage'[p] \in Inside => disk'.version \in Current
          /\ writer' = p => stage'[p] \in Working /\ at'[p] >= 2 /\ draft'.version \in Current
      BY <1>2, <1>5, <1>9
    <2>2. \A q \in Procs :
            /\ PlaceOK(stage'[q], at'[q], View(q)'.schema)
            /\ stage'[q] \in Inside => disk'.version \in Current
            /\ writer' = q => stage'[q] \in Working /\ at'[q] >= 2 /\ draft'.version \in Current
      BY <1>8, <2>1
    <2> QED
      BY <2>2 DEF PlacesOK
  <1> QED
    BY <1>2, <1>5, <1>6, <1>7, <1>10 DEF Sound

LEMMA ViewOK ==
    ASSUME Sound, NEW p \in Procs
    PROVE  /\ View(p) \in Stores /\ View(p) \in {disk, draft} /\ SchemaOK(View(p))
           /\ disk \in Stores /\ SchemaOK(disk) /\ disk.schema \subseteq View(p).schema
           /\ PlaceOK(stage[p], at[p], View(p).schema)
           /\ stage[p] \in Inside => View(p).version \in Current /\ disk.version \in Current
           /\ writer = p => stage[p] \in Working /\ at[p] >= 2
           /\ writer # p => View(p) = disk
           /\ stage[p] \in Labels /\ at[p] \in 0..SchemaVersion /\ p # Nobody
           /\ upset \subseteq {"rival", "death"} /\ lost \in BOOLEAN /\ opens \in 0..MaxOpens
  <1>1. View(p) \in {disk, draft}
    BY DEF View
  <1>2. /\ disk \in Stores /\ draft \in Stores /\ SchemaOK(disk) /\ SchemaOK(draft)
        /\ disk.schema \subseteq View(p).schema
    BY DEF Sound, Typed, DataOK, View
  <1>3. /\ stage[p] \in Labels /\ at[p] \in 0..SchemaVersion /\ upset \subseteq {"rival", "death"}
        /\ lost \in BOOLEAN /\ opens \in 0..MaxOpens
    BY DEF Sound, Typed, SchemaTypeOK, Labels
  <1>4. /\ PlaceOK(stage[p], at[p], View(p).schema)
        /\ stage[p] \in Inside => disk.version \in Current
        /\ writer = p => stage[p] \in Working /\ at[p] >= 2 /\ draft.version \in Current
    BY DEF Sound, PlacesOK
  <1>5. stage[p] \in Inside => View(p).version \in Current
    BY <1>4 DEF View
  <1> QED
    BY <1>1, <1>2, <1>3, <1>4, <1>5, SchemaAssumption DEF View

(* What a step of p is known by. *)
Moved(p, l, k, db) ==
    /\ Sound' /\ disk.schema \subseteq disk'.schema /\ View(p)' = db /\ Changes(p, db)
    /\ db \in Stores /\ stage'[p] = l /\ at'[p] = k
    /\ \A q \in Procs : q # p => stage'[q] = stage[q] /\ at'[q] = at[q]

LEMMA WriteChanges ==
    ASSUME NEW p \in Procs, NEW db, Write(p, db)
    PROVE  Changes(p, db) /\ writer' = writer /\ writer \in {p, Nobody}
           /\ (disk' = disk \/ disk' = db) /\ (writer # p => disk' = db)
  BY DEF Write, Changes

LEMMA ReleaseChanges ==
    ASSUME NEW p \in Procs, NEW db, Commit(p, db), writer \in {p, Nobody}
    PROVE  Changes(p, db) /\ writer' = Nobody /\ disk' = db
  BY DEF Commit, Changes

LEMMA RollbackChanges ==
    ASSUME Sound, NEW p \in Procs, Rollback(p)
    PROVE  Changes(p, disk) /\ writer' # p /\ UNCHANGED disk
  BY SchemaAssumption DEF Rollback, Changes, View

LEMMA MoveIs ==
    ASSUME NEW p \in Procs, NEW l, GoOn(p, l), UNCHANGED at, Sound
    PROVE  Moves(p, l, at[p])
  <1>1. at \in [Procs -> 0..SchemaVersion]
    BY DEF Sound, Typed, SchemaTypeOK
  <1> QED
    BY <1>1 DEF GoOn, Moves

(* A process that gives up has prepared nothing. *)
LEMMA GivesUp ==
    ASSUME Sound, NEW p \in Procs, NEW l \in {"idle", "raised"},
           GoOn(p, l), Rollback(p), UNCHANGED <<at, opens, lost>>,
           upset' \subseteq {"rival", "death"}
    PROVE  Moved(p, l, at[p], disk) /\ UNCHANGED disk /\ writer' # p
  <1>1. /\ disk \in Stores /\ SchemaOK(disk) /\ at[p] \in 0..SchemaVersion
        /\ lost \in BOOLEAN /\ opens \in 0..MaxOpens
    BY ViewOK
  <1>2. Moves(p, l, at[p]) /\ l \in Labels /\ l \notin Inside \union {"version"}
    BY MoveIs DEF Labels, Inside, Working
  <1>3. Changes(p, disk) /\ writer' # p /\ UNCHANGED disk
    BY RollbackChanges
  <1>4. PlaceOK(l, at[p], disk.schema)
    BY <1>2 DEF PlaceOK, Inside, Working
  <1> QED
    BY <1>1, <1>2, <1>3, <1>4, MoveSound DEF Moved

LEMMA RaiseDoes ==
    ASSUME Sound, NEW p \in Procs, Raise(p), UNCHANGED <<at, opens, lost, upset>>
    PROVE  Moved(p, "raised", at[p], disk) /\ UNCHANGED disk /\ writer' # p
  <1>1. upset' \subseteq {"rival", "death"}
    BY DEF Sound, Typed, SchemaTypeOK
  <1> QED
    BY <1>1, GivesUp DEF Raise

LEMMA DieDoes ==
    ASSUME Sound, NEW p \in Procs, Die(p)
    PROVE  Moved(p, "idle", at[p], disk) /\ UNCHANGED disk /\ writer' # p
  <1>1. upset' \subseteq {"rival", "death"}
    BY DEF Sound, Typed, SchemaTypeOK, Die
  <1> QED
    BY <1>1, GivesUp DEF Die

LEMMA OpenDoes ==
    ASSUME Sound, NEW p \in Procs, Open(p)
    PROVE  Moved(p, "script", at[p], disk) /\ UNCHANGED <<disk, draft, writer>> /\ writer # p
  <1>1. /\ disk \in Stores /\ SchemaOK(disk) /\ at[p] \in 0..SchemaVersion
        /\ lost \in BOOLEAN /\ (writer = p => stage[p] \in Working)
        /\ upset \subseteq {"rival", "death"} /\ (writer # p => View(p) = disk)
    BY ViewOK
  <1>2. writer # p /\ View(p) = disk
    BY <1>1 DEF Open, Working
  <1>3. /\ Moves(p, "script", at[p]) /\ UNCHANGED <<disk, draft, writer, lost>>
        /\ upset' \subseteq {"rival", "death"}
    BY <1>1, MoveIs DEF Open
  <1>4. opens' \in 0..MaxOpens
    BY ViewOK, SchemaAssumption DEF Open
  <1>5. Changes(p, disk)
    BY <1>2, <1>3 DEF Changes
  <1>6. PlaceOK("script", at[p], disk.schema) /\ "script" \in Labels /\ "script" \notin Inside
    BY DEF PlaceOK, Inside, Working, Labels
  <1> QED
    BY <1>1, <1>2, <1>3, <1>4, <1>5, <1>6, MoveSound DEF Moved

LEMMA CreateTablesDoes ==
    ASSUME Sound, NEW p \in Procs, CreateTables(p)
    PROVE  \E db \in Stores :
             /\ stage[p] = "script" /\ writer = Nobody /\ disk' = db /\ UNCHANGED <<writer, upset, lost>>
             /\ db.version = disk.version /\ db.temps = disk.temps /\ db.retried = disk.retried
             /\ \/ Moved(p, "version", at[p], db)
                \/ Moved(p, "raised", at[p], db) /\ Outdated(db.schema) # {}
             /\ Outdated(disk.schema) # {} => Outdated(db.schema) # {}
  <1> DEFINE bad == Outdated(disk.schema)
             upTo == CHOOSE n \in 0..Len(Tables) :
                       /\ n < Len(Tables) => \E d \in bad : d[1] = Tables[n + 1]
                       /\ \A i \in 1..n : \A d \in bad : d[1] # Tables[i]
             ts == {Tables[i] : i \in 1..upTo}
             form == [t \in ts |-> Full(t)]
             S == Fill(disk.schema, ts, form)
             db == [disk EXCEPT !.schema = S]
  <1>1. /\ stage[p] = "script" /\ writer = Nobody /\ disk' = db /\ draft' = db
        /\ UNCHANGED <<writer, at, upset, lost, opens>>
        /\ GoOn(p, IF bad = {} THEN "version" ELSE "raised")
    BY DEF CreateTables
  <1>2. /\ disk \in Stores /\ SchemaOK(disk) /\ disk.schema \in SUBSET Parts
        /\ at[p] \in 0..SchemaVersion /\ upset \subseteq {"rival", "death"}
        /\ lost \in BOOLEAN /\ opens \in 0..MaxOpens /\ p # Nobody
    BY ViewOK, StoreIs
  <1>3. bad = {} => ts = Names
    <2> SUFFICES ASSUME bad = {} PROVE ts = Names
      OBVIOUS
    <2>1. Len(Tables) = 11
      BY DEF Tables
    <2>2. \A n \in 0..11 : (/\ n < 11 => \E d \in {} : d[1] = Tables[n + 1]
                            /\ \A i \in 1..n : \A d \in {} : d[1] # Tables[i]) <=> n = 11
      OBVIOUS
    <2>3. upTo = 11
      BY <2>1, <2>2
    <2> QED
      BY <2>1, <2>3, TablesAreNamed, NamesAreTables
  <1> HIDE DEF ts, upTo
  <1>4. Founded(disk.schema)
    BY <1>2 DEF SchemaOK
  <1>5. /\ S \in SUBSET Parts /\ disk.schema \subseteq S /\ Founded(S)
        /\ Whole(disk.schema) => Whole(S)
        /\ \A d \in S : d \in disk.schema \/ ~ Present(disk.schema, d[1])
        /\ ts = Names => AllTables(S)
    <2> HIDE DEF S
    <2>1. S = Fill(disk.schema, ts, form)
      BY DEF S
    <2> HIDE DEF form
    <2>2. form = [t \in ts |-> Full(t)]
      BY DEF form
    <2> QED
      BY <1>2, <1>4, <2>1, <2>2, FillWhole
  <1>6. \A t \in ts : ~ Present(disk.schema, t) => Full(t) \subseteq S
    BY FillIs
  <1> HIDE DEF S, form
  <1>7. /\ db \in Stores /\ db.schema = S /\ db.version = disk.version
        /\ db.temps = disk.temps /\ db.retried = disk.retried
    BY <1>2, <1>5, WithSchema
  <1> HIDE DEF db
  <1>8. SchemaOK(db)
    BY <1>2, <1>5, <1>7 DEF SchemaOK
  <1>9. ASSUME bad = {}
        PROVE  IndexedEarly \subseteq S /\ AllTables(S)
    <2>1. ASSUME NEW d \in IndexedEarly PROVE d \in S
      <3>1. CASE Present(disk.schema, d[1])
        <4>1. d \in disk.schema
          BY <1>9, <3>1 DEF Outdated
        <4> QED
          BY <1>5, <4>1
      <3>2. CASE ~ Present(disk.schema, d[1])
        BY <1>3, <1>6, <1>9, <3>2, PartsAre DEF Full
      <3> QED
        BY <3>1, <3>2
    <2> QED
      BY <1>3, <1>5, <1>9, <2>1
  <1>10. bad # {} => Outdated(db.schema) # {}
    <2> SUFFICES ASSUME NEW d \in IndexedEarly, Present(disk.schema, d[1]), d \notin disk.schema
                 PROVE  Present(S, d[1]) /\ d \notin S
      BY <1>7 DEF Outdated
    <2> QED
      BY <1>5 DEF Present
  <1>11. Changes(p, db)
    BY <1>1 DEF Changes
  <1> DEFINE l == IF bad = {} THEN "version" ELSE "raised"
  <1>12. Moves(p, l, at[p]) /\ l \in Labels /\ l \notin Inside
    BY <1>1, MoveIs DEF Labels, Inside, Working
  <1>13. PlaceOK(l, at[p], db.schema)
    BY <1>7, <1>9 DEF PlaceOK, Inside, Working
  <1>14. l = "version" \/ (l = "raised" /\ bad # {})
    OBVIOUS
  <1> HIDE DEF l
  <1>15. Moved(p, l, at[p], db)
    BY <1>1, <1>2, <1>5, <1>7, <1>8, <1>11, <1>12, <1>13, MoveSound DEF Moved
  <1> QED
    BY <1>1, <1>7, <1>10, <1>14, <1>15

LEMMA ReadVersionDoes ==
    ASSUME Sound, NEW p \in Procs, ReadVersion(p)
    PROVE  /\ stage[p] = "version" /\ UNCHANGED <<upset, lost>> /\ writer # p /\ writer' # p
           /\ \/ /\ disk.version = 0
                 /\ \E db \in Stores :
                      /\ disk' = db /\ db.version = SchemaVersion /\ db.temps = disk.temps
                      /\ db.schema = disk.schema /\ db.retried = disk.retried
                      /\ Moved(p, "indexes", at[p], db)
              \/ /\ disk.version > SchemaVersion /\ UNCHANGED disk
                 /\ Moved(p, "raised", at[p], disk)
              \/ /\ disk.version \in Current /\ UNCHANGED disk
                 /\ \/ disk.version < SchemaVersion /\ Moved(p, "step", disk.version, disk)
                    \/ disk.version = SchemaVersion /\ Moved(p, "indexes", disk.version, disk)
  <1>1. /\ stage[p] = "version" /\ UNCHANGED <<upset, lost, opens>>
        /\ disk \in Stores /\ SchemaOK(disk) /\ at[p] \in 0..SchemaVersion
        /\ upset \subseteq {"rival", "death"} /\ lost \in BOOLEAN /\ opens \in 0..MaxOpens
        /\ disk.version \in 0..SchemaVersion + 1 /\ disk.schema \in SUBSET Parts
        /\ IndexedEarly \subseteq View(p).schema /\ AllTables(View(p).schema)
    BY ViewOK, StoreIs DEF ReadVersion, PlaceOK
  <1>2. writer # p /\ View(p) = disk
    BY <1>1, ViewOK DEF Working
  <1>3. SchemaVersion = 19 /\ SchemaVersion \in 0..SchemaVersion + 1
    BY DEF SchemaVersion
  <1>4. CASE disk.version = 0
    <2> DEFINE db == [disk EXCEPT !.version = SchemaVersion]
    <2>1. Write(p, db) /\ GoOn(p, "indexes") /\ UNCHANGED at
      BY <1>3, <1>4 DEF ReadVersion
    <2>2. /\ db \in Stores /\ db.version = SchemaVersion /\ db.temps = disk.temps
          /\ db.schema = disk.schema /\ db.retried = disk.retried
      BY <1>1, <1>3, WithVersion
    <2> HIDE DEF db
    <2>3. Parts \subseteq db.schema
      <3>1. Whole(disk.schema) /\ AllTables(disk.schema)
        BY <1>1, <1>2, <1>4 DEF SchemaOK
      <3>2. ASSUME NEW d \in Parts PROVE d \in disk.schema
        <4>1. Present(disk.schema, d[1])
          BY <3>1, PartsAre DEF AllTables
        <4>2. PICK e \in disk.schema : e[1] = d[1]
          BY <4>1 DEF Present, Full
        <4> QED
          BY <3>1, <4>2 DEF Whole, Full
      <3> QED
        BY <2>2, <3>2
    <2>4. SchemaOK(db)
      BY <1>1, <1>3, <2>2, <2>3, LeftGrows DEF SchemaOK
    <2>5. PlaceOK("indexes", at[p], db.schema)
      BY <1>1, <1>2, <2>2, <2>3 DEF PlaceOK, Inside, Working
    <2>6. Changes(p, db) /\ writer' # p /\ disk' = db
      BY <1>2, <2>1, WriteChanges
    <2>7. Moves(p, "indexes", at[p]) /\ "indexes" \in Labels
      BY <2>1, MoveIs DEF Labels
    <2>8. db.version \in Current
      BY <1>3, <2>2 DEF Current
    <2>9. Moved(p, "indexes", at[p], db)
      BY <1>1, <2>2, <2>4, <2>5, <2>6, <2>7, <2>8, MoveSound DEF Moved
    <2> QED
      BY <1>1, <1>2, <1>4, <2>2, <2>6, <2>9
  <1>5. CASE disk.version > SchemaVersion
    <2>1. Raise(p) /\ UNCHANGED at
      BY <1>3, <1>5 DEF ReadVersion
    <2> QED
      BY <1>1, <1>2, <1>5, <2>1, RaiseDoes
  <1>6. CASE disk.version \in Current
    <2>1. /\ at' = [at EXCEPT ![p] = disk.version]
          /\ GoOn(p, IF disk.version < SchemaVersion THEN "step" ELSE "indexes")
          /\ UNCHANGED <<disk, draft, writer>>
      BY <1>3, <1>6 DEF ReadVersion, Current
    <2> DEFINE l == IF disk.version < SchemaVersion THEN "step" ELSE "indexes"
    <2>2. Moves(p, l, disk.version) /\ l \in Labels /\ disk.version \in 0..SchemaVersion
      BY <1>3, <1>6, <2>1 DEF Moves, GoOn, Labels, Current
    <2>3. Left(disk.version) \subseteq disk.schema
      BY <1>3, <1>6, <1>1 DEF SchemaOK, Current
    <2>4. PlaceOK(l, disk.version, disk.schema)
      BY <1>1, <1>2, <1>3, <1>6, <2>3, LeftGrows DEF PlaceOK, Inside, Working, Current
    <2>5. Changes(p, disk) /\ writer' # p
      BY <1>2, <2>1 DEF Changes
    <2>6. \/ l = "step" /\ disk.version < SchemaVersion
          \/ l = "indexes" /\ disk.version = SchemaVersion
      BY <1>3, <1>6 DEF Current
    <2> HIDE DEF l
    <2>7. Moved(p, l, disk.version, disk)
      BY <1>1, <1>6, <2>1, <2>2, <2>4, <2>5, MoveSound DEF Moved
    <2> QED
      BY <1>1, <1>2, <1>6, <2>1, <2>5, <2>6, <2>7
  <1> QED
    BY <1>1, <1>3, <1>4, <1>5, <1>6 DEF Current

(* A step that has been worked off, part by part.                            *)
LEMMA WritesStep ==
    ASSUME Sound, NEW p \in Procs, NEW l \in Working, NEW db \in Stores,
           stage[p] \in Working \ {"indexes"}, GoOn(p, l), Write(p, db), UNCHANGED <<at, opens>>,
           upset' \subseteq {"rival", "death"}, lost' \in BOOLEAN,
           SchemaOK(db), View(p).schema \subseteq db.schema, db.version = View(p).version,
           PlaceOK(l, at[p], db.schema)
    PROVE  Moved(p, l, at[p], db) /\ writer' = writer
  <1>1. /\ disk.schema \subseteq View(p).schema /\ View(p).version \in Current
        /\ disk.version \in Current /\ at[p] \in 0..SchemaVersion /\ opens \in 0..MaxOpens
        /\ writer = p => at[p] >= 2
    BY ViewOK DEF Inside
  <1>2. Moves(p, l, at[p]) /\ l \in Labels
    BY MoveIs DEF Labels, Working
  <1>3. Changes(p, db) /\ writer' = writer /\ disk' \in {disk, db}
    BY WriteChanges
  <1>4. disk.schema \subseteq db.schema
    BY <1>1
  <1> QED
    BY <1>1, <1>2, <1>3, <1>4, MoveSound DEF Moved

LEMMA StandsStill ==
    ASSUME Sound, NEW p \in Procs, NEW l \in Working,
           stage[p] \in Working \ {"indexes"}, GoOn(p, l), UNCHANGED <<disk, draft, writer>>,
           UNCHANGED <<at, upset, lost, opens>>, PlaceOK(l, at[p], View(p).schema)
    PROVE  Moved(p, l, at[p], View(p))
  <1>1. /\ disk.schema \subseteq View(p).schema /\ View(p).version \in Current
        /\ disk.version \in Current /\ at[p] \in 0..SchemaVersion /\ opens \in 0..MaxOpens
        /\ writer = p => at[p] >= 2
        /\ View(p) \in Stores /\ SchemaOK(View(p))
        /\ upset \subseteq {"rival", "death"} /\ lost \in BOOLEAN
    BY ViewOK DEF Inside
  <1>2. Moves(p, l, at[p]) /\ l \in Labels
    BY MoveIs DEF Labels, Working
  <1>3. Changes(p, View(p)) /\ writer' = writer /\ disk' = disk
    BY DEF Changes
  <1> QED
    BY <1>1, <1>2, <1>3, MoveSound DEF Moved

LEMMA AddTablesDoes ==
    ASSUME Sound, NEW p \in Procs, AddTables(p)
    PROVE  \E db \in Stores :
             /\ stage[p] = "step" /\ UNCHANGED <<writer, upset, lost>> /\ Write(p, db)
             /\ db.version = View(p).version /\ db.temps = View(p).temps
             /\ db.retried = View(p).retried /\ Moved(p, "mark", at[p], db)
             /\ at[p] # 2
  <1> DEFINE k == at[p]
             F == Fill(View(p).schema, DOMAIN Form(k), Form(k))
             db == [View(p) EXCEPT !.schema = F]
  <1>1. /\ stage[p] = "step" /\ Of(Extended \union Rebuilt, k) = {} /\ Write(p, db)
        /\ GoOn(p, "mark") /\ UNCHANGED <<at, upset, lost, opens>>
    BY DEF AddTables
  <1>2. /\ View(p) \in Stores /\ SchemaOK(View(p)) /\ View(p).schema \in SUBSET Parts
        /\ View(p).version \in Current
        /\ upset \subseteq {"rival", "death"} /\ lost \in BOOLEAN
    BY <1>1, ViewOK, StoreIs DEF Inside, Working
  <1>3. /\ k \in 1..18 /\ Left(k) \subseteq View(p).schema
        /\ IndexedEarly \subseteq View(p).schema /\ AllTables(View(p).schema)
    BY <1>1, ViewOK DEF PlaceOK, Inside, Working
  <1>4. F \in SUBSET Parts /\ View(p).schema \subseteq F /\ Founded(F) /\ Of(Created, k) \subseteq F
    BY <1>2, <1>3, FillStep DEF SchemaOK
  <1>5. Left(k + 1) \subseteq F
    <2>1. k \in 0..18
      BY <1>3
    <2>2. Of(Parts, k) = Of(Created, k) /\ Left(k + 1) = Left(k) \union Of(Parts, k)
      BY <1>1, <2>1, LeftGrows
    <2> HIDE DEF F, k
    <2> QED
      BY <1>3, <1>4, <2>2
  <1> HIDE DEF F
  <1>6. /\ db \in Stores /\ db.schema = F /\ db.version = View(p).version
        /\ db.temps = View(p).temps /\ db.retried = View(p).retried
    BY <1>2, <1>4, WithSchema
  <1> HIDE DEF db
  <1>7. SchemaOK(db)
    BY <1>2, <1>4, <1>6 DEF SchemaOK, Current
  <1>8. AllTables(F)
    BY <1>3, <1>4 DEF AllTables, Present
  <1>9. PlaceOK("mark", k, db.schema)
    BY <1>3, <1>4, <1>5, <1>6, <1>8 DEF PlaceOK
  <1>10. Moved(p, "mark", k, db) /\ writer' = writer
    BY <1>1, <1>2, <1>4, <1>6, <1>7, <1>9, WritesStep DEF Working
  <1>11. k # 2
    <2>1. <<"approval_requests", 2>> \in Of(Rebuilt, 2)
      BY DEF Of, Rebuilt
    <2>2. Of(Rebuilt, 2) \subseteq Of(Extended \union Rebuilt, 2)
      BY DEF Of
    <2> QED
      BY <1>1, <2>1, <2>2
  <1> QED
    BY <1>1, <1>6, <1>10, <1>11

LEMMA LookUpColumnsDoes ==
    ASSUME Sound, NEW p \in Procs, LookUpColumns(p)
    PROVE  /\ stage[p] = "step" /\ UNCHANGED <<disk, draft, writer, upset, lost>> /\ at[p] # 2
           /\ \/ Moved(p, "mark", at[p], View(p))
              \/ Moved(p, "alter", at[p], View(p)) /\ ~ Of(Extended, at[p]) \subseteq View(p).schema
  <1> DEFINE k == at[p]
             l == IF Of(Extended, k) \subseteq View(p).schema THEN "mark" ELSE "alter"
  <1>1. /\ stage[p] = "step" /\ Of(Extended, k) # {} /\ GoOn(p, l)
        /\ UNCHANGED <<disk, draft, writer>> /\ UNCHANGED <<at, upset, lost, opens>>
    BY DEF LookUpColumns
  <1>2. /\ k \in 1..18 /\ Left(k) \subseteq View(p).schema
        /\ IndexedEarly \subseteq View(p).schema /\ AllTables(View(p).schema)
    BY <1>1, ViewOK DEF PlaceOK, Inside, Working
  <1>3. Of(Extended, k) \subseteq View(p).schema => Left(k + 1) \subseteq View(p).schema
    BY <1>1, <1>2, LeftGrows
  <1>4. PlaceOK(l, k, View(p).schema) /\ l \in Working
    BY <1>1, <1>2, <1>3 DEF PlaceOK, Working
  <1>5. Moved(p, l, k, View(p))
    BY <1>1, <1>4, StandsStill DEF Working
  <1>6. k # 2
    BY <1>1 DEF Of, Extended
  <1> QED
    BY <1>1, <1>5, <1>6

LEMMA AddColumnsDoes ==
    ASSUME Sound, NEW p \in Procs, AddColumns(p)
    PROVE  /\ stage[p] = "alter" /\ UNCHANGED <<upset, lost>>
           /\ \/ /\ Of(Extended, at[p]) \subseteq View(p).schema
                 /\ Moved(p, "raised", at[p], disk) /\ UNCHANGED disk /\ writer' # p
              \/ \E db \in Stores :
                   /\ UNCHANGED writer /\ Write(p, db)
                   /\ db.version = View(p).version /\ db.temps = View(p).temps
                   /\ db.retried = View(p).retried /\ Moved(p, "mark", at[p], db) /\ at[p] # 2
  <1> DEFINE k == at[p]
             S == View(p).schema \union Of(Extended, k)
             db == [View(p) EXCEPT !.schema = S]
  <1>1. stage[p] = "alter" /\ UNCHANGED <<at, upset, lost, opens>>
    BY DEF AddColumns
  <1>2. CASE Of(Extended, k) \subseteq View(p).schema
    <2>1. Raise(p)
      BY <1>2 DEF AddColumns
    <2> QED
      BY <1>1, <1>2, <2>1, RaiseDoes
  <1>3. CASE ~ Of(Extended, k) \subseteq View(p).schema
    <2>1. Write(p, db) /\ GoOn(p, "mark")
      BY <1>3 DEF AddColumns
    <2>2. /\ View(p) \in Stores /\ SchemaOK(View(p)) /\ View(p).schema \in SUBSET Parts
          /\ View(p).version \in Current
          /\ upset \subseteq {"rival", "death"} /\ lost \in BOOLEAN
      BY <1>1, ViewOK, StoreIs DEF Inside, Working
    <2>3. /\ k \in 1..18 /\ Left(k) \subseteq View(p).schema /\ Of(Extended, k) # {}
          /\ IndexedEarly \subseteq View(p).schema /\ AllTables(View(p).schema)
      BY <1>1, ViewOK DEF PlaceOK, Inside, Working
    <2>4. Of(Extended, k) = Of(Parts, k) /\ Left(k + 1) = Left(k) \union Of(Parts, k)
      BY <2>3, LeftGrows
    <2>5. S \in SUBSET Parts /\ View(p).schema \subseteq S /\ Left(k + 1) \subseteq S
      BY <2>2, <2>3, <2>4 DEF Of
    <2>6. Founded(S)
      <3> SUFFICES ASSUME NEW d \in S, NEW c \in Created, c[1] = d[1] PROVE c \in S
        BY DEF Founded
      <3>1. CASE d \in View(p).schema
        BY <2>2, <3>1 DEF SchemaOK, Founded
      <3>2. CASE d \in Of(Extended, k)
        <4>1. c # d /\ c[2] < d[2] /\ d[2] = k /\ c \in Parts
          <5>1. d \in Parts /\ d[2] = k /\ d \in Extended
            BY <3>2 DEF Of, Parts
          <5>2. c[2] # d[2]
            BY <5>1, PartsAre
          <5> QED
            BY <5>1, <5>2, PartsAre
        <4> QED
          BY <2>3, <4>1 DEF Left
      <3> QED
        BY <3>1, <3>2
    <2> HIDE DEF S
    <2>7. /\ db \in Stores /\ db.schema = S /\ db.version = View(p).version
          /\ db.temps = View(p).temps /\ db.retried = View(p).retried
      BY <2>2, <2>5, WithSchema
    <2> HIDE DEF db
    <2>8. SchemaOK(db)
      BY <2>2, <2>5, <2>6, <2>7 DEF SchemaOK, Current
    <2>9. AllTables(S)
      BY <2>3, <2>5 DEF AllTables, Present
    <2>10. PlaceOK("mark", k, db.schema)
      BY <2>3, <2>5, <2>7, <2>9 DEF PlaceOK
    <2>11. Moved(p, "mark", k, db) /\ writer' = writer
      BY <1>1, <2>1, <2>2, <2>5, <2>7, <2>8, <2>10, WritesStep DEF Working
    <2>12. k # 2
      BY <2>3 DEF Of, Extended
    <2> QED
      BY <1>1, <2>1, <2>7, <2>11, <2>12
  <1> QED
    BY <1>2, <1>3

LEMMA BeginRebuildDoes ==
    ASSUME Sound, NEW p \in Procs, BeginRebuild(p)
    PROVE  /\ stage[p] = "step" /\ UNCHANGED <<upset, lost>>
           /\ \/ /\ at[p] = 2 /\ UNCHANGED <<disk, draft, writer>>
                 /\ Moved(p, "create", at[p], View(p))
              \/ /\ at[p] = 18 /\ disk' = View(p) /\ writer' # p
                 /\ Moved(p, "drop", at[p], View(p))
  <1>1. /\ stage[p] = "step" /\ Of(Rebuilt, at[p]) # {} /\ UNCHANGED <<at, upset, lost, opens>>
        /\ stage[p] \in Working \ {"indexes"}
    BY DEF BeginRebuild, Working
  <1>2. /\ at[p] \in 1..18 /\ Left(at[p]) \subseteq View(p).schema
        /\ IndexedEarly \subseteq View(p).schema /\ AllTables(View(p).schema)
    BY <1>1, ViewOK DEF PlaceOK, Inside, Working
  <1>3. at[p] \in {2, 18}
    <2>1. at[p] \in 0..18
      BY <1>2
    <2> QED
      BY <1>1, <2>1, LeftGrows
  <1>4. \A l \in {"create", "drop"} : PlaceOK(l, at[p], View(p).schema)
    BY <1>1, <1>2 DEF PlaceOK
  <1>5. CASE at[p] = 2
    <2>1. GoOn(p, "create") /\ UNCHANGED <<disk, draft, writer>>
      BY <1>5 DEF BeginRebuild
    <2>2. Moved(p, "create", at[p], View(p))
      BY <1>1, <1>4, <2>1, StandsStill DEF Working
    <2> QED
      BY <1>1, <1>5, <2>1, <2>2
  <1>6. CASE at[p] = 18
    <2>1. /\ GoOn(p, "drop")
          /\ IF writer = p THEN Commit(p, draft) ELSE UNCHANGED <<disk, draft, writer>>
      BY <1>6 DEF BeginRebuild
    <2>2. CASE writer = p
      <3>1. /\ disk.schema \subseteq View(p).schema /\ View(p).version \in Current
            /\ View(p) \in Stores /\ SchemaOK(View(p)) /\ at[p] \in 0..SchemaVersion
            /\ upset \subseteq {"rival", "death"} /\ lost \in BOOLEAN /\ opens \in 0..MaxOpens
            /\ View(p) = draft
        BY <1>1, <2>2, ViewOK DEF Inside, View
      <3>2. Changes(p, View(p)) /\ writer' = Nobody /\ disk' = View(p)
        BY <2>1, <2>2, <3>1, ReleaseChanges
      <3>3. Moves(p, "drop", at[p]) /\ "drop" \in Labels
        BY <1>1, <2>1, MoveIs DEF Labels
      <3>4. writer' # p
        BY <3>2, SchemaAssumption
      <3>5. Moved(p, "drop", at[p], View(p))
        BY <1>1, <1>4, <3>1, <3>2, <3>3, <3>4, MoveSound DEF Moved
      <3> QED
        BY <1>1, <1>6, <3>2, <3>4, <3>5
    <2>3. CASE writer # p
      <3>1. UNCHANGED <<disk, draft, writer>> /\ View(p) = disk
        BY <2>1, <2>3 DEF View
      <3>2. Moved(p, "drop", at[p], View(p))
        BY <1>1, <1>4, <2>1, <3>1, StandsStill DEF Working
      <3> QED
        BY <1>1, <1>6, <2>3, <3>1, <3>2
    <2> QED
      BY <2>2, <2>3
  <1> QED
    BY <1>3, <1>5, <1>6

LEMMA DropTempDoes ==
    ASSUME Sound, NEW p \in Procs, DropTemp(p)
    PROVE  \E db \in Stores :
             /\ stage[p] = "drop" /\ UNCHANGED <<writer, upset, lost>> /\ Write(p, db)
             /\ db.version = View(p).version /\ db.temps = View(p).temps \ {at[p]}
             /\ db.retried = View(p).retried /\ Moved(p, "create", at[p], db)
  <1> DEFINE T == View(p).temps \ {at[p]}
             db == [View(p) EXCEPT !.temps = T]
  <1>1. /\ stage[p] = "drop" /\ Write(p, db) /\ GoOn(p, "create")
        /\ UNCHANGED <<at, upset, lost, opens>>
    BY DEF DropTemp
  <1>2. /\ View(p) \in Stores /\ SchemaOK(View(p)) /\ View(p).temps \in SUBSET {2, 18}
        /\ PlaceOK("create", at[p], View(p).schema)
        /\ upset \subseteq {"rival", "death"} /\ lost \in BOOLEAN
    BY <1>1, ViewOK, StoreIs DEF PlaceOK, Inside, Working
  <1>3. T \in SUBSET {2, 18}
    BY <1>2
  <1> HIDE DEF T
  <1>4. /\ db \in Stores /\ db.schema = View(p).schema /\ db.version = View(p).version
        /\ db.temps = T /\ db.retried = View(p).retried
    <2>1. db = [View(p) EXCEPT !.temps = T]
      OBVIOUS
    <2> HIDE DEF db
    <2> QED
      BY <1>2, <1>3, <2>1, WithTemps
  <1> HIDE DEF db
  <1>5. SchemaOK(db)
    BY <1>2, <1>4 DEF SchemaOK
  <1>6. Moved(p, "create", at[p], db) /\ writer' = writer
    BY <1>1, <1>2, <1>4, <1>5, WritesStep DEF Working
  <1> QED
    BY <1>1, <1>4, <1>6 DEF T

LEMMA CreateTempDoes ==
    ASSUME Sound, NEW p \in Procs, CreateTemp(p)
    PROVE  /\ stage[p] = "create" /\ UNCHANGED <<upset, lost>>
           /\ \/ /\ at[p] \in View(p).temps /\ Moved(p, "raised", at[p], disk)
                 /\ UNCHANGED disk /\ writer' # p
              \/ /\ at[p] \notin View(p).temps
                 /\ \E db \in Stores :
                      /\ UNCHANGED writer /\ Write(p, db)
                      /\ db.version = View(p).version /\ db.temps = View(p).temps \union {at[p]}
                      /\ db.retried = View(p).retried /\ Moved(p, "copy", at[p], db)
  <1> DEFINE T == View(p).temps \union {at[p]}
             db == [View(p) EXCEPT !.temps = T]
  <1>1. stage[p] = "create" /\ UNCHANGED <<at, upset, lost, opens>>
    BY DEF CreateTemp
  <1>2. CASE at[p] \in View(p).temps
    <2>1. Raise(p)
      BY <1>2 DEF CreateTemp
    <2> QED
      BY <1>1, <1>2, <2>1, RaiseDoes
  <1>3. CASE at[p] \notin View(p).temps
    <2>1. Write(p, db) /\ GoOn(p, "copy")
      BY <1>3 DEF CreateTemp
    <2>2. /\ View(p) \in Stores /\ SchemaOK(View(p)) /\ View(p).temps \in SUBSET {2, 18}
          /\ PlaceOK("copy", at[p], View(p).schema) /\ at[p] \in 1..18
          /\ Of(Rebuilt, at[p]) # {}
          /\ upset \subseteq {"rival", "death"} /\ lost \in BOOLEAN
      BY <1>1, ViewOK, StoreIs DEF PlaceOK, Inside, Working
    <2>3. at[p] \in {2, 18}
      <3>1. at[p] \in 0..18
        BY <2>2
      <3> QED
        BY <2>2, <3>1, LeftGrows
    <2>4. T \in SUBSET {2, 18}
      BY <2>2, <2>3
    <2> HIDE DEF T
    <2>5. /\ db \in Stores /\ db.schema = View(p).schema /\ db.version = View(p).version
          /\ db.temps = T /\ db.retried = View(p).retried
      BY <2>2, <2>4, WithTemps
    <2> HIDE DEF db
    <2>6. SchemaOK(db)
      BY <2>2, <2>5 DEF SchemaOK
    <2>7. Moved(p, "copy", at[p], db) /\ writer' = writer
      BY <1>1, <2>1, <2>2, <2>5, <2>6, WritesStep DEF Working
    <2> QED
      BY <1>1, <1>3, <2>1, <2>5, <2>7 DEF T
  <1> QED
    BY <1>2, <1>3

LEMMA CopyTableDoes ==
    ASSUME Sound, NEW p \in Procs, CopyTable(p)
    PROVE  /\ stage[p] = "copy" /\ UNCHANGED <<disk, upset>> /\ writer \in {p, Nobody}
           /\ \/ /\ at[p] \notin View(p).temps /\ UNCHANGED lost
                 /\ Moved(p, "raised", at[p], disk) /\ writer' # p
              \/ \E db \in Stores :
                   /\ writer' = p /\ draft' = db /\ lost' = (lost \/ (View(p).retried /\ at[p] = 2))
                   /\ db.version = View(p).version /\ db.temps = View(p).temps \ {at[p]}
                   /\ db.retried => View(p).retried
                   /\ Moved(p, "mark", at[p], db)
  <1> DEFINE k == at[p]
             S == View(p).schema \union Of(Rebuilt, k)
             T == View(p).temps \ {k}
             b == IF k = 2 THEN FALSE ELSE View(p).retried
             db1 == [View(p) EXCEPT !.schema = S]
             db2 == [db1 EXCEPT !.temps = T]
             db == [db2 EXCEPT !.retried = b]
  <1>1. /\ stage[p] = "copy" /\ UNCHANGED <<at, upset, opens>> /\ writer \in {p, Nobody}
    BY DEF CopyTable
  <1>2. CASE k \notin View(p).temps
    <2>1. Raise(p) /\ UNCHANGED lost
      BY <1>2 DEF CopyTable
    <2> QED
      BY <1>1, <1>2, <2>1, RaiseDoes
  <1>3. CASE k \in View(p).temps
    <2>1. /\ View(p) \in Stores /\ SchemaOK(View(p)) /\ View(p).schema \in SUBSET Parts
          /\ View(p).temps \in SUBSET {2, 18} /\ View(p).retried \in BOOLEAN
          /\ k \in 1..18 /\ Of(Rebuilt, k) # {} /\ Left(k) \subseteq View(p).schema
          /\ IndexedEarly \subseteq View(p).schema /\ AllTables(View(p).schema)
          /\ View(p).version \in Current /\ disk.version \in Current
          /\ disk.schema \subseteq View(p).schema /\ at[p] \in 0..SchemaVersion
          /\ upset \subseteq {"rival", "death"} /\ lost \in BOOLEAN /\ opens \in 0..MaxOpens
      BY <1>1, ViewOK, StoreIs DEF PlaceOK, Inside, Working
    <2>2. /\ writer' = p /\ UNCHANGED disk /\ GoOn(p, "mark")
          /\ lost' = (lost \/ (View(p).retried /\ k = 2))
          /\ draft' = [View(p) EXCEPT !.schema = @ \union Of(Rebuilt, k), !.temps = @ \ {k},
                                      !.retried = IF k = 2 THEN FALSE ELSE @]
      BY <1>3 DEF CopyTable
    <2>3. draft' = db
      BY <2>2
    <2>4. k \in {2, 18} /\ Of(Parts, k) = Of(Rebuilt, k) /\ Left(k + 1) = Left(k) \union Of(Parts, k)
      <3>1. k \in 0..18
        BY <2>1
      <3> QED
        BY <2>1, <3>1, LeftGrows
    <2>5. Of(Rebuilt, k) \subseteq Parts /\ Of(Rebuilt, k) \subseteq Rebuilt
      BY DEF Of, Parts
    <2>6. S \in SUBSET Parts /\ View(p).schema \subseteq S /\ Left(k + 1) \subseteq S
      <3> HIDE DEF k
      <3> QED
        BY <2>1, <2>4, <2>5
    <2>7. T \in SUBSET {2, 18} /\ b \in BOOLEAN
      BY <2>1
    <2>8. Founded(S)
      <3> SUFFICES ASSUME NEW d \in S, NEW c \in Created, c[1] = d[1] PROVE c \in S
        BY DEF Founded
      <3>1. CASE d \in View(p).schema
        BY <2>1, <3>1 DEF SchemaOK, Founded
      <3>2. CASE d \in Of(Rebuilt, k)
        <4>1. c # d /\ c[2] < d[2] /\ d[2] = k /\ c \in Parts
          <5>1. d \in Parts /\ d[2] = k /\ d \in Rebuilt
            BY <3>2 DEF Of, Parts
          <5>2. c[2] # d[2]
            BY <5>1, PartsAre
          <5> QED
            BY <5>1, <5>2, PartsAre
        <4> QED
          BY <2>1, <4>1 DEF Left
      <3> QED
        BY <3>1, <3>2
    <2> HIDE DEF S, T, b
    <2>9. db1 \in Stores /\ db1.schema = S /\ db1.version = View(p).version
      <3>1. db1 = [View(p) EXCEPT !.schema = S]
        OBVIOUS
      <3> HIDE DEF db1
      <3>2. View(p) \in Stores /\ S \in SUBSET Parts
        BY <2>1, <2>6
      <3> QED
        BY <3>1, <3>2, WithSchema
    <2> HIDE DEF db1
    <2>10. db2 \in Stores /\ db2.schema = S /\ db2.version = View(p).version /\ db2.temps = T
      BY <2>7, <2>9, WithTemps
    <2> HIDE DEF db2
    <2>11. /\ db \in Stores /\ db.schema = S /\ db.version = View(p).version /\ db.temps = T
           /\ db.retried = b
      BY <2>7, <2>10, WithRetried
    <2> HIDE DEF db
    <2>12. SchemaOK(db)
      BY <2>1, <2>6, <2>8, <2>11 DEF SchemaOK, Current
    <2>13. AllTables(S)
      BY <2>1, <2>6 DEF AllTables, Present
    <2>14. PlaceOK("mark", k, db.schema)
      BY <2>1, <2>6, <2>11, <2>13 DEF PlaceOK
    <2>15. Changes(p, db)
      BY <1>1, <2>2, <2>3 DEF Changes
    <2>16. Moves(p, "mark", k) /\ "mark" \in Labels /\ "mark" \in Working
      BY <1>1, <2>2, MoveIs DEF Labels, Working
    <2>17. disk'.version \in Current /\ k >= 2 /\ disk.schema \subseteq db.schema
      BY <2>1, <2>2, <2>4, <2>6, <2>11
    <2>18. lost' \in BOOLEAN /\ opens' \in 0..MaxOpens /\ upset' \subseteq {"rival", "death"}
      BY <1>1, <2>1, <2>2
    <2> HIDE DEF k
    <2>19. Moved(p, "mark", k, db)
      BY <2>1, <2>11, <2>12, <2>14, <2>15, <2>16, <2>17, <2>18, MoveSound DEF Moved, k
    <2>20. db.retried => View(p).retried
      BY <2>11 DEF b
    <2> QED
      BY <1>1, <2>2, <2>3, <2>11, <2>19, <2>20 DEF T, k
  <1> QED
    BY <1>2, <1>3

LEMMA SetVersionDoes ==
    ASSUME Sound, NEW p \in Procs, SetVersion(p)
    PROVE  \E db \in Stores :
             /\ stage[p] = "mark" /\ UNCHANGED <<writer, upset, lost>> /\ Write(p, db)
             /\ at[p] \in 1..18 /\ db.version = at[p] + 1 /\ db.temps = View(p).temps
             /\ db.retried = View(p).retried
             /\ \/ at[p] < 18 /\ Moved(p, "step", at[p] + 1, db)
                \/ at[p] = 18 /\ Moved(p, "indexes", at[p] + 1, db)
  <1> DEFINE k == at[p]
             l == IF k + 1 < SchemaVersion THEN "step" ELSE "indexes"
             db == [View(p) EXCEPT !.version = k + 1]
  <1>1. /\ stage[p] = "mark" /\ Write(p, db) /\ at' = [at EXCEPT ![p] = k + 1] /\ GoOn(p, l)
        /\ UNCHANGED <<upset, lost, opens>>
    BY DEF SetVersion
  <1>2. /\ View(p) \in Stores /\ SchemaOK(View(p)) /\ k \in 1..18
        /\ Left(k + 1) \subseteq View(p).schema
        /\ IndexedEarly \subseteq View(p).schema /\ AllTables(View(p).schema)
        /\ View(p).version \in Current /\ disk.version \in Current
        /\ disk.schema \subseteq View(p).schema /\ (writer = p => k >= 2)
        /\ upset \subseteq {"rival", "death"} /\ lost \in BOOLEAN /\ opens \in 0..MaxOpens
    BY <1>1, ViewOK DEF PlaceOK, Inside, Working
  <1>3. SchemaVersion = 19
    BY DEF SchemaVersion
  <1>4. k + 1 \in 0..SchemaVersion + 1 /\ k + 1 \in Current /\ k + 1 \in 0..SchemaVersion
    BY <1>2, <1>3 DEF Current
  <1>5. \/ k < 18 /\ l = "step"
        \/ k = 18 /\ l = "indexes" /\ k + 1 = SchemaVersion
    BY <1>2, <1>3
  <1> HIDE DEF k, l
  <1>6. /\ db \in Stores /\ db.schema = View(p).schema /\ db.version = k + 1
        /\ db.temps = View(p).temps /\ db.retried = View(p).retried
    BY <1>2, <1>4, WithVersion
  <1> HIDE DEF db
  <1>7. SchemaOK(db)
    BY <1>2, <1>4, <1>6 DEF SchemaOK, Current
  <1>8. k = 18 => Parts \subseteq View(p).schema
    BY <1>2, <1>5, LeftGrows
  <1>9. PlaceOK(l, k + 1, db.schema)
    BY <1>2, <1>5, <1>6, <1>8 DEF PlaceOK, Inside, Working
  <1>10. Changes(p, db) /\ writer' = writer /\ disk' \in {disk, db}
    BY <1>1, WriteChanges
  <1>11. Moves(p, l, k + 1) /\ l \in Labels /\ l \in Working
    BY <1>1, <1>5 DEF GoOn, Moves, Labels, Working
  <1>12. disk'.version \in Current /\ (writer' = p => k + 1 >= 2)
    BY <1>2, <1>4, <1>6, <1>10
  <1>13. Moved(p, l, k + 1, db)
    BY <1>1, <1>2, <1>4, <1>6, <1>7, <1>9, <1>10, <1>11, <1>12, MoveSound DEF Moved
  <1>14. writer' = writer /\ UNCHANGED <<upset, lost>>
    BY <1>1, <1>10
  <1> QED
    BY <1>1, <1>2, <1>5, <1>6, <1>13, <1>14 DEF k

LEMMA EnsureIndexesDoes ==
    ASSUME Sound, NEW p \in Procs, EnsureIndexes(p)
    PROVE  /\ stage[p] = "indexes" /\ UNCHANGED <<upset, lost>>
           /\ disk' = View(p) /\ writer' # p /\ Moved(p, "open", at[p], View(p))
  <1>1. /\ stage[p] = "indexes" /\ UNCHANGED <<at, upset, lost, opens>> /\ writer \in {p, Nobody}
        /\ Commit(p, View(p))
        /\ GoOn(p, IF {<<"plan_items", 12>>, <<"plan_graph_nodes", 18>>} \subseteq View(p).schema
                   THEN "open" ELSE "raised")
    BY DEF EnsureIndexes
  <1>2. /\ View(p) \in Stores /\ SchemaOK(View(p)) /\ at[p] \in 0..SchemaVersion
        /\ Parts \subseteq View(p).schema
        /\ IndexedEarly \subseteq View(p).schema /\ AllTables(View(p).schema)
        /\ View(p).version \in Current /\ disk.schema \subseteq View(p).schema
        /\ upset \subseteq {"rival", "death"} /\ lost \in BOOLEAN /\ opens \in 0..MaxOpens
    BY <1>1, ViewOK DEF PlaceOK, Inside, Working
  <1>3. {<<"plan_items", 12>>, <<"plan_graph_nodes", 18>>} \subseteq Parts
    BY DEF Parts, Extended, Rebuilt
  <1>4. GoOn(p, "open")
    BY <1>1, <1>2, <1>3
  <1>5. Changes(p, View(p)) /\ writer' = Nobody /\ disk' = View(p)
    BY <1>1, ReleaseChanges
  <1>6. writer' # p
    BY <1>5, SchemaAssumption
  <1>7. Moves(p, "open", at[p]) /\ "open" \in Labels
    BY <1>1, <1>4, MoveIs DEF Labels
  <1>8. PlaceOK("open", at[p], View(p).schema)
    BY <1>2 DEF PlaceOK
  <1>9. Moved(p, "open", at[p], View(p))
    BY <1>1, <1>2, <1>5, <1>6, <1>7, <1>8, MoveSound DEF Moved
  <1> QED
    BY <1>1, <1>5, <1>6, <1>9

LEMMA UseDoes ==
    ASSUME Sound, NEW p \in Procs, Use(p)
    PROVE  \E db \in Stores :
             /\ stage[p] = "open" /\ UNCHANGED <<writer, upset, lost>> /\ writer = Nobody
             /\ disk' = db /\ db.version = disk.version /\ db.temps = disk.temps
             /\ Moved(p, "idle", at[p], db)
  <1>1. stage[p] = "open" /\ GoOn(p, "idle") /\ UNCHANGED <<at, upset, lost, opens>>
    BY DEF Use
  <1>2. PICK count \in BOOLEAN : Write(p, [disk EXCEPT !.retried = @ \/ count])
    BY DEF Use
  <1>3. /\ disk \in Stores /\ SchemaOK(disk) /\ at[p] \in 0..SchemaVersion
        /\ disk.retried \in BOOLEAN /\ writer # p
        /\ upset \subseteq {"rival", "death"} /\ lost \in BOOLEAN /\ opens \in 0..MaxOpens
    BY <1>1, ViewOK, StoreIs DEF Working
  <1> DEFINE b == disk.retried \/ count
             db == [disk EXCEPT !.retried = b]
  <1>4. b \in BOOLEAN /\ Write(p, db)
    BY <1>2
  <1> HIDE DEF b
  <1>5. /\ db \in Stores /\ db.schema = disk.schema /\ db.version = disk.version
        /\ db.temps = disk.temps
    BY <1>3, <1>4, WithRetried
  <1> HIDE DEF db
  <1>6. Changes(p, db) /\ writer' = writer /\ writer = Nobody /\ disk' = db
    BY <1>3, <1>4, WriteChanges
  <1>7. SchemaOK(db)
    BY <1>3, <1>5 DEF SchemaOK
  <1>8. Moves(p, "idle", at[p]) /\ "idle" \in Labels /\ "idle" \notin Inside \union {"version"}
    BY <1>1, MoveIs DEF Labels, Inside, Working
  <1>9. PlaceOK("idle", at[p], db.schema)
    BY <1>8 DEF PlaceOK, Inside, Working
  <1>10. Moved(p, "idle", at[p], db)
    BY <1>1, <1>3, <1>5, <1>6, <1>7, <1>8, <1>9, MoveSound DEF Moved
  <1> QED
    BY <1>1, <1>5, <1>6, <1>10
-----------------------------------------------------------------------------
(* EVERY STEP IS SOUND *)

LEMMA LockTimeoutDoes ==
    ASSUME Sound, NEW p \in Procs, LockTimeout(p)
    PROVE  /\ writer \notin {p, Nobody} /\ stage[p] \notin {"idle", "open", "raised"}
           /\ Moved(p, "raised", at[p], disk)
  BY RaiseDoes DEF LockTimeout

LEMMA InitSound ==
    ASSUME SchemaInit
    PROVE  Sound
  <1>1. PICK v \in Olds : disk = [version |-> v, schema |-> IF v = 0 THEN {} ELSE Left(v),
                                  temps |-> {}, retried |-> FALSE]
    BY DEF SchemaInit
  <1>2. /\ draft = disk /\ writer = Nobody
        /\ stage = [p \in Procs |-> "idle"] /\ at = [p \in Procs |-> 0]
        /\ upset = {} /\ lost = FALSE /\ opens = 0
    BY DEF SchemaInit
  <1>3. SchemaVersion = 19 /\ v \in 0..SchemaVersion + 1
    BY SchemaAssumption DEF SchemaVersion
  <1>4. Left(v) \subseteq Parts
    BY <1>3, LeftGrows
  <1>5. disk \in Stores /\ disk.version = v /\ disk.schema = IF v = 0 THEN {} ELSE Left(v)
    BY <1>1, <1>3, <1>4 DEF Stores
  <1>6. Founded(Left(v))
    <2> SUFFICES ASSUME NEW d \in Left(v), NEW c \in Created, c[1] = d[1] PROVE c \in Left(v)
      BY DEF Founded
    <2>1. /\ d \in Parts /\ d[2] < v /\ c \in Parts /\ d[2] \in 0..18 /\ c[2] \in 0..18
          /\ (c = d \/ c[2] < d[2])
      BY PartsAre DEF Left
    <2>2. c[2] < v
      BY <1>3, <2>1
    <2> QED
      BY <2>1, <2>2 DEF Left
  <1>7. SchemaOK(disk)
    BY <1>3, <1>5, <1>6 DEF SchemaOK, Founded, Whole
  <1>8. DataOK
    BY <1>2, <1>7 DEF DataOK
  <1>9. Typed
    <2>1. \A db \in {disk, draft} :
            /\ db.version \in 0..SchemaVersion + 1 /\ db.schema \subseteq Parts
            /\ db.temps \subseteq {2, 18} /\ db.retried \in BOOLEAN
      BY <1>2, <1>5 DEF Stores
    <2>2. /\ stage \in [Procs -> {"idle", "script", "version", "step", "alter", "drop", "create",
                               "copy", "mark", "indexes", "open", "raised"}]
          /\ at \in [Procs -> 0..SchemaVersion] /\ writer \in Procs \union {Nobody}
          /\ opens \in 0..MaxOpens
      BY <1>2, <1>3, SchemaAssumption
    <2> QED
      BY <1>2, <1>5, <2>1, <2>2 DEF Typed, SchemaTypeOK
  <1>10. PlacesOK
    <2>1. \A p \in Procs : stage[p] = "idle" /\ writer # p
      BY <1>2, SchemaAssumption
    <2> QED
      BY <2>1 DEF PlacesOK, PlaceOK, Inside, Working
  <1> QED
    BY <1>8, <1>9, <1>10 DEF Sound

LEMMA StepMoves ==
    ASSUME Sound, NEW p \in Procs, Open(p) \/ Step(p) \/ Use(p) \/ Die(p)
    PROVE  Sound' /\ disk.schema \subseteq disk'.schema
  <1>1. CASE Open(p)
    BY <1>1, OpenDoes DEF Moved
  <1>2. CASE Use(p)
    BY <1>2, UseDoes DEF Moved
  <1>3. CASE Die(p)
    BY <1>3, DieDoes DEF Moved
  <1>4. CASE Step(p)
    <2>1. CASE CreateTables(p)
      BY <2>1, CreateTablesDoes DEF Moved
    <2>2. CASE ReadVersion(p)
      BY <2>2, ReadVersionDoes DEF Moved
    <2>3. CASE AddTables(p)
      BY <2>3, AddTablesDoes DEF Moved
    <2>4. CASE LookUpColumns(p)
      BY <2>4, LookUpColumnsDoes DEF Moved
    <2>5. CASE AddColumns(p)
      BY <2>5, AddColumnsDoes DEF Moved
    <2>6. CASE BeginRebuild(p)
      BY <2>6, BeginRebuildDoes DEF Moved
    <2>7. CASE DropTemp(p)
      BY <2>7, DropTempDoes DEF Moved
    <2>8. CASE CreateTemp(p)
      BY <2>8, CreateTempDoes DEF Moved
    <2>9. CASE CopyTable(p)
      BY <2>9, CopyTableDoes DEF Moved
    <2>10. CASE SetVersion(p)
      BY <2>10, SetVersionDoes DEF Moved
    <2>11. CASE EnsureIndexes(p)
      BY <2>11, EnsureIndexesDoes DEF Moved
    <2>12. CASE LockTimeout(p)
      BY <2>12, LockTimeoutDoes DEF Moved
    <2> QED
      BY <1>4, <2>1, <2>2, <2>3, <2>4, <2>5, <2>6, <2>7, <2>8, <2>9, <2>10, <2>11, <2>12 DEF Step
  <1> QED
    BY <1>1, <1>2, <1>3, <1>4

LEMMA NextMoves ==
    ASSUME Sound, [SchemaNext]_schemaVars
    PROVE  Sound' /\ disk.schema \subseteq disk'.schema
  <1>1. CASE SchemaNext
    BY <1>1, StepMoves DEF SchemaNext
  <1>2. CASE UNCHANGED schemaVars
    BY <1>2 DEF schemaVars, Sound, Typed, SchemaTypeOK, DataOK, PlacesOK, View
  <1> QED
    BY <1>1, <1>2
-----------------------------------------------------------------------------
(* WHEN NO TWO PROCESSES OPEN THE STORE AT A TIME *)

Busy(p) == stage[p] \notin {"idle", "raised"}

(* Retry counts come with the current schema; none is there to be copied.    *)
RetriedLate(db) == db.retried => db.version >= SchemaVersion

(* What p at l, come to version k, finds when it is alone: the version is    *)
(* its own, the temporary table is there when it copies and not before, and  *)
(* an open transaction holds no temporary table of step 2.                   *)
Lone(p, l, k, db, w) ==
    /\ l \in Working \ {"indexes"} => db.version = k
    /\ l \in {"indexes", "open"} => db.version >= SchemaVersion
    /\ l = "copy" => k \in db.temps
    /\ l = "create" /\ k = 18 => 18 \notin db.temps
    /\ l = "alter" => ~ (Of(Extended, k) \subseteq db.schema)
    /\ l = "mark" /\ k = 2 => w = p
    /\ w = p => 2 \notin db.temps /\ (k = 2 => l = "mark")

OwnsTemp(p) == writer = p \/ (stage[p] = "copy" /\ at[p] = 2)
Stuck == "death" \in upset /\ 2 \in disk.temps
Explained == Stuck \/ disk.version > SchemaVersion \/ Outdated(disk.schema) # {}
Refused == \E p \in Procs : stage[p] = "raised"

Quietly ==
    /\ \A p, q \in Procs : Busy(p) /\ Busy(q) => p = q
    /\ RetriedLate(disk) /\ RetriedLate(draft) /\ ~ lost
    /\ \A p \in Procs : Lone(p, stage[p], at[p], View(p), writer)
    /\ 2 \in disk.temps =>
         disk.version = 2 /\ ("death" \in upset \/ \E p \in Procs : OwnsTemp(p))
    /\ Refused =>
         Explained /\ \A p \in Procs :
                        stage[p] \in Inside => Stuck /\ at[p] = 2 /\ stage[p] \in {"step", "create"}

LEMMA IdleOwnsNothing ==
    ASSUME Sound, NEW p \in Procs, ~ Busy(p)
    PROVE  writer # p /\ ~ OwnsTemp(p) /\ stage[p] \notin Inside \union {"version", "copy"}
  <1>1. writer # p
    BY ViewOK DEF Busy, Working
  <1> QED
    BY <1>1 DEF Busy, OwnsTemp, Inside, Working

LEMMA QuietFacts ==
    ASSUME Sound, Quietly, NEW p \in Procs, Busy(p)
    PROVE  /\ \A q \in Procs : q # p => ~ Busy(q)
           /\ Lone(p, stage[p], at[p], View(p), writer) /\ writer \in {p, Nobody}
           /\ View(p) \in Stores /\ disk \in Stores /\ at[p] \in 0..SchemaVersion
           /\ View(p).version \in Int /\ disk.version \in 0..SchemaVersion + 1
           /\ RetriedLate(View(p)) /\ RetriedLate(disk) /\ ~ lost
           /\ 2 \in disk.temps =>
                disk.version = 2 /\ ("death" \in upset \/ writer = p \/ (stage[p] = "copy" /\ at[p] = 2))
           /\ Refused => Explained
           /\ Refused /\ stage[p] \in Inside => Stuck /\ at[p] = 2 /\ stage[p] \in {"step", "create"}
           /\ (writer # p => View(p) = disk) /\ SchemaVersion = 19
  <1>1. \A q \in Procs : q # p => ~ Busy(q)
    BY DEF Quietly
  <1>2. writer \in {p, Nobody}
    <2>1. writer \in Procs \union {Nobody}
      BY DEF Sound, Typed, SchemaTypeOK
    <2> QED
      BY <1>1, <2>1, IdleOwnsNothing
  <1>3. /\ View(p) \in Stores /\ disk \in Stores /\ View(p) \in {disk, draft}
        /\ at[p] \in 0..SchemaVersion /\ (writer # p => View(p) = disk)
    BY ViewOK
  <1>4. View(p).version \in Int /\ disk.version \in 0..SchemaVersion + 1
    BY <1>3 DEF Stores
  <1>5. 2 \in disk.temps =>
          disk.version = 2 /\ ("death" \in upset \/ writer = p \/ (stage[p] = "copy" /\ at[p] = 2))
    BY <1>1, IdleOwnsNothing DEF Quietly, OwnsTemp
  <1> QED
    BY <1>1, <1>2, <1>3, <1>4, <1>5 DEF Quietly, SchemaVersion

LEMMA QuietMove ==
    ASSUME Sound, Quietly, NEW p \in Procs, NEW l \in Labels, NEW k, NEW db,
           Moved(p, l, k, db), \A q \in Procs : q # p => ~ Busy(q), ~ lost', RetriedLate(db),
           Lone(p, l, k, db, writer'),
           2 \in disk'.temps =>
             disk'.version = 2 /\ ("death" \in upset' \/ writer' = p \/ (l = "copy" /\ k = 2)),
           l = "raised" \/ Refused => Explained',
           Refused /\ l \in Inside => Stuck' /\ k = 2 /\ l \in {"step", "create"}
    PROVE  Quietly'
  <1>1. /\ Sound' /\ View(p)' = db /\ Changes(p, db) /\ stage'[p] = l /\ at'[p] = k
        /\ \A q \in Procs : q # p => stage'[q] = stage[q] /\ at'[q] = at[q]
    BY DEF Moved
  <1>2. \A q \in Procs : q # p => ~ Busy(q) /\ ~ Busy(q)'
    BY <1>1 DEF Busy
  <1>3. \A r, q \in Procs : Busy(r)' /\ Busy(q)' => r = q
    BY <1>2
  <1>4. RetriedLate(disk)' /\ RetriedLate(draft)'
    <2>1. disk' \in {disk, draft, db} /\ draft' \in {disk, draft, db}
      BY <1>1 DEF Changes, View
    <2>2. \A s \in {disk, draft, db} : s.retried => s.version >= SchemaVersion
      BY DEF Quietly, RetriedLate
    <2> QED
      BY <2>1, <2>2 DEF RetriedLate
  <1>5. ASSUME NEW q \in Procs, q # p
        PROVE  /\ Lone(q, stage'[q], at'[q], View(q)', writer')
               /\ stage'[q] \notin Inside
    <2>1. stage'[q] \in {"idle", "raised"}
      BY <1>1, <1>2, <1>5 DEF Busy
    <2>2. writer' # q
      <3>1. /\ writer' = q => stage'[q] \in Working
        BY <1>1 DEF Sound, PlacesOK
      <3> QED
        BY <2>1, <3>1 DEF Working
    <2> QED
      BY <2>1, <2>2 DEF Lone, Inside, Working
  <1>6. \A q \in Procs : Lone(q, stage'[q], at'[q], View(q)', writer')
    <2>1. Lone(p, stage'[p], at'[p], View(p)', writer')
      BY <1>1
    <2> QED
      BY <1>5, <2>1
  <1>7. 2 \in disk'.temps =>
          disk'.version = 2 /\ ("death" \in upset' \/ \E q \in Procs : OwnsTemp(q)')
    <2>1. writer' = p \/ (l = "copy" /\ k = 2) => OwnsTemp(p)'
      BY <1>1 DEF OwnsTemp
    <2> QED
      BY <2>1
  <1>8. ASSUME Refused'
        PROVE  /\ Explained'
               /\ \A q \in Procs :
                    stage'[q] \in Inside => Stuck' /\ at'[q] = 2 /\ stage'[q] \in {"step", "create"}
    <2>1. PICK r \in Procs : stage'[r] = "raised"
      BY <1>8 DEF Refused
    <2>2. l = "raised" \/ Refused
      BY <1>1, <2>1 DEF Refused
    <2>3. l \in Inside => Refused
      BY <2>2 DEF Inside, Working
    <2>4. \A q \in Procs : stage'[q] \in Inside => q = p
      BY <1>5
    <2> QED
      BY <1>1, <2>2, <2>3, <2>4
  <1>9. ~ lost'
    OBVIOUS
  <1> QED
    BY <1>3, <1>4, <1>6, <1>7, <1>8, <1>9 DEF Quietly

LEMMA OpenQuiet ==
    ASSUME Sound, Quietly, NEW p \in Procs, Open(p), "rival" \notin upset'
    PROVE  Quietly'
  <1>1. /\ Moved(p, "script", at[p], disk) /\ UNCHANGED <<disk, draft, writer>> /\ writer # p
    BY OpenDoes
  <1>2. /\ lost' = lost /\ \A q \in Procs : ~ Busy(q)
        /\ upset' = upset
    BY DEF Open, Busy
  <1>3. 2 \in disk.temps => disk.version = 2 /\ "death" \in upset
    BY <1>2, IdleOwnsNothing DEF Quietly
  <1>4. "script" \in Labels /\ "script" \notin Inside /\ "script" # "raised"
    BY DEF Labels, Inside, Working
  <1>5. Lone(p, "script", at[p], disk, writer')
    BY <1>1 DEF Lone, Working
  <1>6. Refused => Explained'
    BY <1>1, <1>2 DEF Quietly, Explained, Stuck
  <1>7. RetriedLate(disk) /\ ~ lost
    BY DEF Quietly
  <1> QED
    BY <1>1, <1>2, <1>3, <1>4, <1>5, <1>6, <1>7, QuietMove

LEMMA CreateTablesQuiet ==
    ASSUME Sound, Quietly, NEW p \in Procs, CreateTables(p)
    PROVE  Quietly'
  <1>1. PICK db \in Stores :
          /\ stage[p] = "script" /\ writer = Nobody /\ disk' = db /\ UNCHANGED <<writer, upset, lost>>
          /\ db.version = disk.version /\ db.temps = disk.temps /\ db.retried = disk.retried
          /\ \/ Moved(p, "version", at[p], db)
             \/ Moved(p, "raised", at[p], db) /\ Outdated(db.schema) # {}
          /\ Outdated(disk.schema) # {} => Outdated(db.schema) # {}
    BY CreateTablesDoes
  <1>2. Busy(p) /\ writer' # p
    BY <1>1, SchemaAssumption DEF Busy
  <1>3. /\ \A q \in Procs : q # p => ~ Busy(q)
        /\ 2 \in disk.temps => disk.version = 2 /\ "death" \in upset
        /\ (Refused => Explained) /\ ~ lost /\ RetriedLate(disk)
    <2>1. writer # p /\ stage[p] # "copy"
      BY <1>1, <1>2
    <2> QED
      BY <1>2, <2>1, QuietFacts
  <1>4. RetriedLate(db)
    BY <1>1, <1>3 DEF RetriedLate
  <1>5. \A l \in {"version", "raised"} :
          l \in Labels /\ l \notin Inside /\ Lone(p, l, at[p], db, writer')
    BY <1>2 DEF Labels, Inside, Working, Lone
  <1>6. Refused => Explained'
    BY <1>1, <1>3 DEF Explained, Stuck
  <1>7. Outdated(db.schema) # {} => Explained'
    BY <1>1 DEF Explained
  <1>8. 2 \in disk'.temps => disk'.version = 2 /\ "death" \in upset'
    BY <1>1, <1>3
  <1>9. CASE Moved(p, "version", at[p], db)
    BY <1>1, <1>3, <1>4, <1>5, <1>6, <1>8, <1>9, QuietMove
  <1>10. CASE Moved(p, "raised", at[p], db) /\ Outdated(db.schema) # {}
    BY <1>1, <1>3, <1>4, <1>5, <1>6, <1>7, <1>8, <1>10, QuietMove
  <1> QED
    BY <1>1, <1>9, <1>10

LEMMA ReadVersionQuiet ==
    ASSUME Sound, Quietly, NEW p \in Procs, ReadVersion(p)
    PROVE  Quietly'
  <1>1. /\ stage[p] = "version" /\ UNCHANGED <<upset, lost>> /\ writer # p /\ writer' # p
        /\ SchemaVersion = 19
    BY ReadVersionDoes DEF SchemaVersion
  <1>2. Busy(p)
    BY <1>1 DEF Busy
  <1>3. /\ \A q \in Procs : q # p => ~ Busy(q)
        /\ 2 \in disk.temps => disk.version = 2 /\ "death" \in upset
        /\ (Refused => Explained) /\ ~ lost /\ RetriedLate(disk)
        /\ disk.version \in 0..SchemaVersion + 1 /\ View(p) = disk
    BY <1>1, <1>2, QuietFacts
  <1>4. Outdated(disk.schema) = {}
    <2>1. IndexedEarly \subseteq View(p).schema
      BY <1>1, ViewOK DEF PlaceOK
    <2> QED
      BY <1>3, <2>1 DEF Outdated
  <1>5. /\ Refused /\ disk.version <= SchemaVersion => Stuck /\ disk.version = 2
    BY <1>1, <1>3, <1>4 DEF Explained, Stuck
  <1>6. CASE disk.version = 0
    <2>1. PICK db \in Stores :
            /\ disk' = db /\ db.version = SchemaVersion /\ db.temps = disk.temps
            /\ db.schema = disk.schema /\ db.retried = disk.retried
            /\ Moved(p, "indexes", at[p], db)
      BY <1>1, <1>6, ReadVersionDoes DEF Current
    <2>2. ~ Refused /\ 2 \notin db.temps
      BY <1>1, <1>3, <1>5, <1>6, <2>1
    <2>3. Lone(p, "indexes", at[p], db, writer') /\ RetriedLate(db)
      BY <1>1, <2>1 DEF Lone, Working, RetriedLate
    <2>4. "indexes" \in Labels /\ "indexes" # "raised"
      BY DEF Labels
    <2> QED
      BY <1>1, <1>3, <2>1, <2>2, <2>3, <2>4, QuietMove
  <1>7. CASE disk.version > SchemaVersion
    <2>1. UNCHANGED disk /\ Moved(p, "raised", at[p], disk)
      BY <1>1, <1>7, ReadVersionDoes DEF Current
    <2>2. Lone(p, "raised", at[p], disk, writer') /\ Explained'
      BY <1>1, <1>7, <2>1 DEF Lone, Working, Explained
    <2>3. "raised" \in Labels /\ "raised" \notin Inside
      BY DEF Labels, Inside, Working
    <2> QED
      BY <1>1, <1>3, <2>1, <2>2, <2>3, QuietMove
  <1>8. CASE disk.version \in Current
    <2> DEFINE k == disk.version
    <2>1. /\ UNCHANGED disk
          /\ \/ k < SchemaVersion /\ Moved(p, "step", k, disk)
             \/ k = SchemaVersion /\ Moved(p, "indexes", k, disk)
      BY <1>1, <1>8, ReadVersionDoes DEF Current
    <2>2. Refused => Stuck' /\ Explained' /\ k = 2
      BY <1>1, <1>5, <1>8, <2>1 DEF Current, Stuck, Explained
    <2>3. {"step", "indexes"} \subseteq Labels
      BY DEF Labels
    <2>4. CASE k < SchemaVersion /\ Moved(p, "step", k, disk)
      <3>1. Lone(p, "step", k, disk, writer')
        BY <1>1 DEF Lone
      <3> QED
        BY <1>1, <1>3, <2>1, <2>2, <2>3, <2>4, <3>1, QuietMove
    <2>5. CASE k = SchemaVersion /\ Moved(p, "indexes", k, disk)
      <3>1. Lone(p, "indexes", k, disk, writer') /\ ~ Refused
        BY <1>1, <2>2, <2>5 DEF Lone, Working
      <3> QED
        BY <1>1, <1>3, <2>1, <2>3, <2>5, <3>1, QuietMove
    <2> QED
      BY <2>1, <2>4, <2>5
  <1> QED
    BY <1>1, <1>3, <1>6, <1>7, <1>8 DEF Current

(* A step that leaves the temporary tables alone is the business of one      *)
(* process, and nobody has been refused.                                     *)
LEMMA QuietStep ==
    ASSUME Sound, Quietly, NEW p \in Procs, stage[p] \in Working \ {"indexes"},
           at[p] # 2 \/ stage[p] \notin {"step", "create"}
    PROVE  /\ Busy(p) /\ ~ Refused /\ at[p] \in 1..18 /\ View(p).version = at[p]
           /\ \A q \in Procs : q # p => ~ Busy(q)
           /\ (writer = p => 2 \notin View(p).temps /\ at[p] >= 2)
           /\ (writer # p => View(p) = disk) /\ ~ lost
           /\ 2 \in disk.temps =>
                disk.version = 2 /\ ("death" \in upset \/ writer = p \/ (stage[p] = "copy" /\ at[p] = 2))
           /\ (at[p] # 2 => 2 \notin View(p).temps) /\ ~ View(p).retried
           /\ SchemaVersion = 19 /\ stage[p] \in Inside
  <1>1. Busy(p) /\ stage[p] \in Inside
    BY DEF Busy, Working, Inside
  <1>2. /\ Lone(p, stage[p], at[p], View(p), writer)
        /\ RetriedLate(View(p)) /\ ~ Refused /\ SchemaVersion = 19
        /\ (writer # p => View(p) = disk) /\ ~ lost
        /\ 2 \in disk.temps =>
             disk.version = 2 /\ ("death" \in upset \/ writer = p \/ (stage[p] = "copy" /\ at[p] = 2))
        /\ \A q \in Procs : q # p => ~ Busy(q)
    BY <1>1, QuietFacts
  <1>3. at[p] \in 1..18 /\ (writer = p => at[p] >= 2)
    BY ViewOK DEF PlaceOK, Working
  <1>4. View(p).version = at[p] /\ (writer = p => 2 \notin View(p).temps)
    BY <1>2 DEF Lone
  <1>5. ~ View(p).retried
    BY <1>2, <1>3, <1>4 DEF RetriedLate
  <1>6. at[p] # 2 => 2 \notin View(p).temps
    BY <1>2, <1>4
  <1> QED
    BY <1>1, <1>2, <1>3, <1>4, <1>5, <1>6

LEMMA AddTablesQuiet ==
    ASSUME Sound, Quietly, NEW p \in Procs, AddTables(p)
    PROVE  Quietly'
  <1>1. PICK db \in Stores :
          /\ stage[p] = "step" /\ UNCHANGED <<writer, upset, lost>> /\ Write(p, db)
          /\ db.version = View(p).version /\ db.temps = View(p).temps
          /\ db.retried = View(p).retried /\ Moved(p, "mark", at[p], db)
          /\ at[p] # 2
    BY AddTablesDoes
  <1>2. /\ ~ Refused /\ View(p).version = at[p] /\ ~ View(p).retried /\ ~ lost
        /\ \A q \in Procs : q # p => ~ Busy(q)
        /\ 2 \notin View(p).temps /\ (writer # p => View(p) = disk)
        /\ 2 \in disk.temps => disk.version = 2 /\ ("death" \in upset \/ writer = p)
    BY <1>1, QuietStep DEF Working
  <1>3. Lone(p, "mark", at[p], db, writer') /\ RetriedLate(db)
    BY <1>1, <1>2 DEF Lone, RetriedLate
  <1>4. disk' \in {disk, db}
    BY <1>1, WriteChanges
  <1>5. "mark" \in Labels /\ "mark" # "raised"
    BY DEF Labels
  <1>6. 2 \in disk'.temps => disk'.version = 2 /\ ("death" \in upset' \/ writer' = p)
    BY <1>1, <1>2, <1>4
  <1> QED
    BY <1>1, <1>2, <1>3, <1>5, <1>6, QuietMove

LEMMA LookUpColumnsQuiet ==
    ASSUME Sound, Quietly, NEW p \in Procs, LookUpColumns(p)
    PROVE  Quietly'
  <1>1. /\ stage[p] = "step" /\ UNCHANGED <<disk, draft, writer, upset, lost>> /\ at[p] # 2
        /\ \/ Moved(p, "mark", at[p], View(p))
           \/ Moved(p, "alter", at[p], View(p)) /\ ~ Of(Extended, at[p]) \subseteq View(p).schema
    BY LookUpColumnsDoes
  <1>2. /\ ~ Refused /\ View(p).version = at[p] /\ ~ View(p).retried /\ ~ lost
        /\ \A q \in Procs : q # p => ~ Busy(q)
        /\ 2 \notin View(p).temps
        /\ 2 \in disk.temps => disk.version = 2 /\ ("death" \in upset \/ writer = p)
    BY <1>1, QuietStep DEF Working
  <1>3. RetriedLate(View(p)) /\ {"mark", "alter"} \subseteq Labels
    BY <1>2 DEF RetriedLate, Labels
  <1>4. CASE Moved(p, "mark", at[p], View(p))
    <2>1. Lone(p, "mark", at[p], View(p), writer')
      BY <1>1, <1>2 DEF Lone
    <2> QED
      BY <1>1, <1>2, <1>3, <1>4, <2>1, QuietMove
  <1>5. CASE Moved(p, "alter", at[p], View(p)) /\ ~ Of(Extended, at[p]) \subseteq View(p).schema
    <2>1. Lone(p, "alter", at[p], View(p), writer')
      BY <1>1, <1>2, <1>5 DEF Lone
    <2> QED
      BY <1>1, <1>2, <1>3, <1>5, <2>1, QuietMove
  <1> QED
    BY <1>1, <1>4, <1>5

LEMMA AddColumnsQuiet ==
    ASSUME Sound, Quietly, NEW p \in Procs, AddColumns(p)
    PROVE  Quietly'
  <1>1. stage[p] = "alter" /\ UNCHANGED <<upset, lost>> /\ Busy(p)
    BY AddColumnsDoes DEF Busy
  <1>2. ~ Of(Extended, at[p]) \subseteq View(p).schema
    BY <1>1, QuietFacts DEF Lone
  <1>3. PICK db \in Stores :
          /\ UNCHANGED writer /\ Write(p, db)
          /\ db.version = View(p).version /\ db.temps = View(p).temps
          /\ db.retried = View(p).retried /\ Moved(p, "mark", at[p], db) /\ at[p] # 2
    BY <1>2, AddColumnsDoes
  <1>4. /\ ~ Refused /\ View(p).version = at[p] /\ ~ View(p).retried /\ ~ lost
        /\ \A q \in Procs : q # p => ~ Busy(q)
        /\ 2 \notin View(p).temps
        /\ 2 \in disk.temps => disk.version = 2 /\ ("death" \in upset \/ writer = p)
    BY <1>1, <1>3, QuietStep DEF Working
  <1>5. Lone(p, "mark", at[p], db, writer') /\ RetriedLate(db)
    BY <1>3, <1>4 DEF Lone, RetriedLate
  <1>6. disk' \in {disk, db}
    BY <1>3, WriteChanges
  <1>7. "mark" \in Labels /\ "mark" # "raised"
    BY DEF Labels
  <1>8. 2 \in disk'.temps => disk'.version = 2 /\ ("death" \in upset' \/ writer' = p)
    BY <1>1, <1>3, <1>4, <1>6
  <1> QED
    BY <1>1, <1>3, <1>4, <1>5, <1>7, <1>8, QuietMove

LEMMA BeginRebuildQuiet ==
    ASSUME Sound, Quietly, NEW p \in Procs, BeginRebuild(p)
    PROVE  Quietly'
  <1>1. /\ stage[p] = "step" /\ UNCHANGED <<upset, lost>> /\ Busy(p) /\ stage[p] \in Inside
    BY BeginRebuildDoes DEF Busy, Inside, Working
  <1>2. {"create", "drop"} \subseteq Labels
    BY DEF Labels
  <1>3. /\ \A q \in Procs : q # p => ~ Busy(q)
        /\ Lone(p, stage[p], at[p], View(p), writer) /\ RetriedLate(View(p)) /\ ~ lost
        /\ 2 \in disk.temps => disk.version = 2 /\ ("death" \in upset \/ writer = p)
        /\ (Refused => Explained) /\ (Refused => Stuck /\ at[p] = 2)
        /\ (writer # p => View(p) = disk)
    BY <1>1, QuietFacts
  <1>4. CASE /\ at[p] = 2 /\ UNCHANGED <<disk, draft, writer>>
             /\ Moved(p, "create", at[p], View(p))
    <2>1. writer # p /\ View(p).version = 2
      BY <1>1, <1>3, <1>4 DEF Lone, Working
    <2>2. Lone(p, "create", at[p], View(p), writer')
      BY <1>4, <2>1 DEF Lone
    <2>3. Refused => Explained' /\ Stuck'
      BY <1>1, <1>3, <1>4 DEF Explained, Stuck
    <2> QED
      BY <1>1, <1>2, <1>3, <1>4, <2>2, <2>3, QuietMove
  <1>5. CASE /\ at[p] = 18 /\ disk' = View(p) /\ writer' # p
             /\ Moved(p, "drop", at[p], View(p))
    <2>1. View(p).version = 18 /\ 2 \notin View(p).temps /\ ~ Refused
      BY <1>1, <1>3, <1>5 DEF Lone, Working
    <2>2. Lone(p, "drop", at[p], View(p), writer')
      BY <1>5, <2>1 DEF Lone
    <2> QED
      BY <1>1, <1>2, <1>3, <1>5, <2>1, <2>2, QuietMove
  <1> QED
    BY <1>4, <1>5, BeginRebuildDoes

LEMMA DropTempQuiet ==
    ASSUME Sound, Quietly, NEW p \in Procs, DropTemp(p)
    PROVE  Quietly'
  <1>1. PICK db \in Stores :
          /\ stage[p] = "drop" /\ UNCHANGED <<writer, upset, lost>> /\ Write(p, db)
          /\ db.version = View(p).version /\ db.temps = View(p).temps \ {at[p]}
          /\ db.retried = View(p).retried /\ Moved(p, "create", at[p], db)
    BY DropTempDoes
  <1>2. /\ ~ Refused /\ View(p).version = at[p] /\ ~ View(p).retried /\ ~ lost
        /\ \A q \in Procs : q # p => ~ Busy(q)
        /\ (writer = p => 2 \notin View(p).temps /\ at[p] # 2) /\ (writer # p => View(p) = disk)
        /\ (at[p] # 2 => 2 \notin View(p).temps)
        /\ 2 \in disk.temps => disk.version = 2 /\ ("death" \in upset \/ writer = p)
    <2>1. writer = p => at[p] # 2
      BY <1>1, QuietFacts DEF Busy, Lone
    <2> QED
      BY <1>1, <2>1, QuietStep DEF Working
  <1>3. 2 \notin db.temps /\ at[p] \notin db.temps
    BY <1>1, <1>2
  <1>4. Lone(p, "create", at[p], db, writer') /\ RetriedLate(db)
    BY <1>1, <1>2, <1>3 DEF Lone, RetriedLate
  <1>5. disk' \in {disk, db} /\ (writer # p => disk' = db) /\ "create" \in Labels
    BY <1>1, WriteChanges DEF Labels
  <1>6. 2 \in disk'.temps => disk'.version = 2 /\ ("death" \in upset' \/ writer' = p)
    BY <1>1, <1>2, <1>3, <1>5
  <1> QED
    BY <1>1, <1>2, <1>4, <1>5, <1>6, QuietMove

LEMMA CreateTempQuiet ==
    ASSUME Sound, Quietly, NEW p \in Procs, CreateTemp(p)
    PROVE  Quietly'
  <1>1. /\ stage[p] = "create" /\ UNCHANGED <<upset, lost>> /\ Busy(p) /\ stage[p] \in Inside
    BY CreateTempDoes DEF Busy, Inside, Working
  <1>2. /\ \A q \in Procs : q # p => ~ Busy(q)
        /\ Lone(p, stage[p], at[p], View(p), writer)
        /\ RetriedLate(View(p)) /\ RetriedLate(disk) /\ ~ lost
        /\ 2 \in disk.temps => disk.version = 2 /\ ("death" \in upset \/ writer = p)
        /\ (Refused => Explained) /\ (Refused => Stuck /\ at[p] = 2)
        /\ (writer # p => View(p) = disk) /\ at[p] \in {2, 18}
    <2>1. at[p] \in {2, 18}
      <3>1. at[p] \in 0..18 /\ Of(Rebuilt, at[p]) # {}
        BY <1>1, ViewOK DEF PlaceOK
      <3> QED
        BY <3>1, LeftGrows
    <2> QED
      BY <1>1, <2>1, QuietFacts
  <1>3. {"raised", "copy"} \subseteq Labels /\ "raised" \notin Inside
    BY DEF Labels, Inside, Working
  <1>4. View(p).version = at[p] /\ (writer = p => 2 \notin View(p).temps /\ at[p] # 2)
        /\ (at[p] = 18 => 18 \notin View(p).temps)
    BY <1>1, <1>2 DEF Lone, Working
  <1>5. CASE /\ at[p] \in View(p).temps /\ Moved(p, "raised", at[p], disk)
             /\ UNCHANGED disk /\ writer' # p
    <2>1. at[p] = 2 /\ writer # p /\ View(p) = disk
      BY <1>2, <1>4, <1>5
    <2>2. Explained' /\ "death" \in upset' /\ disk'.version = 2
      BY <1>1, <1>2, <1>5, <2>1 DEF Explained, Stuck
    <2>3. Lone(p, "raised", at[p], disk, writer')
      BY <1>5 DEF Lone, Working
    <2> QED
      BY <1>1, <1>2, <1>3, <1>5, <2>2, <2>3, QuietMove
  <1>6. ASSUME at[p] \notin View(p).temps, NEW db \in Stores,
               UNCHANGED writer, Write(p, db),
               db.version = View(p).version, db.temps = View(p).temps \union {at[p]},
               db.retried = View(p).retried, Moved(p, "copy", at[p], db)
        PROVE  Quietly'
    <2>1. disk' \in {disk, db} /\ (writer # p => disk' = db)
          /\ (writer = p => disk' = disk)
      BY <1>6 DEF Write
    <2>2. ~ Refused
      BY <1>2, <1>4, <1>6 DEF Stuck
    <2>3. Lone(p, "copy", at[p], db, writer') /\ RetriedLate(db)
      BY <1>2, <1>4, <1>6 DEF Lone, RetriedLate
    <2>4. 2 \in disk'.temps =>
            disk'.version = 2 /\ ("death" \in upset' \/ writer' = p \/ at[p] = 2)
      <3>1. CASE writer = p
        BY <1>2, <1>6, <2>1, <3>1
      <3>2. CASE writer # p /\ at[p] = 2
        BY <1>4, <1>6, <2>1, <3>2
      <3>3. CASE writer # p /\ at[p] = 18
        BY <1>2, <1>4, <1>6, <2>1, <3>3
      <3> QED
        BY <1>2, <3>1, <3>2, <3>3
    <2> QED
      BY <1>1, <1>2, <1>3, <1>6, <2>2, <2>3, <2>4, QuietMove
  <1> QED
    BY <1>5, <1>6, CreateTempDoes

LEMMA CopyTableQuiet ==
    ASSUME Sound, Quietly, NEW p \in Procs, CopyTable(p)
    PROVE  Quietly'
  <1>1. stage[p] = "copy" /\ UNCHANGED <<disk, upset>> /\ Busy(p)
    BY CopyTableDoes DEF Busy
  <1>2. /\ ~ Refused /\ View(p).version = at[p] /\ ~ View(p).retried /\ ~ lost
        /\ \A q \in Procs : q # p => ~ Busy(q)
        /\ (at[p] # 2 => 2 \notin View(p).temps) /\ at[p] \in View(p).temps
        /\ 2 \in disk.temps => disk.version = 2
    BY <1>1, QuietStep, QuietFacts DEF Working, Lone
  <1>3. PICK db \in Stores :
          /\ writer' = p /\ draft' = db /\ lost' = (lost \/ (View(p).retried /\ at[p] = 2))
          /\ db.version = View(p).version /\ db.temps = View(p).temps \ {at[p]}
          /\ db.retried => View(p).retried
          /\ Moved(p, "mark", at[p], db)
    BY <1>2, CopyTableDoes
  <1>4. 2 \notin db.temps /\ ~ lost' /\ RetriedLate(db)
    BY <1>2, <1>3 DEF RetriedLate
  <1>5. Lone(p, "mark", at[p], db, writer')
    BY <1>2, <1>3, <1>4 DEF Lone
  <1>6. "mark" \in Labels /\ "mark" # "raised"
    BY DEF Labels
  <1> QED
    BY <1>1, <1>2, <1>3, <1>4, <1>5, <1>6, QuietMove

LEMMA SetVersionQuiet ==
    ASSUME Sound, Quietly, NEW p \in Procs, SetVersion(p)
    PROVE  Quietly'
  <1>1. PICK db \in Stores :
          /\ stage[p] = "mark" /\ UNCHANGED <<writer, upset, lost>> /\ Write(p, db)
          /\ at[p] \in 1..18 /\ db.version = at[p] + 1 /\ db.temps = View(p).temps
          /\ db.retried = View(p).retried
          /\ \/ at[p] < 18 /\ Moved(p, "step", at[p] + 1, db)
             \/ at[p] = 18 /\ Moved(p, "indexes", at[p] + 1, db)
    BY SetVersionDoes
  <1>2. /\ ~ Refused /\ View(p).version = at[p] /\ ~ View(p).retried /\ ~ lost
        /\ \A q \in Procs : q # p => ~ Busy(q)
        /\ (writer = p => 2 \notin View(p).temps /\ at[p] >= 2) /\ (writer # p => View(p) = disk)
        /\ (at[p] # 2 => 2 \notin View(p).temps)
        /\ 2 \in disk.temps => disk.version = 2 /\ ("death" \in upset \/ writer = p)
        /\ SchemaVersion = 19
    BY <1>1, QuietStep DEF Working
  <1>3. at[p] = 2 => writer = p
    BY <1>1, QuietFacts DEF Busy, Lone
  <1>4. 2 \notin db.temps /\ RetriedLate(db)
    BY <1>1, <1>2, <1>3 DEF RetriedLate
  <1>5. disk' \in {disk, db} /\ {"step", "indexes"} \subseteq Labels
    BY <1>1, WriteChanges DEF Labels
  <1>6. 2 \in disk'.temps => disk'.version = 2 /\ ("death" \in upset' \/ writer' = p)
    BY <1>1, <1>2, <1>4, <1>5
  <1>7. writer' = p => at[p] + 1 # 2
    BY <1>1, <1>2
  <1>8. CASE at[p] < 18 /\ Moved(p, "step", at[p] + 1, db)
    <2>1. Lone(p, "step", at[p] + 1, db, writer')
      BY <1>1, <1>4, <1>7 DEF Lone
    <2> QED
      BY <1>1, <1>2, <1>4, <1>5, <1>6, <1>8, <2>1, QuietMove
  <1>9. CASE at[p] = 18 /\ Moved(p, "indexes", at[p] + 1, db)
    <2>1. Lone(p, "indexes", at[p] + 1, db, writer')
      BY <1>1, <1>2, <1>4, <1>7, <1>9 DEF Lone, Working
    <2> QED
      BY <1>1, <1>2, <1>4, <1>5, <1>6, <1>9, <2>1, QuietMove
  <1> QED
    BY <1>1, <1>8, <1>9

LEMMA EnsureIndexesQuiet ==
    ASSUME Sound, Quietly, NEW p \in Procs, EnsureIndexes(p)
    PROVE  Quietly'
  <1>1. /\ stage[p] = "indexes" /\ UNCHANGED <<upset, lost>>
        /\ disk' = View(p) /\ writer' # p /\ Moved(p, "open", at[p], View(p))
    BY EnsureIndexesDoes
  <1>2. Busy(p) /\ stage[p] \in Inside
    BY <1>1 DEF Busy, Inside, Working
  <1>3. /\ \A q \in Procs : q # p => ~ Busy(q)
        /\ Lone(p, "indexes", at[p], View(p), writer) /\ ~ lost /\ RetriedLate(View(p))
        /\ 2 \in disk.temps => disk.version = 2
        /\ (writer # p => View(p) = disk) /\ SchemaVersion = 19 /\ ~ Refused
    BY <1>1, <1>2, QuietFacts
  <1>4. View(p).version >= SchemaVersion /\ 2 \notin View(p).temps
    BY <1>3 DEF Lone
  <1>5. Lone(p, "open", at[p], View(p), writer')
    BY <1>1, <1>4 DEF Lone, Working
  <1>6. "open" \in Labels /\ "open" # "raised"
    BY DEF Labels
  <1> QED
    BY <1>1, <1>3, <1>4, <1>5, <1>6, QuietMove

LEMMA UseQuiet ==
    ASSUME Sound, Quietly, NEW p \in Procs, Use(p)
    PROVE  Quietly'
  <1>1. PICK db \in Stores :
          /\ stage[p] = "open" /\ UNCHANGED <<writer, upset, lost>> /\ writer = Nobody
          /\ disk' = db /\ db.version = disk.version /\ db.temps = disk.temps
          /\ Moved(p, "idle", at[p], db)
    BY UseDoes
  <1>2. Busy(p) /\ stage[p] \in Inside /\ writer # p
    BY <1>1, SchemaAssumption DEF Busy, Inside, Working
  <1>3. /\ \A q \in Procs : q # p => ~ Busy(q)
        /\ Lone(p, "open", at[p], disk, writer) /\ ~ lost
        /\ 2 \in disk.temps => disk.version = 2
        /\ SchemaVersion = 19 /\ ~ Refused
    BY <1>1, <1>2, QuietFacts
  <1>4. db.version >= SchemaVersion /\ 2 \notin db.temps
    BY <1>1, <1>3 DEF Lone
  <1>5. Lone(p, "idle", at[p], db, writer') /\ RetriedLate(db)
    BY <1>1, <1>2, <1>4 DEF Lone, Working, RetriedLate
  <1>6. "idle" \in Labels /\ "idle" \notin Inside
    BY DEF Labels, Inside, Working
  <1> QED
    BY <1>1, <1>3, <1>4, <1>5, <1>6, QuietMove

LEMMA DieQuiet ==
    ASSUME Sound, Quietly, NEW p \in Procs, Die(p)
    PROVE  Quietly'
  <1>1. Moved(p, "idle", at[p], disk) /\ UNCHANGED disk /\ writer' # p
    BY DieDoes
  <1>2. Busy(p) /\ upset' = upset \union {"death"} /\ lost' = lost
    BY DEF Die, Busy
  <1>3. \A q \in Procs : q # p => ~ Busy(q)
    BY <1>2, QuietFacts
  <1>4. RetriedLate(disk) /\ ~ lost /\ (2 \in disk.temps => disk.version = 2)
    BY <1>2, QuietFacts
  <1>5. Refused => Explained'
    BY <1>1, <1>2, <1>3, QuietFacts DEF Explained, Stuck
  <1>6. Lone(p, "idle", at[p], disk, writer')
    BY <1>1 DEF Lone, Working
  <1>7. "idle" \in Labels /\ "idle" \notin Inside /\ "idle" # "raised"
    BY DEF Labels, Inside, Working
  <1> QED
    BY <1>1, <1>2, <1>3, <1>4, <1>5, <1>6, <1>7, QuietMove
-----------------------------------------------------------------------------
(* WHAT HOLDS ALWAYS *)

Calm == "rival" \notin upset => Quietly

LEMMA InitCalm ==
    ASSUME SchemaInit
    PROVE  Calm
  <1>1. Sound
    BY InitSound
  <1>2. /\ \A p \in Procs : stage[p] = "idle" /\ writer # p
        /\ draft = disk /\ disk.temps = {} /\ disk.retried = FALSE /\ lost = FALSE
    BY SchemaAssumption DEF SchemaInit
  <1> QED
    BY <1>2 DEF Calm, Quietly, Busy, RetriedLate, Lone, Refused, Working, Inside

LEMMA StepCalm ==
    ASSUME Sound, Quietly, NEW p \in Procs, Open(p) \/ Step(p) \/ Use(p) \/ Die(p),
           "rival" \notin upset'
    PROVE  Quietly'
  <1>1. CASE Open(p)
    BY <1>1, OpenQuiet
  <1>2. CASE Use(p)
    BY <1>2, UseQuiet
  <1>3. CASE Die(p)
    BY <1>3, DieQuiet
  <1>4. ~ LockTimeout(p)
    <2> SUFFICES ASSUME LockTimeout(p) PROVE FALSE
      OBVIOUS
    <2> QED
      BY LockTimeoutDoes, QuietFacts DEF Busy
  <1>5. CASE Step(p)
    <2>1. CASE CreateTables(p) \/ ReadVersion(p) \/ AddTables(p) \/ LookUpColumns(p)
      BY <2>1, CreateTablesQuiet, ReadVersionQuiet, AddTablesQuiet, LookUpColumnsQuiet
    <2>2. CASE AddColumns(p) \/ BeginRebuild(p) \/ DropTemp(p) \/ CreateTemp(p)
      BY <2>2, AddColumnsQuiet, BeginRebuildQuiet, DropTempQuiet, CreateTempQuiet
    <2>3. CASE CopyTable(p) \/ SetVersion(p) \/ EnsureIndexes(p)
      BY <2>3, CopyTableQuiet, SetVersionQuiet, EnsureIndexesQuiet
    <2> QED
      BY <1>4, <1>5, <2>1, <2>2, <2>3 DEF Step
  <1> QED
    BY <1>1, <1>2, <1>3, <1>5

(* What has upset the peace is not forgotten.                                *)
LEMMA UpsetStays ==
    ASSUME SchemaNext
    PROVE  upset \subseteq upset'
  BY DEF SchemaNext, Open, Step, Use, Die, CreateTables, ReadVersion, AddTables, LookUpColumns,
         AddColumns, BeginRebuild, DropTemp, CreateTemp, CopyTable, SetVersion, EnsureIndexes,
         LockTimeout

LEMMA NextCalm ==
    ASSUME Sound, Calm, [SchemaNext]_schemaVars
    PROVE  Calm'
  <1>1. CASE SchemaNext
    BY <1>1, UpsetStays, StepCalm DEF SchemaNext, Calm
  <1>2. CASE UNCHANGED schemaVars
    BY <1>2 DEF schemaVars, Calm, Quietly, Busy, RetriedLate, Lone, View, OwnsTemp, Refused, Explained,
                Stuck
  <1> QED
    BY <1>1, <1>2

LEMMA AlwaysSound == SchemaSpec => [](Sound /\ Calm)
  <1>1. SchemaInit => Sound /\ Calm
    BY InitSound, InitCalm
  <1>2. Sound /\ Calm /\ [SchemaNext]_schemaVars => (Sound /\ Calm)'
    BY NextMoves, NextCalm
  <1> QED
    BY <1>1, <1>2, PTL DEF SchemaSpec

(* The committed store, the draft of the open transaction and the place of   *)
(* every process in initialize stay within the ladder's versions and parts.  *)
THEOREM MigrationTypes == SchemaSpec => []SchemaTypeOK
  <1>1. Sound => SchemaTypeOK
    BY DEF Sound, Typed
  <1> QED
    BY <1>1, AlwaysSound, PTL

(* migrate_schema: the version stands for the schema in every committed      *)
(* state, a store that is open is complete, and retry counts are copied away *)
(* only when two processes have been opening the store at once.              *)
THEOREM VersionStandsForSchema == SchemaSpec => []SchemaMatchesVersion
  <1>1. Sound /\ Calm => SchemaMatchesVersion
    <2> SUFFICES ASSUME Sound, Calm PROVE SchemaMatchesVersion
      OBVIOUS
    <2>1. disk.version > 0 => Left(disk.version) \subseteq disk.schema
      BY DEF Sound, DataOK, SchemaOK
    <2>2. ASSUME NEW p \in Procs, stage[p] = "open" PROVE disk.schema = Parts
      <3>1. Parts \subseteq View(p).schema /\ View(p) = disk
        BY <2>2, ViewOK DEF PlaceOK, Working
      <3>2. disk.schema \subseteq Parts
        BY DEF Sound, Typed, SchemaTypeOK
      <3> QED
        BY <3>1, <3>2
    <2>3. lost => "rival" \in upset
      BY DEF Calm, Quietly
    <2> QED
      BY <2>1, <2>2, <2>3 DEF SchemaMatchesVersion
  <1> QED
    BY <1>1, AlwaysSound, PTL

(* initialize raises for one of the four reasons that the code knows.        *)
THEOREM RaisesHaveReasons == SchemaSpec => []RaisesAreExplained
  <1>1. Sound /\ Calm => RaisesAreExplained
    <2> SUFFICES ASSUME Calm, "rival" \notin upset, NEW p \in Procs, stage[p] = "raised"
                 PROVE  \/ "death" \in upset /\ 2 \in disk.temps /\ disk.version <= 2
                        \/ disk.version > SchemaVersion \/ Outdated(disk.schema) # {}
      BY DEF RaisesAreExplained
    <2>1. Quietly /\ Refused
      BY DEF Calm, Refused
    <2>2. Explained /\ (2 \in disk.temps => disk.version = 2)
      BY <2>1 DEF Quietly
    <2> QED
      BY <2>2 DEF Explained, Stuck
  <1> QED
    BY <1>1, AlwaysSound, PTL

(* The rebuilds of approval_requests and plan_graph_nodes: no committed      *)
(* state is without a table or a column that an earlier one had.             *)
THEOREM NothingIsDropped == SchemaSpec => TablesStay
  <1>1. Sound /\ [SchemaNext]_schemaVars => [disk.schema \subseteq disk'.schema]_schemaVars
    BY NextMoves
  <1> QED
    BY <1>1, AlwaysSound, PTL DEF SchemaSpec, TablesStay
=============================================================================

--------------------------- MODULE EventLogProofs ---------------------------
(***************************************************************************)
(* Proofs about EventLog, for every number of writers, keys and appends.   *)
(***************************************************************************)
EXTENDS EventLog, SequenceTheorems, TLAPS

Dense == \E n \in Nat : Sequences = 1..n
KeysOnce == \A e, f \in table : e.key # NoKey /\ e.key = f.key => e = f

(* What a writer has read stays true until another one inserts. *)
ReadOK(w) ==
    /\ pc[w] = "number" => rival[w] \/ Stored(want[w]) = {}
    /\ pc[w] = "insert" => /\ number[w] # 0 /\ number[w] - 1 \in Sequences \union {0}
                           /\ rival[w] \/ Unique(number[w], want[w])

(* Numbered is not inductive alone: an insert puts its row at the end only *)
(* because no writer holds a number more than one beyond the rows there.   *)
LogInv ==
    /\ TypeOK /\ Numbered /\ Dense /\ KeysOnce
    /\ \A w \in Writers : ReadOK(w)
    /\ ReturnedIsStored /\ RaisedOnlyByRival

LEMMA OutcomeTypes ==
    /\ Raised \in Outcomes /\ Unknown \in Outcomes
    /\ \A row \in Rows : Returned(row) \in Outcomes
  BY DEF Raised, Unknown, Returned, Outcomes

LEMMA InitLog == Init => LogInv
  <1> SUFFICES ASSUME Init PROVE LogInv
    OBVIOUS
  <1>1. TypeOK
    BY OutcomeTypes, AppendAssumption DEF Init, TypeOK
  <1>2. Sequences = 1..0
    BY DEF Init, Sequences
  <1>3. Dense
    BY <1>2 DEF Dense
  <1>4. Numbered /\ KeysOnce /\ \A w \in Writers : ReadOK(w)
    BY DEF Init, Numbered, KeysOnce, ReadOK
  <1>5. ReturnedIsStored /\ RaisedOnlyByRival
    BY DEF Init, ReturnedIsStored, RaisedOnlyByRival, Unknown
  <1> QED
    BY <1>1, <1>3, <1>4, <1>5 DEF LogInv

(* Steps that insert nothing: only the writer's own reads can go stale. *)
LEMMA ReadStep ==
    ASSUME LogInv, TypeOK', UNCHANGED table, NEW w \in Writers,
           \A v \in Writers \ {w} : /\ pc'[v] = pc[v] /\ want'[v] = want[v]
                                    /\ number'[v] = number[v] /\ rival'[v] = rival[v]
                                    /\ outcome'[v] = outcome[v],
           ReadOK(w)',
           outcome'[w].how = "returned" =>
             \E e \in table : outcome'[w].row = {e} /\ e.key = want'[w],
           outcome'[w].how = "raised" => rival'[w]
    PROVE  LogInv'
  <1>1. Sequences' = Sequences /\ Numbered' /\ Dense' /\ KeysOnce'
    BY DEF LogInv, Sequences, Numbered, Dense, KeysOnce
  <1>2. ASSUME NEW v \in Writers \ {w} PROVE ReadOK(v)'
    BY <1>1, <1>2 DEF LogInv, ReadOK, Stored, Unique
  <1>3. ReturnedIsStored'
    BY DEF LogInv, ReturnedIsStored
  <1>4. RaisedOnlyByRival'
    BY DEF LogInv, RaisedOnlyByRival
  <1> QED
    BY <1>1, <1>2, <1>3, <1>4 DEF LogInv

LEMMA CallKeeps ==
    ASSUME LogInv, NEW w \in Writers, NEW k \in Keys \union {NoKey}, Call(w, k)
    PROVE  LogInv'
  <1>1. TypeOK'
    BY OutcomeTypes, AppendAssumption DEF LogInv, TypeOK, Call, Goto
  <1>2. pc'[w] # "insert" /\ (pc'[w] = "number" => k = NoKey) /\ want'[w] = k
    BY DEF LogInv, TypeOK, Call, Goto
  <1>3. ReadOK(w)'
    BY <1>2 DEF ReadOK, Stored
  <1>4. outcome'[w] = Unknown
    BY DEF LogInv, TypeOK, Call
  <1> QED
    BY <1>1, <1>3, <1>4, ReadStep DEF Call, Goto, LogInv, TypeOK, Unknown

LEMMA LookupKeeps ==
    ASSUME LogInv, NEW w \in Writers, Lookup(w)
    PROVE  LogInv'
  <1>1. CASE \E row \in Stored(want[w]) : End(w, Returned(row))
    <2>1. PICK row \in Stored(want[w]) : End(w, Returned(row))
      BY <1>1
    <2>2. row \in table /\ row.key = want[w] /\ row \in Rows
      BY DEF Stored, LogInv, TypeOK
    <2>3. outcome'[w] = Returned(row) /\ pc'[w] = "idle"
      BY <2>1 DEF End, Goto, LogInv, TypeOK
    <2>4. TypeOK'
      BY <2>1, <2>2, OutcomeTypes DEF Lookup, End, Goto, LogInv, TypeOK
    <2>5. ReadOK(w)'
      BY <2>3 DEF ReadOK
    <2> QED
      BY <2>1, <2>2, <2>3, <2>4, <2>5, ReadStep
         DEF Lookup, End, Goto, LogInv, TypeOK, Returned
  <1>2. CASE Stored(want[w]) = {} /\ Goto(w, "number") /\ UNCHANGED outcome
    <2>1. TypeOK'
      BY <1>2 DEF Lookup, Goto, LogInv, TypeOK
    <2>2. ReadOK(w)'
      BY <1>2 DEF Lookup, Goto, LogInv, TypeOK, ReadOK, Stored
    <2> QED
      BY <1>2, <2>1, <2>2, ReadStep
         DEF Lookup, Goto, LogInv, TypeOK, ReturnedIsStored, RaisedOnlyByRival
  <1> QED
    BY <1>1, <1>2 DEF Lookup

LEMMA NumberKeeps ==
    ASSUME LogInv, NEW w \in Writers, Number(w)
    PROVE  LogInv'
  <1>1. PICK last \in Sequences \union {0} :
          /\ \A n \in Sequences : n <= last
          /\ number' = [number EXCEPT ![w] = last + 1]
    BY DEF Number
  <1>2. last \in Nat /\ Sequences \subseteq Nat
    BY DEF Sequences, LogInv, TypeOK, Rows
  <1>3. TypeOK'
    BY <1>1, <1>2 DEF Number, Goto, LogInv, TypeOK
  <1>4. number'[w] = last + 1 /\ pc'[w] = "insert" /\ pc[w] = "number"
    BY <1>1 DEF Number, Goto, LogInv, TypeOK
  <1>5. last + 1 \notin Sequences
    BY <1>1, <1>2
  <1>6. rival[w] \/ Stored(want[w]) = {}
    BY <1>4 DEF LogInv, ReadOK
  <1>7. ReadOK(w)'
    BY <1>1, <1>2, <1>4, <1>5, <1>6 DEF Number, ReadOK, Unique, Stored, Sequences
  <1> QED
    BY <1>1, <1>3, <1>7, ReadStep
       DEF Number, Goto, LogInv, TypeOK, ReturnedIsStored, RaisedOnlyByRival

(* Where an insert puts its row: right behind the last one. *)
LEMMA InsertsNext ==
    ASSUME LogInv, NEW w \in Writers, Insert(w), NEW n \in Nat, Sequences = 1..n
    PROVE  /\ number[w] = n + 1 /\ Sequences' = 1..(n + 1)
           /\ [sequence |-> number[w], key |-> want[w]] \in Rows
           /\ table' = table \union {[sequence |-> number[w], key |-> want[w]]}
           /\ \A e \in table : e.sequence <= n
  <1>1. /\ number[w] \in Nat /\ number[w] # 0 /\ number[w] - 1 \in (1..n) \union {0}
        /\ number[w] \notin 1..n
    BY DEF LogInv, TypeOK, ReadOK, Insert, Unique
  <1>2. number[w] = n + 1
    BY <1>1
  <1>3. [sequence |-> number[w], key |-> want[w]] \in Rows
    BY <1>1 DEF LogInv, TypeOK, Rows
  <1>4. table' = table \union {[sequence |-> number[w], key |-> want[w]]}
    BY DEF Insert
  <1>5. Sequences' = Sequences \union {number[w]}
    <2>1. PICK row : row = [sequence |-> number[w], key |-> want[w]]
      OBVIOUS
    <2>2. row.sequence = number[w] /\ table' = table \union {row}
      BY <1>4, <2>1
    <2> QED
      BY <2>2 DEF Sequences
  <1>6. (1..n) \union {n + 1} = 1..(n + 1)
    OBVIOUS
  <1>7. \A e \in table : e.sequence \in Sequences
    BY DEF Sequences
  <1> QED
    BY <1>2, <1>3, <1>4, <1>5, <1>6, <1>7

LEMMA InsertKeeps ==
    ASSUME LogInv, NEW w \in Writers, Insert(w)
    PROVE  LogInv'
  <1> DEFINE row == [sequence |-> number[w], key |-> want[w]]
  <1>1. PICK n \in Nat : Sequences = 1..n
    BY DEF LogInv, Dense
  <1>2. /\ number[w] = n + 1 /\ Sequences' = 1..(n + 1) /\ row \in Rows
        /\ table' = table \union {row} /\ \A e \in table : e.sequence <= n
    BY <1>1, InsertsNext
  <1>3. TypeOK'
    BY <1>2, OutcomeTypes DEF Insert, End, Goto, LogInv, TypeOK
  <1>4. Dense'
    BY <1>2 DEF Dense
  <1>5. Numbered'
    <2>1. \A e, f \in table' : e.sequence = f.sequence => e = f
      BY <1>2 DEF LogInv, Numbered, TypeOK, Rows
    <2>2. \A e \in table' : e.sequence \in 1..(n + 1)
      BY <1>2 DEF Sequences
    <2>3. \A e \in table' : 1..e.sequence \subseteq Sequences'
      BY <1>2, <2>2
    <2> QED
      BY <2>1, <2>3 DEF Numbered
  <1>6. KeysOnce'
    <2>1. want[w] # NoKey => \A e \in table : e.key # want[w]
      BY DEF Insert, Unique, Stored
    <2> QED
      BY <1>2, <2>1 DEF LogInv, KeysOnce
  <1>7. ASSUME NEW v \in Writers PROVE ReadOK(v)'
    <2>1. CASE v = w
      BY <2>1 DEF Insert, End, Goto, LogInv, TypeOK, ReadOK
    <2>2. CASE v # w
      <3>1. /\ pc'[v] = pc[v] /\ number'[v] = number[v] /\ rival'[v] = TRUE
        BY <2>2 DEF Insert, End, Goto, LogInv, TypeOK
      <3>2. Sequences \subseteq Sequences'
        BY <1>1, <1>2
      <3> QED
        BY <3>1, <3>2 DEF LogInv, ReadOK
    <2> QED
      BY <2>1, <2>2
  <1>8. ReturnedIsStored'
    <2>1. outcome'[w] = Returned(row) /\ want'[w] = want[w] /\ row \in table'
      BY <1>2 DEF Insert, End, LogInv, TypeOK
    <2>2. \E e \in table' : outcome'[w].row = {e} /\ e.key = want'[w]
      BY <2>1 DEF Returned
    <2>3. \A v \in Writers \ {w} : outcome'[v] = outcome[v] /\ want'[v] = want[v]
      BY DEF Insert, End, LogInv, TypeOK
    <2> QED
      BY <1>2, <2>2, <2>3 DEF LogInv, ReturnedIsStored
  <1>9. RaisedOnlyByRival'
    <2>1. outcome'[w].how = "returned"
      BY DEF Insert, End, LogInv, TypeOK, Returned
    <2> QED
      BY <2>1 DEF Insert, End, LogInv, TypeOK, RaisedOnlyByRival
  <1> QED
    BY <1>3, <1>4, <1>5, <1>6, <1>7, <1>8, <1>9 DEF LogInv

LEMMA ConflictKeeps ==
    ASSUME LogInv, NEW w \in Writers, Conflict(w)
    PROVE  LogInv'
  <1>1. TypeOK'
    BY OutcomeTypes DEF Conflict, End, Goto, LogInv, TypeOK
  <1>2. outcome'[w] = Raised /\ pc'[w] = "idle" /\ rival'[w] = rival[w]
    BY DEF Conflict, End, Goto, LogInv, TypeOK
  <1>3. rival[w]
    BY DEF Conflict, LogInv, ReadOK
  <1>4. ReadOK(w)'
    BY <1>2 DEF ReadOK
  <1> QED
    BY <1>1, <1>2, <1>3, <1>4, ReadStep
       DEF Conflict, End, Goto, LogInv, TypeOK, Raised

LEMMA GiveUpKeeps ==
    ASSUME LogInv, NEW w \in Writers, GiveUp(w)
    PROVE  LogInv'
  <1>1. TypeOK'
    BY OutcomeTypes DEF GiveUp, End, Goto, LogInv, TypeOK
  <1>2. outcome'[w] = Unknown /\ pc'[w] = "idle"
    BY DEF GiveUp, End, Goto, LogInv, TypeOK
  <1>3. ReadOK(w)'
    BY <1>2 DEF ReadOK
  <1> QED
    BY <1>1, <1>2, <1>3, ReadStep DEF GiveUp, End, Goto, LogInv, TypeOK, Unknown

LEMMA NextLog == LogInv /\ [Next]_vars => LogInv'
  <1> SUFFICES ASSUME LogInv, [Next]_vars PROVE LogInv'
    OBVIOUS
  <1>1. CASE UNCHANGED vars
    BY <1>1 DEF vars, LogInv, TypeOK, Numbered, Dense, KeysOnce, ReadOK, Sequences,
                Stored, Unique, ReturnedIsStored, RaisedOnlyByRival
  <1> QED
    BY <1>1, CallKeeps, LookupKeeps, NumberKeeps, InsertKeeps, ConflictKeeps,
       GiveUpKeeps DEF Next
-----------------------------------------------------------------------------
(* Every row is a row of task_events and every call's locals keep their type. *)
THEOREM LogTypeCorrect == Spec => []TypeOK
  <1>1. LogInv => TypeOK
    BY DEF LogInv
  <1> QED
    BY <1>1, InitLog, NextLog, PTL DEF Spec

(* The timeline's numbers are 1 to n, each once, whatever writers race or die. *)
THEOREM NumberingCorrect == Spec => []Numbered
  <1>1. LogInv => Numbered
    BY DEF LogInv
  <1> QED
    BY <1>1, InitLog, NextLog, PTL DEF Spec

(* What an append returned is stored, under the key asked for. *)
THEOREM ReturnedCorrect == Spec => []ReturnedIsStored
  <1>1. LogInv => ReturnedIsStored
    BY DEF LogInv
  <1> QED
    BY <1>1, InitLog, NextLog, PTL DEF Spec

(* Only a race makes an append raise. *)
THEOREM RaisedCorrect == Spec => []RaisedOnlyByRival
  <1>1. LogInv => RaisedOnlyByRival
    BY DEF LogInv
  <1> QED
    BY <1>1, InitLog, NextLog, PTL DEF Spec

(* Rows are only added, and behind those there are. *)
THEOREM AppendOrder == Spec => AppendsAtTheEnd
  <1> DEFINE A == /\ table \subseteq table'
                  /\ \A e \in table' \ table : \A f \in table' : f.sequence <= e.sequence
  <1>1. LogInv /\ [Next]_vars => [A]_vars
    <2> SUFFICES ASSUME LogInv, Next PROVE A
      OBVIOUS
    <2>1. CASE UNCHANGED table
      BY <2>1
    <2>2. ASSUME NEW w \in Writers, Insert(w) PROVE A
      <3>1. PICK n \in Nat : Sequences = 1..n
        BY DEF LogInv, Dense
      <3>2. PICK row : row = [sequence |-> number[w], key |-> want[w]]
        OBVIOUS
      <3>3. /\ row.sequence = n + 1
            /\ table' = table \union {row} /\ \A e \in table : e.sequence <= n
            /\ \A e \in table : e.sequence \in Nat
        BY <2>2, <3>1, <3>2, InsertsNext DEF LogInv, TypeOK, Rows
      <3> QED
        BY <3>3
    <2> QED
      BY <2>1, <2>2 DEF Next, Call, Lookup, Number, Conflict, GiveUp
  <1> QED
    BY <1>1, InitLog, NextLog, PTL DEF Spec, AppendsAtTheEnd
-----------------------------------------------------------------------------
(* The table implements the append-only log. *)
LEMMA TimelineGrows ==
    ASSUME LogInv, NEW w \in Writers, Insert(w)
    PROVE  Log!Record(want[w])
  <1> DEFINE At(t, i) == (CHOOSE e \in t : e.sequence = i).key
  <1>1. PICK n \in Nat : Sequences = 1..n
    BY DEF LogInv, Dense
  <1>2. PICK row : row = [sequence |-> number[w], key |-> want[w]]
    OBVIOUS
  <1>3. /\ row.sequence = n + 1 /\ row.key = want[w] /\ Sequences' = 1..(n + 1)
        /\ table' = table \union {row}
    BY <1>1, <1>2, InsertsNext
  <1>4. \A e, f \in table' : e.sequence = f.sequence => e = f
    BY InsertKeeps DEF LogInv, Numbered
  <1>5. ASSUME NEW i \in 1..n
        PROVE  \E e \in table : e.sequence = i /\ At(table, i) = e.key /\ At(table', i) = e.key
    <2>1. PICK e \in table : e.sequence = i
      BY <1>1 DEF Sequences
    <2>2. e \in table' /\ (CHOOSE x \in table : x.sequence = i) = e
      BY <1>3, <1>4, <2>1
    <2>3. (CHOOSE x \in table' : x.sequence = i) = e
      BY <1>4, <2>1, <2>2
    <2> QED
      BY <2>1, <2>2, <2>3
  <1>6. At(table', n + 1) = want[w]
    <2>1. (CHOOSE x \in table' : x.sequence = n + 1) = row
      BY <1>3, <1>4
    <2> QED
      BY <1>3, <2>1
  <1>7. Timeline = [i \in 1..n |-> At(table, i)]
    BY <1>1 DEF Timeline
  <1>8. Timeline' = [i \in 1..(n + 1) |-> At(table', i)]
    BY <1>3 DEF Timeline
  <1>9. Timeline \in Seq(Keys \union {NoKey}) /\ Len(Timeline) = n
    <2>1. \A i \in 1..n : At(table, i) \in Keys \union {NoKey}
      BY <1>5 DEF LogInv, TypeOK, Rows
    <2> QED
      BY <1>7, <2>1
  <1>10. Timeline' = Append(Timeline, want[w])
    BY <1>5, <1>6, <1>7, <1>8, <1>9
  <1>11. want[w] # NoKey => \A i \in DOMAIN Timeline : Timeline[i] # want[w]
    BY <1>5, <1>7 DEF Insert, Unique, Stored
  <1> QED
    BY <1>10, <1>11 DEF Log!Record

(* Whatever writers race, die or wait, the stored timeline behaves like a    *)
(* list that grows at its end and holds each idempotency key once.           *)
THEOREM LogImplemented == Spec => ImplementsLog
  <1>1. Init => Log!Init
    BY DEF Init, Log!Init, Timeline, Sequences
  <1>2. LogInv /\ [Next]_vars => [Log!Next]_Timeline
    <2> SUFFICES ASSUME LogInv, [Next]_vars PROVE [Log!Next]_Timeline
      OBVIOUS
    <2>1. CASE UNCHANGED table
      BY <2>1 DEF Timeline, Sequences
    <2>2. ASSUME NEW w \in Writers, Insert(w) PROVE Log!Next
      <3>1. PICK k \in Keys \union {NoKey} : k = want[w]
        BY DEF LogInv, TypeOK
      <3>2. Log!Record(k)
        BY <2>2, <3>1, TimelineGrows DEF Log!Record
      <3> QED
        BY <3>2 DEF Log!Next
    <2> QED
      BY <2>1, <2>2 DEF Next, vars, Call, Lookup, Number, Conflict, GiveUp
  <1> QED
    BY <1>1, <1>2, InitLog, NextLog, PTL DEF Spec, ImplementsLog, Log!Spec
=============================================================================

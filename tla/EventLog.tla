------------------------------ MODULE EventLog ------------------------------
(***************************************************************************)
(* StateStore.append_task_event of storage/db.py, called by several        *)
(* processes for one task.  Python's sqlite3 opens the transaction at the  *)
(* first INSERT, so the lookup of the idempotency key and the read of the  *)
(* highest sequence number see the table outside the transaction of the    *)
(* INSERT, and other processes can insert in between.  The INSERT and its  *)
(* commit are one step: it holds the database's only write lock.           *)
(* sequence numbers and keys are compared within one task, so one task's   *)
(* rows stand for all.                                                     *)
(***************************************************************************)
EXTENDS Integers

CONSTANTS
    Writers,    \* processes appending to the task's events
    Keys,       \* idempotency keys
    NoKey,      \* an event without one
    MaxAppends  \* bound: appends begun

ASSUME KeyAssumption == NoKey \notin Keys
ASSUME AppendAssumption == MaxAppends \in Nat

VARIABLES
    table,      \* the task's rows of task_events
    pc,         \* where each process stands in append_task_event
    want,       \* the idempotency key of the call
    number,     \* the sequence number read for it
    outcome,    \* how the process's last call ended, and with which row
    rival,      \* history: a row was added since the call began
    begun       \* appends begun

vars == <<table, pc, want, number, outcome, rival, begun>>

Rows == [sequence : Nat \ {0}, key : Keys \union {NoKey}]

(* unknown while a call runs, and when its process died. *)
Returned(row) == [how |-> "returned", row |-> {row}]
Raised == [how |-> "raised", row |-> {}]
Unknown == [how |-> "unknown", row |-> {}]
Outcomes == [how : {"returned", "raised", "unknown"}, row : SUBSET Rows]

TypeOK ==
    /\ table \subseteq Rows
    /\ pc \in [Writers -> {"idle", "lookup", "number", "insert"}]
    /\ want \in [Writers -> Keys \union {NoKey}]
    /\ number \in [Writers -> Nat]
    /\ outcome \in [Writers -> Outcomes]
    /\ rival \in [Writers -> BOOLEAN]
    /\ begun \in 0..MaxAppends

Init ==
    /\ table = {}
    /\ pc = [w \in Writers |-> "idle"]
    /\ want = [w \in Writers |-> NoKey]
    /\ number = [w \in Writers |-> 0]
    /\ outcome = [w \in Writers |-> Unknown]
    /\ rival = [w \in Writers |-> FALSE]
    /\ begun = 0

Sequences == {e.sequence : e \in table}
Stored(k) == {e \in table : k # NoKey /\ e.key = k}

Goto(w, label) == pc' = [pc EXCEPT ![w] = label]
End(w, how) == Goto(w, "idle") /\ outcome' = [outcome EXCEPT ![w] = how]
-----------------------------------------------------------------------------
Call(w, k) ==
    /\ pc[w] = "idle" /\ begun < MaxAppends
    /\ want' = [want EXCEPT ![w] = k]
    /\ rival' = [rival EXCEPT ![w] = FALSE]
    /\ outcome' = [outcome EXCEPT ![w] = Unknown]
    /\ Goto(w, IF k = NoKey THEN "number" ELSE "lookup")
    /\ begun' = begun + 1
    /\ UNCHANGED <<table, number>>

(* Mutant: the lookup ignores the key. *)
LookupAny(w) ==
    /\ pc[w] = "lookup"
    /\ \/ \E row \in table : End(w, Returned(row))
       \/ /\ Stored(want[w]) = {}
          /\ Goto(w, "number")
          /\ UNCHANGED outcome
    /\ UNCHANGED <<table, want, number, rival, begun>>

(* An event already stored under the key is returned as it is. *)
Lookup(w) ==
    /\ pc[w] = "lookup"
    /\ \/ \E row \in Stored(want[w]) : End(w, Returned(row))
       \/ /\ Stored(want[w]) = {}
          /\ Goto(w, "number")
          /\ UNCHANGED outcome
    /\ UNCHANGED <<table, want, number, rival, begun>>

(* Mutant: the highest number itself, not the next one. *)
NumberLast(w) ==
    /\ pc[w] = "number"
    /\ \E last \in Sequences \union {0} :
         /\ \A n \in Sequences : n <= last
         /\ number' = [number EXCEPT ![w] = last]
    /\ Goto(w, "insert")
    /\ UNCHANGED <<table, want, outcome, rival, begun>>

(* SELECT COALESCE(MAX(sequence), 0) + 1 *)
Number(w) ==
    /\ pc[w] = "number"
    /\ \E last \in Sequences \union {0} :
         /\ \A n \in Sequences : n <= last
         /\ number' = [number EXCEPT ![w] = last + 1]
    /\ Goto(w, "insert")
    /\ UNCHANGED <<table, want, outcome, rival, begun>>

(* Mutants: a table without one of its two uniqueness constraints. *)
UniqueKey(n, k) == Stored(k) = {}
UniqueNumber(n, k) == n \notin Sequences

(* UNIQUE (task_id, sequence) and the unique index on the key. *)
Unique(n, k) == n \notin Sequences /\ Stored(k) = {}

Insert(w) ==
    LET row == [sequence |-> number[w], key |-> want[w]]
    IN  /\ pc[w] = "insert" /\ Unique(number[w], want[w])
        /\ table' = table \union {row}
        /\ rival' = [v \in Writers |-> rival[v] \/ v # w]
        /\ End(w, Returned(row))
        /\ UNCHANGED <<want, number, begun>>

(* sqlite3.IntegrityError leaves append_task_event; nobody catches it. *)
Conflict(w) ==
    /\ pc[w] = "insert" /\ ~Unique(number[w], want[w])
    /\ End(w, Raised)
    /\ UNCHANGED <<table, want, number, rival, begun>>

(* The process dies, or the lock is not free within the busy timeout. *)
GiveUp(w) ==
    /\ pc[w] # "idle"
    /\ End(w, Unknown)
    /\ UNCHANGED <<table, want, number, rival, begun>>
-----------------------------------------------------------------------------
Next ==
    \E w \in Writers :
      \/ \E k \in Keys \union {NoKey} : Call(w, k)
      \/ Lookup(w) \/ Number(w) \/ Insert(w) \/ Conflict(w) \/ GiveUp(w)

Spec == Init /\ [][Next]_vars
-----------------------------------------------------------------------------
(* PROPERTIES *)

(* The timeline has no gaps and no number twice, although each writer       *)
(* computes its number from a read made before its insert.                  *)
Numbered ==
    /\ \A e, f \in table : e.sequence = f.sequence => e = f
    /\ \A e \in table : 1..e.sequence \subseteq Sequences

(* Rows are added one at a time and behind every row there is: the order of *)
(* sequence numbers is the order in which the events were committed.        *)
AppendsAtTheEnd ==
    [][/\ table \subseteq table'
       /\ \A e \in table' \ table : \A f \in table' : f.sequence <= e.sequence]_vars

(* A caller gets back a stored event with the key it asked for: an append   *)
(* that returned is never lost to a writer that raced with it.              *)
ReturnedIsStored ==
    \A w \in Writers : outcome[w].how = "returned" =>
      \E e \in table : outcome[w].row = {e} /\ e.key = want[w]

(* An append raises only because another writer's went through meanwhile:   *)
(* a lone supervisor is never killed by its own event log.                  *)
RaisedOnlyByRival ==
    \A w \in Writers : outcome[w].how = "raised" => rival[w]

(* The rows in sequence order are an append-only log with unique keys.      *)
Timeline == [n \in Sequences |-> (CHOOSE e \in table : e.sequence = n).key]
Log == INSTANCE AppendOnlyLog WITH log <- Timeline
ImplementsLog == Log!Spec
=============================================================================

------------------------- MODULE VerifiedCompletion -------------------------
(***************************************************************************)
(* What the orchestrator promises about completion (DECISIONS.md, trusted  *)
(* completion): a task becomes done only on a verdict reached by verifying *)
(* an iteration, each verdict completes a task at most once, and a verdict *)
(* is never taken back.  Everything else about a task's status is free:    *)
(* operators and other runs may change it at any time.                     *)
(***************************************************************************)
CONSTANT Tasks

VARIABLES
    status,     \* the task's status
    open,       \* verified verdicts a run has not acted on yet
    consumed    \* verdicts the task was completed on

gate == <<status, open, consumed>>

Init ==
    /\ status = [t \in Tasks |-> "absent"]
    /\ open = [t \in Tasks |-> {}]
    /\ consumed = [t \in Tasks |-> {}]

(* The verification of a new iteration is on record, all of it passed. *)
Verify(t) ==
    /\ \E v \in open'[t] \ (open[t] \union consumed[t]) :
         open' = [open EXCEPT ![t] = @ \union {v}]
    /\ UNCHANGED <<status, consumed>>

(* The run that owns an open verdict completes the task with it. *)
Complete(t, v) ==
    /\ status' = [status EXCEPT ![t] = "done"]
    /\ open' = [open EXCEPT ![t] = @ \ {v}]
    /\ consumed' = [consumed EXCEPT ![t] = @ \union {v}]

(* Created, resumed, blocked, cancelled, recovered. *)
Change(t, st) ==
    /\ st # "done"
    /\ status' = [status EXCEPT ![t] = st]
    /\ UNCHANGED <<open, consumed>>

Next ==
    \E t \in Tasks :
      \/ Verify(t)
      \/ \E v \in open[t] : Complete(t, v)
      \/ \E st \in {"created", "running", "blocked", "cancelled"} : Change(t, st)

Spec == Init /\ [][Next]_gate
=============================================================================

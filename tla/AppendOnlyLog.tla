--------------------------- MODULE AppendOnlyLog ----------------------------
(***************************************************************************)
(* What append_task_event promises of one task's timeline (docs/           *)
(* ROBUST_AUTOPILOT_PLAN.md: append-only task events with a sequence       *)
(* number): a list that only grows at its end, in which an idempotency key *)
(* occurs at most once.                                                    *)
(***************************************************************************)
EXTENDS Sequences

CONSTANTS Keys, NoKey

VARIABLE log    \* the idempotency keys of the events, in order

Init == log = << >>

Record(k) ==
    /\ k # NoKey => \A i \in DOMAIN log : log[i] # k
    /\ log' = Append(log, k)

Next == \E k \in Keys \union {NoKey} : Record(k)

Spec == Init /\ [][Next]_log
=============================================================================

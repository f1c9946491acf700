---------------------------- MODULE ActionLedger ----------------------------
(***************************************************************************)
(* What the action journal promises (CHANGELOG.md: replay-safe handling of *)
(* completed broker actions by idempotency key): a worker is admitted to   *)
(* an action only while it is open, each admission allows one execution,   *)
(* and a closed action stays closed.                                       *)
(***************************************************************************)
EXTENDS Integers

CONSTANTS Keys, Workers

VARIABLES
    open,       \* keys of the actions recorded and not completed
    closed,     \* keys of the actions completed, or never to be executed
    admitted,   \* workers that may execute a key, once
    runs        \* executions of a key

vars == <<open, closed, admitted, runs>>

Init ==
    /\ open = {} /\ closed = {}
    /\ admitted = [k \in Keys |-> {}]
    /\ runs = [k \in Keys |-> 0]

(* The first worker opens the action; later ones may be taking it over.      *)
Admit(w, k) ==
    /\ k \notin closed
    /\ open' = open \union {k}
    /\ admitted' = [admitted EXCEPT ![k] = @ \union {w}]
    /\ UNCHANGED <<closed, runs>>

Run(w, k) ==
    /\ w \in admitted[k]
    /\ admitted' = [admitted EXCEPT ![k] = @ \ {w}]
    /\ runs' = [runs EXCEPT ![k] = @ + 1]
    /\ UNCHANGED <<open, closed>>

(* A worker may be lost before it executes.                                  *)
Leave(w, k) ==
    /\ admitted' = [admitted EXCEPT ![k] = @ \ {w}]
    /\ UNCHANGED <<open, closed, runs>>

Close(k) ==
    /\ open' = open \ {k} /\ closed' = closed \union {k}
    /\ UNCHANGED <<admitted, runs>>

Next == \E k \in Keys : Close(k) \/ \E w \in Workers : Admit(w, k) \/ Run(w, k) \/ Leave(w, k)

Spec == Init /\ [][Next]_vars
=============================================================================

----------------------------- MODULE MCPlanGraph -----------------------------
(* Small instances of PlanGraph for TLC. *)
EXTENDS PlanGraph, TLC

CONSTANTS e1, e2, o1

MCExecutors == {e1, e2}
MCSymmetry == Permutations(MCExecutors)
MCOperators == {o1}
\* Nodes get every other status otherwise too: blocked by a run that failed, in
\* progress when the executor died, and run again when the queue takes them.
MCOverrides == {"done"}
\* A run-next is a run-batch whose process dies after its first node.
MCBatches == {2}
=============================================================================

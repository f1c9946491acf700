----------------------------- MODULE MCPlanQueue -----------------------------
(* Small instances of PlanQueue for TLC. *)
EXTENDS PlanQueue, TLC

CONSTANTS r1, r2, s1, s2, a, b

MCRunners == {r1, r2}
MCSyncers == {s1, s2}
MCSymmetry == Permutations(MCRunners) \union Permutations(MCSyncers)
\* (A batch with --worktree writes what --item-id with --worktree does.)
MCNamed == {<<"next", 1>>, <<"item", 1>>}
MCTexts == {a, b}
MCPlans == {<<a>>, <<b, a>>}
=============================================================================

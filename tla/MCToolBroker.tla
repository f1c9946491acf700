---------------------------- MODULE MCToolBroker ----------------------------
(* Small instances of ToolBroker for TLC. *)
EXTENDS ToolBroker, TLC

CONSTANTS b1, b2, w1

MCBrokers == {b1, b2}
MCSymmetry == Permutations(MCBrokers)
MCWorks == {w1}
MCClasses == [MCWorks -> {"read", "risky", "dangerous", "command"}]
MCPolicies == [MCWorks -> {"allow", "ask"}]
=============================================================================

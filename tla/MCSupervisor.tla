---------------------------- MODULE MCSupervisor ----------------------------
(* Small instances of Supervisor for TLC. *)
EXTENDS Supervisor

CONSTANTS p1, p2, t1, a

MCOneProc == {p1}
MCTwoProcs == {p1, p2}
MCTasks == {t1}
MCPaths == {a}
MCNoPaths == {}
=============================================================================

------------------------------ MODULE Decision ------------------------------
(***************************************************************************)
(* The decision engine: DecisionEngine.decide of core/decision.py, a pure  *)
(* function of the agent's result, the verification results and the        *)
(* position of the attempt in the run.  Statuses are abstracted to the     *)
(* classes the engine tells apart: "failed" stands for every agent status  *)
(* other than success (failed, timeout, error, ...), and for every check   *)
(* status that is neither passed nor a policy verdict.                     *)
(***************************************************************************)
EXTENDS Naturals, Sequences

AgentStatuses == {"success", "failed", "cancelled"}
CheckStatuses == {"passed", "failed", "policy_denied", "needs_approval"}
PolicyStatuses == {"policy_denied", "needs_approval"}
Verdicts == {"done", "continue", "blocked"}

AllPassed(checks) == \A i \in DOMAIN checks : checks[i] = "passed"
PolicyStopped(checks) == \E i \in DOMAIN checks : checks[i] \in PolicyStatuses

(* A check that ran and did not pass: what is replanned and reflected on. *)
HasFailedCheck(checks) ==
    \E i \in DOMAIN checks : checks[i] \notin {"passed"} \union PolicyStatuses

(* Mutant: done as long as no check failed, whatever policy held back. *)
DecideLax(agent, checks, attempt, max) ==
    IF agent # "success" \/ checks = << >> THEN "blocked"
    ELSE IF ~HasFailedCheck(checks) THEN "done"
    ELSE IF attempt >= max THEN "blocked"
    ELSE "continue"

Decide(agent, checks, attempt, max) ==
    IF agent # "success" \/ checks = << >> THEN "blocked"
    ELSE IF AllPassed(checks) THEN "done"
    ELSE IF PolicyStopped(checks) \/ attempt >= max THEN "blocked"
    ELSE "continue"
=============================================================================

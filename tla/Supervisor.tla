----------------------------- MODULE Supervisor -----------------------------
(***************************************************************************)
(* The supervisor loop of core/supervisor.py and the rows it keeps in the  *)
(* SQLite state store, run by one or more operating-system processes       *)
(* (`ai-orch start', `ai-orch resume'), with the two operator commands     *)
(* that write the same task row: `ai-orch cancel' and `ai-orch recover     *)
(* --apply'.                                                               *)
(*                                                                         *)
(* The store commits each write on its own, so every write to a row is an  *)
(* action of its own and a process can die between any two of them.        *)
(* Appends to the event log are folded into the action whose code they     *)
(* follow, unless a row is written in between; EventLog models one append. *)
(* checkpoint_saved events other than the interruption ones repeat the     *)
(* lifecycle event next to them and are left out.                          *)
(***************************************************************************)
EXTENDS Integers, Sequences, FiniteSets, Decision

CONSTANTS
    Procs,              \* supervisor processes
    Tasks,              \* task ids
    NoTask,             \* the task of a process that runs none
    Paths,              \* paths `git status' can list and agents can report
    NumChecks,          \* configured verification commands
    Limits,             \* values of orchestrator.max_iterations runs start with
    MaxNoChange,        \* orchestrator.max_no_change_iterations, 0 turns it off
    HasBudget,          \* orchestrator.max_runtime_sec is set
    RequireRepoChange,  \* autopilot tasks demand a repository change
    MaxRuns,            \* bound: runs started or resumed
    MaxCancels,         \* bound: cancel commands
    MaxRecovers,        \* bound: recover commands
    MaxEdits            \* bound: edits agents make to the tree

ASSUME TaskAssumption == NoTask \notin Tasks
ASSUME LimitAssumption ==
    /\ NumChecks \in Nat /\ Limits \subseteq Nat /\ MaxNoChange \in Nat
    /\ HasBudget \in BOOLEAN /\ RequireRepoChange \in BOOLEAN
ASSUME BoundAssumption ==
    /\ MaxRuns \in Nat /\ MaxCancels \in Nat /\ MaxRecovers \in Nat
    /\ MaxEdits \in Nat

VARIABLES
    status,     \* tasks.status
    iters,      \* iterations rows of a task with their dependent rows
    events,     \* keyed task_events rows of a task
    tree,       \* the working tree: a version, and what `git status' lists
    pc,         \* where each process stands in _run
    run,        \* each process's local variables in _run
    sweep,      \* the recover command's progress through its stale list
    spent,      \* history: rows on whose verdict the task was completed
    calls,      \* history: agent calls made for a task, and those its runs allow
    used        \* the bounds used up so far

vars == <<status, iters, events, tree, pc, run, sweep, spent, calls, used>>

Statuses == {"absent", "created", "running", "blocked", "cancelled", "done"}
Reasons == {"unavailable", "decided", "no_repo_change", "stalled"}
ReflectionKinds == {"failed_verification", "blocked_run"}

(* A row of `iterations' with the rows of verification_runs, action_records, *)
(* approval_requests, replan_decisions, reflection_records and               *)
(* memory_lessons that carry its iteration_id.  idle, touched and reported   *)
(* are history: how many iterations of the run in a row left the tree alone, *)
(* whether it changed since the run began, whether the agent reported files. *)
Row == [index : Nat, agent : AgentStatuses \union {"unavailable"},
        decision : Verdicts, reason : Reasons,
        checks : Seq(CheckStatuses), audited : Nat, approvals : Nat,
        replan : BOOLEAN, reflections : SUBSET ReflectionKinds,
        lessons : SUBSET ReflectionKinds,
        idle : Nat, touched : BOOLEAN, reported : BOOLEAN]

EventNames ==
    {"task_created", "task_resumed", "resume_cancelled", "iteration_started",
     "agent_called", "agent_result_received", "agent_interrupted",
     "verification_started", "verification_finished",
     "verification_interrupted", "decision_made", "iteration_finished",
     "task_done", "task_blocked", "blocked_runtime_budget",
     "blocked_before_verification", "blocked_max_iterations",
     "cancelled_before_agent", "cancelled_after_agent",
     "cancelled_before_verification", "task_recovered"}

(* An event's idempotency key is its name and index; row is the iteration_id *)
(* it carries, 0 when it carries none.                                       *)
Entry(name, index, row) == [name |-> name, index |-> index, row |-> row]
Entries == [name : EventNames, index : Nat, row : Nat]

(* git status --porcelain, or << >> when the command failed. *)
Snapshots == {<< >>} \union {<<d>> : d \in SUBSET Paths}
Signatures == {<< >>} \union {<<s>> : s \in [files : SUBSET Paths, dirty : SUBSET Paths]}

Labels ==
    {"idle", "resume", "mark", "announce", "available", "gate", "agent",
     "agent_result", "prepare", "verify", "decide", "record", "decided",
     "checks", "audit", "approve", "reflect", "lesson", "exit", "exited"}

Runs == [task : Tasks \union {NoTask}, fresh : BOOLEAN,
         limit : Nat, start : Nat \ {0}, attempt : Nat \ {0},
         agent : AgentStatuses, files : SUBSET Paths, checks : Seq(CheckStatuses),
         decision : Verdicts, reason : Reasons, row : Nat,
         signature : Signatures, noChange : Nat, base : Snapshots,
         origin : Nat, seen : Nat, idle : Nat,
         leave : [status : {"blocked", "cancelled", "done"}, event : Entries]]

Blank == [task |-> NoTask, fresh |-> FALSE, limit |-> 0, start |-> 1, attempt |-> 1,
          agent |-> "failed", files |-> {}, checks |-> << >>,
          decision |-> "blocked", reason |-> "decided", row |-> 0,
          signature |-> << >>, noChange |-> 0, base |-> << >>,
          origin |-> 0, seen |-> 0, idle |-> 0,
          leave |-> [status |-> "blocked", event |-> Entry("task_blocked", 0, 0)]]

Bounds == [runs : 0..MaxRuns, cancels : 0..MaxCancels, recovers : 0..MaxRecovers]

TypeOK ==
    /\ status \in [Tasks -> Statuses]
    /\ iters \in [Tasks -> Seq(Row)]
    /\ events \in [Tasks -> SUBSET Entries]
    /\ tree \in [version : Nat, dirty : SUBSET Paths]
    /\ pc \in [Procs -> Labels]
    /\ run \in [Procs -> Runs]
    /\ sweep \in [Tasks -> {"no", "listed", "blocked"}]
    /\ spent \in [Tasks -> SUBSET Nat]
    /\ calls \in [Tasks -> [made : Nat, allowed : Nat]]
    /\ used \in Bounds

Init ==
    /\ status = [t \in Tasks |-> "absent"]
    /\ iters = [t \in Tasks |-> << >>]
    /\ events = [t \in Tasks |-> {}]
    /\ tree = [version |-> 0, dirty |-> {}]
    /\ pc = [p \in Procs |-> "idle"]
    /\ run = [p \in Procs |-> Blank]
    /\ sweep = [t \in Tasks |-> "no"]
    /\ spent = [t \in Tasks |-> {}]
    /\ calls = [t \in Tasks |-> [made |-> 0, allowed |-> 0]]
    /\ used = [runs |-> 0, cancels |-> 0, recovers |-> 0]
-----------------------------------------------------------------------------
Goto(p, label) == pc' = [pc EXCEPT ![p] = label]

(* The local variables of _run become r. *)
Local(p, r) == run' = [run EXCEPT ![p] = r]

(* _run returns, or its process dies. *)
Return(p) == Goto(p, "idle") /\ Local(p, Blank)

Index(p) == run[p].start + run[p].attempt - 1

(* append_task_event: an entry whose key is already there is dropped. *)
SameKey(e, f) == e.name = f.name /\ e.index = f.index
Log(t, new) ==
    events' = [events EXCEPT ![t] =
                 @ \union {e \in new : \A old \in @ : ~SameKey(e, old)}]

Cancelled(p) == status[run[p].task] = "cancelled"

RowOf(p) == iters[run[p].task][run[p].row]
SetRow(p, row) ==
    iters' = [iters EXCEPT ![run[p].task] = [@ EXCEPT ![run[p].row] = row]]

(* Leaving _run with a status: the write, its event and the return follow. *)
Leave(p, st, name, index, row) ==
    /\ Local(p, [run[p] EXCEPT !.leave = [status |-> st, event |-> Entry(name, index, row)]])
    /\ Goto(p, "exit")

snapshot == {<< >>, <<tree.dirty>>}     \* _repo_snapshot may fail

loopvars == <<tree, sweep, spent, calls, used>>
-----------------------------------------------------------------------------
(* run_once: create_task commits the row; the status write comes after. *)
Start(p, t) ==
    /\ pc[p] = "idle" /\ status[t] = "absent" /\ used.runs < MaxRuns
    /\ status' = [status EXCEPT ![t] = "created"]
    /\ \E limit \in Limits :
         /\ Local(p, [Blank EXCEPT !.task = t, !.fresh = TRUE, !.limit = limit])
         /\ calls' = [calls EXCEPT ![t].allowed = @ + limit]
    /\ Goto(p, "mark")
    /\ used' = [used EXCEPT !.runs = @ + 1]
    /\ UNCHANGED <<iters, events, tree, sweep, spent>>

(* Mutant: resume at the last stored iteration instead of behind it. *)
ResumeAtLast(p, t) ==
    /\ pc[p] = "idle" /\ status[t] # "absent" /\ used.runs < MaxRuns
    /\ \E limit \in Limits :
         /\ Local(p, [Blank EXCEPT !.task = t, !.limit = limit,
                                   !.start = IF iters[t] = << >> THEN 1 ELSE Len(iters[t])])
         /\ calls' = [calls EXCEPT ![t].allowed = @ + limit]
    /\ Goto(p, "resume")
    /\ used' = [used EXCEPT !.runs = @ + 1]
    /\ UNCHANGED <<status, iters, events, tree, sweep, spent>>

(* run_existing counts the stored iterations once, before anything else. *)
Resume(p, t) ==
    /\ pc[p] = "idle" /\ status[t] # "absent" /\ used.runs < MaxRuns
    /\ \E limit \in Limits :
         /\ Local(p, [Blank EXCEPT !.task = t, !.start = Len(iters[t]) + 1, !.limit = limit])
         /\ calls' = [calls EXCEPT ![t].allowed = @ + limit]
    /\ Goto(p, "resume")
    /\ used' = [used EXCEPT !.runs = @ + 1]
    /\ UNCHANGED <<status, iters, events, tree, sweep, spent>>

ResumeCheck(p) ==
    /\ pc[p] = "resume"
    /\ \/ /\ Cancelled(p)
          /\ Log(run[p].task, {Entry("resume_cancelled", 0, 0)})
          /\ Return(p)
       \/ /\ ~Cancelled(p)
          /\ Goto(p, "mark")
          /\ UNCHANGED <<events, run>>
    /\ UNCHANGED <<status, iters>> /\ UNCHANGED loopvars

MarkRunning(p) ==
    /\ pc[p] = "mark"
    /\ status' = [status EXCEPT ![run[p].task] = "running"]
    /\ Goto(p, "announce")
    /\ UNCHANGED <<iters, events, run>> /\ UNCHANGED loopvars

Announce(p) ==
    /\ pc[p] = "announce"
    /\ Log(run[p].task, {IF run[p].fresh THEN Entry("task_created", 0, 0)
                         ELSE Entry("task_resumed", run[p].start, 0)})
    /\ Goto(p, "available")
    /\ UNCHANGED <<status, iters, run>> /\ UNCHANGED loopvars

NewRow(p) == [index |-> Index(p), agent |-> run[p].agent,
              decision |-> run[p].decision, reason |-> run[p].reason,
              checks |-> << >>, audited |-> 0, approvals |-> 0, replan |-> FALSE,
              reflections |-> {}, lessons |-> {}, idle |-> run[p].idle,
              touched |-> tree.version # run[p].origin, reported |-> run[p].files # {}]

(* Mutant: the decision column holds the agent's status. *)
UnavailableDecision(p) ==
    /\ pc[p] = "available"
    /\ iters' = [iters EXCEPT ![run[p].task] =
                   Append(@, [NewRow(p) EXCEPT !.agent = "unavailable", !.decision = "unavailable",
                                               !.reason = "unavailable", !.touched = FALSE])]
    /\ Local(p, [run[p] EXCEPT !.decision = "blocked", !.reason = "unavailable",
                               !.row = Len(iters[run[p].task]) + 1])
    /\ Goto(p, "decided")
    /\ UNCHANGED <<status, events>> /\ UNCHANGED loopvars

(* Mutant: wait for the agent to become available, without limit. *)
AwaitAgent(p) ==
    /\ pc[p] = "available"
    /\ Goto(p, "mark")
    /\ UNCHANGED <<status, iters, events, run>> /\ UNCHANGED loopvars

(* The agent cannot run: a blocked iteration row and no session. *)
AgentUnavailable(p) ==
    /\ pc[p] = "available"
    /\ iters' = [iters EXCEPT ![run[p].task] =
                   Append(@, [NewRow(p) EXCEPT !.agent = "unavailable", !.decision = "blocked",
                                               !.reason = "unavailable", !.touched = FALSE])]
    /\ Local(p, [run[p] EXCEPT !.decision = "blocked", !.reason = "unavailable",
                               !.row = Len(iters[run[p].task]) + 1])
    /\ Goto(p, "decided")
    /\ UNCHANGED <<status, events>> /\ UNCHANGED loopvars

(* check_available, start_session, and the snapshot the run starts from. *)
StartSession(p) ==
    /\ pc[p] = "available"
    /\ \E snap \in (IF RequireRepoChange THEN snapshot ELSE {<< >>}) :
         Local(p, [run[p] EXCEPT !.base = snap, !.origin = tree.version,
                                    !.seen = tree.version])
    /\ Goto(p, "gate")
    /\ UNCHANGED <<status, iters, events>> /\ UNCHANGED loopvars
-----------------------------------------------------------------------------
(* The head of the loop: out of attempts, out of time, cancelled, or on to *)
(* the agent.  The clock may run out at any check of it.                   *)
Exhausted(p) ==
    /\ pc[p] = "gate" /\ run[p].attempt > run[p].limit
    /\ Leave(p, "blocked", "blocked_max_iterations", 0, 0)
    /\ UNCHANGED <<status, iters, events>> /\ UNCHANGED loopvars

OutOfTime(p) ==
    /\ pc[p] = "gate" /\ run[p].attempt <= run[p].limit /\ HasBudget
    /\ Leave(p, "blocked", "blocked_runtime_budget", Index(p), 0)
    /\ UNCHANGED <<status, iters, events>> /\ UNCHANGED loopvars

CancelledBeforeAgent(p) ==
    /\ pc[p] = "gate" /\ run[p].attempt <= run[p].limit /\ Cancelled(p)
    /\ Log(run[p].task, {Entry("cancelled_before_agent", Index(p), 0)})
    /\ Return(p)
    /\ UNCHANGED <<status, iters>> /\ UNCHANGED loopvars

(* Mutant: the loop runs one attempt too many. *)
CallAgentOnceMore(p) ==
    /\ pc[p] = "gate" /\ run[p].attempt <= run[p].limit + 1 /\ ~Cancelled(p)
    /\ Log(run[p].task, {Entry("iteration_started", Index(p), 0),
                         Entry("agent_called", Index(p), 0)})
    /\ calls' = [calls EXCEPT ![run[p].task].made = @ + 1]
    /\ Goto(p, "agent")
    /\ UNCHANGED <<status, iters, run, tree, sweep, spent, used>>

CallAgent(p) ==
    /\ pc[p] = "gate" /\ run[p].attempt <= run[p].limit /\ ~Cancelled(p)
    /\ Log(run[p].task, {Entry("iteration_started", Index(p), 0),
                         Entry("agent_called", Index(p), 0)})
    /\ calls' = [calls EXCEPT ![run[p].task].made = @ + 1]
    /\ Goto(p, "agent")
    /\ UNCHANGED <<status, iters, run, tree, sweep, spent, used>>

(* The agent's subprocess edits the tree: it makes a path dirty, edits one   *)
(* that is dirty already, or restores one.                                   *)
AgentEdit(p) ==
    /\ pc[p] = "agent" /\ tree.version < MaxEdits
    /\ \/ \E path \in Paths :
            tree' = [version |-> tree.version + 1, dirty |-> tree.dirty \union {path}]
       \/ \E path \in tree.dirty :
            tree' = [version |-> tree.version + 1, dirty |-> tree.dirty \ {path}]
    /\ UNCHANGED <<status, iters, events, pc, run, sweep, spent, calls, used>>

(* The adapter always answers: its process runner enforces timeout_sec. *)
AgentReturns(p) ==
    /\ pc[p] = "agent"
    /\ \E st \in {"success", "failed"}, files \in SUBSET Paths :
         Local(p, [run[p] EXCEPT !.agent = st, !.files = files])
    /\ Goto(p, "agent_result")
    /\ UNCHANGED <<status, iters, events>> /\ UNCHANGED loopvars

(* The process runner's poll of cancellation_requested ends the subprocess. *)
AgentStopped(p) ==
    /\ pc[p] = "agent" /\ Cancelled(p)
    /\ Local(p, [run[p] EXCEPT !.agent = "cancelled", !.files = {}])
    /\ Goto(p, "agent_result")
    /\ UNCHANGED <<status, iters, events>> /\ UNCHANGED loopvars

(* Mutant: only the stored status is asked, not the agent's own one. *)
ReceiveIgnoringStop(p) ==
    /\ pc[p] = "agent_result"
    /\ Log(run[p].task, {Entry("agent_result_received", Index(p), 0)})
    /\ \/ /\ Cancelled(p)
          /\ Leave(p, "cancelled", "cancelled_after_agent", Index(p), 0)
       \/ /\ ~Cancelled(p)
          /\ Goto(p, IF run[p].agent = "success" THEN "prepare" ELSE "decide")
          /\ Local(p, [run[p] EXCEPT !.checks = << >>])
    /\ UNCHANGED <<status, iters>> /\ UNCHANGED loopvars

ReceiveResult(p) ==
    /\ pc[p] = "agent_result"
    /\ Log(run[p].task, {Entry("agent_result_received", Index(p), 0)})
    /\ \/ /\ run[p].agent = "cancelled" \/ Cancelled(p)
          /\ Leave(p, "cancelled", "cancelled_after_agent", Index(p), 0)
       \/ /\ run[p].agent # "cancelled" /\ ~Cancelled(p)
          /\ Goto(p, IF run[p].agent = "success" THEN "prepare" ELSE "decide")
          /\ Local(p, [run[p] EXCEPT !.checks = << >>])
    /\ UNCHANGED <<status, iters>> /\ UNCHANGED loopvars

OutOfTimeBeforeVerification(p) ==
    /\ pc[p] = "prepare" /\ HasBudget
    /\ Leave(p, "blocked", "blocked_before_verification", Index(p), 0)
    /\ UNCHANGED <<status, iters, events>> /\ UNCHANGED loopvars

PrepareVerification(p) ==
    /\ pc[p] = "prepare"
    /\ \/ /\ Cancelled(p)
          /\ Log(run[p].task, {Entry("cancelled_before_verification", Index(p), 0)})
          /\ Return(p)
       \/ /\ ~Cancelled(p)
          /\ Log(run[p].task, {Entry("verification_started", Index(p), 0)})
          /\ Goto(p, "verify")
          /\ UNCHANGED run
    /\ UNCHANGED <<status, iters>> /\ UNCHANGED loopvars

(* run_many: one command after the other, none of them cancellable. *)
RunCheck(p) ==
    /\ pc[p] = "verify" /\ Len(run[p].checks) < NumChecks
    /\ \E st \in CheckStatuses : Local(p, [run[p] EXCEPT !.checks = Append(@, st)])
    /\ UNCHANGED <<status, iters, events, pc>> /\ UNCHANGED loopvars

FinishVerification(p) ==
    /\ pc[p] = "verify" /\ Len(run[p].checks) = NumChecks
    /\ Log(run[p].task, {Entry("verification_finished", Index(p), 0)})
    /\ Goto(p, "decide")
    /\ UNCHANGED <<status, iters, run>> /\ UNCHANGED loopvars
-----------------------------------------------------------------------------
(* Mutant: a snapshot that failed differs from one that did not. *)
AnySnapshotDiffers(files, base, snap) == files # {} \/ base # snap

HasRepoChange(files, base, snap) ==
    files # {} \/ (base # << >> /\ snap # << >> /\ base # snap)

(* The engine's verdict, then the two rules that turn it into blocked: done *)
(* without the repository change the run requires, and a streak of continue *)
(* verdicts whose signature did not move.                                   *)
Decided(p, snap) ==
    LET verdict == Decide(run[p].agent, run[p].checks, run[p].attempt, run[p].limit)
        refused == /\ verdict = "done" /\ RequireRepoChange
                   /\ ~HasRepoChange(run[p].files, run[p].base, snap)
        counted == verdict = "continue" /\ snap # << >>
        signature == IF counted THEN <<[files |-> run[p].files, dirty |-> snap[1]]>>
                     ELSE run[p].signature
        streak == IF ~counted THEN run[p].noChange
                  ELSE IF signature = run[p].signature THEN run[p].noChange + 1 ELSE 1
        stalled == counted /\ MaxNoChange > 0 /\ streak >= MaxNoChange
    IN  [run[p] EXCEPT
           !.decision = IF refused \/ stalled THEN "blocked" ELSE verdict,
           !.reason = IF refused THEN "no_repo_change"
                      ELSE IF stalled THEN "stalled" ELSE "decided",
           !.signature = signature,
           !.noChange = streak,
           !.idle = IF tree.version = run[p].seen THEN run[p].idle + 1 ELSE 0,
           !.seen = tree.version]

DecideIteration(p) ==
    /\ pc[p] = "decide"
    /\ \E snap \in snapshot : Local(p, Decided(p, snap))
    /\ Goto(p, "record")
    /\ UNCHANGED <<status, iters, events>> /\ UNCHANGED loopvars

(* Mutant: the run keeps the number of iterations it last counted. *)
RecordStaleRow(p) ==
    /\ pc[p] = "record"
    /\ iters' = [iters EXCEPT ![run[p].task] = Append(@, NewRow(p))]
    /\ Local(p, [run[p] EXCEPT !.row = Index(p)])
    /\ Goto(p, "decided")
    /\ UNCHANGED <<status, events>> /\ UNCHANGED loopvars

RecordIteration(p) ==
    /\ pc[p] = "record"
    /\ iters' = [iters EXCEPT ![run[p].task] = Append(@, NewRow(p))]
    /\ Local(p, [run[p] EXCEPT !.row = Len(iters[run[p].task]) + 1])
    /\ Goto(p, "decided")
    /\ UNCHANGED <<status, events>> /\ UNCHANGED loopvars

RecordDecision(p) ==
    /\ pc[p] = "decided"
    /\ Log(run[p].task, {Entry("decision_made", Index(p), run[p].row)})
    /\ \/ /\ run[p].reason = "unavailable"
          /\ Leave(p, "blocked", "task_blocked", Index(p), run[p].row)
       \/ /\ run[p].reason # "unavailable"
          /\ Goto(p, "checks")
          /\ UNCHANGED run
    /\ UNCHANGED <<status, iters>> /\ UNCHANGED loopvars

(* add_verification_run, then the audit record, then the approval request. *)
RecordCheck(p) ==
    /\ pc[p] = "checks" /\ Len(RowOf(p).checks) < Len(run[p].checks)
    /\ SetRow(p, [RowOf(p) EXCEPT !.checks = Append(@, run[p].checks[Len(@) + 1])])
    /\ Goto(p, "audit")
    /\ UNCHANGED <<status, events, run>> /\ UNCHANGED loopvars

RecordAction(p) ==
    /\ pc[p] = "audit"
    /\ SetRow(p, [RowOf(p) EXCEPT !.audited = @ + 1])
    /\ Goto(p, IF RowOf(p).checks[Len(RowOf(p).checks)] = "needs_approval"
               THEN "approve" ELSE "checks")
    /\ UNCHANGED <<status, events, run>> /\ UNCHANGED loopvars

RequestApproval(p) ==
    /\ pc[p] = "approve"
    /\ SetRow(p, [RowOf(p) EXCEPT !.approvals = @ + 1])
    /\ Goto(p, "checks")
    /\ UNCHANGED <<status, events, run>> /\ UNCHANGED loopvars

(* The replan record of an iteration that failed a check and is not done. *)
ReplanDue(decision, checks) ==
    decision \in {"continue", "blocked"} /\ HasFailedCheck(checks)

(* Mutant: go on before every verification row is written. *)
ReplanEarly(p) ==
    /\ pc[p] = "checks"
    /\ SetRow(p, [RowOf(p) EXCEPT !.replan = ReplanDue(run[p].decision, run[p].checks)])
    /\ Goto(p, "reflect")
    /\ UNCHANGED <<status, events, run>> /\ UNCHANGED loopvars

RecordReplan(p) ==
    /\ pc[p] = "checks" /\ Len(RowOf(p).checks) = Len(run[p].checks)
    /\ SetRow(p, [RowOf(p) EXCEPT !.replan = ReplanDue(run[p].decision, run[p].checks)])
    /\ Goto(p, "reflect")
    /\ UNCHANGED <<status, events, run>> /\ UNCHANGED loopvars

(* The reflections an iteration calls for, each followed by its lesson. *)
ReflectionsDue(decision, checks) ==
    {k \in ReflectionKinds :
       \/ k = "failed_verification" /\ HasFailedCheck(checks)
       \/ k = "blocked_run" /\ decision = "blocked"}

RecordReflection(p) ==
    LET due == ReflectionsDue(run[p].decision, run[p].checks) \ RowOf(p).reflections
    IN  /\ pc[p] = "reflect"
        /\ \E k \in due :
             /\ k = "failed_verification" \/ "failed_verification" \notin due
             /\ SetRow(p, [RowOf(p) EXCEPT !.reflections = @ \union {k}])
        /\ Goto(p, "lesson")
        /\ UNCHANGED <<status, events, run>> /\ UNCHANGED loopvars

RecordLesson(p) ==
    /\ pc[p] = "lesson"
    /\ SetRow(p, [RowOf(p) EXCEPT !.lessons = RowOf(p).reflections])
    /\ Goto(p, "reflect")
    /\ UNCHANGED <<status, events, run>> /\ UNCHANGED loopvars

(* Mutant: one reflection is enough to finish an iteration. *)
FinishAfterOne(p) ==
    LET due == ReflectionsDue(run[p].decision, run[p].checks)
    IN  /\ pc[p] = "reflect" /\ (due = {} \/ RowOf(p).reflections # {})
        /\ Log(run[p].task, {Entry("iteration_finished", Index(p), run[p].row)})
        /\ \/ /\ run[p].decision = "continue"
              /\ Local(p, [run[p] EXCEPT !.attempt = @ + 1])
              /\ Goto(p, "gate")
           \/ /\ run[p].decision = "done"
              /\ Leave(p, "done", "task_done", Index(p), run[p].row)
           \/ /\ run[p].decision = "blocked"
              /\ Leave(p, "blocked", "task_blocked", Index(p), run[p].row)
        /\ UNCHANGED <<status, iters>> /\ UNCHANGED loopvars

FinishIteration(p) ==
    /\ pc[p] = "reflect"
    /\ ReflectionsDue(run[p].decision, run[p].checks) \subseteq RowOf(p).reflections
    /\ Log(run[p].task, {Entry("iteration_finished", Index(p), run[p].row)})
    /\ \/ /\ run[p].decision = "continue"
          /\ Local(p, [run[p] EXCEPT !.attempt = @ + 1])
          /\ Goto(p, "gate")
       \/ /\ run[p].decision = "done"
          /\ Leave(p, "done", "task_done", Index(p), run[p].row)
       \/ /\ run[p].decision = "blocked"
          /\ Leave(p, "blocked", "task_blocked", Index(p), run[p].row)
    /\ UNCHANGED <<status, iters>> /\ UNCHANGED loopvars
-----------------------------------------------------------------------------
(* The closing status write, unconditional: it reads nothing first. *)
WriteStatus(p) ==
    LET leave == run[p].leave
    IN  /\ pc[p] = "exit"
        /\ status' = [status EXCEPT ![run[p].task] = leave.status]
        /\ spent' = [spent EXCEPT ![run[p].task] =
                       IF leave.status = "done" THEN @ \union {leave.event.row} ELSE @]
        /\ Goto(p, "exited")
        /\ UNCHANGED <<iters, events, run, tree, sweep, calls, used>>

(* Mutant: the loop is not left after the closing status. *)
LogStatusAndLoop(p) ==
    /\ pc[p] = "exited"
    /\ Log(run[p].task, {run[p].leave.event})
    /\ Local(p, [run[p] EXCEPT !.attempt = @ + 1])
    /\ Goto(p, "gate")
    /\ UNCHANGED <<status, iters>> /\ UNCHANGED loopvars

LogStatus(p) ==
    /\ pc[p] = "exited"
    /\ Log(run[p].task, {run[p].leave.event})
    /\ Return(p)
    /\ UNCHANGED <<status, iters>> /\ UNCHANGED loopvars

(* KeyboardInterrupt while the agent or a check runs: a checkpoint, no more. *)
Interrupt(p) ==
    /\ \/ /\ pc[p] = "agent"
          /\ Log(run[p].task, {Entry("agent_interrupted", Index(p), 0)})
       \/ /\ pc[p] = "verify"
          /\ Log(run[p].task, {Entry("verification_interrupted", Index(p), 0)})
    /\ Return(p)
    /\ UNCHANGED <<status, iters>> /\ UNCHANGED loopvars

(* The process is killed, or a store call raises: nothing is cleaned up. *)
Die(p) ==
    /\ pc[p] # "idle"
    /\ Return(p)
    /\ UNCHANGED <<status, iters, events>> /\ UNCHANGED loopvars
-----------------------------------------------------------------------------
(* ai-orch cancel: the status is written whatever it was. *)
Cancel(t) ==
    /\ status[t] # "absent" /\ used.cancels < MaxCancels
    /\ status' = [status EXCEPT ![t] = "cancelled"]
    /\ used' = [used EXCEPT !.cancels = @ + 1]
    /\ UNCHANGED <<iters, events, tree, pc, run, sweep, spent, calls>>

(* ai-orch recover --apply: list the running tasks, then block each of them. *)
RecoverScan ==
    /\ used.recovers < MaxRecovers /\ \A t \in Tasks : sweep[t] = "no"
    /\ \E t \in Tasks : status[t] = "running"
    /\ sweep' = [t \in Tasks |-> IF status[t] = "running" THEN "listed" ELSE "no"]
    /\ used' = [used EXCEPT !.recovers = @ + 1]
    /\ UNCHANGED <<status, iters, events, tree, pc, run, spent, calls>>

RecoverBlock(t) ==
    /\ sweep[t] = "listed"
    /\ status' = [status EXCEPT ![t] = "blocked"]
    /\ sweep' = [sweep EXCEPT ![t] = "blocked"]
    /\ UNCHANGED <<iters, events, tree, pc, run, spent, calls, used>>

RecoverLog(t) ==
    /\ sweep[t] = "blocked"
    /\ Log(t, {Entry("task_recovered", 0, 0)})
    /\ sweep' = [sweep EXCEPT ![t] = "no"]
    /\ UNCHANGED <<status, iters, tree, pc, run, spent, calls, used>>
-----------------------------------------------------------------------------
(* What a live process does next on its own. *)
Step(p) ==
    \/ ResumeCheck(p) \/ MarkRunning(p) \/ Announce(p)
    \/ AgentUnavailable(p) \/ StartSession(p)
    \/ Exhausted(p) \/ OutOfTime(p) \/ CancelledBeforeAgent(p) \/ CallAgent(p)
    \/ AgentReturns(p) \/ AgentStopped(p) \/ ReceiveResult(p)
    \/ OutOfTimeBeforeVerification(p) \/ PrepareVerification(p)
    \/ RunCheck(p) \/ FinishVerification(p)
    \/ DecideIteration(p)
    \/ RecordIteration(p) \/ RecordDecision(p) \/ RecordCheck(p)
    \/ RecordAction(p) \/ RequestApproval(p) \/ RecordReplan(p)
    \/ RecordReflection(p) \/ RecordLesson(p) \/ FinishIteration(p)
    \/ WriteStatus(p) \/ LogStatus(p)

Operator(t) == Cancel(t) \/ RecoverBlock(t) \/ RecoverLog(t)

Next ==
    \/ \E p \in Procs : Step(p) \/ AgentEdit(p) \/ Interrupt(p) \/ Die(p)
    \/ \E p \in Procs, t \in Tasks : Start(p, t) \/ Resume(p, t)
    \/ \E t \in Tasks : Operator(t)
    \/ RecoverScan

Spec == Init /\ [][Next]_vars

(* Every blocking call of a live process ends: subprocesses have timeouts. *)
FairSpec == Spec /\ \A p \in Procs : WF_vars(Step(p))
-----------------------------------------------------------------------------
(* PROPERTIES *)

(* The stored evidence that an iteration may complete its task. *)
Accepted(row) ==
    /\ row.decision = "done" /\ row.agent = "success"
    /\ Len(row.checks) = NumChecks /\ row.checks # << >> /\ AllPassed(row.checks)

(* A done task has a stored iteration whose verification rows are all there  *)
(* and all passed: _run writes "done" only after the whole record.           *)
DoneOnlyAfterVerification ==
    \A t \in Tasks : status[t] = "done" =>
      \E r \in DOMAIN iters[t] : Accepted(iters[t][r])

(* A process owns the row it is recording until it has acted on it. *)
Recording == {"decided", "checks", "audit", "approve", "reflect", "lesson"}
Owns(p) == pc[p] \in Recording \/ (pc[p] = "exit" /\ run[p].leave.status = "done")

(* What _run holds in its locals justifies the verdict it will record. *)
Evidence(p) ==
    /\ Len(run[p].checks) <= NumChecks
    /\ pc[p] \in {"prepare", "verify"} => run[p].agent = "success"
    /\ pc[p] = "decide" =>
         /\ run[p].agent # "cancelled"
         /\ run[p].agent = "success" => Len(run[p].checks) = NumChecks
    /\ pc[p] = "record" => run[p].agent # "cancelled"
    /\ pc[p] = "record" \/ Owns(p) => (run[p].decision = "done" => Accepted(run[p]))

(* The row says what its owner decided, no check row comes from elsewhere, *)
(* and nothing has been completed on it yet.                               *)
Records(p, row) ==
    /\ row.decision = run[p].decision
    /\ run[p].decision = "done" => row.agent = "success"
    /\ Len(row.checks) <= Len(run[p].checks)
    /\ \A i \in 1..Len(row.checks) : row.checks[i] = run[p].checks[i]
    /\ pc[p] \in {"reflect", "lesson", "exit"} => Len(row.checks) = Len(run[p].checks)
    /\ pc[p] = "exit" => run[p].decision = "done" /\ run[p].leave.event.row = run[p].row

OwnedRow(p) ==
    Owns(p) => /\ run[p].row \in DOMAIN iters[run[p].task] \ spent[run[p].task]
               /\ Records(p, RowOf(p))

OwnersApart ==
    \A p, q \in Procs :
      Owns(p) /\ Owns(q) /\ p # q /\ run[p].task = run[q].task => run[p].row # run[q].row

(* Concurrent runs of one task never write to each other's rows, so the      *)
(* record of an iteration is the work of the process that decided it, and a  *)
(* task is done on the strength of accepted rows only.  Inductive with       *)
(* TypeOK.                                                                   *)
CompletionInv ==
    /\ \A p \in Procs : Evidence(p) /\ OwnedRow(p)
    /\ OwnersApart
    /\ \A t \in Tasks : \A r \in spent[t] :
         r \in DOMAIN iters[t] /\ Accepted(iters[t][r])
    /\ \A t \in Tasks : status[t] = "done" => spent[t] # {}

(* An iteration_finished event vouches for every row derived from its        *)
(* iteration: check, audit and approval rows, the replan record, and the     *)
(* reflections with their lessons (the record steps of _run, in order).      *)
FinishedIterationComplete ==
    \A t \in Tasks : \A e \in events[t] : e.name = "iteration_finished" =>
      /\ e.row \in DOMAIN iters[t]
      /\ LET row == iters[t][e.row]
             pending == {i \in DOMAIN row.checks : row.checks[i] = "needs_approval"}
             due == ReflectionsDue(row.decision, row.checks)
         IN  /\ row.index = e.index
             /\ Len(row.checks) = (IF row.agent = "success" THEN NumChecks ELSE 0)
             /\ row.audited = Len(row.checks) /\ row.approvals = Cardinality(pending)
             /\ row.replan = ReplanDue(row.decision, row.checks)
             /\ row.reflections = due /\ row.lessons = due

(* An agent call that was stopped by a cancel leaves no iteration behind,    *)
(* even when another command has changed the status since.                   *)
NoRowForStoppedAgent ==
    \A t \in Tasks : \A r \in DOMAIN iters[t] : iters[t][r].agent # "cancelled"

(* Run by one process at a time, a task's iterations are numbered 1, 2, ...  *)
(* through any sequence of crashes and resumes: run_existing resumes after   *)
(* the rows stored.                                                          *)
IndexIsPosition ==
    \A t \in Tasks : \A r \in DOMAIN iters[t] : iters[t][r].index = r

(* Run by one process at a time, a done task's last iteration is the one     *)
(* that was accepted: no later verdict contradicts the status.               *)
DoneIsLatestVerdict ==
    \A t \in Tasks : status[t] = "done" =>
      iters[t] # << >> /\ Accepted(iters[t][Len(iters[t])])

(* An autopilot task (require_repo_change) is accepted only if the tree      *)
(* changed since the run began or the agent named a file it changed, however *)
(* little `git status' shows and however often it fails.                     *)
AcceptedWorkChangedTheRepo ==
    RequireRepoChange =>
      \A t \in Tasks : \A r \in DOMAIN iters[t] :
        Accepted(iters[t][r]) => iters[t][r].touched \/ iters[t][r].reported

(* Resuming never buys a run more agent calls than its max_iterations, not   *)
(* even when that is zero or the configuration changed since the last run.   *)
CallBudget == \A t \in Tasks : calls[t].made <= calls[t].allowed

(* A run always comes to an end: it leaves _run however often the agent      *)
(* edits, fails or is cancelled.                                             *)
RunEnds == \A p \in Procs : pc[p] # "idle" ~> pc[p] = "idle"

(* README, Runtime Controls: running supervisors observe cancellation        *)
(* between steps, so no run completes a task that is cancelled.              *)
CancelledNotCompleted ==
    [][\A t \in Tasks : status[t] = "cancelled" => status'[t] # "done"]_vars

(* USER_GUIDE, recovery: what it blocks are interrupted running tasks, so a  *)
(* task that has been completed stays done.                                  *)
RecoverSparesDone ==
    [][\A t \in Tasks : sweep[t] = "listed" /\ sweep'[t] = "blocked" => status[t] # "done"]_vars

(* USER_GUIDE, replay: every supervisor-run task writes durable lifecycle    *)
(* events, so the timeline shows each agent call.                            *)
EveryAgentCallIsLogged ==
    \A t \in Tasks : calls[t].made = Cardinality({e \in events[t] : e.name = "agent_called"})

(* The reason stored with a stalled iteration says that no agent file or     *)
(* repository change was detected for MaxNoChange iterations.                *)
StalledMeansNoChange ==
    \A t \in Tasks : \A r \in DOMAIN iters[t] :
      iters[t][r].reason = "stalled" => iters[t][r].idle >= MaxNoChange

(* The record of a verified iteration: Accept is the last check row written. *)
verdicts(t) == {r \in DOMAIN iters[t] : Accepted(iters[t][r])}
Gate == INSTANCE VerifiedCompletion WITH
          open <- [t \in Tasks |-> verdicts(t) \ spent[t]], consumed <- spent

(* Completion is gated: every transition to done consumes a verified verdict *)
(* of its own, whatever cancels, recoveries, deaths and other runs do.       *)
ImplementsGate == Gate!Spec
=============================================================================

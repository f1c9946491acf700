-------------------------- MODULE SupervisorProofs --------------------------
(***************************************************************************)
(* Proofs about Supervisor, for every number of processes, tasks, checks,  *)
(* iterations and every value of the limits and bounds.                    *)
(***************************************************************************)
EXTENDS Supervisor, SequenceTheorems, TLAPS

(* Only a process inside _run has a task. *)
TaskOK == \A p \in Procs : pc[p] # "idle" => run[p].task \in Tasks

Typed == TypeOK /\ TaskOK

(* The engine's verdict is one of three. *)
LEMMA DecideType ==
    ASSUME NEW agent, NEW checks, NEW attempt, NEW max
    PROVE  Decide(agent, checks, attempt, max) \in Verdicts
  BY DEF Decide, Verdicts

(* Replacing an element keeps a sequence's length and its element type. *)
LEMMA ReplaceElement ==
    ASSUME NEW S, NEW s \in Seq(S), NEW i, NEW e, i \in DOMAIN s => e \in S
    PROVE  /\ [s EXCEPT ![i] = e] \in Seq(S)
           /\ Len([s EXCEPT ![i] = e]) = Len(s)
           /\ DOMAIN [s EXCEPT ![i] = e] = DOMAIN s
  <1>1. CASE i \in 1..Len(s)
    BY <1>1, ExceptSeq
  <1>2. CASE i \notin 1..Len(s)
    <2>1. [s EXCEPT ![i] = e] = s
      BY <1>2
    <2> QED
      BY <2>1
  <1> QED
    BY <1>1, <1>2

(* Appending to the event log keeps its type. *)
LEMMA LogType ==
    ASSUME TypeOK, NEW t, NEW new \in SUBSET Entries, Log(t, new)
    PROVE  events' \in [Tasks -> SUBSET Entries]
  BY DEF TypeOK, Log

(* Rewriting a row by another row keeps the iterations' type. *)
LEMMA SetRowType ==
    ASSUME TypeOK, NEW p \in Procs, run[p].task \in Tasks, NEW row, SetRow(p, row),
           run[p].row \in DOMAIN iters[run[p].task] => row \in Row
    PROVE  iters' \in [Tasks -> Seq(Row)]
  <1> DEFINE t == run[p].task
  <1>1. iters[t] \in Seq(Row)
    BY DEF TypeOK
  <1>2. [iters[t] EXCEPT ![run[p].row] = row] \in Seq(Row)
    BY <1>1, ReplaceElement
  <1> QED
    BY <1>2 DEF TypeOK, SetRow

LEMMA EntryType ==
    ASSUME NEW n \in EventNames, NEW i \in Nat, NEW r \in Nat
    PROVE  Entry(n, i, r) \in Entries
  BY DEF Entry, Entries

LEMMA BlankType == Blank \in Runs
  BY EntryType DEF Blank, Runs, EventNames, AgentStatuses, Verdicts, Reasons, Signatures, Snapshots

(* A step of process p that leaves it at label l with locals r. *)
LEMMA MoveType ==
    ASSUME Typed, NEW p \in Procs, NEW r \in Runs, NEW l \in Labels,
           Goto(p, l), run' = [run EXCEPT ![p] = r], l = "idle" \/ r.task \in Tasks
    PROVE  /\ pc' \in [Procs -> Labels] /\ run' \in [Procs -> Runs]
           /\ TaskOK'
  BY DEF Typed, TypeOK, TaskOK, Goto

(* ... and one that leaves its locals alone. *)
LEMMA GotoType ==
    ASSUME Typed, NEW p \in Procs, NEW l \in Labels, Goto(p, l), UNCHANGED run,
           pc[p] # "idle"
    PROVE  /\ pc' \in [Procs -> Labels] /\ run' \in [Procs -> Runs]
           /\ TaskOK'
  BY DEF Typed, TypeOK, TaskOK, Goto

LEMMA ReturnType ==
    ASSUME Typed, NEW p \in Procs, Return(p)
    PROVE  /\ pc' \in [Procs -> Labels] /\ run' \in [Procs -> Runs]
           /\ TaskOK'
  <1>1. "idle" \in Labels
    BY DEF Labels
  <1> QED
    BY <1>1, BlankType, MoveType DEF Return, Local

LEMMA LeaveType ==
    ASSUME Typed, NEW p \in Procs, pc[p] # "idle",
           NEW st \in {"blocked", "cancelled", "done"}, NEW name \in EventNames,
           NEW i \in Nat, NEW row \in Nat, Leave(p, st, name, i, row)
    PROVE  /\ pc' \in [Procs -> Labels] /\ run' \in [Procs -> Runs]
           /\ TaskOK'
  <1> DEFINE r == [run[p] EXCEPT !.leave = [status |-> st, event |-> Entry(name, i, row)]]
  <1>1. run[p] \in Runs /\ run[p].task \in Tasks
    BY DEF Typed, TypeOK, TaskOK
  <1>2. Entry(name, i, row) \in Entries
    BY EntryType
  <1>3. r \in Runs /\ r.task \in Tasks
    BY <1>1, <1>2 DEF Runs
  <1>4. "exit" \in Labels
    BY DEF Labels
  <1> QED
    BY <1>3, <1>4, MoveType DEF Leave, Local

LEMMA IndexType ==
    ASSUME TypeOK, NEW p \in Procs
    PROVE  Index(p) \in Nat
  <1>1. run[p] \in Runs
    BY DEF TypeOK
  <1> QED
    BY <1>1 DEF Runs, Index

LEMMA NewRowType ==
    ASSUME TypeOK, NEW p \in Procs
    PROVE  NewRow(p) \in Row
  <1>1. run[p] \in Runs
    BY DEF TypeOK
  <1>2. Index(p) \in Nat
    BY IndexType
  <1> QED
    BY <1>1, <1>2 DEF NewRow, Row, Runs

(* Each step of a live process preserves the types, action by action. *)
LEMMA MarkRunningTyped ==
    ASSUME Typed, NEW p \in Procs, MarkRunning(p)
    PROVE  Typed'
  <1> USE DEF MarkRunning, loopvars
  <1>1. run[p] \in Runs /\ run[p].task \in Tasks /\ Index(p) \in Nat
    BY IndexType DEF Typed, TypeOK, TaskOK
  <1>2. {"announce"} \subseteq Labels
    BY DEF Labels
  <1>3. pc' \in [Procs -> Labels] /\ run' \in [Procs -> Runs] /\ TaskOK'
    BY <1>2, GotoType
  <1> QED
    BY <1>3 DEF Typed, TypeOK, Statuses

LEMMA AnnounceTyped ==
    ASSUME Typed, NEW p \in Procs, Announce(p)
    PROVE  Typed'
  <1> USE DEF Announce, loopvars
  <1>1. run[p] \in Runs /\ run[p].task \in Tasks /\ Index(p) \in Nat
    BY IndexType DEF Typed, TypeOK, TaskOK
  <1>2. {"available"} \subseteq Labels
    BY DEF Labels
  <1>3. pc' \in [Procs -> Labels] /\ run' \in [Procs -> Runs] /\ TaskOK'
    BY <1>2, GotoType
  <1>4. {IF run[p].fresh THEN Entry("task_created", 0, 0)
         ELSE Entry("task_resumed", run[p].start, 0)} \in SUBSET Entries
    BY <1>1, EntryType DEF EventNames, Runs
  <1>5. events' \in [Tasks -> SUBSET Entries]
    BY <1>4, LogType DEF Typed
  <1> QED
    BY <1>3, <1>5 DEF Typed, TypeOK, Statuses

LEMMA CallAgentTyped ==
    ASSUME Typed, NEW p \in Procs, CallAgent(p)
    PROVE  Typed'
  <1> USE DEF CallAgent, loopvars
  <1>1. run[p] \in Runs /\ run[p].task \in Tasks /\ Index(p) \in Nat
    BY IndexType DEF Typed, TypeOK, TaskOK
  <1>2. {"agent"} \subseteq Labels
    BY DEF Labels
  <1>3. pc' \in [Procs -> Labels] /\ run' \in [Procs -> Runs] /\ TaskOK'
    BY <1>2, GotoType
  <1>4. {Entry("iteration_started", Index(p), 0), Entry("agent_called", Index(p), 0)} \in SUBSET Entries
    BY <1>1, EntryType DEF EventNames, Runs
  <1>5. events' \in [Tasks -> SUBSET Entries]
    BY <1>4, LogType DEF Typed
  <1>a. calls \in [Tasks -> [made : Nat, allowed : Nat]]
    BY DEF Typed, TypeOK
  <1>6. calls' \in [Tasks -> [made : Nat, allowed : Nat]]
    <2>1. calls' = [calls EXCEPT ![run[p].task].made = @ + 1]
      OBVIOUS
    <2> HIDE DEF CallAgent, loopvars
    <2> QED
      BY <1>1, <1>a, <2>1
  <1> QED
    BY <1>3, <1>5, <1>6 DEF Typed, TypeOK, Statuses

LEMMA FinishVerificationTyped ==
    ASSUME Typed, NEW p \in Procs, FinishVerification(p)
    PROVE  Typed'
  <1> USE DEF FinishVerification, loopvars
  <1>1. run[p] \in Runs /\ run[p].task \in Tasks /\ Index(p) \in Nat
    BY IndexType DEF Typed, TypeOK, TaskOK
  <1>2. {"decide"} \subseteq Labels
    BY DEF Labels
  <1>3. pc' \in [Procs -> Labels] /\ run' \in [Procs -> Runs] /\ TaskOK'
    BY <1>2, GotoType
  <1>4. {Entry("verification_finished", Index(p), 0)} \in SUBSET Entries
    BY <1>1, EntryType DEF EventNames, Runs
  <1>5. events' \in [Tasks -> SUBSET Entries]
    BY <1>4, LogType DEF Typed
  <1> QED
    BY <1>3, <1>5 DEF Typed, TypeOK, Statuses

LEMMA StartSessionTyped ==
    ASSUME Typed, NEW p \in Procs, StartSession(p)
    PROVE  Typed'
  <1> USE DEF StartSession, loopvars
  <1>1. run[p] \in Runs /\ run[p].task \in Tasks /\ Index(p) \in Nat
    BY IndexType DEF Typed, TypeOK, TaskOK
  <1>2. tree.version \in Nat /\ snapshot \subseteq Snapshots /\ << >> \in Snapshots
    BY DEF Typed, TypeOK, snapshot, Snapshots
  <1>3. PICK snap \in Snapshots :
          Local(p, [run[p] EXCEPT !.base = snap, !.origin = tree.version, !.seen = tree.version])
    BY <1>2
  <1>4. [run[p] EXCEPT !.base = snap, !.origin = tree.version, !.seen = tree.version] \in Runs
    BY <1>1, <1>2 DEF Runs
  <1>5. pc' \in [Procs -> Labels] /\ run' \in [Procs -> Runs] /\ TaskOK'
    BY <1>1, <1>3, <1>4, MoveType DEF Local, Labels, Runs
  <1> QED
    BY <1>5 DEF Typed, TypeOK

LEMMA AgentReturnsTyped ==
    ASSUME Typed, NEW p \in Procs, AgentReturns(p)
    PROVE  Typed'
  <1> USE DEF AgentReturns, loopvars
  <1>1. run[p] \in Runs /\ run[p].task \in Tasks /\ Index(p) \in Nat
    BY IndexType DEF Typed, TypeOK, TaskOK
  <1>2. PICK st \in {"success", "failed"}, files \in SUBSET Paths :
          Local(p, [run[p] EXCEPT !.agent = st, !.files = files])
    OBVIOUS
  <1>3. [run[p] EXCEPT !.agent = st, !.files = files] \in Runs
    BY <1>1 DEF Runs, AgentStatuses
  <1>4. pc' \in [Procs -> Labels] /\ run' \in [Procs -> Runs] /\ TaskOK'
    BY <1>1, <1>2, <1>3, MoveType DEF Local, Labels, Runs
  <1> QED
    BY <1>4 DEF Typed, TypeOK

LEMMA AgentStoppedTyped ==
    ASSUME Typed, NEW p \in Procs, AgentStopped(p)
    PROVE  Typed'
  <1> USE DEF AgentStopped, loopvars
  <1>1. run[p] \in Runs /\ run[p].task \in Tasks /\ Index(p) \in Nat
    BY IndexType DEF Typed, TypeOK, TaskOK
  <1>3. [run[p] EXCEPT !.agent = "cancelled", !.files = {}] \in Runs
    BY <1>1 DEF Runs, AgentStatuses
  <1>4. pc' \in [Procs -> Labels] /\ run' \in [Procs -> Runs] /\ TaskOK'
    BY <1>1, <1>3, MoveType DEF Local, Labels, Runs
  <1> QED
    BY <1>4 DEF Typed, TypeOK

LEMMA RunCheckTyped ==
    ASSUME Typed, NEW p \in Procs, RunCheck(p)
    PROVE  Typed'
  <1> USE DEF RunCheck, loopvars
  <1>1. run[p] \in Runs /\ run[p].task \in Tasks /\ Index(p) \in Nat
    BY IndexType DEF Typed, TypeOK, TaskOK
  <1>2. PICK st \in CheckStatuses : Local(p, [run[p] EXCEPT !.checks = Append(@, st)])
    OBVIOUS
  <1>a. Append(run[p].checks, st) \in Seq(CheckStatuses)
    BY <1>1 DEF Runs
  <1>3. [run[p] EXCEPT !.checks = Append(@, st)] \in Runs
    BY <1>1, <1>a DEF Runs
  <1>4. run' \in [Procs -> Runs] /\ TaskOK'
    BY <1>1, <1>2, <1>3 DEF Local, Runs, Typed, TypeOK, TaskOK
  <1> QED
    BY <1>4 DEF Typed, TypeOK

LEMMA ExhaustedTyped ==
    ASSUME Typed, NEW p \in Procs, Exhausted(p)
    PROVE  Typed'
  <1> USE DEF Exhausted, loopvars
  <1>1. run[p] \in Runs /\ run[p].task \in Tasks /\ Index(p) \in Nat
    BY IndexType DEF Typed, TypeOK, TaskOK
  <1>2. Leave(p, "blocked", "blocked_max_iterations", 0, 0)
    OBVIOUS
  <1>3. pc' \in [Procs -> Labels] /\ run' \in [Procs -> Runs] /\ TaskOK'
    BY <1>1, <1>2, LeaveType DEF EventNames
  <1> QED
    BY <1>3 DEF Typed, TypeOK

LEMMA OutOfTimeTyped ==
    ASSUME Typed, NEW p \in Procs, OutOfTime(p)
    PROVE  Typed'
  <1> USE DEF OutOfTime, loopvars
  <1>1. run[p] \in Runs /\ run[p].task \in Tasks /\ Index(p) \in Nat
    BY IndexType DEF Typed, TypeOK, TaskOK
  <1>2. Leave(p, "blocked", "blocked_runtime_budget", Index(p), 0)
    OBVIOUS
  <1>3. pc' \in [Procs -> Labels] /\ run' \in [Procs -> Runs] /\ TaskOK'
    BY <1>1, <1>2, LeaveType DEF EventNames
  <1> QED
    BY <1>3 DEF Typed, TypeOK

LEMMA OutOfTimeBeforeVerificationTyped ==
    ASSUME Typed, NEW p \in Procs, OutOfTimeBeforeVerification(p)
    PROVE  Typed'
  <1> USE DEF OutOfTimeBeforeVerification, loopvars
  <1>1. run[p] \in Runs /\ run[p].task \in Tasks /\ Index(p) \in Nat
    BY IndexType DEF Typed, TypeOK, TaskOK
  <1>2. Leave(p, "blocked", "blocked_before_verification", Index(p), 0)
    OBVIOUS
  <1>3. pc' \in [Procs -> Labels] /\ run' \in [Procs -> Runs] /\ TaskOK'
    BY <1>1, <1>2, LeaveType DEF EventNames
  <1> QED
    BY <1>3 DEF Typed, TypeOK

LEMMA CancelledBeforeAgentTyped ==
    ASSUME Typed, NEW p \in Procs, CancelledBeforeAgent(p)
    PROVE  Typed'
  <1> USE DEF CancelledBeforeAgent, loopvars
  <1>1. run[p] \in Runs /\ run[p].task \in Tasks /\ Index(p) \in Nat
    BY IndexType DEF Typed, TypeOK, TaskOK
  <1>2. {Entry("cancelled_before_agent", Index(p), 0)} \in SUBSET Entries
    BY <1>1, EntryType DEF EventNames
  <1>3. events' \in [Tasks -> SUBSET Entries]
    BY <1>2, LogType DEF Typed
  <1>4. pc' \in [Procs -> Labels] /\ run' \in [Procs -> Runs] /\ TaskOK'
    BY ReturnType
  <1> QED
    BY <1>3, <1>4 DEF Typed, TypeOK

LEMMA LogStatusTyped ==
    ASSUME Typed, NEW p \in Procs, LogStatus(p)
    PROVE  Typed'
  <1> USE DEF LogStatus, loopvars
  <1>1. run[p] \in Runs /\ run[p].task \in Tasks /\ Index(p) \in Nat
    BY IndexType DEF Typed, TypeOK, TaskOK
  <1>2. {run[p].leave.event} \in SUBSET Entries
    BY <1>1 DEF Runs
  <1>3. events' \in [Tasks -> SUBSET Entries]
    BY <1>2, LogType DEF Typed
  <1>4. pc' \in [Procs -> Labels] /\ run' \in [Procs -> Runs] /\ TaskOK'
    BY ReturnType
  <1> QED
    BY <1>3, <1>4 DEF Typed, TypeOK

LEMMA ReceiveResultTyped ==
    ASSUME Typed, NEW p \in Procs, ReceiveResult(p)
    PROVE  Typed'
  <1> USE DEF ReceiveResult, loopvars
  <1>1. run[p] \in Runs /\ run[p].task \in Tasks /\ Index(p) \in Nat
    BY IndexType DEF Typed, TypeOK, TaskOK
  <1>2. {Entry("agent_result_received", Index(p), 0)} \in SUBSET Entries
    BY <1>1, EntryType DEF EventNames, Runs
  <1>3. events' \in [Tasks -> SUBSET Entries]
    BY <1>2, LogType DEF Typed
  <1>4. CASE run[p].agent = "cancelled" \/ Cancelled(p)
    <2>1. Leave(p, "cancelled", "cancelled_after_agent", Index(p), 0)
      BY <1>4
    <2>2. pc' \in [Procs -> Labels] /\ run' \in [Procs -> Runs] /\ TaskOK'
      BY <1>1, <2>1, LeaveType DEF EventNames
    <2> QED
      BY <1>3, <1>4, <2>2 DEF Typed, TypeOK
  <1>5. CASE run[p].agent # "cancelled" /\ ~Cancelled(p)
    <2>a. << >> \in Seq(CheckStatuses)
      OBVIOUS
    <2>1. [run[p] EXCEPT !.checks = << >>] \in Runs
      BY <1>1, <2>a DEF Runs
    <2>2. pc' \in [Procs -> Labels] /\ run' \in [Procs -> Runs] /\ TaskOK'
      BY <1>1, <2>1, <1>5, MoveType DEF Local, Labels, Runs
    <2> QED
      BY <1>3, <1>5, <2>2 DEF Typed, TypeOK
  <1> QED
    BY <1>4, <1>5

LEMMA PrepareVerificationTyped ==
    ASSUME Typed, NEW p \in Procs, PrepareVerification(p)
    PROVE  Typed'
  <1> USE DEF PrepareVerification, loopvars
  <1>1. run[p] \in Runs /\ run[p].task \in Tasks /\ Index(p) \in Nat
    BY IndexType DEF Typed, TypeOK, TaskOK
  <1>2. CASE Cancelled(p)
    <2>1. {Entry("cancelled_before_verification", Index(p), 0)} \in SUBSET Entries
      BY <1>1, EntryType DEF EventNames
    <2>2. events' \in [Tasks -> SUBSET Entries]
      BY <1>2, <2>1, LogType DEF Typed
    <2>3. pc' \in [Procs -> Labels] /\ run' \in [Procs -> Runs] /\ TaskOK'
      BY <1>2, ReturnType
    <2> QED
      BY <1>2, <2>2, <2>3 DEF Typed, TypeOK
  <1>3. CASE ~Cancelled(p)
    <2>1. {Entry("verification_started", Index(p), 0)} \in SUBSET Entries
      BY <1>1, EntryType DEF EventNames
    <2>2. events' \in [Tasks -> SUBSET Entries]
      BY <1>3, <2>1, LogType DEF Typed
    <2>3. pc' \in [Procs -> Labels] /\ run' \in [Procs -> Runs] /\ TaskOK'
      BY <1>3, GotoType DEF Labels
    <2> QED
      BY <1>3, <2>2, <2>3 DEF Typed, TypeOK
  <1> QED
    BY <1>2, <1>3

LEMMA InterruptTyped ==
    ASSUME Typed, NEW p \in Procs, Interrupt(p)
    PROVE  Typed'
  <1> USE DEF Interrupt, loopvars
  <1>1. run[p] \in Runs /\ Index(p) \in Nat
    BY IndexType DEF Typed, TypeOK
  <1>2. CASE pc[p] = "agent"
    <2>1. {Entry("agent_interrupted", Index(p), 0)} \in SUBSET Entries
      BY <1>1, EntryType DEF EventNames
    <2>2. events' \in [Tasks -> SUBSET Entries]
      BY <1>2, <2>1, LogType DEF Typed
    <2>3. pc' \in [Procs -> Labels] /\ run' \in [Procs -> Runs] /\ TaskOK'
      BY <1>2, ReturnType
    <2> QED
      BY <1>2, <2>2, <2>3 DEF Typed, TypeOK
  <1>3. CASE pc[p] = "verify"
    <2>1. {Entry("verification_interrupted", Index(p), 0)} \in SUBSET Entries
      BY <1>1, EntryType DEF EventNames
    <2>2. events' \in [Tasks -> SUBSET Entries]
      BY <1>3, <2>1, LogType DEF Typed
    <2>3. pc' \in [Procs -> Labels] /\ run' \in [Procs -> Runs] /\ TaskOK'
      BY <1>3, ReturnType
    <2> QED
      BY <1>3, <2>2, <2>3 DEF Typed, TypeOK
  <1> QED
    BY <1>2, <1>3

LEMMA ResumeCheckTyped ==
    ASSUME Typed, NEW p \in Procs, ResumeCheck(p)
    PROVE  Typed'
  <1> USE DEF ResumeCheck, loopvars
  <1>1. CASE Cancelled(p)
    <2>1. {Entry("resume_cancelled", 0, 0)} \in SUBSET Entries
      BY EntryType DEF EventNames
    <2>2. events' \in [Tasks -> SUBSET Entries]
      BY <1>1, <2>1, LogType DEF Typed
    <2>3. pc' \in [Procs -> Labels] /\ run' \in [Procs -> Runs] /\ TaskOK'
      BY <1>1, ReturnType
    <2> QED
      BY <1>1, <2>2, <2>3 DEF Typed, TypeOK
  <1>2. CASE ~Cancelled(p)
    <2>1. pc' \in [Procs -> Labels] /\ run' \in [Procs -> Runs] /\ TaskOK'
      BY <1>2, GotoType DEF Labels
    <2> QED
      BY <1>2, <2>1 DEF Typed, TypeOK
  <1> QED
    BY <1>1, <1>2

LEMMA DieTyped ==
    ASSUME Typed, NEW p \in Procs, Die(p)
    PROVE  Typed'
  <1>1. pc' \in [Procs -> Labels] /\ run' \in [Procs -> Runs] /\ TaskOK'
    BY ReturnType DEF Die
  <1> QED
    BY <1>1 DEF Typed, TypeOK, Die, loopvars


(* A bound that is not used up can be used once more. *)
LEMMA SpendType ==
    ASSUME used \in Bounds
    PROVE  /\ used.runs < MaxRuns => [used EXCEPT !.runs = @ + 1] \in Bounds
           /\ used.cancels < MaxCancels => [used EXCEPT !.cancels = @ + 1] \in Bounds
           /\ used.recovers < MaxRecovers => [used EXCEPT !.recovers = @ + 1] \in Bounds
  <1>1. /\ used.runs \in 0..MaxRuns /\ used.cancels \in 0..MaxCancels
        /\ used.recovers \in 0..MaxRecovers
    BY DEF Bounds
  <1>2. /\ used.runs < MaxRuns => used.runs + 1 \in 0..MaxRuns
        /\ used.cancels < MaxCancels => used.cancels + 1 \in 0..MaxCancels
        /\ used.recovers < MaxRecovers => used.recovers + 1 \in 0..MaxRecovers
    BY <1>1, BoundAssumption
  <1> QED
    BY <1>1, <1>2 DEF Bounds

LEMMA AllowType ==
    ASSUME calls \in [Tasks -> [made : Nat, allowed : Nat]], NEW t \in Tasks,
           NEW limit \in Limits, calls' = [calls EXCEPT ![t].allowed = @ + limit]
    PROVE  calls' \in [Tasks -> [made : Nat, allowed : Nat]]
  BY LimitAssumption

LEMMA StartTyped ==
    ASSUME Typed, NEW p \in Procs, NEW t \in Tasks, Start(p, t)
    PROVE  Typed'
  <1> USE DEF Start
  <1>0. PICK limit \in Limits :
          /\ Local(p, [Blank EXCEPT !.task = t, !.fresh = TRUE, !.limit = limit])
          /\ calls' = [calls EXCEPT ![t].allowed = @ + limit]
    OBVIOUS
  <1> DEFINE r == [Blank EXCEPT !.task = t, !.fresh = TRUE, !.limit = limit]
  <1>1. r \in Runs
    BY BlankType, LimitAssumption DEF Runs
  <1>2. r.task \in Tasks
    BY DEF Blank
  <1>3. pc' \in [Procs -> Labels] /\ run' \in [Procs -> Runs] /\ TaskOK'
    BY <1>0, <1>1, <1>2, MoveType DEF Local, Labels
  <1>4. status' \in [Tasks -> Statuses]
    BY DEF Typed, TypeOK, Statuses
  <1>5. used' \in Bounds
    BY SpendType DEF Typed, TypeOK
  <1>6. calls' \in [Tasks -> [made : Nat, allowed : Nat]]
    BY <1>0, AllowType DEF Typed, TypeOK
  <1> QED
    BY <1>3, <1>4, <1>5, <1>6 DEF Typed, TypeOK

LEMMA ResumeTyped ==
    ASSUME Typed, NEW p \in Procs, NEW t \in Tasks, Resume(p, t)
    PROVE  Typed'
  <1> USE DEF Resume
  <1>1. Len(iters[t]) + 1 \in Nat \ {0}
    BY DEF Typed, TypeOK
  <1> DEFINE start == Len(iters[t]) + 1
  <1>0. PICK limit \in Limits :
          /\ Local(p, [Blank EXCEPT !.task = t, !.start = start, !.limit = limit])
          /\ calls' = [calls EXCEPT ![t].allowed = @ + limit]
    OBVIOUS
  <1> DEFINE r == [Blank EXCEPT !.task = t, !.start = start, !.limit = limit]
  <1>2. r \in Runs
    BY <1>1, BlankType, LimitAssumption DEF Runs
  <1>3. r.task \in Tasks
    BY DEF Blank
  <1>4. pc' \in [Procs -> Labels] /\ run' \in [Procs -> Runs] /\ TaskOK'
    BY <1>0, <1>2, <1>3, MoveType DEF Local, Labels
  <1>5. used' \in Bounds
    BY SpendType DEF Typed, TypeOK
  <1>6. calls' \in [Tasks -> [made : Nat, allowed : Nat]]
    BY <1>0, AllowType DEF Typed, TypeOK
  <1> QED
    BY <1>4, <1>5, <1>6 DEF Typed, TypeOK

LEMMA AgentUnavailableTyped ==
    ASSUME Typed, NEW p \in Procs, AgentUnavailable(p)
    PROVE  Typed'
  <1> USE DEF AgentUnavailable, loopvars
  <1>1. run[p] \in Runs /\ run[p].task \in Tasks /\ Index(p) \in Nat
    BY IndexType DEF Typed, TypeOK, TaskOK
  <1>2. [NewRow(p) EXCEPT !.agent = "unavailable", !.decision = "blocked",
                               !.reason = "unavailable", !.touched = FALSE] \in Row
    BY NewRowType DEF Typed, Row, Verdicts, Reasons
  <1>3. iters[run[p].task] \in Seq(Row) /\ Len(iters[run[p].task]) + 1 \in Nat
    BY <1>1 DEF Typed, TypeOK
  <1>4. Append(iters[run[p].task], [NewRow(p) EXCEPT !.agent = "unavailable", !.decision = "blocked",
                               !.reason = "unavailable", !.touched = FALSE]) \in Seq(Row)
    BY <1>2, <1>3
  <1>5. iters' \in [Tasks -> Seq(Row)]
    BY <1>4 DEF Typed, TypeOK
  <1>6. [run[p] EXCEPT !.decision = "blocked", !.reason = "unavailable",
                            !.row = Len(iters[run[p].task]) + 1] \in Runs
    BY <1>1, <1>3 DEF Runs, Verdicts, Reasons
  <1>7. pc' \in [Procs -> Labels] /\ run' \in [Procs -> Runs] /\ TaskOK'
    BY <1>1, <1>6, MoveType DEF Local, Labels, Runs
  <1> QED
    BY <1>5, <1>7 DEF Typed, TypeOK

LEMMA RecordIterationTyped ==
    ASSUME Typed, NEW p \in Procs, RecordIteration(p)
    PROVE  Typed'
  <1> USE DEF RecordIteration, loopvars
  <1>1. run[p] \in Runs /\ run[p].task \in Tasks /\ Index(p) \in Nat
    BY IndexType DEF Typed, TypeOK, TaskOK
  <1>2. NewRow(p) \in Row
    BY NewRowType DEF Typed
  <1>3. iters[run[p].task] \in Seq(Row) /\ Len(iters[run[p].task]) + 1 \in Nat
    BY <1>1 DEF Typed, TypeOK
  <1>4. Append(iters[run[p].task], NewRow(p)) \in Seq(Row)
    BY <1>2, <1>3
  <1>5. iters' \in [Tasks -> Seq(Row)]
    BY <1>4 DEF Typed, TypeOK
  <1>6. [run[p] EXCEPT !.row = Len(iters[run[p].task]) + 1] \in Runs
    BY <1>1, <1>3 DEF Runs, Verdicts, Reasons
  <1>7. pc' \in [Procs -> Labels] /\ run' \in [Procs -> Runs] /\ TaskOK'
    BY <1>1, <1>6, MoveType DEF Local, Labels, Runs
  <1> QED
    BY <1>5, <1>7 DEF Typed, TypeOK

LEMMA AgentEditTyped ==
    ASSUME Typed, NEW p \in Procs, AgentEdit(p)
    PROVE  Typed'
  <1>1. tree' \in [version : Nat, dirty : SUBSET Paths]
    BY DEF Typed, TypeOK, AgentEdit
  <1> QED
    BY <1>1 DEF Typed, TypeOK, TaskOK, AgentEdit

(* What deciding leaves in a process's locals. *)
LEMMA DecidedType ==
    ASSUME TypeOK, NEW p \in Procs, NEW snap \in snapshot
    PROVE  /\ Decided(p, snap) \in Runs
           /\ Decided(p, snap).task = run[p].task
  <1> DEFINE verdict == Decide(run[p].agent, run[p].checks, run[p].attempt, run[p].limit)
             counted == verdict = "continue" /\ snap # << >>
             signature == IF counted THEN <<[files |-> run[p].files, dirty |-> snap[1]]>>
                          ELSE run[p].signature
             streak == IF ~counted THEN run[p].noChange
                       ELSE IF signature = run[p].signature THEN run[p].noChange + 1 ELSE 1
             idle == IF tree.version = run[p].seen THEN run[p].idle + 1 ELSE 0
  <1>1. run[p] \in Runs /\ tree \in [version : Nat, dirty : SUBSET Paths]
    BY DEF TypeOK
  <1>2. verdict \in Verdicts
    BY DecideType
  <1>3. signature \in Signatures
    <2>1. CASE counted
      <3>1. snap[1] \in SUBSET Paths
        BY <1>1, <2>1 DEF snapshot
      <3> QED
        BY <1>1, <2>1, <3>1 DEF Signatures, Runs
    <2>2. CASE ~counted
      BY <1>1, <2>2 DEF Runs
    <2> QED
      BY <2>1, <2>2
  <1>4. streak \in Nat /\ idle \in Nat /\ tree.version \in Nat
    <2>1. run[p].noChange \in Nat /\ run[p].idle \in Nat /\ tree.version \in Nat
      BY <1>1 DEF Runs
    <2> QED
      BY <2>1
  <1>5. PICK d \in Verdicts, why \in Reasons :
          Decided(p, snap) = [run[p] EXCEPT !.decision = d, !.reason = why,
             !.signature = signature, !.noChange = streak, !.idle = idle,
             !.seen = tree.version]
    BY <1>2, ZenonT(60) DEF Decided, Verdicts, Reasons
  <1> HIDE DEF verdict, counted, signature, streak, idle
  <1>6. PICK s \in Signatures, n \in Nat, i \in Nat, v \in Nat :
          Decided(p, snap) = [run[p] EXCEPT !.decision = d, !.reason = why,
             !.signature = s, !.noChange = n, !.idle = i, !.seen = v]
    BY <1>3, <1>4, <1>5, Zenon
  <1>7. ASSUME NEW r \in Runs
        PROVE  /\ [r EXCEPT !.decision = d, !.reason = why, !.signature = s,
                             !.noChange = n, !.idle = i, !.seen = v] \in Runs
               /\ [r EXCEPT !.decision = d, !.reason = why, !.signature = s,
                             !.noChange = n, !.idle = i, !.seen = v].task = r.task
    BY DEF Runs
  <1> QED
    BY <1>1, <1>6, <1>7, Zenon

LEMMA DecideIterationTyped ==
    ASSUME Typed, NEW p \in Procs, DecideIteration(p)
    PROVE  Typed'
  <1>1. run[p].task \in Tasks
    BY DEF DecideIteration, Typed, TypeOK, TaskOK
  <1>2. PICK snap \in snapshot : Local(p, Decided(p, snap))
    BY DEF DecideIteration
  <1>3. Decided(p, snap) \in Runs /\ Decided(p, snap).task \in Tasks
    BY <1>1, DecidedType DEF Typed
  <1>4. pc' \in [Procs -> Labels] /\ run' \in [Procs -> Runs] /\ TaskOK'
    BY <1>2, <1>3, MoveType DEF DecideIteration, Local, Labels
  <1> QED
    BY <1>4 DEF Typed, TypeOK, DecideIteration, loopvars

LEMMA RecordDecisionTyped ==
    ASSUME Typed, NEW p \in Procs, RecordDecision(p)
    PROVE  Typed'
  <1> USE DEF RecordDecision, loopvars
  <1>1. run[p] \in Runs /\ run[p].task \in Tasks /\ Index(p) \in Nat
    BY IndexType DEF Typed, TypeOK, TaskOK
  <1>2. {Entry("decision_made", Index(p), run[p].row)} \in SUBSET Entries
    BY <1>1, EntryType DEF EventNames, Runs
  <1>3. events' \in [Tasks -> SUBSET Entries]
    BY <1>2, LogType DEF Typed
  <1>4. CASE run[p].reason = "unavailable"
    <2>1. Leave(p, "blocked", "task_blocked", Index(p), run[p].row)
      BY <1>4
    <2>2. pc' \in [Procs -> Labels] /\ run' \in [Procs -> Runs] /\ TaskOK'
      BY <1>1, <2>1, LeaveType DEF EventNames, Runs
    <2> QED
      BY <1>3, <1>4, <2>2 DEF Typed, TypeOK
  <1>5. CASE run[p].reason # "unavailable"
    <2>1. pc' \in [Procs -> Labels] /\ run' \in [Procs -> Runs] /\ TaskOK'
      BY <1>1, <1>5, GotoType DEF Labels
    <2>2. UNCHANGED <<status, iters, tree, sweep, spent, calls, used>>
      OBVIOUS
    <2> HIDE DEF RecordDecision, loopvars
    <2> QED
      BY <1>3, <2>1, <2>2 DEF Typed, TypeOK
  <1> QED
    BY <1>4, <1>5

LEMMA RecordCheckTyped ==
    ASSUME Typed, NEW p \in Procs, RecordCheck(p)
    PROVE  Typed'
  <1> USE DEF RecordCheck, loopvars
  <1>1. run[p] \in Runs /\ run[p].task \in Tasks /\ Index(p) \in Nat
    BY IndexType DEF Typed, TypeOK, TaskOK
  <1>2. ASSUME run[p].row \in DOMAIN iters[run[p].task]
        PROVE  [RowOf(p) EXCEPT !.checks = Append(@, run[p].checks[Len(@) + 1])] \in Row
    <2>1. RowOf(p) \in Row
      BY <1>1, <1>2, SMTT(30) DEF RowOf, Typed, TypeOK
    <2>2. /\ RowOf(p).checks \in Seq(CheckStatuses) /\ run[p].checks \in Seq(CheckStatuses)
          /\ Len(RowOf(p).checks) < Len(run[p].checks)
      BY <1>1, <2>1 DEF Row, Runs
    <2>3. Append(RowOf(p).checks, run[p].checks[Len(RowOf(p).checks) + 1]) \in Seq(CheckStatuses)
      <3> HIDE DEF RecordCheck
      <3> QED
        BY <2>2
    <2> QED
      BY <2>1, <2>3 DEF Row
  <1>3. iters' \in [Tasks -> Seq(Row)]
    BY <1>1, <1>2, SetRowType DEF Typed
  <1>4. pc' \in [Procs -> Labels] /\ run' \in [Procs -> Runs] /\ TaskOK'
    BY GotoType DEF Labels
  <1> QED
    BY <1>3, <1>4 DEF Typed, TypeOK

LEMMA RecordActionTyped ==
    ASSUME Typed, NEW p \in Procs, RecordAction(p)
    PROVE  Typed'
  <1> USE DEF RecordAction, loopvars
  <1>1. run[p] \in Runs /\ run[p].task \in Tasks /\ Index(p) \in Nat
    BY IndexType DEF Typed, TypeOK, TaskOK
  <1>2. ASSUME run[p].row \in DOMAIN iters[run[p].task]
        PROVE  [RowOf(p) EXCEPT !.audited = @ + 1] \in Row
    <2>1. RowOf(p) \in Row
      BY <1>1, <1>2, SMTT(30) DEF RowOf, Typed, TypeOK
    <2> QED
      BY <1>1, <2>1, SMTT(30) DEF Row
  <1>3. iters' \in [Tasks -> Seq(Row)]
    BY <1>1, <1>2, SetRowType DEF Typed
  <1>4. pc' \in [Procs -> Labels] /\ run' \in [Procs -> Runs] /\ TaskOK'
    BY GotoType DEF Labels
  <1> QED
    BY <1>3, <1>4 DEF Typed, TypeOK

LEMMA RequestApprovalTyped ==
    ASSUME Typed, NEW p \in Procs, RequestApproval(p)
    PROVE  Typed'
  <1> USE DEF RequestApproval, loopvars
  <1>1. run[p] \in Runs /\ run[p].task \in Tasks /\ Index(p) \in Nat
    BY IndexType DEF Typed, TypeOK, TaskOK
  <1>2. ASSUME run[p].row \in DOMAIN iters[run[p].task]
        PROVE  [RowOf(p) EXCEPT !.approvals = @ + 1] \in Row
    <2>1. RowOf(p) \in Row
      BY <1>1, <1>2 DEF RowOf, Typed, TypeOK
    <2> QED
      BY <1>1, <2>1 DEF Row
  <1>3. iters' \in [Tasks -> Seq(Row)]
    BY <1>1, <1>2, SetRowType DEF Typed
  <1>4. pc' \in [Procs -> Labels] /\ run' \in [Procs -> Runs] /\ TaskOK'
    BY GotoType DEF Labels
  <1> QED
    BY <1>3, <1>4 DEF Typed, TypeOK

LEMMA RecordReplanTyped ==
    ASSUME Typed, NEW p \in Procs, RecordReplan(p)
    PROVE  Typed'
  <1> USE DEF RecordReplan, loopvars
  <1>1. run[p] \in Runs /\ run[p].task \in Tasks /\ Index(p) \in Nat
    BY IndexType DEF Typed, TypeOK, TaskOK
  <1>2. ASSUME run[p].row \in DOMAIN iters[run[p].task]
        PROVE  [RowOf(p) EXCEPT !.replan = ReplanDue(run[p].decision, run[p].checks)] \in Row
    <2>1. RowOf(p) \in Row
      BY <1>1, <1>2 DEF RowOf, Typed, TypeOK
    <2> QED
      BY <1>1, <2>1 DEF Row, ReplanDue
  <1>3. iters' \in [Tasks -> Seq(Row)]
    BY <1>1, <1>2, SetRowType DEF Typed
  <1>4. pc' \in [Procs -> Labels] /\ run' \in [Procs -> Runs] /\ TaskOK'
    BY GotoType DEF Labels
  <1> QED
    BY <1>3, <1>4 DEF Typed, TypeOK

LEMMA RecordLessonTyped ==
    ASSUME Typed, NEW p \in Procs, RecordLesson(p)
    PROVE  Typed'
  <1> USE DEF RecordLesson, loopvars
  <1>1. run[p] \in Runs /\ run[p].task \in Tasks /\ Index(p) \in Nat
    BY IndexType DEF Typed, TypeOK, TaskOK
  <1>2. ASSUME run[p].row \in DOMAIN iters[run[p].task]
        PROVE  [RowOf(p) EXCEPT !.lessons = RowOf(p).reflections] \in Row
    <2>1. RowOf(p) \in Row
      BY <1>1, <1>2 DEF RowOf, Typed, TypeOK
    <2> QED
      BY <1>1, <2>1 DEF Row
  <1>3. iters' \in [Tasks -> Seq(Row)]
    BY <1>1, <1>2, SetRowType DEF Typed
  <1>4. pc' \in [Procs -> Labels] /\ run' \in [Procs -> Runs] /\ TaskOK'
    BY GotoType DEF Labels
  <1> QED
    BY <1>3, <1>4 DEF Typed, TypeOK

LEMMA RecordReflectionTyped ==
    ASSUME Typed, NEW p \in Procs, RecordReflection(p)
    PROVE  Typed'
  <1> USE DEF RecordReflection, loopvars
  <1>1. run[p] \in Runs /\ run[p].task \in Tasks /\ Index(p) \in Nat
    BY IndexType DEF Typed, TypeOK, TaskOK
  <1>a. PICK k \in ReflectionKinds :
          SetRow(p, [RowOf(p) EXCEPT !.reflections = @ \union {k}])
    BY DEF ReflectionsDue
  <1>2. ASSUME run[p].row \in DOMAIN iters[run[p].task]
        PROVE  [RowOf(p) EXCEPT !.reflections = @ \union {k}] \in Row
    <2>1. RowOf(p) \in Row
      BY <1>1, <1>2 DEF RowOf, Typed, TypeOK
    <2> QED
      BY <1>1, <2>1 DEF Row
  <1>3. iters' \in [Tasks -> Seq(Row)]
    BY <1>1, <1>a, <1>2, SetRowType DEF Typed
  <1>4. pc' \in [Procs -> Labels] /\ run' \in [Procs -> Runs] /\ TaskOK'
    BY GotoType DEF Labels
  <1> QED
    BY <1>3, <1>4 DEF Typed, TypeOK

LEMMA FinishIterationTyped ==
    ASSUME Typed, NEW p \in Procs, FinishIteration(p)
    PROVE  Typed'
  <1> USE DEF FinishIteration, loopvars
  <1>1. run[p] \in Runs /\ run[p].task \in Tasks /\ Index(p) \in Nat
    BY IndexType DEF Typed, TypeOK, TaskOK
  <1>2. {Entry("iteration_finished", Index(p), run[p].row)} \in SUBSET Entries
    BY <1>1, EntryType DEF EventNames, Runs
  <1>3. events' \in [Tasks -> SUBSET Entries]
    BY <1>2, LogType DEF Typed
  <1>4. CASE run[p].decision = "continue"
    <2>a. run[p].attempt + 1 \in Nat \ {0}
      BY <1>1 DEF Runs
    <2>1. [run[p] EXCEPT !.attempt = @ + 1] \in Runs
      BY <1>1, <2>a DEF Runs
    <2>2. pc' \in [Procs -> Labels] /\ run' \in [Procs -> Runs] /\ TaskOK'
      BY <1>1, <2>1, <1>4, MoveType DEF Local, Labels, Runs
    <2> QED
      BY <1>3, <1>4, <2>2 DEF Typed, TypeOK
  <1>5. CASE run[p].decision = "done"
    <2>1. Leave(p, "done", "task_done", Index(p), run[p].row)
      BY <1>5
    <2>2. pc' \in [Procs -> Labels] /\ run' \in [Procs -> Runs] /\ TaskOK'
      BY <1>1, <2>1, LeaveType DEF EventNames, Runs
    <2> QED
      BY <1>3, <1>5, <2>2 DEF Typed, TypeOK
  <1>6. CASE run[p].decision = "blocked"
    <2>1. Leave(p, "blocked", "task_blocked", Index(p), run[p].row)
      BY <1>6
    <2>2. pc' \in [Procs -> Labels] /\ run' \in [Procs -> Runs] /\ TaskOK'
      BY <1>1, <2>1, LeaveType DEF EventNames, Runs
    <2> QED
      BY <1>3, <1>6, <2>2 DEF Typed, TypeOK
  <1> QED
    BY <1>4, <1>5, <1>6

LEMMA WriteStatusTyped ==
    ASSUME Typed, NEW p \in Procs, WriteStatus(p)
    PROVE  Typed'
  <1> USE DEF WriteStatus
  <1>1. run[p] \in Runs /\ run[p].task \in Tasks /\ Index(p) \in Nat
    BY IndexType DEF Typed, TypeOK, TaskOK
  <1>2. run[p].leave.status \in Statuses /\ run[p].leave.event.row \in Nat
    BY <1>1 DEF Runs, Statuses, Entries
  <1>3. status' \in [Tasks -> Statuses]
    BY <1>2 DEF Typed, TypeOK
  <1>4. spent' \in [Tasks -> SUBSET Nat]
    BY <1>2 DEF Typed, TypeOK
  <1>5. pc' \in [Procs -> Labels] /\ run' \in [Procs -> Runs] /\ TaskOK'
    BY GotoType DEF Labels
  <1> QED
    BY <1>3, <1>4, <1>5 DEF Typed, TypeOK

LEMMA CancelTyped ==
    ASSUME Typed, NEW t \in Tasks, Cancel(t)
    PROVE  Typed'
  <1>1. status' \in [Tasks -> Statuses]
    BY DEF Typed, TypeOK, Cancel, Statuses
  <1>2. used' \in Bounds
    BY SpendType DEF Typed, TypeOK, Cancel
  <1> QED
    BY <1>1, <1>2 DEF Typed, TypeOK, TaskOK, Cancel

LEMMA RecoverScanTyped ==
    ASSUME Typed, RecoverScan
    PROVE  Typed'
  <1>1. sweep' \in [Tasks -> {"no", "listed", "blocked"}]
    BY DEF Typed, TypeOK, RecoverScan
  <1>2. used' \in Bounds
    BY SpendType DEF Typed, TypeOK, RecoverScan
  <1> QED
    BY <1>1, <1>2 DEF Typed, TypeOK, TaskOK, RecoverScan

LEMMA RecoverBlockTyped ==
    ASSUME Typed, NEW t \in Tasks, RecoverBlock(t)
    PROVE  Typed'
  <1>1. status' \in [Tasks -> Statuses] /\ sweep' \in [Tasks -> {"no", "listed", "blocked"}]
    BY DEF Typed, TypeOK, RecoverBlock, Statuses
  <1> QED
    BY <1>1 DEF Typed, TypeOK, TaskOK, RecoverBlock

LEMMA RecoverLogTyped ==
    ASSUME Typed, NEW t \in Tasks, RecoverLog(t)
    PROVE  Typed'
  <1>1. {Entry("task_recovered", 0, 0)} \in SUBSET Entries
    BY EntryType DEF EventNames
  <1>2. events' \in [Tasks -> SUBSET Entries]
    BY <1>1, LogType DEF Typed, RecoverLog
  <1>3. sweep' \in [Tasks -> {"no", "listed", "blocked"}]
    BY DEF Typed, TypeOK, RecoverLog
  <1> QED
    BY <1>2, <1>3 DEF Typed, TypeOK, TaskOK, RecoverLog

(* The program counters and locals are well typed in every reachable state. *)
LEMMA InitTyped == Init => Typed
  <1> SUFFICES ASSUME Init PROVE Typed
    OBVIOUS
  <1>1. iters \in [Tasks -> Seq(Row)] /\ run \in [Procs -> Runs]
    BY BlankType DEF Init
  <1>2. used \in Bounds
    BY BoundAssumption DEF Init, Bounds
  <1> QED
    BY <1>1, <1>2 DEF Init, Typed, TypeOK, TaskOK, Statuses, Labels

LEMMA NextTyped == Typed /\ [Next]_vars => Typed'
  <1> SUFFICES ASSUME Typed, [Next]_vars PROVE Typed'
    OBVIOUS
  <1>1. ASSUME NEW p \in Procs, Step(p) PROVE Typed'
    BY <1>1, ResumeCheckTyped, MarkRunningTyped, AnnounceTyped,
       AgentUnavailableTyped, StartSessionTyped, ExhaustedTyped,
       OutOfTimeTyped, CancelledBeforeAgentTyped, CallAgentTyped,
       AgentReturnsTyped, AgentStoppedTyped, ReceiveResultTyped,
       OutOfTimeBeforeVerificationTyped, PrepareVerificationTyped,
       RunCheckTyped, FinishVerificationTyped, DecideIterationTyped,
       RecordIterationTyped, RecordDecisionTyped, RecordCheckTyped,
       RecordActionTyped, RequestApprovalTyped, RecordReplanTyped,
       RecordReflectionTyped, RecordLessonTyped, FinishIterationTyped,
       WriteStatusTyped, LogStatusTyped
       DEF Step
  <1>2. ASSUME NEW p \in Procs, AgentEdit(p) \/ Interrupt(p) \/ Die(p) PROVE Typed'
    BY <1>2, AgentEditTyped, InterruptTyped, DieTyped
  <1>3. ASSUME NEW p \in Procs, NEW t \in Tasks, Start(p, t) \/ Resume(p, t) PROVE Typed'
    BY <1>3, StartTyped, ResumeTyped
  <1>4. ASSUME NEW t \in Tasks, Operator(t) PROVE Typed'
    BY <1>4, CancelTyped, RecoverBlockTyped, RecoverLogTyped DEF Operator
  <1>5. CASE RecoverScan
    BY <1>5, RecoverScanTyped
  <1>6. CASE UNCHANGED vars
    BY <1>6 DEF vars, Typed, TypeOK, TaskOK
  <1> QED
    BY <1>1, <1>2, <1>3, <1>4, <1>5, <1>6 DEF Next

(* Type correctness: every row, event, local variable and counter of the     *)
(* supervisor processes keeps its type through every interleaving, crash and *)
(* operator command.                                                         *)
THEOREM TypeCorrect == Spec => []TypeOK
  <1>1. Spec => []Typed
    BY InitTyped, NextTyped, PTL DEF Spec
  <1> QED
    BY <1>1, PTL DEF Typed
=============================================================================

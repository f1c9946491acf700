-------------------------- MODULE CompletionProofs --------------------------
(***************************************************************************)
(* Proofs that the supervisor completes tasks on accepted iterations only: *)
(* CompletionInv is inductive with the types, a done task has an accepted  *)
(* iteration, and Supervisor implements VerifiedCompletion.  On top of     *)
(* CompletionInv, one part each: no row for a stopped agent, the record a  *)
(* finished iteration has, the budget of agent calls, the repository       *)
(* change, the numbering of rows by one process at a time, and how much a  *)
(* run still has to do.                                                    *)
(***************************************************************************)
EXTENDS SupervisorProofs, FiniteSetTheorems

CInv == Typed /\ CompletionInv

(* Labels at which a process holds evidence or owns a row. *)
Judging == {"prepare", "verify", "decide", "record"} \union Recording

OthersStay(p) == \A q \in Procs \ {p} : pc'[q] = pc[q] /\ run'[q] = run[q]
NewlyDone == {t \in Tasks : status'[t] = "done" /\ status[t] # "done"}

(* A step of p that leaves the rows alone keeps the invariant if p's own     *)
(* part of it holds after the step.                                          *)
LEMMA StepFrame ==
    ASSUME CInv, Typed', NEW p \in Procs, OthersStay(p), UNCHANGED <<iters, spent>>,
           NewlyDone = {}, Evidence(p)', OwnedRow(p)',
           Owns(p)' => /\ Owns(p) /\ run'[p].row = run[p].row
                       /\ run'[p].task = run[p].task
    PROVE  CInv'
  <1> USE DEF CInv
  <1>1. ASSUME NEW q \in Procs, q # p
        PROVE  /\ Evidence(q)' /\ OwnedRow(q)' /\ Owns(q)' = Owns(q)
               /\ run'[q] = run[q]
    <2>1. pc'[q] = pc[q] /\ run'[q] = run[q]
      BY <1>1 DEF OthersStay
    <2>2. Evidence(q) /\ OwnedRow(q)
      BY DEF CompletionInv
    <2>3. Owns(q)' = Owns(q)
      BY <2>1 DEF Owns
    <2>4. Evidence(q)'
      BY <2>1, <2>2, <2>3 DEF Evidence
    <2>5. OwnedRow(q)'
      BY <2>1, <2>2, <2>3 DEF OwnedRow, RowOf, Records
    <2> QED
      BY <2>1, <2>3, <2>4, <2>5
  <1>2. \A q \in Procs : Evidence(q)' /\ OwnedRow(q)'
    BY <1>1
  <1>3. OwnersApart'
    <2> SUFFICES ASSUME NEW q \in Procs, NEW o \in Procs, Owns(q)', Owns(o)', q # o,
                        run'[q].task = run'[o].task
                 PROVE  run'[q].row # run'[o].row
      BY DEF OwnersApart
    <2>1. /\ Owns(q) /\ run'[q].row = run[q].row /\ run'[q].task = run[q].task
          /\ Owns(o) /\ run'[o].row = run[o].row /\ run'[o].task = run[o].task
      BY <1>1
    <2> QED
      BY <2>1 DEF CompletionInv, OwnersApart
  <1>4. \A t \in Tasks : \A r \in spent'[t] : r \in DOMAIN iters'[t] /\ Accepted(iters'[t][r])
    BY DEF CompletionInv
  <1>5. \A t \in Tasks : status'[t] = "done" => spent'[t] # {}
    BY DEF CompletionInv, NewlyDone
  <1> QED
    BY <1>2, <1>3, <1>4, <1>5 DEF CompletionInv

(* ... in particular if it ends outside the labels where p has a part. *)
LEMMA QuietStep ==
    ASSUME CInv, Typed', NEW p \in Procs, NEW l, NEW r, Goto(p, l), Local(p, r),
           UNCHANGED <<iters, spent>>, NewlyDone = {},
           l \notin Judging, l = "exit" => r.leave.status # "done",
           Len(r.checks) <= NumChecks
    PROVE  CInv'
  <1>1. /\ pc'[p] = l /\ run'[p] = r /\ OthersStay(p)
    BY DEF CInv, Typed, TypeOK, Goto, Local, OthersStay
  <1>2. ~Owns(p)'
    BY <1>1 DEF Owns, Judging
  <1>3. Evidence(p)' /\ OwnedRow(p)'
    BY <1>1, <1>2 DEF Evidence, OwnedRow, Judging
  <1> QED
    BY <1>1, <1>2, <1>3, StepFrame

LEMMA BlankChecks == Len(Blank.checks) <= NumChecks
  BY LimitAssumption DEF Blank

LEMMA ReturnKeeps ==
    ASSUME CInv, Typed', NEW p \in Procs, Return(p), UNCHANGED <<iters, spent, status>>
    PROVE  CInv'
  <1>1. "idle" \notin Judging /\ "idle" # "exit"
    BY DEF Judging, Recording
  <1>2. NewlyDone = {}
    BY DEF NewlyDone
  <1> QED
    BY <1>1, <1>2, BlankChecks, QuietStep DEF Return

LEMMA LeaveKeeps ==
    ASSUME CInv, Typed', NEW p \in Procs, NEW st, st # "done", NEW name, NEW i, NEW row,
           Leave(p, st, name, i, row), UNCHANGED <<iters, spent, status>>
    PROVE  CInv'
  <1> DEFINE r == [run[p] EXCEPT !.leave = [status |-> st, event |-> Entry(name, i, row)]]
  <1>1. run[p] \in Runs
    BY DEF CInv, Typed, TypeOK
  <1>2. r.leave.status # "done" /\ r.checks = run[p].checks
    BY <1>1 DEF Runs
  <1>3. Len(r.checks) <= NumChecks
    BY <1>2 DEF CInv, CompletionInv, Evidence
  <1>4. "exit" \notin Judging
    BY DEF Judging, Recording
  <1>5. NewlyDone = {}
    BY DEF NewlyDone
  <1> HIDE DEF r
  <1>6. Local(p, r) /\ Goto(p, "exit")
    BY DEF Leave, r
  <1> QED
    BY <1>2, <1>3, <1>4, <1>5, <1>6, QuietStep

(* A step to a label where p has no part, which touches neither its checks. *)
LEMMA MoveKeeps ==
    ASSUME CInv, Typed', NEW p \in Procs, NEW l, NEW r, Goto(p, l), Local(p, r),
           UNCHANGED <<iters, spent>>, \A t \in Tasks : status'[t] = "done" => status[t] = "done",
           l \notin Judging \union {"exit"}, r.checks = << >> \/ r.checks = run[p].checks
    PROVE  CInv'
  <1>1. Len(r.checks) <= NumChecks
    BY LimitAssumption DEF CInv, CompletionInv, Evidence
  <1>2. NewlyDone = {}
    BY DEF NewlyDone
  <1> QED
    BY <1>1, <1>2, QuietStep

LEMMA GotoKeeps ==
    ASSUME CInv, Typed', NEW p \in Procs, NEW l, Goto(p, l), UNCHANGED run,
           UNCHANGED <<iters, spent>>, \A t \in Tasks : status'[t] = "done" => status[t] = "done",
           l \notin Judging \union {"exit"}
    PROVE  CInv'
  <1>1. Local(p, run[p])
    BY DEF Local, CInv, Typed, TypeOK
  <1> QED
    BY <1>1, MoveKeeps

-----------------------------------------------------------------------------
(* The actions that leave the rows alone and end where p has no part. *)

LEMMA CallAgentKeeps ==
    ASSUME CInv, Typed', NEW p \in Procs, CallAgent(p)
    PROVE  CInv'
  BY GotoKeeps DEF CallAgent, loopvars, Judging, Recording

LEMMA AnnounceKeeps ==
    ASSUME CInv, Typed', NEW p \in Procs, Announce(p)
    PROVE  CInv'
  BY GotoKeeps DEF Announce, loopvars, Judging, Recording

LEMMA MarkRunningKeeps ==
    ASSUME CInv, Typed', NEW p \in Procs, MarkRunning(p)
    PROVE  CInv'
  <1>1. \A t \in Tasks : status'[t] = "done" => status[t] = "done"
    BY DEF MarkRunning, CInv, Typed, TypeOK
  <1> QED
    BY <1>1, GotoKeeps DEF MarkRunning, loopvars, Judging, Recording

LEMMA CancelledBeforeAgentKeeps ==
    ASSUME CInv, Typed', NEW p \in Procs, CancelledBeforeAgent(p)
    PROVE  CInv'
  BY ReturnKeeps DEF CancelledBeforeAgent, loopvars

LEMMA LogStatusKeeps ==
    ASSUME CInv, Typed', NEW p \in Procs, LogStatus(p)
    PROVE  CInv'
  BY ReturnKeeps DEF LogStatus, loopvars

LEMMA InterruptKeeps ==
    ASSUME CInv, Typed', NEW p \in Procs, Interrupt(p)
    PROVE  CInv'
  BY ReturnKeeps DEF Interrupt, loopvars

LEMMA DieKeeps ==
    ASSUME CInv, Typed', NEW p \in Procs, Die(p)
    PROVE  CInv'
  BY ReturnKeeps DEF Die, loopvars

LEMMA ExhaustedKeeps ==
    ASSUME CInv, Typed', NEW p \in Procs, Exhausted(p)
    PROVE  CInv'
  BY LeaveKeeps DEF Exhausted, loopvars

LEMMA OutOfTimeKeeps ==
    ASSUME CInv, Typed', NEW p \in Procs, OutOfTime(p)
    PROVE  CInv'
  BY LeaveKeeps DEF OutOfTime, loopvars

LEMMA OutOfTimeBeforeVerificationKeeps ==
    ASSUME CInv, Typed', NEW p \in Procs, OutOfTimeBeforeVerification(p)
    PROVE  CInv'
  BY LeaveKeeps DEF OutOfTimeBeforeVerification, loopvars

LEMMA ResumeCheckKeeps ==
    ASSUME CInv, Typed', NEW p \in Procs, ResumeCheck(p)
    PROVE  CInv'
  <1>1. CASE Return(p)
    BY <1>1, ReturnKeeps DEF ResumeCheck, loopvars
  <1>2. CASE Goto(p, "mark") /\ UNCHANGED run
    BY <1>2, GotoKeeps DEF ResumeCheck, loopvars, Judging, Recording
  <1> QED
    BY <1>1, <1>2 DEF ResumeCheck

LEMMA StartSessionKeeps ==
    ASSUME CInv, Typed', NEW p \in Procs, StartSession(p)
    PROVE  CInv'
  <1>1. run[p] \in Runs
    BY DEF CInv, Typed, TypeOK
  <1>2. PICK snap : Local(p, [run[p] EXCEPT !.base = snap, !.origin = tree.version,
                                        !.seen = tree.version])
    BY DEF StartSession
  <1> DEFINE r == [run[p] EXCEPT !.base = snap, !.origin = tree.version,
                                !.seen = tree.version]
  <1>3. r.checks = run[p].checks
    BY <1>1 DEF Runs
  <1>4. Local(p, r)
    BY <1>2
  <1> HIDE DEF r
  <1> QED
    BY <1>3, <1>4, MoveKeeps DEF StartSession, loopvars, Judging, Recording

LEMMA AgentReturnsKeeps ==
    ASSUME CInv, Typed', NEW p \in Procs, AgentReturns(p)
    PROVE  CInv'
  <1>1. run[p] \in Runs
    BY DEF CInv, Typed, TypeOK
  <1>2. PICK st, files : Local(p, [run[p] EXCEPT !.agent = st, !.files = files])
    BY DEF AgentReturns
  <1> DEFINE r == [run[p] EXCEPT !.agent = st, !.files = files]
  <1>3. r.checks = run[p].checks
    BY <1>1 DEF Runs
  <1>4. Local(p, r)
    BY <1>2
  <1> HIDE DEF r
  <1> QED
    BY <1>3, <1>4, MoveKeeps DEF AgentReturns, loopvars, Judging, Recording

LEMMA AgentStoppedKeeps ==
    ASSUME CInv, Typed', NEW p \in Procs, AgentStopped(p)
    PROVE  CInv'
  <1>1. run[p] \in Runs
    BY DEF CInv, Typed, TypeOK
  <1>2. Local(p, [run[p] EXCEPT !.agent = "cancelled", !.files = {}])
    BY DEF AgentStopped
  <1> DEFINE r == [run[p] EXCEPT !.agent = "cancelled", !.files = {}]
  <1>3. r.checks = run[p].checks
    BY <1>1 DEF Runs
  <1>4. Local(p, r)
    BY <1>2
  <1> HIDE DEF r
  <1> QED
    BY <1>3, <1>4, MoveKeeps DEF AgentStopped, loopvars, Judging, Recording

LEMMA StartKeeps ==
    ASSUME CInv, Typed', NEW p \in Procs, NEW t \in Tasks, Start(p, t)
    PROVE  CInv'
  <1>2. PICK limit \in Limits :
          Local(p, [Blank EXCEPT !.task = t, !.fresh = TRUE, !.limit = limit])
    BY DEF Start
  <1> DEFINE r == [Blank EXCEPT !.task = t, !.fresh = TRUE, !.limit = limit]
  <1>1. r.checks = << >>
    BY DEF Blank
  <1>4. Local(p, r)
    BY <1>2
  <1> HIDE DEF r
  <1>3. \A u \in Tasks : status'[u] = "done" => status[u] = "done"
    BY DEF Start, CInv, Typed, TypeOK
  <1> QED
    BY <1>1, <1>3, <1>4, MoveKeeps DEF Start, Judging, Recording

LEMMA ResumeKeeps ==
    ASSUME CInv, Typed', NEW p \in Procs, NEW t \in Tasks, Resume(p, t)
    PROVE  CInv'
  <1>2. PICK limit \in Limits :
          Local(p, [Blank EXCEPT !.task = t, !.start = Len(iters[t]) + 1, !.limit = limit])
    BY DEF Resume
  <1> DEFINE r == [Blank EXCEPT !.task = t, !.start = Len(iters[t]) + 1, !.limit = limit]
  <1>1. r.checks = << >>
    BY DEF Blank
  <1>4. Local(p, r)
    BY <1>2
  <1> HIDE DEF r
  <1>3. \A u \in Tasks : status'[u] = "done" => status[u] = "done"
    BY DEF Resume, CInv, Typed, TypeOK
  <1> QED
    BY <1>1, <1>3, <1>4, MoveKeeps DEF Resume, Judging, Recording

-----------------------------------------------------------------------------
(* The actions that gather the evidence and reach the verdict. *)
LEMMA JudgeStep ==
    ASSUME CInv, Typed', NEW p \in Procs, NEW l, NEW r, Goto(p, l), Local(p, r),
           UNCHANGED <<iters, spent, status>>,
           l \in {"prepare", "verify", "decide", "record"},
           Len(r.checks) <= NumChecks,
           l \in {"prepare", "verify"} => r.agent = "success",
           l = "decide" => /\ r.agent # "cancelled"
                           /\ r.agent = "success" => Len(r.checks) = NumChecks,
           l = "record" => /\ r.agent # "cancelled"
                           /\ r.decision = "done" => Accepted(r)
    PROVE  CInv'
  <1>1. /\ pc'[p] = l /\ run'[p] = r /\ OthersStay(p)
    BY DEF CInv, Typed, TypeOK, Goto, Local, OthersStay
  <1>2. ~Owns(p)'
    BY <1>1 DEF Owns, Recording
  <1>3. Evidence(p)'
    BY <1>1, <1>2 DEF Evidence
  <1>4. OwnedRow(p)'
    BY <1>2 DEF OwnedRow
  <1>5. NewlyDone = {}
    BY DEF NewlyDone
  <1> QED
    BY <1>1, <1>2, <1>3, <1>4, <1>5, StepFrame

LEMMA ReceiveResultKeeps ==
    ASSUME CInv, Typed', NEW p \in Procs, ReceiveResult(p)
    PROVE  CInv'
  <1>1. CASE Leave(p, "cancelled", "cancelled_after_agent", Index(p), 0)
    BY <1>1, LeaveKeeps DEF ReceiveResult, loopvars
  <1>2. CASE /\ run[p].agent # "cancelled"
             /\ Goto(p, IF run[p].agent = "success" THEN "prepare" ELSE "decide")
             /\ Local(p, [run[p] EXCEPT !.checks = << >>])
    <2> DEFINE r == [run[p] EXCEPT !.checks = << >>]
               l == IF run[p].agent = "success" THEN "prepare" ELSE "decide"
    <2>1. r.checks = << >> /\ r.agent = run[p].agent
      BY DEF CInv, Typed, TypeOK, Runs
    <2>2. Len(r.checks) <= NumChecks
      BY <2>1, LimitAssumption
    <2>3. /\ l \in {"prepare", "decide"} /\ r.agent # "cancelled"
          /\ l = "decide" <=> r.agent # "success"
      BY <1>2, <2>1
    <2>4. Goto(p, l) /\ Local(p, r)
      BY <1>2
    <2> HIDE DEF l, r
    <2> QED
      BY <2>2, <2>3, <2>4, JudgeStep DEF ReceiveResult, loopvars
  <1> QED
    BY <1>1, <1>2 DEF ReceiveResult

LEMMA PrepareVerificationKeeps ==
    ASSUME CInv, Typed', NEW p \in Procs, PrepareVerification(p)
    PROVE  CInv'
  <1>1. CASE Return(p)
    BY <1>1, ReturnKeeps DEF PrepareVerification, loopvars
  <1>2. CASE Goto(p, "verify") /\ UNCHANGED run
    <2>1. run[p].agent = "success" /\ Len(run[p].checks) <= NumChecks
      BY DEF CInv, CompletionInv, Evidence, PrepareVerification
    <2>2. Local(p, run[p])
      BY <1>2 DEF Local, CInv, Typed, TypeOK
    <2> QED
      BY <1>2, <2>1, <2>2, JudgeStep DEF PrepareVerification, loopvars
  <1> QED
    BY <1>1, <1>2 DEF PrepareVerification

LEMMA RunCheckKeeps ==
    ASSUME CInv, Typed', NEW p \in Procs, RunCheck(p)
    PROVE  CInv'
  <1>1. PICK st \in CheckStatuses : Local(p, [run[p] EXCEPT !.checks = Append(@, st)])
    BY DEF RunCheck
  <1> DEFINE r == [run[p] EXCEPT !.checks = Append(@, st)]
  <1>2. run[p] \in Runs /\ run[p].checks \in Seq(CheckStatuses)
    BY DEF CInv, Typed, TypeOK, Runs
  <1>3. r.checks = Append(run[p].checks, st) /\ r.agent = run[p].agent
    BY <1>2 DEF Runs
  <1>4. Len(r.checks) = Len(run[p].checks) + 1 /\ Len(run[p].checks) \in Nat
    BY <1>2, <1>3
  <1>5. Len(r.checks) <= NumChecks
    BY <1>4, LimitAssumption DEF RunCheck
  <1>6. r.agent = "success"
    BY <1>3 DEF CInv, CompletionInv, Evidence, RunCheck
  <1>7. Goto(p, "verify")
    BY DEF RunCheck, Goto, CInv, Typed, TypeOK
  <1> HIDE DEF r
  <1>8. Local(p, r)
    BY <1>1 DEF r
  <1> QED
    BY <1>5, <1>6, <1>7, <1>8, JudgeStep DEF RunCheck, loopvars

LEMMA FinishVerificationKeeps ==
    ASSUME CInv, Typed', NEW p \in Procs, FinishVerification(p)
    PROVE  CInv'
  <1>1. run[p].agent = "success" /\ Len(run[p].checks) = NumChecks
    BY DEF CInv, CompletionInv, Evidence, FinishVerification
  <1>2. Local(p, run[p]) /\ Len(run[p].checks) <= NumChecks
    BY <1>1, LimitAssumption DEF Local, CInv, Typed, TypeOK, FinishVerification
  <1> QED
    BY <1>1, <1>2, JudgeStep DEF FinishVerification, loopvars

(* The verdict is done only on the evidence that Accepted asks for. *)
LEMMA DecidedAccepted ==
    ASSUME CInv, NEW p \in Procs, pc[p] = "decide", NEW snap \in snapshot
    PROVE  LET r == Decided(p, snap)
           IN  /\ r.checks = run[p].checks /\ r.agent = run[p].agent
               /\ r.decision = "done" => Accepted(r)
  <1> DEFINE r == Decided(p, snap)
             verdict == Decide(run[p].agent, run[p].checks, run[p].attempt, run[p].limit)
  <1>1. /\ r.checks = run[p].checks /\ r.agent = run[p].agent
        /\ r.decision = verdict \/ r.decision = "blocked"
    BY DEF Decided, CInv, Typed, TypeOK, Runs
  <1>2. verdict = "done" => /\ run[p].agent = "success" /\ run[p].checks # << >>
                            /\ AllPassed(run[p].checks)
    BY DEF Decide
  <1>3. run[p].agent = "success" => Len(run[p].checks) = NumChecks
    BY DEF CInv, CompletionInv, Evidence
  <1> QED
    BY <1>1, <1>2, <1>3 DEF Accepted

LEMMA DecideIterationKeeps ==
    ASSUME CInv, Typed', NEW p \in Procs, DecideIteration(p)
    PROVE  CInv'
  <1>1. PICK snap \in snapshot : Local(p, Decided(p, snap))
    BY DEF DecideIteration
  <1>2. pc[p] = "decide" /\ Goto(p, "record") /\ UNCHANGED <<iters, spent, status>>
    BY DEF DecideIteration, loopvars
  <1>3. Len(run[p].checks) <= NumChecks /\ run[p].agent # "cancelled"
    BY <1>2 DEF CInv, CompletionInv, Evidence
  <1> DEFINE r == Decided(p, snap)
  <1>4. /\ r.checks = run[p].checks /\ r.agent = run[p].agent
        /\ r.decision = "done" => Accepted(r)
    BY <1>2, DecidedAccepted
  <1>5. Local(p, r)
    BY <1>1
  <1> HIDE DEF r
  <1> QED
    BY <1>2, <1>3, <1>4, <1>5, JudgeStep

(* The owner moves on without touching its row. *)
LEMMA RecordDecisionKeeps ==
    ASSUME CInv, Typed', NEW p \in Procs, RecordDecision(p)
    PROVE  CInv'
  <1>1. CASE Leave(p, "blocked", "task_blocked", Index(p), run[p].row)
    BY <1>1, LeaveKeeps DEF RecordDecision, loopvars
  <1>2. CASE Goto(p, "checks") /\ UNCHANGED run
    <2>1. /\ pc[p] = "decided" /\ UNCHANGED <<iters, spent, status, run>>
          /\ pc'[p] = "checks" /\ OthersStay(p) /\ NewlyDone = {}
      BY <1>2 DEF CInv, Typed, TypeOK, Goto, OthersStay, NewlyDone, RecordDecision, loopvars
    <2>2. Owns(p) /\ Owns(p)'
      BY <2>1 DEF Owns, Recording
    <2>3. Evidence(p) /\ OwnedRow(p)
      BY DEF CInv, CompletionInv
    <2>4. Evidence(p)'
      BY <2>1, <2>2, <2>3 DEF Evidence
    <2>5. OwnedRow(p)'
      BY <2>1, <2>2, <2>3 DEF OwnedRow, RowOf, Records
    <2> QED
      BY <2>1, <2>2, <2>4, <2>5, StepFrame
  <1> QED
    BY <1>1, <1>2 DEF RecordDecision

LEMMA FinishIterationKeeps ==
    ASSUME CInv, Typed', NEW p \in Procs, FinishIteration(p)
    PROVE  CInv'
  <1>1. CASE Leave(p, "blocked", "task_blocked", Index(p), run[p].row)
    BY <1>1, LeaveKeeps DEF FinishIteration, loopvars
  <1>2. CASE Local(p, [run[p] EXCEPT !.attempt = @ + 1]) /\ Goto(p, "gate")
    <2> DEFINE r == [run[p] EXCEPT !.attempt = @ + 1]
    <2>1. r.checks = run[p].checks
      BY DEF CInv, Typed, TypeOK, Runs
    <2> HIDE DEF r
    <2>2. Local(p, r)
      BY <1>2 DEF r
    <2> QED
      BY <1>2, <2>1, <2>2, MoveKeeps DEF FinishIteration, loopvars, Judging, Recording
  <1>3. CASE run[p].decision = "done" /\ Leave(p, "done", "task_done", Index(p), run[p].row)
    <2>1. /\ pc[p] = "reflect" /\ UNCHANGED <<iters, spent, status>>
          /\ pc'[p] = "exit" /\ OthersStay(p) /\ NewlyDone = {}
      BY <1>3 DEF CInv, Typed, TypeOK, Leave, Local, Goto, OthersStay, NewlyDone,
                  FinishIteration, loopvars
    <2>2. run'[p] = [run[p] EXCEPT !.leave =
                       [status |-> "done", event |-> Entry("task_done", Index(p), run[p].row)]]
      BY <1>3 DEF CInv, Typed, TypeOK, Leave, Local
    <2>3. /\ run'[p].leave.status = "done" /\ run'[p].leave.event.row = run[p].row
          /\ run'[p].task = run[p].task /\ run'[p].row = run[p].row
          /\ run'[p].checks = run[p].checks /\ run'[p].agent = run[p].agent
          /\ run'[p].decision = run[p].decision
      BY <2>2 DEF CInv, Typed, TypeOK, Runs, Entry
    <2>4. Owns(p) /\ Owns(p)'
      BY <2>1, <2>3 DEF Owns, Recording
    <2>5. Evidence(p) /\ OwnedRow(p)
      BY DEF CInv, CompletionInv
    <2>6. Evidence(p)'
      BY <2>1, <2>3, <2>4, <2>5 DEF Evidence, Accepted
    <2>7. OwnedRow(p)'
      BY <1>3, <2>1, <2>3, <2>4, <2>5 DEF OwnedRow, RowOf, Records
    <2> QED
      BY <2>1, <2>3, <2>4, <2>6, <2>7, StepFrame
  <1> QED
    BY <1>1, <1>2, <1>3 DEF FinishIteration

-----------------------------------------------------------------------------
(* The actions that add a row: the row is new, so nobody else owns it and *)
(* nothing was completed on it.                                           *)
LEMMA AppendRowKeeps ==
    ASSUME CInv, Typed', NEW p \in Procs, NEW row \in Row, NEW r,
           run[p].task \in Tasks, Goto(p, "decided"), Local(p, r),
           iters' = [iters EXCEPT ![run[p].task] = Append(@, row)],
           UNCHANGED <<spent, status>>,
           r.task = run[p].task, r.row = Len(iters[run[p].task]) + 1,
           Len(r.checks) <= NumChecks, Len(r.checks) \in Nat,
           row.checks = << >>, row.decision = r.decision,
           r.decision = "done" => row.agent = "success" /\ Accepted(r)
    PROVE  CInv'
  <1> DEFINE t == run[p].task
  <1>1. /\ iters[t] \in Seq(Row) /\ iters'[t] = Append(iters[t], row)
        /\ \A u \in Tasks : u # t => iters'[u] = iters[u]
    BY DEF CInv, Typed, TypeOK
  <1>2. /\ Len(iters[t]) \in Nat /\ DOMAIN iters[t] = 1..Len(iters[t])
        /\ DOMAIN iters'[t] = 1..(Len(iters[t]) + 1)
        /\ iters'[t][Len(iters[t]) + 1] = row
        /\ \A i \in DOMAIN iters[t] : iters'[t][i] = iters[t][i]
    BY <1>1
  <1>3. \A u \in Tasks : \A i \in DOMAIN iters[u] :
          i \in DOMAIN iters'[u] /\ iters'[u][i] = iters[u][i]
    BY <1>1, <1>2
  <1>4. pc'[p] = "decided" /\ run'[p] = r /\ OthersStay(p)
    BY DEF CInv, Typed, TypeOK, Goto, Local, OthersStay
  <1>5. \A u \in Tasks : \A i \in spent[u] : i \in DOMAIN iters[u] /\ Accepted(iters[u][i])
    BY DEF CInv, CompletionInv
  <1>6. Len(iters[t]) + 1 \notin DOMAIN iters[t]
    BY <1>2
  <1>7. Evidence(p)'
    BY <1>4 DEF Evidence
  <1>8. OwnedRow(p)'
    <2>1. r.row \in DOMAIN iters'[t] \ spent'[t]
      BY <1>2, <1>5, <1>6
    <2>2. Len(row.checks) = 0
      OBVIOUS
    <2>3. Records(p, RowOf(p))'
      BY <1>2, <1>4, <2>2 DEF Records, RowOf
    <2> QED
      BY <1>4, <2>1, <2>3 DEF OwnedRow
  <1>9. ASSUME NEW q \in Procs, q # p
        PROVE  /\ Evidence(q)' /\ OwnedRow(q)' /\ Owns(q)' = Owns(q) /\ run'[q] = run[q]
               /\ Owns(q) => run[q].row \in DOMAIN iters[run[q].task] /\ run[q].task \in Tasks
    <2>1. pc'[q] = pc[q] /\ run'[q] = run[q]
      BY <1>4, <1>9 DEF OthersStay
    <2>2. Evidence(q) /\ OwnedRow(q)
      BY DEF CInv, CompletionInv
    <2>3. Owns(q)' = Owns(q)
      BY <2>1 DEF Owns
    <2>4. Evidence(q)'
      BY <2>1, <2>2, <2>3 DEF Evidence
    <2>5. Owns(q) => run[q].row \in DOMAIN iters[run[q].task] /\ run[q].task \in Tasks
      BY <2>2 DEF OwnedRow, CInv, Typed, TaskOK, Owns, Recording
    <2>6. OwnedRow(q)'
      <3> SUFFICES ASSUME Owns(q)
                   PROVE  /\ run'[q].row \in DOMAIN iters'[run'[q].task] \ spent'[run'[q].task]
                          /\ Records(q, RowOf(q))'
        BY <2>3 DEF OwnedRow
      <3>1. /\ run[q].row \in DOMAIN iters'[run[q].task]
            /\ iters'[run[q].task][run[q].row] = iters[run[q].task][run[q].row]
        BY <1>3, <2>5
      <3>2. run[q].row \notin spent[run[q].task] /\ Records(q, RowOf(q))
        BY <2>2 DEF OwnedRow
      <3>3. RowOf(q)' = RowOf(q)
        BY <2>1, <3>1 DEF RowOf
      <3>4. Records(q, RowOf(q))'
        BY <2>1, <3>2, <3>3 DEF Records
      <3> QED
        BY <2>1, <3>1, <3>2, <3>4
    <2> QED
      BY <2>1, <2>3, <2>4, <2>5, <2>6
  <1>10. \A q \in Procs : Evidence(q)' /\ OwnedRow(q)'
    BY <1>7, <1>8, <1>9
  <1>11. OwnersApart'
    <2> SUFFICES ASSUME NEW q \in Procs, NEW o \in Procs, Owns(q)', Owns(o)', q # o,
                        run'[q].task = run'[o].task
                 PROVE  run'[q].row # run'[o].row
      BY DEF OwnersApart
    <2>1. CASE q # p /\ o # p
      BY <2>1, <1>9 DEF CInv, CompletionInv, OwnersApart
    <2>2. CASE q = p
      BY <2>2, <1>4, <1>6, <1>9
    <2>3. CASE o = p
      BY <2>3, <1>4, <1>6, <1>9
    <2> QED
      BY <2>1, <2>2, <2>3
  <1>12. \A u \in Tasks : \A i \in spent'[u] : i \in DOMAIN iters'[u] /\ Accepted(iters'[u][i])
    BY <1>3, <1>5
  <1>13. \A u \in Tasks : status'[u] = "done" => spent'[u] # {}
    BY DEF CInv, CompletionInv
  <1> QED
    BY <1>10, <1>11, <1>12, <1>13 DEF CInv, CompletionInv

LEMMA ChecksCounted ==
    ASSUME TypeOK, NEW p \in Procs
    PROVE  Len(run[p].checks) \in Nat
  <1>1. run[p].checks \in Seq(CheckStatuses)
    BY DEF TypeOK, Runs
  <1> QED
    BY <1>1

LEMMA RecordIterationKeeps ==
    ASSUME CInv, Typed', NEW p \in Procs, RecordIteration(p)
    PROVE  CInv'
  <1> DEFINE t == run[p].task
             r == [run[p] EXCEPT !.row = Len(iters[t]) + 1]
  <1>1. run[p] \in Runs /\ t \in Tasks /\ Len(run[p].checks) \in Nat
    BY ChecksCounted DEF CInv, Typed, TypeOK, TaskOK, RecordIteration
  <1>2. /\ r.task = t /\ r.row = Len(iters[t]) + 1 /\ r.checks = run[p].checks
        /\ r.agent = run[p].agent /\ r.decision = run[p].decision
    BY <1>1 DEF Runs
  <1>3. /\ Len(run[p].checks) <= NumChecks
        /\ run[p].decision = "done" => Accepted(run[p])
    BY DEF CInv, CompletionInv, Evidence, RecordIteration
  <1>4. /\ NewRow(p) \in Row /\ NewRow(p).checks = << >>
        /\ NewRow(p).decision = run[p].decision /\ NewRow(p).agent = run[p].agent
    BY NewRowType DEF NewRow, CInv, Typed
  <1>5. r.decision = "done" => NewRow(p).agent = "success" /\ Accepted(r)
    BY <1>2, <1>3, <1>4 DEF Accepted
  <1>6. Local(p, r)
    BY DEF RecordIteration
  <1> HIDE DEF r
  <1> QED
    BY <1>1, <1>2, <1>3, <1>4, <1>5, <1>6, AppendRowKeeps DEF RecordIteration, loopvars

LEMMA AgentUnavailableKeeps ==
    ASSUME CInv, Typed', NEW p \in Procs, AgentUnavailable(p)
    PROVE  CInv'
  <1> DEFINE t == run[p].task
             row == [NewRow(p) EXCEPT !.agent = "unavailable", !.decision = "blocked",
                                      !.reason = "unavailable", !.touched = FALSE]
             r == [run[p] EXCEPT !.decision = "blocked", !.reason = "unavailable",
                                 !.row = Len(iters[t]) + 1]
  <1>1. run[p] \in Runs /\ t \in Tasks /\ Len(run[p].checks) \in Nat
    BY ChecksCounted DEF CInv, Typed, TypeOK, TaskOK, AgentUnavailable
  <1>2. /\ r.task = t /\ r.row = Len(iters[t]) + 1 /\ r.checks = run[p].checks
        /\ r.decision = "blocked"
    BY <1>1 DEF Runs
  <1>3. Len(run[p].checks) <= NumChecks
    BY DEF CInv, CompletionInv, Evidence
  <1>4. NewRow(p) \in Row
    BY NewRowType DEF CInv, Typed
  <1>5. row.checks = << >> /\ row.decision = "blocked"
    BY DEF NewRow
  <1>6. row \in Row
    BY <1>4 DEF Row, Verdicts, Reasons
  <1>7. /\ Local(p, r) /\ iters' = [iters EXCEPT ![t] = Append(@, row)]
        /\ Goto(p, "decided") /\ UNCHANGED <<spent, status>>
    BY DEF AgentUnavailable, loopvars
  <1> HIDE DEF r, row
  <1> QED
    BY <1>1, <1>2, <1>3, <1>5, <1>6, <1>7, AppendRowKeeps
-----------------------------------------------------------------------------
(* The actions that write to a row: only its owner does, nothing has been   *)
(* completed on it, and what they write agrees with the owner's locals.     *)
LEMMA RewriteRowKeeps ==
    ASSUME CInv, Typed', NEW p \in Procs, NEW row, NEW l \in Recording,
           pc[p] \in Recording, Goto(p, l), SetRow(p, row),
           UNCHANGED <<run, spent, status>>,
           row.decision = RowOf(p).decision, row.agent = RowOf(p).agent,
           Len(row.checks) <= Len(run[p].checks),
           \A i \in 1..Len(row.checks) : row.checks[i] = run[p].checks[i],
           l \in {"reflect", "lesson"} => Len(row.checks) = Len(run[p].checks)
    PROVE  CInv'
  <1> DEFINE t == run[p].task
  <1>1. Owns(p) /\ Owns(p)' /\ t \in Tasks /\ pc'[p] = l /\ OthersStay(p) /\ l # "exit"
    BY DEF Owns, CInv, Typed, TypeOK, TaskOK, Goto, OthersStay, Recording
  <1>2. Evidence(p) /\ OwnedRow(p)
    BY DEF CInv, CompletionInv
  <1>3. run[p].row \in DOMAIN iters[t] \ spent[t] /\ Records(p, RowOf(p))
    BY <1>1, <1>2 DEF OwnedRow
  <1>4. /\ iters[t] \in Seq(Row) /\ iters'[t] = [iters[t] EXCEPT ![run[p].row] = row]
        /\ \A u \in Tasks : u # t => iters'[u] = iters[u]
    BY <1>1 DEF CInv, Typed, TypeOK, SetRow
  <1>5. /\ \A u \in Tasks : DOMAIN iters'[u] = DOMAIN iters[u]
        /\ \A u \in Tasks : \A i \in DOMAIN iters[u] :
             u # t \/ i # run[p].row => iters'[u][i] = iters[u][i]
        /\ iters'[t][run[p].row] = row
    BY <1>3, <1>4
  <1>6. Evidence(p)'
    BY <1>1, <1>2 DEF Evidence, Recording
  <1>7. OwnedRow(p)'
    <2>1. RowOf(p)' = row
      BY <1>5 DEF RowOf
    <2>2. Records(p, RowOf(p))'
      BY <1>1, <1>3, <2>1 DEF Records
    <2> QED
      BY <1>1, <1>3, <1>5, <2>2 DEF OwnedRow
  <1>8. ASSUME NEW q \in Procs, q # p
        PROVE  Evidence(q)' /\ OwnedRow(q)' /\ Owns(q)' = Owns(q)
    <2>1. pc'[q] = pc[q] /\ run'[q] = run[q]
      BY <1>1, <1>8 DEF OthersStay
    <2>2. Evidence(q) /\ OwnedRow(q)
      BY DEF CInv, CompletionInv
    <2>3. Owns(q)' = Owns(q)
      BY <2>1 DEF Owns
    <2>4. Evidence(q)'
      BY <2>1, <2>2, <2>3 DEF Evidence
    <2>5. OwnedRow(q)'
      <3> SUFFICES ASSUME Owns(q)
                   PROVE  /\ run'[q].row \in DOMAIN iters'[run'[q].task] \ spent'[run'[q].task]
                          /\ Records(q, RowOf(q))'
        BY <2>3 DEF OwnedRow
      <3>1. run[q].task \in Tasks
        BY DEF CInv, Typed, TaskOK, Owns, Recording
      <3>2. run[q].task # t \/ run[q].row # run[p].row
        BY <1>1, <1>8 DEF CInv, CompletionInv, OwnersApart
      <3>3. /\ run[q].row \in DOMAIN iters[run[q].task] \ spent[run[q].task]
            /\ Records(q, RowOf(q))
        BY <2>2 DEF OwnedRow
      <3>4. RowOf(q)' = RowOf(q)
        BY <1>5, <2>1, <3>1, <3>2, <3>3 DEF RowOf
      <3>5. Records(q, RowOf(q))'
        BY <2>1, <3>3, <3>4 DEF Records
      <3> QED
        BY <1>5, <2>1, <3>1, <3>3, <3>5
    <2> QED
      BY <2>3, <2>4, <2>5
  <1>9. \A q \in Procs : Evidence(q)' /\ OwnedRow(q)' /\ (Owns(q)' => Owns(q))
    BY <1>1, <1>6, <1>7, <1>8
  <1>10. OwnersApart'
    BY <1>9 DEF CInv, CompletionInv, OwnersApart
  <1>11. \A u \in Tasks : \A i \in spent[u] :
           /\ i \in DOMAIN iters[u] /\ Accepted(iters[u][i])
           /\ u # t \/ i # run[p].row
    BY <1>3 DEF CInv, CompletionInv
  <1>12. \A u \in Tasks : \A i \in spent'[u] : i \in DOMAIN iters'[u] /\ Accepted(iters'[u][i])
    BY <1>5, <1>11
  <1>13. \A u \in Tasks : status'[u] = "done" => spent'[u] # {}
    BY DEF CInv, CompletionInv
  <1> QED
    BY <1>9, <1>10, <1>12, <1>13 DEF CInv, CompletionInv

(* The row a recording process works on, and what it may rely on about it. *)
LEMMA OwnRow ==
    ASSUME CInv, NEW p \in Procs, pc[p] \in Recording
    PROVE  /\ RowOf(p) \in Row /\ RowOf(p).checks \in Seq(CheckStatuses)
           /\ run[p].checks \in Seq(CheckStatuses)
           /\ Len(RowOf(p).checks) <= Len(run[p].checks)
           /\ \A i \in 1..Len(RowOf(p).checks) : RowOf(p).checks[i] = run[p].checks[i]
           /\ pc[p] \in {"reflect", "lesson"} => Len(RowOf(p).checks) = Len(run[p].checks)
  <1>1. Owns(p) /\ OwnedRow(p) /\ run[p].task \in Tasks
    BY DEF Owns, CInv, CompletionInv, Typed, TaskOK, Recording
  <1>2. run[p].row \in DOMAIN iters[run[p].task] /\ Records(p, RowOf(p))
    BY <1>1 DEF OwnedRow
  <1>3. iters[run[p].task] \in Seq(Row)
    BY <1>1 DEF CInv, Typed, TypeOK
  <1>4. RowOf(p) \in Row
    BY <1>2, <1>3 DEF RowOf
  <1>5. RowOf(p).checks \in Seq(CheckStatuses) /\ run[p].checks \in Seq(CheckStatuses)
    BY <1>4 DEF Row, CInv, Typed, TypeOK, Runs
  <1> QED
    BY <1>2, <1>4, <1>5 DEF Records

LEMMA RecordCheckKeeps ==
    ASSUME CInv, Typed', NEW p \in Procs, RecordCheck(p)
    PROVE  CInv'
  <1> DEFINE n == Len(RowOf(p).checks)
             new == Append(RowOf(p).checks, run[p].checks[n + 1])
             row == [RowOf(p) EXCEPT !.checks = new]
  <1>1. pc[p] \in Recording /\ "audit" \in Recording /\ "audit" \notin {"reflect", "lesson"}
    BY DEF RecordCheck, Recording
  <1>2. /\ RowOf(p) \in Row /\ RowOf(p).checks \in Seq(CheckStatuses)
        /\ run[p].checks \in Seq(CheckStatuses)
        /\ \A i \in 1..n : RowOf(p).checks[i] = run[p].checks[i]
    BY <1>1, OwnRow
  <1>3. n < Len(run[p].checks) /\ n \in Nat /\ Len(run[p].checks) \in Nat
    BY <1>2 DEF RecordCheck
  <1>4. /\ row.checks = new /\ row.decision = RowOf(p).decision
        /\ row.agent = RowOf(p).agent
    BY <1>2 DEF Row
  <1>5. Len(new) = n + 1 /\ \A i \in 1..(n + 1) : new[i] = run[p].checks[i]
    BY <1>2, <1>3, ElementOfSeq, AppendProperties
  <1>6. SetRow(p, row) /\ Goto(p, "audit") /\ UNCHANGED <<run, spent, status>>
    BY DEF RecordCheck, loopvars
  <1>7. Len(row.checks) <= Len(run[p].checks)
    BY <1>3, <1>4, <1>5
  <1>8. \A i \in 1..Len(row.checks) : row.checks[i] = run[p].checks[i]
    BY <1>4, <1>5
  <1> HIDE DEF row
  <1> QED
    BY <1>1, <1>4, <1>6, <1>7, <1>8, RewriteRowKeeps

(* Rewriting anything but the verdict, the agent's status and the checks. *)
LEMMA AnnotateRowKeeps ==
    ASSUME CInv, Typed', NEW p \in Procs, NEW row, NEW l \in Recording,
           pc[p] \in Recording, Goto(p, l), SetRow(p, row),
           UNCHANGED <<run, spent, status>>,
           row.decision = RowOf(p).decision, row.agent = RowOf(p).agent,
           row.checks = RowOf(p).checks,
           l \in {"reflect", "lesson"} => Len(row.checks) = Len(run[p].checks)
    PROVE  CInv'
  BY OwnRow, RewriteRowKeeps


LEMMA RecordActionKeeps ==
    ASSUME CInv, Typed', NEW p \in Procs, RecordAction(p)
    PROVE  CInv'
  <1> DEFINE row == [RowOf(p) EXCEPT !.audited = @ + 1]
  <1>1. pc[p] \in Recording
    BY DEF RecordAction, Recording
  <1>2. RowOf(p) \in Row
    BY <1>1, OwnRow
  <1>3. /\ row.checks = RowOf(p).checks /\ row.decision = RowOf(p).decision
        /\ row.agent = RowOf(p).agent
    BY <1>2 DEF Row
  <1>4. PICK l \in {"approve", "checks"} : Goto(p, l)
    BY DEF RecordAction
  <1>5. l \in Recording /\ (l \in {"reflect", "lesson"} => Len(row.checks) = Len(run[p].checks))
    BY <1>1, <1>3, OwnRow DEF RecordAction, Recording
  <1>6. SetRow(p, row) /\ UNCHANGED <<run, spent, status>>
    BY DEF RecordAction, loopvars
  <1> HIDE DEF row
  <1> QED
    BY <1>1, <1>3, <1>4, <1>5, <1>6, AnnotateRowKeeps

LEMMA RequestApprovalKeeps ==
    ASSUME CInv, Typed', NEW p \in Procs, RequestApproval(p)
    PROVE  CInv'
  <1> DEFINE row == [RowOf(p) EXCEPT !.approvals = @ + 1]
  <1>1. pc[p] \in Recording
    BY DEF RequestApproval, Recording
  <1>2. RowOf(p) \in Row
    BY <1>1, OwnRow
  <1>3. /\ row.checks = RowOf(p).checks /\ row.decision = RowOf(p).decision
        /\ row.agent = RowOf(p).agent
    BY <1>2 DEF Row
  <1>4. PICK l \in {"checks"} : Goto(p, l)
    BY DEF RequestApproval
  <1>5. l \in Recording /\ (l \in {"reflect", "lesson"} => Len(row.checks) = Len(run[p].checks))
    BY <1>1, <1>3, OwnRow DEF RequestApproval, Recording
  <1>6. SetRow(p, row) /\ UNCHANGED <<run, spent, status>>
    BY DEF RequestApproval, loopvars
  <1> HIDE DEF row
  <1> QED
    BY <1>1, <1>3, <1>4, <1>5, <1>6, AnnotateRowKeeps

LEMMA RecordReplanKeeps ==
    ASSUME CInv, Typed', NEW p \in Procs, RecordReplan(p)
    PROVE  CInv'
  <1> DEFINE row == [RowOf(p) EXCEPT !.replan = ReplanDue(run[p].decision, run[p].checks)]
  <1>1. pc[p] \in Recording
    BY DEF RecordReplan, Recording
  <1>2. RowOf(p) \in Row
    BY <1>1, OwnRow
  <1>3. /\ row.checks = RowOf(p).checks /\ row.decision = RowOf(p).decision
        /\ row.agent = RowOf(p).agent
    BY <1>2 DEF Row
  <1>4. PICK l \in {"reflect"} : Goto(p, l)
    BY DEF RecordReplan
  <1>5. l \in Recording /\ (l \in {"reflect", "lesson"} => Len(row.checks) = Len(run[p].checks))
    BY <1>1, <1>3, OwnRow DEF RecordReplan, Recording
  <1>6. SetRow(p, row) /\ UNCHANGED <<run, spent, status>>
    BY DEF RecordReplan, loopvars
  <1> HIDE DEF row
  <1> QED
    BY <1>1, <1>3, <1>4, <1>5, <1>6, AnnotateRowKeeps

LEMMA RecordReflectionKeeps ==
    ASSUME CInv, Typed', NEW p \in Procs, RecordReflection(p)
    PROVE  CInv'
  <1>0. PICK k : SetRow(p, [RowOf(p) EXCEPT !.reflections = @ \union {k}])
    BY DEF RecordReflection
  <1> DEFINE row == [RowOf(p) EXCEPT !.reflections = @ \union {k}]
  <1>1. pc[p] \in Recording
    BY DEF RecordReflection, Recording
  <1>2. RowOf(p) \in Row
    BY <1>1, OwnRow
  <1>3. /\ row.checks = RowOf(p).checks /\ row.decision = RowOf(p).decision
        /\ row.agent = RowOf(p).agent
    BY <1>2 DEF Row
  <1>4. PICK l \in {"lesson"} : Goto(p, l)
    BY DEF RecordReflection
  <1>5. l \in Recording /\ (l \in {"reflect", "lesson"} => Len(row.checks) = Len(run[p].checks))
    BY <1>1, <1>3, OwnRow DEF RecordReflection, Recording
  <1>6. SetRow(p, row) /\ UNCHANGED <<run, spent, status>>
    BY <1>0 DEF RecordReflection, loopvars
  <1> HIDE DEF row
  <1> QED
    BY <1>1, <1>3, <1>4, <1>5, <1>6, AnnotateRowKeeps

LEMMA RecordLessonKeeps ==
    ASSUME CInv, Typed', NEW p \in Procs, RecordLesson(p)
    PROVE  CInv'
  <1> DEFINE row == [RowOf(p) EXCEPT !.lessons = RowOf(p).reflections]
  <1>1. pc[p] \in Recording
    BY DEF RecordLesson, Recording
  <1>2. RowOf(p) \in Row
    BY <1>1, OwnRow
  <1>3. /\ row.checks = RowOf(p).checks /\ row.decision = RowOf(p).decision
        /\ row.agent = RowOf(p).agent
    BY <1>2 DEF Row
  <1>4. PICK l \in {"reflect"} : Goto(p, l)
    BY DEF RecordLesson
  <1>5. l \in Recording /\ (l \in {"reflect", "lesson"} => Len(row.checks) = Len(run[p].checks))
    BY <1>1, <1>3, OwnRow DEF RecordLesson, Recording
  <1>6. SetRow(p, row) /\ UNCHANGED <<run, spent, status>>
    BY DEF RecordLesson, loopvars
  <1> HIDE DEF row
  <1> QED
    BY <1>1, <1>3, <1>4, <1>5, <1>6, AnnotateRowKeeps
-----------------------------------------------------------------------------
(* Completing the task: the row its owner leaves with is accepted, and no   *)
(* one has completed the task on it before.                                 *)
LEMMA DoneIsAccepted ==
    ASSUME CInv, NEW p \in Procs, pc[p] = "exit", run[p].leave.status = "done"
    PROVE  /\ run[p].leave.event.row = run[p].row
           /\ run[p].row \in DOMAIN iters[run[p].task] \ spent[run[p].task]
           /\ Accepted(RowOf(p))
  <1>1. Owns(p) /\ Evidence(p) /\ OwnedRow(p)
    BY DEF Owns, CInv, CompletionInv
  <1>2. /\ run[p].row \in DOMAIN iters[run[p].task] \ spent[run[p].task]
        /\ Records(p, RowOf(p))
    BY <1>1 DEF OwnedRow
  <1>3. /\ RowOf(p).decision = "done" /\ RowOf(p).agent = "success"
        /\ Len(RowOf(p).checks) = Len(run[p].checks)
        /\ \A i \in 1..Len(RowOf(p).checks) : RowOf(p).checks[i] = run[p].checks[i]
        /\ run[p].leave.event.row = run[p].row /\ run[p].decision = "done"
    BY <1>2 DEF Records
  <1>4. Accepted(run[p])
    BY <1>1, <1>3 DEF Evidence
  <1>5. run[p].task \in Tasks
    BY DEF CInv, Typed, TaskOK
  <1>6. RowOf(p) \in Row
    BY <1>2, <1>5 DEF RowOf, CInv, Typed, TypeOK
  <1>7. RowOf(p).checks \in Seq(CheckStatuses) /\ run[p].checks \in Seq(CheckStatuses)
    BY <1>6 DEF Row, CInv, Typed, TypeOK, Runs
  <1>8. RowOf(p).checks # << >> /\ AllPassed(RowOf(p).checks)
    BY <1>3, <1>4, <1>7 DEF Accepted, AllPassed
  <1> QED
    BY <1>2, <1>3, <1>4, <1>8 DEF Accepted

LEMMA WriteStatusKeeps ==
    ASSUME CInv, Typed', NEW p \in Procs, WriteStatus(p)
    PROVE  CInv'
  <1> DEFINE t == run[p].task
             st == run[p].leave.status
  <1>1. /\ pc[p] = "exit" /\ t \in Tasks /\ st \in {"blocked", "cancelled", "done"}
        /\ pc'[p] = "exited" /\ OthersStay(p) /\ UNCHANGED <<iters, run>>
        /\ status' = [status EXCEPT ![t] = st]
    BY DEF WriteStatus, CInv, Typed, TypeOK, TaskOK, Runs, Goto, OthersStay
  <1>2. CASE st # "done"
    <2>1. UNCHANGED spent /\ Goto(p, "exited") /\ Local(p, run[p])
      BY <1>2 DEF WriteStatus, Local, CInv, Typed, TypeOK
    <2>2. \A u \in Tasks : status'[u] = "done" => status[u] = "done"
      BY <1>1, <1>2 DEF CInv, Typed, TypeOK
    <2> QED
      BY <1>1, <2>1, <2>2, MoveKeeps DEF Judging, Recording
  <1>3. CASE st = "done"
    <2>1. /\ run[p].leave.event.row = run[p].row
          /\ run[p].row \in DOMAIN iters[t] \ spent[t] /\ Accepted(iters[t][run[p].row])
      BY <1>1, <1>3, DoneIsAccepted DEF RowOf
    <2>2. /\ spent'[t] = spent[t] \union {run[p].row}
          /\ \A u \in Tasks : u # t => spent'[u] = spent[u] /\ status'[u] = status[u]
      BY <1>1, <1>3, <2>1 DEF WriteStatus, CInv, Typed, TypeOK
    <2>3. ~Owns(p)' /\ Owns(p)
      BY <1>1, <1>3 DEF Owns, Recording
    <2>4. Evidence(p)' /\ OwnedRow(p)'
      BY <1>1, <2>3 DEF Evidence, OwnedRow, CInv, CompletionInv
    <2>5. ASSUME NEW q \in Procs, q # p
          PROVE  Evidence(q)' /\ OwnedRow(q)' /\ (Owns(q)' => Owns(q))
      <3>1. pc'[q] = pc[q] /\ run'[q] = run[q]
        BY <1>1, <2>5 DEF OthersStay
      <3>2. Evidence(q) /\ OwnedRow(q)
        BY DEF CInv, CompletionInv
      <3>3. Owns(q)' <=> Owns(q)
        BY <3>1 DEF Owns
      <3>4. Evidence(q)'
        BY <3>1, <3>2, <3>3 DEF Evidence
      <3>5. OwnedRow(q)'
        <4> SUFFICES ASSUME Owns(q)
                     PROVE  /\ run'[q].row \in DOMAIN iters'[run'[q].task] \ spent'[run'[q].task]
                            /\ Records(q, RowOf(q))'
          BY <3>3 DEF OwnedRow
        <4>1. run[q].task \in Tasks
          BY DEF CInv, Typed, TaskOK, Owns, Recording
        <4>2. run[q].task # t \/ run[q].row # run[p].row
          BY <2>3, <2>5 DEF CInv, CompletionInv, OwnersApart
        <4>3. /\ run[q].row \in DOMAIN iters[run[q].task] \ spent[run[q].task]
              /\ Records(q, RowOf(q))
          BY <3>2 DEF OwnedRow
        <4>4. Records(q, RowOf(q))'
          BY <1>1, <3>1, <4>3 DEF Records, RowOf
        <4> QED
          BY <1>1, <2>2, <3>1, <4>1, <4>2, <4>3, <4>4
      <3> QED
        BY <3>3, <3>4, <3>5
    <2>6. \A q \in Procs : Evidence(q)' /\ OwnedRow(q)' /\ (Owns(q)' => Owns(q))
      BY <2>3, <2>4, <2>5
    <2>7. OwnersApart'
      BY <1>1, <2>6 DEF CInv, CompletionInv, OwnersApart
    <2>8. \A u \in Tasks : \A i \in spent'[u] : i \in DOMAIN iters'[u] /\ Accepted(iters'[u][i])
      BY <1>1, <2>1, <2>2 DEF CInv, CompletionInv
    <2>9. \A u \in Tasks : status'[u] = "done" => spent'[u] # {}
      BY <2>2 DEF CInv, CompletionInv
    <2> QED
      BY <2>6, <2>7, <2>8, <2>9 DEF CInv, CompletionInv
  <1> QED
    BY <1>2, <1>3

(* What operators do to a task row never reaches the runs. *)
LEMMA OperatorKeeps ==
    ASSUME CInv, Typed', UNCHANGED <<pc, run, iters, spent>>,
           \A t \in Tasks : status'[t] = "done" => status[t] = "done"
    PROVE  CInv'
  <1>1. ASSUME NEW p \in Procs
        PROVE  Evidence(p)' /\ OwnedRow(p)'
    <2>1. (Owns(p)' <=> Owns(p)) /\ RowOf(p)' = RowOf(p) /\ Evidence(p) /\ OwnedRow(p)
      BY DEF Owns, RowOf, CInv, CompletionInv
    <2>2. Evidence(p)'
      BY <2>1 DEF Evidence
    <2>3. OwnedRow(p)'
      BY <2>1 DEF OwnedRow, Records
    <2> QED
      BY <2>2, <2>3
  <1>2. OwnersApart'
    BY DEF CInv, CompletionInv, OwnersApart, Owns
  <1>3. \A t \in Tasks : \A i \in spent'[t] : i \in DOMAIN iters'[t] /\ Accepted(iters'[t][i])
    BY DEF CInv, CompletionInv
  <1>4. \A t \in Tasks : status'[t] = "done" => spent'[t] # {}
    BY DEF CInv, CompletionInv
  <1> QED
    BY <1>1, <1>2, <1>3, <1>4 DEF CInv, CompletionInv

LEMMA InitCompletion == Init => CInv
  <1> SUFFICES ASSUME Init PROVE CInv
    OBVIOUS
  <1>1. Typed
    BY InitTyped
  <1>2. ASSUME NEW p \in Procs
        PROVE  Evidence(p) /\ OwnedRow(p) /\ ~Owns(p)
    <2>1. pc[p] = "idle" /\ run[p] = Blank
      BY DEF Init
    <2>2. ~Owns(p)
      BY <2>1 DEF Owns, Recording
    <2> QED
      BY <2>1, <2>2, BlankChecks DEF Evidence, OwnedRow
  <1>3. OwnersApart
    BY <1>2 DEF OwnersApart
  <1> QED
    BY <1>1, <1>2, <1>3 DEF CInv, CompletionInv, Init

LEMMA NextCompletion == CInv /\ [Next]_vars => CInv'
  <1> SUFFICES ASSUME CInv, [Next]_vars PROVE CInv'
    OBVIOUS
  <1>0. Typed'
    BY NextTyped DEF CInv
  <1>1. ASSUME NEW p \in Procs, Step(p) PROVE CInv'
    BY <1>0, <1>1, ResumeCheckKeeps, MarkRunningKeeps, AnnounceKeeps,
       AgentUnavailableKeeps, StartSessionKeeps, ExhaustedKeeps,
       OutOfTimeKeeps, CancelledBeforeAgentKeeps, CallAgentKeeps,
       AgentReturnsKeeps, AgentStoppedKeeps, ReceiveResultKeeps,
       OutOfTimeBeforeVerificationKeeps, PrepareVerificationKeeps,
       RunCheckKeeps, FinishVerificationKeeps, DecideIterationKeeps,
       RecordIterationKeeps, RecordDecisionKeeps, RecordCheckKeeps,
       RecordActionKeeps, RequestApprovalKeeps, RecordReplanKeeps,
       RecordReflectionKeeps, RecordLessonKeeps, FinishIterationKeeps,
       WriteStatusKeeps, LogStatusKeeps
       DEF Step
  <1>2. ASSUME NEW p \in Procs, Interrupt(p) \/ Die(p) PROVE CInv'
    BY <1>0, <1>2, InterruptKeeps, DieKeeps
  <1>3. ASSUME NEW p \in Procs, NEW t \in Tasks, Start(p, t) \/ Resume(p, t) PROVE CInv'
    BY <1>0, <1>3, StartKeeps, ResumeKeeps
  <1>4. ASSUME NEW p \in Procs, AgentEdit(p) PROVE CInv'
    BY <1>0, <1>4, OperatorKeeps DEF AgentEdit
  <1>5. ASSUME NEW t \in Tasks, Operator(t) PROVE CInv'
    <2>1. \A u \in Tasks : status'[u] = "done" => status[u] = "done"
      BY <1>5 DEF Operator, Cancel, RecoverBlock, RecoverLog, CInv, Typed, TypeOK
    <2>2. UNCHANGED <<pc, run, iters, spent>>
      BY <1>5 DEF Operator, Cancel, RecoverBlock, RecoverLog
    <2> QED
      BY <1>0, <2>1, <2>2, OperatorKeeps
  <1>6. CASE RecoverScan
    BY <1>0, <1>6, OperatorKeeps DEF RecoverScan
  <1>7. CASE UNCHANGED vars
    BY <1>0, <1>7, OperatorKeeps DEF vars
  <1> QED
    BY <1>1, <1>2, <1>3, <1>4, <1>5, <1>6, <1>7 DEF Next

(* However many runs of a task there are at once, and wherever any of them   *)
(* dies, no run writes to a row another one owns, and a task is completed on *)
(* accepted rows only.                                                       *)
THEOREM CompletionCorrect == Spec => []CompletionInv
  <1>1. Spec => []CInv
    BY InitCompletion, NextCompletion, PTL DEF Spec
  <1> QED
    BY <1>1, PTL DEF CInv

(* A done task has a stored iteration that an agent finished successfully    *)
(* and that passed every configured check.                                   *)
THEOREM DoneVerified == Spec => []DoneOnlyAfterVerification
  <1>1. CompletionInv => DoneOnlyAfterVerification
    BY DEF CompletionInv, DoneOnlyAfterVerification
  <1> QED
    BY <1>1, CompletionCorrect, PTL

-----------------------------------------------------------------------------
(* Supervisor implements VerifiedCompletion.  A step either leaves the set  *)
(* of accepted rows, the spent ones and the status alone, or it is one of   *)
(* the gate's three actions.                                                *)
GateStep == [Gate!Next]_(Gate!gate)

LEMMA GateStutter ==
    ASSUME UNCHANGED <<status, spent>>, \A t \in Tasks : verdicts(t)' = verdicts(t)
    PROVE  GateStep
  BY DEF GateStep, Gate!gate

LEMMA QuietStutter ==
    ASSUME UNCHANGED <<status, spent, iters>>
    PROVE  GateStep
  BY GateStutter DEF verdicts

LEMMA GateChange ==
    ASSUME NEW t \in Tasks, NEW st \in {"created", "running", "blocked", "cancelled"},
           status' = [status EXCEPT ![t] = st], UNCHANGED <<iters, spent>>
    PROVE  GateStep
  <1>1. UNCHANGED [u \in Tasks |-> verdicts(u) \ spent[u]]
    BY DEF verdicts
  <1> QED
    BY <1>1 DEF GateStep, Gate!Next, Gate!Change

(* Adding a row without checks adds no verdict. *)
LEMMA AppendStutter ==
    ASSUME TypeOK, NEW t \in Tasks, NEW row, row.checks = << >>,
           iters' = [iters EXCEPT ![t] = Append(@, row)], UNCHANGED <<status, spent>>
    PROVE  GateStep
  <1>1. /\ iters[t] \in Seq(Row) /\ iters'[t] = Append(iters[t], row)
        /\ \A u \in Tasks : u # t => iters'[u] = iters[u]
    BY DEF TypeOK
  <1>2. /\ Len(iters[t]) \in Nat /\ DOMAIN iters[t] = 1..Len(iters[t])
        /\ DOMAIN iters'[t] = 1..(Len(iters[t]) + 1)
        /\ iters'[t][Len(iters[t]) + 1] = row
        /\ \A i \in DOMAIN iters[t] : iters'[t][i] = iters[t][i]
    BY <1>1
  <1>3. ~Accepted(row)
    BY DEF Accepted
  <1>4. verdicts(t)' = verdicts(t)
    <2>1. \A i \in DOMAIN iters'[t] : Accepted(iters'[t][i]) => i \in DOMAIN iters[t]
      BY <1>2, <1>3
    <2> QED
      BY <1>2, <2>1 DEF verdicts
  <1>5. \A u \in Tasks : verdicts(u)' = verdicts(u)
    BY <1>1, <1>4 DEF verdicts
  <1> QED
    BY <1>5, GateStutter

(* What a recording process's write does to the verdicts of its task. *)
LEMMA RewriteVerdicts ==
    ASSUME CInv, NEW p \in Procs, NEW row, pc[p] \in Recording, SetRow(p, row)
    PROVE  /\ \A u \in Tasks : u # run[p].task => verdicts(u)' = verdicts(u)
           /\ \A u \in Tasks : u = run[p].task =>
                verdicts(u)' = (verdicts(u) \ {run[p].row}) \union
                               (IF Accepted(row) THEN {run[p].row} ELSE {})
           /\ run[p].row \in verdicts(run[p].task) <=> Accepted(RowOf(p))
           /\ run[p].row \notin spent[run[p].task] /\ run[p].task \in Tasks
  <1> DEFINE t == run[p].task
  <1>1. Owns(p) /\ OwnedRow(p) /\ t \in Tasks
    BY DEF Owns, CInv, CompletionInv, Typed, TaskOK, Recording
  <1>2. run[p].row \in DOMAIN iters[t] \ spent[t]
    BY <1>1 DEF OwnedRow
  <1>3. /\ iters[t] \in Seq(Row) /\ iters'[t] = [iters[t] EXCEPT ![run[p].row] = row]
        /\ \A u \in Tasks : u # t => iters'[u] = iters[u]
    BY <1>1 DEF CInv, Typed, TypeOK, SetRow
  <1>4. /\ DOMAIN iters'[t] = DOMAIN iters[t] /\ iters'[t][run[p].row] = row
        /\ \A i \in DOMAIN iters[t] : i # run[p].row => iters'[t][i] = iters[t][i]
    BY <1>2, <1>3
  <1>5. \A u \in Tasks : u # t => verdicts(u)' = verdicts(u)
    BY <1>3 DEF verdicts
  <1>6. ASSUME NEW u \in Tasks, u = t
        PROVE  verdicts(u)' = (verdicts(u) \ {run[p].row}) \union
                              (IF Accepted(row) THEN {run[p].row} ELSE {})
    <2>1. DOMAIN iters'[u] = DOMAIN iters[u] /\ run[p].row \in DOMAIN iters[u]
      BY <1>2, <1>4, <1>6
    <2>2. \A i \in DOMAIN iters[u] :
            iters'[u][i] = IF i = run[p].row THEN row ELSE iters[u][i]
      BY <1>4, <1>6
    <2> QED
      BY <2>1, <2>2 DEF verdicts
  <1>7. run[p].row \in verdicts(t) <=> Accepted(RowOf(p))
    BY <1>2 DEF verdicts, RowOf
  <1> QED
    BY <1>1, <1>2, <1>5, <1>6, <1>7

LEMMA AnnotateStutter ==
    ASSUME CInv, NEW p \in Procs, NEW row, pc[p] \in Recording, SetRow(p, row),
           row.decision = RowOf(p).decision, row.agent = RowOf(p).agent,
           row.checks = RowOf(p).checks, UNCHANGED <<status, spent>>
    PROVE  GateStep
  <1>1. Accepted(row) <=> Accepted(RowOf(p))
    BY DEF Accepted
  <1>2. ASSUME NEW u \in Tasks PROVE verdicts(u)' = verdicts(u)
    <2>1. CASE u = run[p].task
      BY <1>1, <2>1, RewriteVerdicts
    <2>2. CASE u # run[p].task
      BY <2>2, RewriteVerdicts
    <2> QED
      BY <2>1, <2>2
  <1> QED
    BY <1>2, GateStutter

(* The check row that completes an accepted iteration opens its verdict. *)
LEMMA RecordCheckGate ==
    ASSUME CInv, NEW p \in Procs, RecordCheck(p)
    PROVE  GateStep
  <1>task. PICK t \in Tasks : t = run[p].task
    BY DEF CInv, Typed, TaskOK, RecordCheck
  <1> DEFINE row == [RowOf(p) EXCEPT !.checks = Append(@, run[p].checks[Len(@) + 1])]
  <1>1. /\ pc[p] \in Recording /\ SetRow(p, row) /\ UNCHANGED <<status, spent>>
        /\ Len(RowOf(p).checks) < Len(run[p].checks)
    BY DEF RecordCheck, Recording, loopvars
  <1>2. ~Accepted(RowOf(p))
    <2>1. /\ Len(run[p].checks) <= NumChecks /\ Len(run[p].checks) \in Nat
          /\ Len(RowOf(p).checks) \in Nat
      BY <1>1, OwnRow DEF CInv, CompletionInv, Evidence
    <2> QED
      BY <1>1, <2>1, LimitAssumption DEF Accepted
  <1> HIDE DEF row
  <1>3. run[p].row \notin verdicts(t) \union spent[t]
    BY <1>task, <1>1, <1>2, RewriteVerdicts
  <1>4. \A u \in Tasks :
          verdicts(u)' = verdicts(u) \union
                         (IF u = t /\ Accepted(row) THEN {run[p].row} ELSE {})
    BY <1>task, <1>1, <1>3, RewriteVerdicts
  <1>5. CASE ~Accepted(row)
    BY <1>1, <1>4, <1>5, GateStutter
  <1>6. CASE Accepted(row)
    <2> DEFINE open == [u \in Tasks |-> verdicts(u) \ spent[u]]
    <2>1. \A u \in Tasks : verdicts(u)' = verdicts(u) \union
                                         (IF u = t THEN {run[p].row} ELSE {})
      BY <1>4, <1>6
    <2>2. open' = [open EXCEPT ![t] = @ \union {run[p].row}]
      BY <1>1, <1>3, <2>1, ZenonT(40)
    <2>3. run[p].row \in open'[t] \ (open[t] \union spent[t])
      BY <1>3, <2>2
    <2>4. Gate!Verify(t)
      BY <1>1, <2>2, <2>3 DEF Gate!Verify
    <2>5. Gate!Next
      BY <2>4 DEF Gate!Next
    <2> QED
      BY <2>5 DEF GateStep
  <1> QED
    BY <1>5, <1>6

LEMMA WriteStatusGate ==
    ASSUME CInv, NEW p \in Procs, WriteStatus(p)
    PROVE  GateStep
  <1>task. PICK t \in Tasks : t = run[p].task
    BY DEF CInv, Typed, TaskOK, WriteStatus
  <1>row. PICK row : row = run[p].row
    OBVIOUS
  <1> DEFINE st == run[p].leave.status
  <1>1. /\ pc[p] = "exit" /\ st \in {"blocked", "cancelled", "done"}
        /\ UNCHANGED iters /\ status' = [status EXCEPT ![t] = st]
    BY <1>task DEF WriteStatus, CInv, Typed, TypeOK, Runs
  <1>2. CASE st # "done"
    <2>1. UNCHANGED spent
      BY <1>2 DEF WriteStatus, CInv, Typed, TypeOK
    <2> QED
      BY <1>1, <1>2, <2>1, GateChange
  <1>3. CASE st = "done"
    <2> DEFINE open == [u \in Tasks |-> verdicts(u) \ spent[u]]
    <2>1. row \in DOMAIN iters[t] \ spent[t] /\ Accepted(iters[t][row])
      BY <1>task, <1>row, <1>1, <1>3, DoneIsAccepted DEF RowOf
    <2>2. row \in open[t]
      BY <1>1, <2>1 DEF verdicts
    <2>3. spent' = [spent EXCEPT ![t] = @ \union {row}]
      BY <1>task, <1>row, <1>1, <1>3, DoneIsAccepted DEF WriteStatus
    <2>4. \A u \in Tasks : verdicts(u)' = verdicts(u)
      BY <1>1 DEF verdicts
    <2>5. \A u \in Tasks : spent'[u] = spent[u] \union (IF u = t THEN {row} ELSE {})
      BY <2>3 DEF CInv, Typed, TypeOK
    <2>6. open' = [open EXCEPT ![t] = @ \ {row}]
      BY <2>4, <2>5
    <2>7. Gate!Complete(t, row)
      BY <1>1, <1>3, <2>3, <2>6 DEF Gate!Complete
    <2>8. Gate!Next
      BY <1>1, <2>2, <2>7 DEF Gate!Next
    <2> QED
      BY <2>8 DEF GateStep
  <1> QED
    BY <1>2, <1>3

LEMMA StepGate ==
    ASSUME CInv, NEW p \in Procs, Step(p)
    PROVE  GateStep
  <1>1. CASE ResumeCheck(p) \/ Announce(p) \/ StartSession(p)
    BY <1>1, QuietStutter DEF ResumeCheck, Announce, StartSession, loopvars
  <1>2. CASE MarkRunning(p)
    <2>1. run[p].task \in Tasks
      BY <1>2 DEF CInv, Typed, TaskOK, MarkRunning
    <2> QED
      BY <1>2, <2>1, GateChange DEF MarkRunning, loopvars
  <1>3. CASE AgentUnavailable(p)
    <2> DEFINE row == [NewRow(p) EXCEPT !.agent = "unavailable", !.decision = "blocked",
                                        !.reason = "unavailable", !.touched = FALSE]
    <2>1. row.checks = << >>
      BY DEF NewRow
    <2>2. run[p].task \in Tasks /\ iters' = [iters EXCEPT ![run[p].task] = Append(@, row)]
      BY <1>3 DEF CInv, Typed, TaskOK, AgentUnavailable
    <2> HIDE DEF row
    <2> QED
      BY <1>3, <2>1, <2>2, AppendStutter DEF CInv, Typed, AgentUnavailable, loopvars
  <1>4. CASE Exhausted(p) \/ OutOfTime(p) \/ CancelledBeforeAgent(p) \/ CallAgent(p)
    BY <1>4, QuietStutter
       DEF Exhausted, OutOfTime, CancelledBeforeAgent, CallAgent, loopvars
  <1>5. CASE AgentReturns(p) \/ AgentStopped(p) \/ ReceiveResult(p)
    BY <1>5, QuietStutter DEF AgentReturns, AgentStopped, ReceiveResult, loopvars
  <1>6. CASE OutOfTimeBeforeVerification(p) \/ PrepareVerification(p)
    BY <1>6, QuietStutter DEF OutOfTimeBeforeVerification, PrepareVerification, loopvars
  <1>7. CASE RunCheck(p) \/ FinishVerification(p) \/ DecideIteration(p)
    BY <1>7, QuietStutter DEF RunCheck, FinishVerification, DecideIteration, loopvars
  <1>8. CASE RecordIteration(p)
    <2>1. NewRow(p).checks = << >> /\ run[p].task \in Tasks
      BY <1>8 DEF NewRow, CInv, Typed, TaskOK, RecordIteration
    <2> QED
      BY <1>8, <2>1, AppendStutter DEF CInv, Typed, RecordIteration, loopvars
  <1>9. CASE RecordDecision(p) \/ FinishIteration(p) \/ LogStatus(p)
    BY <1>9, QuietStutter DEF RecordDecision, FinishIteration, LogStatus, loopvars
  <1>10. CASE \/ RecordAction(p) \/ RequestApproval(p) \/ RecordReplan(p)
              \/ RecordReflection(p) \/ RecordLesson(p)
    <2>1. pc[p] \in Recording /\ UNCHANGED <<status, spent>>
      BY <1>10 DEF RecordAction, RequestApproval, RecordReplan, RecordReflection,
                   RecordLesson, Recording, loopvars
    <2>2. RowOf(p) \in Row
      BY <2>1, OwnRow
    <2>3. PICK row : /\ SetRow(p, row) /\ row.checks = RowOf(p).checks
                     /\ row.decision = RowOf(p).decision /\ row.agent = RowOf(p).agent
      <3>1. CASE RecordAction(p)
        BY <2>2, <3>1 DEF RecordAction, Row
      <3>2. CASE RequestApproval(p)
        BY <2>2, <3>2 DEF RequestApproval, Row
      <3>3. CASE RecordReplan(p)
        BY <2>2, <3>3 DEF RecordReplan, Row
      <3>4. CASE RecordReflection(p)
        BY <2>2, <3>4 DEF RecordReflection, Row
      <3>5. CASE RecordLesson(p)
        BY <2>2, <3>5 DEF RecordLesson, Row
      <3> QED
        BY <1>10, <3>1, <3>2, <3>3, <3>4, <3>5
    <2> QED
      BY <2>1, <2>3, AnnotateStutter
  <1> QED
    BY <1>1, <1>2, <1>3, <1>4, <1>5, <1>6, <1>7, <1>8, <1>9, <1>10,
       RecordCheckGate, WriteStatusGate DEF Step

LEMMA NextGate == CInv /\ [Next]_vars => GateStep
  <1> SUFFICES ASSUME CInv, [Next]_vars PROVE GateStep
    OBVIOUS
  <1>1. ASSUME NEW p \in Procs, Interrupt(p) \/ Die(p) \/ AgentEdit(p) PROVE GateStep
    BY <1>1, QuietStutter DEF Interrupt, Die, AgentEdit, loopvars
  <1>2. ASSUME NEW p \in Procs, NEW t \in Tasks, Start(p, t) PROVE GateStep
    BY <1>2, GateChange DEF Start
  <1>3. ASSUME NEW p \in Procs, NEW t \in Tasks, Resume(p, t) PROVE GateStep
    BY <1>3, QuietStutter DEF Resume
  <1>4. ASSUME NEW t \in Tasks, Cancel(t) \/ RecoverBlock(t) PROVE GateStep
    BY <1>4, GateChange DEF Cancel, RecoverBlock
  <1>5. ASSUME NEW t \in Tasks, RecoverLog(t) PROVE GateStep
    BY <1>5, QuietStutter DEF RecoverLog
  <1>6. CASE RecoverScan
    BY <1>6, QuietStutter DEF RecoverScan
  <1>7. CASE UNCHANGED vars
    BY <1>7, QuietStutter DEF vars
  <1> QED
    BY <1>1, <1>2, <1>3, <1>4, <1>5, <1>6, <1>7, StepGate DEF Next, Operator

LEMMA InitGate == Init => Gate!Init
  <1> SUFFICES ASSUME Init PROVE Gate!Init
    OBVIOUS
  <1>1. \A t \in Tasks : verdicts(t) = {}
    BY DEF Init, verdicts
  <1> QED
    BY <1>1 DEF Init, Gate!Init

(* The supervisor implements the completion gate: a step that makes a task   *)
(* done consumes a verified verdict no earlier completion has consumed.      *)
THEOREM GateImplemented == Spec => ImplementsGate
  <1>1. Spec => []CInv
    BY InitCompletion, NextCompletion, PTL DEF Spec
  <1>2. CInv /\ [Next]_vars => [Gate!Next]_(Gate!gate)
    BY NextGate DEF GateStep
  <1> QED
    BY <1>1, <1>2, InitGate, PTL DEF Spec, ImplementsGate, Gate!Spec

-----------------------------------------------------------------------------
LEMMA AppendNotStopped ==
    ASSUME TypeOK, NoRowForStoppedAgent, NEW t \in Tasks, NEW row, row.agent # "cancelled",
           iters' = [iters EXCEPT ![t] = Append(@, row)]
    PROVE  NoRowForStoppedAgent'
  <1>1. iters[t] \in Seq(Row) /\ iters'[t] = Append(iters[t], row)
    BY DEF TypeOK
  <1>2. /\ DOMAIN iters'[t] = DOMAIN iters[t] \union {Len(iters[t]) + 1}
        /\ iters'[t][Len(iters[t]) + 1] = row
        /\ \A i \in DOMAIN iters[t] : iters'[t][i] = iters[t][i]
    BY <1>1
  <1>3. \A u \in Tasks : u # t => iters'[u] = iters[u]
    BY DEF TypeOK
  <1> QED
    BY <1>2, <1>3 DEF NoRowForStoppedAgent

LEMMA RewriteNotStopped ==
    ASSUME CInv, NoRowForStoppedAgent, NEW p \in Procs, NEW row, pc[p] \in Recording,
           SetRow(p, row), row.agent = RowOf(p).agent
    PROVE  NoRowForStoppedAgent'
  <1>task. PICK t \in Tasks : t = run[p].task
    BY DEF CInv, Typed, TaskOK, Recording
  <1>1. run[p].row \in DOMAIN iters[t]
    BY <1>task DEF Owns, OwnedRow, CInv, CompletionInv
  <1>2. /\ iters'[t] = [iters[t] EXCEPT ![run[p].row] = row]
        /\ \A u \in Tasks : u # t => iters'[u] = iters[u]
    BY <1>task DEF CInv, Typed, TypeOK, SetRow
  <1>3. row.agent # "cancelled"
    BY <1>task, <1>1 DEF NoRowForStoppedAgent, RowOf
  <1>4. iters[t] \in Seq(Row)
    BY DEF CInv, Typed, TypeOK
  <1>5. \A i \in DOMAIN iters'[t] : iters'[t][i].agent # "cancelled"
    BY <1>1, <1>2, <1>3, <1>4 DEF NoRowForStoppedAgent
  <1> QED
    BY <1>2, <1>5 DEF NoRowForStoppedAgent

LEMMA NextNotStopped ==
    CInv /\ NoRowForStoppedAgent /\ [Next]_vars => NoRowForStoppedAgent'
  <1> SUFFICES ASSUME CInv, NoRowForStoppedAgent, [Next]_vars
               PROVE  NoRowForStoppedAgent'
    OBVIOUS
  <1>1. CASE UNCHANGED iters
    BY <1>1 DEF NoRowForStoppedAgent
  <1>2. ASSUME NEW p \in Procs, RecordIteration(p) PROVE NoRowForStoppedAgent'
    <2>1. run[p].agent # "cancelled" /\ run[p].task \in Tasks
      BY <1>2 DEF RecordIteration, CInv, CompletionInv, Evidence, Typed, TaskOK
    <2>2. NewRow(p).agent # "cancelled"
      BY <2>1 DEF NewRow
    <2> QED
      BY <1>2, <2>1, <2>2, AppendNotStopped DEF RecordIteration, CInv, Typed
  <1>3. ASSUME NEW p \in Procs, AgentUnavailable(p) PROVE NoRowForStoppedAgent'
    <2> DEFINE row == [NewRow(p) EXCEPT !.agent = "unavailable", !.decision = "blocked",
                                        !.reason = "unavailable", !.touched = FALSE]
    <2>1. row.agent # "cancelled"
      BY DEF NewRow
    <2>2. run[p].task \in Tasks /\ iters' = [iters EXCEPT ![run[p].task] = Append(@, row)]
      BY <1>3 DEF CInv, Typed, TaskOK, AgentUnavailable
    <2> HIDE DEF row
    <2> QED
      BY <2>1, <2>2, AppendNotStopped DEF CInv, Typed
  <1>4. ASSUME NEW p \in Procs,
               \/ RecordCheck(p) \/ RecordAction(p) \/ RequestApproval(p)
               \/ RecordReplan(p) \/ RecordReflection(p) \/ RecordLesson(p)
        PROVE  NoRowForStoppedAgent'
    <2>1. pc[p] \in Recording
      BY <1>4 DEF RecordCheck, RecordAction, RequestApproval, RecordReplan,
                  RecordReflection, RecordLesson, Recording
    <2>2. RowOf(p) \in Row
      BY <2>1, OwnRow
    <2>3. PICK row : SetRow(p, row) /\ row.agent = RowOf(p).agent
      <3>1. CASE RecordCheck(p)
        BY <2>2, <3>1 DEF RecordCheck, Row
      <3>2. CASE RecordAction(p)
        BY <2>2, <3>2 DEF RecordAction, Row
      <3>3. CASE RequestApproval(p)
        BY <2>2, <3>3 DEF RequestApproval, Row
      <3>4. CASE RecordReplan(p)
        BY <2>2, <3>4 DEF RecordReplan, Row
      <3>5. CASE RecordReflection(p)
        BY <2>2, <3>5 DEF RecordReflection, Row
      <3>6. CASE RecordLesson(p)
        BY <2>2, <3>6 DEF RecordLesson, Row
      <3> QED
        BY <1>4, <3>1, <3>2, <3>3, <3>4, <3>5, <3>6
    <2> QED
      BY <2>1, <2>3, RewriteNotStopped
  <1>5. ASSUME NEW p \in Procs, Step(p)
        PROVE  \/ UNCHANGED iters
               \/ RecordIteration(p) \/ AgentUnavailable(p)
               \/ RecordCheck(p) \/ RecordAction(p) \/ RequestApproval(p)
               \/ RecordReplan(p) \/ RecordReflection(p) \/ RecordLesson(p)
    BY <1>5 DEF Step, ResumeCheck, MarkRunning, Announce, StartSession, Exhausted,
       OutOfTime, CancelledBeforeAgent, CallAgent, AgentReturns, AgentStopped,
       ReceiveResult, OutOfTimeBeforeVerification, PrepareVerification, RunCheck,
       FinishVerification, DecideIteration, RecordDecision, FinishIteration,
       WriteStatus, LogStatus
  <1>6. ASSUME NEW p \in Procs, \/ AgentEdit(p) \/ Interrupt(p) \/ Die(p)
                                \/ \E t \in Tasks : Start(p, t) \/ Resume(p, t)
        PROVE  UNCHANGED iters
    BY <1>6 DEF AgentEdit, Interrupt, Die, Start, Resume
  <1>7. ASSUME RecoverScan \/ \E t \in Tasks : Operator(t)
        PROVE  UNCHANGED iters
    BY <1>7 DEF RecoverScan, Operator, Cancel, RecoverBlock, RecoverLog
  <1> QED
    BY <1>1, <1>2, <1>3, <1>4, <1>5, <1>6, <1>7 DEF Next, vars

(* No iteration row is stored for an agent call that a cancel stopped: the   *)
(* agent's own answer keeps the run from recording it, whatever the task's   *)
(* status has become by then.                                                *)
THEOREM StoppedAgentLeavesNoRow == Spec => []NoRowForStoppedAgent
  <1>1. Init => NoRowForStoppedAgent
    BY DEF Init, NoRowForStoppedAgent
  <1> QED
    BY <1>1, InitCompletion, NextCompletion, NextNotStopped, PTL DEF Spec
-----------------------------------------------------------------------------
(* What the record of an iteration holds at each step that writes it, so     *)
(* that an iteration_finished event finds it complete.                       *)

Pending(checks) == {i \in DOMAIN checks : checks[i] = "needs_approval"}
ResultChecks(agent) == IF agent = "success" THEN NumChecks ELSE 0

Complete(row, index) ==
    /\ row.index = index
    /\ Len(row.checks) = ResultChecks(row.agent)
    /\ row.audited = Len(row.checks) /\ row.approvals = Cardinality(Pending(row.checks))
    /\ row.replan = ReplanDue(row.decision, row.checks)
    /\ row.reflections = ReflectionsDue(row.decision, row.checks)
    /\ row.lessons = ReflectionsDue(row.decision, row.checks)

(* At label l: the check written last is still to be audited at "audit" and, *)
(* if it needs one, its approval is still to be requested at "approve".      *)
StageAt(l, row) ==
    /\ l = "decided" => row.checks = << >>
    /\ l = "audit" => Len(row.checks) > 0
    /\ l = "approve" => Len(row.checks) \in Pending(row.checks)
    /\ Len(row.checks) = row.audited + (IF l = "audit" THEN 1 ELSE 0)
    /\ row.approvals = Cardinality(Pending(row.checks) \
                          (IF l \in {"audit", "approve"} THEN {Len(row.checks)} ELSE {}))
    /\ l \in {"reflect", "lesson"} =>
         /\ row.replan = ReplanDue(row.decision, row.checks)
         /\ row.reflections \subseteq ReflectionsDue(row.decision, row.checks)
    /\ l \notin {"reflect", "lesson"} => row.reflections = {}
    /\ l # "lesson" => row.lessons = row.reflections

(* The iteration of an agent that could not run is no more than its row. *)
Recorded(p) == pc[p] \in Recording /\ run[p].reason # "unavailable"

Writing(p) ==
    /\ run[p].leave.event.name # "iteration_finished"
    /\ pc[p] \in {"decide", "record"} \/ Recorded(p) =>
         Len(run[p].checks) = ResultChecks(run[p].agent)
    /\ pc[p] \in {"record"} \union (Recording \ {"decided"}) => run[p].reason # "unavailable"
    /\ Recorded(p) => /\ RowOf(p).index = Index(p) /\ RowOf(p).agent = run[p].agent
                      /\ StageAt(pc[p], RowOf(p))

Finished(t) == {e \in events[t] : e.name = "iteration_finished"}

RecordInv ==
    /\ \A p \in Procs : Writing(p)
    /\ \A t \in Tasks : \A e \in Finished(t) :
         /\ e.row \in DOMAIN iters[t] /\ Complete(iters[t][e.row], e.index)
         /\ \A p \in Procs : pc[p] \in Recording /\ run[p].task = t => run[p].row # e.row

(* The stages of a row, one write after the other. *)
LEMMA StageCheck ==
    ASSUME NEW row \in Row, NEW x \in CheckStatuses, StageAt("checks", row)
    PROVE  StageAt("audit", [row EXCEPT !.checks = Append(@, x)])
  <1> DEFINE new == [row EXCEPT !.checks = Append(@, x)]
  <1>1. /\ row.checks \in Seq(CheckStatuses) /\ new.checks = Append(row.checks, x)
        /\ new.audited = row.audited /\ new.approvals = row.approvals
        /\ new.reflections = row.reflections /\ new.lessons = row.lessons
    BY DEF Row
  <1> HIDE DEF new
  <1>2. /\ Len(new.checks) = Len(row.checks) + 1 /\ Len(row.checks) \in Nat
        /\ DOMAIN row.checks = 1..Len(row.checks)
        /\ DOMAIN new.checks = 1..(Len(row.checks) + 1)
        /\ \A i \in 1..Len(row.checks) : new.checks[i] = row.checks[i]
    BY <1>1
  <1>3. Pending(new.checks) \ {Len(new.checks)} = Pending(row.checks)
    BY <1>2 DEF Pending
  <1>4. Pending(row.checks) \ {} = Pending(row.checks)
    OBVIOUS
  <1>5. /\ Len(row.checks) = row.audited + 0 /\ row.audited \in Nat
        /\ row.approvals = Cardinality(Pending(row.checks))
        /\ row.reflections = {} /\ row.lessons = {}
    BY <1>4 DEF StageAt, Row
  <1>6. Len(new.checks) = new.audited + 1 /\ Len(new.checks) > 0
    BY <1>1, <1>2, <1>5
  <1>7. new.approvals = Cardinality(Pending(new.checks) \ {Len(new.checks)})
    BY <1>1, <1>3, <1>5
  <1>8. StageAt("audit", new)
    BY <1>1, <1>5, <1>6, <1>7 DEF StageAt
  <1> QED
    BY <1>8 DEF new

LEMMA PendingFinite ==
    ASSUME NEW checks \in Seq(CheckStatuses)
    PROVE  IsFiniteSet(Pending(checks)) /\ Len(checks) \in Nat
  <1>1. Pending(checks) \subseteq 1..Len(checks) /\ Len(checks) \in Nat
    BY DEF Pending
  <1>2. IsFiniteSet(1..Len(checks))
    BY <1>1, FS_Interval
  <1> QED
    BY <1>1, <1>2, FS_Subset

LEMMA StageAudit ==
    ASSUME NEW row \in Row, StageAt("audit", row)
    PROVE  StageAt(IF row.checks[Len(row.checks)] = "needs_approval" THEN "approve" ELSE "checks",
                   [row EXCEPT !.audited = @ + 1])
  <1> DEFINE new == [row EXCEPT !.audited = @ + 1]
  <1>1. /\ row.checks \in Seq(CheckStatuses) /\ new.checks = row.checks
        /\ new.audited = row.audited + 1 /\ new.approvals = row.approvals
        /\ new.reflections = row.reflections /\ new.lessons = row.lessons /\ row.audited \in Nat
    BY DEF Row
  <1> HIDE DEF new
  <1>2. /\ Len(row.checks) \in DOMAIN row.checks /\ Len(row.checks) = row.audited + 1
        /\ row.approvals = Cardinality(Pending(row.checks) \ {Len(row.checks)})
        /\ row.reflections = {} /\ row.lessons = {}
    BY <1>1 DEF StageAt
  <1>3. CASE row.checks[Len(row.checks)] = "needs_approval"
    <2>1. Len(new.checks) \in Pending(new.checks) /\ Len(new.checks) = new.audited + 0
      BY <1>1, <1>2, <1>3 DEF Pending
    <2>2. new.approvals = Cardinality(Pending(new.checks) \ {Len(new.checks)})
      BY <1>1, <1>2
    <2>3. StageAt("approve", new)
      BY <1>1, <1>2, <2>1, <2>2 DEF StageAt
    <2> QED
      BY <1>3, <2>3 DEF new
  <1>4. CASE row.checks[Len(row.checks)] # "needs_approval"
    <2>1. Pending(row.checks) \ {Len(row.checks)} = Pending(row.checks) \ {}
      BY <1>4 DEF Pending
    <2>2. Len(new.checks) = new.audited + 0
      BY <1>1, <1>2
    <2>3. new.approvals = Cardinality(Pending(new.checks) \ {})
      BY <1>1, <1>2, <2>1
    <2>4. StageAt("checks", new)
      BY <1>1, <1>2, <2>2, <2>3 DEF StageAt
    <2> QED
      BY <1>4, <2>4 DEF new
  <1> QED
    BY <1>3, <1>4

LEMMA StageApprove ==
    ASSUME NEW row \in Row, StageAt("approve", row)
    PROVE  StageAt("checks", [row EXCEPT !.approvals = @ + 1])
  <1> DEFINE new == [row EXCEPT !.approvals = @ + 1]
             n == Len(row.checks)
  <1>1. /\ row.checks \in Seq(CheckStatuses) /\ new.checks = row.checks
        /\ new.audited = row.audited /\ new.approvals = row.approvals + 1
        /\ new.reflections = row.reflections /\ new.lessons = row.lessons
    BY DEF Row
  <1> HIDE DEF new
  <1>2. /\ n \in Pending(row.checks) /\ n = row.audited + 0
        /\ row.approvals = Cardinality(Pending(row.checks) \ {n})
        /\ row.reflections = {} /\ row.lessons = {}
    BY DEF StageAt
  <1>3. IsFiniteSet(Pending(row.checks))
    BY <1>1, PendingFinite
  <1>4. /\ Cardinality(Pending(row.checks) \ {n}) = Cardinality(Pending(row.checks)) - 1
        /\ Cardinality(Pending(row.checks)) \in Nat
    BY <1>2, <1>3, FS_RemoveElement, FS_CardinalityType
  <1>5. Pending(row.checks) \ {} = Pending(row.checks)
    OBVIOUS
  <1>6. StageAt("checks", new)
    BY <1>1, <1>2, <1>4, <1>5 DEF StageAt
  <1> QED
    BY <1>6 DEF new

LEMMA StageReplan ==
    ASSUME NEW row \in Row, StageAt("checks", row)
    PROVE  StageAt("reflect", [row EXCEPT !.replan = ReplanDue(row.decision, row.checks)])
  <1> DEFINE new == [row EXCEPT !.replan = ReplanDue(row.decision, row.checks)]
  <1>1. /\ new.checks = row.checks /\ new.audited = row.audited /\ new.approvals = row.approvals
        /\ new.reflections = row.reflections /\ new.lessons = row.lessons
        /\ new.replan = ReplanDue(row.decision, row.checks) /\ new.decision = row.decision
    BY DEF Row
  <1> HIDE DEF new
  <1> QED
    BY <1>1 DEF StageAt, new

LEMMA StageReflect ==
    ASSUME NEW row \in Row, StageAt("reflect", row), NEW k \in ReflectionsDue(row.decision, row.checks)
    PROVE  StageAt("lesson", [row EXCEPT !.reflections = @ \union {k}])
  <1> DEFINE new == [row EXCEPT !.reflections = @ \union {k}]
  <1>1. /\ new.checks = row.checks /\ new.audited = row.audited /\ new.approvals = row.approvals
        /\ new.reflections = row.reflections \union {k}
        /\ new.replan = row.replan /\ new.decision = row.decision
    BY DEF Row
  <1> HIDE DEF new
  <1> QED
    BY <1>1 DEF StageAt, new

LEMMA StageLesson ==
    ASSUME NEW row \in Row, StageAt("lesson", row)
    PROVE  StageAt("reflect", [row EXCEPT !.lessons = row.reflections])
  <1> DEFINE new == [row EXCEPT !.lessons = row.reflections]
  <1>1. /\ new.checks = row.checks /\ new.audited = row.audited /\ new.approvals = row.approvals
        /\ new.reflections = row.reflections /\ new.lessons = row.reflections
        /\ new.replan = row.replan /\ new.decision = row.decision
    BY DEF Row
  <1> HIDE DEF new
  <1> QED
    BY <1>1 DEF StageAt, new

(* The steps of p that leave the rows alone and log nothing as finished. *)
NoneFinished == \A t \in Tasks : Finished(t)' \subseteq Finished(t)

LEMMA RecordFrame ==
    ASSUME RecordInv, NEW p \in Procs, OthersStay(p), UNCHANGED iters, NoneFinished,
           Writing(p)',
           pc'[p] \in Recording => /\ pc[p] \in Recording /\ run'[p].task = run[p].task
                                   /\ run'[p].row = run[p].row
    PROVE  RecordInv'
  <1>1. ASSUME NEW q \in Procs, q # p PROVE Writing(q)' /\ pc'[q] = pc[q] /\ run'[q] = run[q]
    <2>1. pc'[q] = pc[q] /\ run'[q] = run[q] /\ Writing(q)
      BY <1>1 DEF OthersStay, RecordInv
    <2> QED
      BY <2>1 DEF Writing, Recorded, RowOf, Index
  <1>2. \A t \in Tasks : \A e \in Finished(t)' : e \in Finished(t)
    BY DEF NoneFinished
  <1>3. ASSUME NEW t \in Tasks, NEW e \in Finished(t)', NEW q \in Procs,
               pc'[q] \in Recording, run'[q].task = t
        PROVE  run'[q].row # e.row
    BY <1>1, <1>2, <1>3 DEF RecordInv
  <1>4. \A t \in Tasks : \A e \in Finished(t)' :
          e.row \in DOMAIN iters'[t] /\ Complete(iters'[t][e.row], e.index)
    BY <1>2 DEF RecordInv
  <1> QED
    BY <1>1, <1>3, <1>4 DEF RecordInv

LEMMA LogNotFinished ==
    ASSUME TypeOK, NEW t, NEW e, Log(t, {e}), e.name # "iteration_finished"
    PROVE  NoneFinished
  BY DEF TypeOK, Log, NoneFinished, Finished

LEMMA StillNotFinished == UNCHANGED events => NoneFinished
  BY DEF NoneFinished, Finished

(* ... and that end where p has nothing to record. *)
LEMMA QuietRecord ==
    ASSUME RecordInv, NEW p \in Procs, OthersStay(p), UNCHANGED iters, NoneFinished,
           run'[p].leave.event.name # "iteration_finished",
           pc'[p] \notin Recording \union {"decide", "record"}
    PROVE  RecordInv'
  <1>1. Writing(p)'
    BY DEF Writing, Recorded
  <1> QED
    BY <1>1, RecordFrame

LEMMA GotoOthers ==
    ASSUME TypeOK, NEW p \in Procs, NEW l, Goto(p, l),
           UNCHANGED run \/ \E r : Local(p, r)
    PROVE  OthersStay(p) /\ pc'[p] = l
  BY DEF TypeOK, Goto, Local, OthersStay

LEMMA BlankNotFinished == Blank.leave.event.name # "iteration_finished"
  BY DEF Blank, Entry

LEMMA ReturnRecord ==
    ASSUME CInv, RecordInv, NEW p \in Procs, Return(p), UNCHANGED iters, NoneFinished
    PROVE  RecordInv'
  <1>1. OthersStay(p) /\ pc'[p] = "idle" /\ run'[p] = Blank
    BY GotoOthers DEF Return, CInv, Typed, TypeOK, Local
  <1> QED
    BY <1>1, BlankNotFinished, QuietRecord DEF Recording

LEMMA LeaveRecord ==
    ASSUME CInv, RecordInv, NEW p \in Procs, NEW st, NEW name, name # "iteration_finished",
           NEW i, NEW row, Leave(p, st, name, i, row), UNCHANGED iters, NoneFinished
    PROVE  RecordInv'
  <1> DEFINE e == Entry(name, i, row)
             r == [run[p] EXCEPT !.leave = [status |-> st, event |-> e]]
  <1>1. e.name # "iteration_finished" /\ run[p] \in Runs
    BY DEF Entry, CInv, Typed, TypeOK
  <1> HIDE DEF e
  <1>2. r.leave.event.name # "iteration_finished"
    BY <1>1 DEF Runs
  <1>3. Local(p, r) /\ Goto(p, "exit")
    BY DEF Leave, e
  <1> HIDE DEF r
  <1>4. OthersStay(p) /\ pc'[p] = "exit" /\ run'[p] = r
    BY <1>3, GotoOthers DEF CInv, Typed, TypeOK, Local
  <1> QED
    BY <1>2, <1>4, QuietRecord DEF Recording

LEMMA MoveRecord ==
    ASSUME CInv, RecordInv, NEW p \in Procs, NEW l, Goto(p, l),
           \/ UNCHANGED run
           \/ \E r : Local(p, r) /\ r.leave \in {run[p].leave, Blank.leave},
           l \notin Recording \union {"decide", "record"}, UNCHANGED iters, NoneFinished
    PROVE  RecordInv'
  <1>1. OthersStay(p) /\ pc'[p] = l
    BY GotoOthers DEF CInv, Typed
  <1>2. run'[p].leave \in {run[p].leave, Blank.leave}
    BY DEF CInv, Typed, TypeOK, Local
  <1>3. run[p].leave.event.name # "iteration_finished"
    BY DEF RecordInv, Writing
  <1> QED
    BY <1>1, <1>2, <1>3, BlankNotFinished, QuietRecord

(* Steps of p outside the record. *)
LEMMA LoopRecord ==
    ASSUME CInv, RecordInv, NEW p \in Procs,
           \/ ResumeCheck(p) \/ MarkRunning(p) \/ Announce(p) \/ StartSession(p)
           \/ Exhausted(p) \/ OutOfTime(p) \/ CancelledBeforeAgent(p) \/ CallAgent(p)
           \/ AgentReturns(p) \/ AgentStopped(p)
           \/ OutOfTimeBeforeVerification(p) \/ PrepareVerification(p) \/ RunCheck(p)
           \/ WriteStatus(p) \/ LogStatus(p) \/ Interrupt(p) \/ Die(p)
           \/ \E t \in Tasks : Start(p, t) \/ Resume(p, t)
    PROVE  RecordInv'
  <1>0. run[p] \in Runs /\ run[p].leave.event.name # "iteration_finished"
        /\ pc \in [Procs -> Labels]
    BY DEF CInv, Typed, TypeOK, RecordInv, Writing
  <1>1. NoneFinished
    <2>1. CASE UNCHANGED events
      BY <2>1, StillNotFinished
    <2>2. ASSUME NEW t, NEW n, NEW i, NEW r, n # "iteration_finished", Log(t, {Entry(n, i, r)})
          PROVE  NoneFinished
      <3>1. Entry(n, i, r).name # "iteration_finished"
        BY <2>2 DEF Entry
      <3> QED
        BY <2>2, <3>1, LogNotFinished DEF CInv, Typed
    <2>3. CASE LogStatus(p)
      BY <1>0, <2>3, LogNotFinished DEF LogStatus, CInv, Typed
    <2>4. CASE CallAgent(p)
      BY <2>4 DEF CallAgent, Log, NoneFinished, Finished, Entry, CInv, Typed, TypeOK
    <2>5. CASE Announce(p)
      <3>1. \/ Log(run[p].task, {Entry("task_created", 0, 0)})
            \/ Log(run[p].task, {Entry("task_resumed", run[p].start, 0)})
        BY <2>5 DEF Announce
      <3> QED
        BY <2>2, <3>1
    <2>6. CASE ResumeCheck(p) \/ CancelledBeforeAgent(p) \/ PrepareVerification(p)
      <3>1. \/ UNCHANGED events \/ Log(run[p].task, {Entry("resume_cancelled", 0, 0)})
            \/ Log(run[p].task, {Entry("cancelled_before_agent", Index(p), 0)})
            \/ Log(run[p].task, {Entry("cancelled_before_verification", Index(p), 0)})
            \/ Log(run[p].task, {Entry("verification_started", Index(p), 0)})
        BY <2>6 DEF ResumeCheck, CancelledBeforeAgent, PrepareVerification
      <3> QED
        BY <2>1, <2>2, <3>1
    <2>7. CASE Interrupt(p)
      BY <2>2, <2>7 DEF Interrupt
    <2> QED
      BY <2>1, <2>3, <2>4, <2>5, <2>6, <2>7 DEF MarkRunning, StartSession, Exhausted, OutOfTime,
         AgentReturns, AgentStopped, OutOfTimeBeforeVerification, RunCheck, WriteStatus, Die,
         Start, Resume, loopvars
  <1>2. UNCHANGED iters
    BY DEF ResumeCheck, MarkRunning, Announce, StartSession, Exhausted, OutOfTime,
       CancelledBeforeAgent, CallAgent, AgentReturns, AgentStopped, OutOfTimeBeforeVerification,
       PrepareVerification, RunCheck, WriteStatus, LogStatus, Interrupt, Die, Start, Resume
  <1>3. CASE Return(p)
    BY <1>1, <1>2, <1>3, ReturnRecord
  <1>4. CASE Exhausted(p) \/ OutOfTime(p) \/ OutOfTimeBeforeVerification(p)
    BY <1>1, <1>2, <1>4, LeaveRecord DEF Exhausted, OutOfTime, OutOfTimeBeforeVerification
  <1>5. CASE (Goto(p, "mark") \/ Goto(p, "announce") \/ Goto(p, "available")
                \/ Goto(p, "agent") \/ Goto(p, "verify") \/ Goto(p, "exited")) /\ UNCHANGED run
    BY <1>1, <1>2, <1>5, MoveRecord DEF Recording
  <1>6. ASSUME NEW r, Local(p, r), r.leave \in {run[p].leave, Blank.leave},
               NEW l \in {"gate", "agent_result", "verify", "mark", "resume"}, Goto(p, l)
        PROVE  RecordInv'
    BY <1>1, <1>2, <1>6, MoveRecord DEF Recording
  <1>7. CASE StartSession(p)
    <2>1. PICK snap : Local(p, [run[p] EXCEPT !.base = snap, !.origin = tree.version,
                                          !.seen = tree.version])
      BY <1>7 DEF StartSession
    <2> DEFINE r == [run[p] EXCEPT !.base = snap, !.origin = tree.version, !.seen = tree.version]
    <2>2. r.leave = run[p].leave
      BY <1>0 DEF Runs
    <2>3. Local(p, r)
      BY <2>1
    <2> HIDE DEF r
    <2> QED
      BY <1>6, <1>7, <2>2, <2>3 DEF StartSession
  <1>8. CASE AgentReturns(p)
    <2>1. PICK st, files : Local(p, [run[p] EXCEPT !.agent = st, !.files = files])
      BY <1>8 DEF AgentReturns
    <2> DEFINE r == [run[p] EXCEPT !.agent = st, !.files = files]
    <2>2. r.leave = run[p].leave
      BY <1>0 DEF Runs
    <2>3. Local(p, r)
      BY <2>1
    <2> HIDE DEF r
    <2> QED
      BY <1>6, <1>8, <2>2, <2>3 DEF AgentReturns
  <1>9. CASE AgentStopped(p)
    <2> DEFINE r == [run[p] EXCEPT !.agent = "cancelled", !.files = {}]
    <2>2. r.leave = run[p].leave
      BY <1>0 DEF Runs
    <2>3. Local(p, r)
      BY <1>9 DEF AgentStopped
    <2> HIDE DEF r
    <2> QED
      BY <1>6, <1>9, <2>2, <2>3 DEF AgentStopped
  <1>10. CASE RunCheck(p)
    <2>1. PICK st : Local(p, [run[p] EXCEPT !.checks = Append(@, st)])
      BY <1>10 DEF RunCheck
    <2> DEFINE r == [run[p] EXCEPT !.checks = Append(@, st)]
    <2>2. r.leave = run[p].leave
      BY <1>0 DEF Runs
    <2>3. Local(p, r)
      BY <2>1
    <2>4. Goto(p, "verify")
      BY <1>0, <1>10 DEF RunCheck, Goto
    <2> HIDE DEF r
    <2> QED
      BY <1>6, <2>2, <2>3, <2>4
  <1>11. ASSUME NEW t \in Tasks, Start(p, t) PROVE RecordInv'
    <2>1. PICK limit : Local(p, [Blank EXCEPT !.task = t, !.fresh = TRUE, !.limit = limit])
      BY <1>11 DEF Start
    <2> DEFINE r == [Blank EXCEPT !.task = t, !.fresh = TRUE, !.limit = limit]
    <2>2. r.leave = Blank.leave
      BY DEF Blank
    <2>3. Local(p, r)
      BY <2>1
    <2> HIDE DEF r
    <2> QED
      BY <1>6, <1>11, <2>2, <2>3 DEF Start
  <1>12. ASSUME NEW t \in Tasks, Resume(p, t) PROVE RecordInv'
    <2>1. PICK limit : Local(p, [Blank EXCEPT !.task = t, !.limit = limit, !.start = Len(iters[t]) + 1])
      BY <1>12 DEF Resume
    <2> DEFINE r == [Blank EXCEPT !.task = t, !.limit = limit, !.start = Len(iters[t]) + 1]
    <2>2. r.leave = Blank.leave
      BY DEF Blank
    <2>3. Local(p, r)
      BY <2>1
    <2> HIDE DEF r
    <2> QED
      BY <1>6, <1>12, <2>2, <2>3 DEF Resume
  <1> QED
    BY <1>3, <1>4, <1>5, <1>7, <1>8, <1>9, <1>10, <1>11, <1>12
    DEF ResumeCheck, MarkRunning, Announce, CancelledBeforeAgent, CallAgent,
        PrepareVerification, WriteStatus, LogStatus, Interrupt, Die

(* The result comes in, and is judged. *)
LEMMA ResultRecord ==
    ASSUME CInv, RecordInv, NEW p \in Procs, ReceiveResult(p) PROVE RecordInv'
  <1>0. run[p] \in Runs /\ run[p].leave.event.name # "iteration_finished" /\ UNCHANGED iters
    BY DEF CInv, Typed, TypeOK, RecordInv, Writing, ReceiveResult
  <1>1. NoneFinished
    <2>1. Entry("agent_result_received", Index(p), 0).name # "iteration_finished"
      BY DEF Entry
    <2> QED
      BY <2>1, LogNotFinished DEF ReceiveResult, CInv, Typed
  <1>2. CASE Leave(p, "cancelled", "cancelled_after_agent", Index(p), 0)
    BY <1>0, <1>1, <1>2, LeaveRecord
  <1>3. CASE /\ Goto(p, IF run[p].agent = "success" THEN "prepare" ELSE "decide")
             /\ Local(p, [run[p] EXCEPT !.checks = << >>])
    <2> DEFINE r == [run[p] EXCEPT !.checks = << >>]
    <2>1. r.leave = run[p].leave /\ r.checks = << >> /\ r.agent = run[p].agent
      BY <1>0 DEF Runs
    <2>2. Local(p, r)
      BY <1>3
    <2> HIDE DEF r
    <2>3. OthersStay(p) /\ run'[p] = r
          /\ pc'[p] = IF run[p].agent = "success" THEN "prepare" ELSE "decide"
      BY <1>3, <2>2, GotoOthers DEF CInv, Typed, TypeOK, Local
    <2>4. Len(r.checks) = 0
      BY <2>1
    <2>5. pc'[p] \notin Recording \union {"record"}
      BY <2>3 DEF Recording
    <2>6. Writing(p)'
      BY <1>0, <2>1, <2>3, <2>4, <2>5 DEF Writing, Recorded, ResultChecks
    <2> QED
      BY <1>0, <1>1, <2>3, <2>5, <2>6, RecordFrame
  <1> QED
    BY <1>2, <1>3 DEF ReceiveResult

LEMMA VerifiedRecord ==
    ASSUME CInv, RecordInv, NEW p \in Procs, FinishVerification(p) PROVE RecordInv'
  <1>1. NoneFinished
    <2>1. Entry("verification_finished", Index(p), 0).name # "iteration_finished"
      BY DEF Entry
    <2> QED
      BY <2>1, LogNotFinished DEF FinishVerification, CInv, Typed
  <1>2. OthersStay(p) /\ pc'[p] = "decide" /\ UNCHANGED <<run, iters>>
    BY GotoOthers DEF FinishVerification, CInv, Typed
  <1>3. run[p].agent = "success" /\ Len(run[p].checks) = NumChecks
    BY DEF FinishVerification, CInv, CompletionInv, Evidence
  <1>4. Writing(p)' /\ pc'[p] \notin Recording
    BY <1>2, <1>3 DEF Writing, Recorded, Recording, ResultChecks, RecordInv
  <1> QED
    BY <1>1, <1>2, <1>4, RecordFrame

LEMMA JudgedRecord ==
    ASSUME CInv, RecordInv, NEW p \in Procs, DecideIteration(p) PROVE RecordInv'
  <1>1. PICK snap \in snapshot : Local(p, Decided(p, snap))
    BY DEF DecideIteration
  <1>2. /\ OthersStay(p) /\ pc'[p] = "record" /\ UNCHANGED <<iters, events>>
        /\ run'[p] = Decided(p, snap) /\ pc[p] = "decide"
    BY <1>1, GotoOthers DEF DecideIteration, CInv, Typed, TypeOK, Local
  <1>3. LET r == Decided(p, snap)
        IN  /\ r.checks = run[p].checks /\ r.agent = run[p].agent
            /\ r.leave = run[p].leave /\ r.reason # "unavailable"
    BY DEF Decided, CInv, Typed, TypeOK, Runs
  <1>4. Writing(p)' /\ pc'[p] \notin Recording
    BY <1>2, <1>3 DEF Writing, Recorded, Recording, RecordInv
  <1> QED
    BY <1>2, <1>4, StillNotFinished, RecordFrame

-----------------------------------------------------------------------------
(* A row that is added is nobody else's, and no event vouches for it yet. *)
LEMMA AppendRecord ==
    ASSUME CInv, RecordInv, NEW p \in Procs, NEW row \in Row, NEW r,
           run[p].task \in Tasks, Goto(p, "decided"), Local(p, r),
           iters' = [iters EXCEPT ![run[p].task] = Append(@, row)], UNCHANGED events,
           r.task = run[p].task, r.row = Len(iters[run[p].task]) + 1,
           r.leave = run[p].leave,
           r.reason # "unavailable" =>
             /\ Len(r.checks) = ResultChecks(r.agent)
             /\ row.index = r.start + r.attempt - 1 /\ row.agent = r.agent
             /\ StageAt("decided", row)
    PROVE  RecordInv'
  <1> DEFINE t == run[p].task
             n == Len(iters[t]) + 1
  <1>1. /\ iters[t] \in Seq(Row) /\ iters'[t] = Append(iters[t], row)
        /\ \A u \in Tasks : u # t => iters'[u] = iters[u]
    BY DEF CInv, Typed, TypeOK
  <1>2. /\ DOMAIN iters'[t] = DOMAIN iters[t] \union {n} /\ n \notin DOMAIN iters[t]
        /\ iters'[t][n] = row /\ \A i \in DOMAIN iters[t] : iters'[t][i] = iters[t][i]
    BY <1>1
  <1>3. \A u \in Tasks : \A i \in DOMAIN iters[u] :
          i \in DOMAIN iters'[u] /\ iters'[u][i] = iters[u][i]
    BY <1>1, <1>2
  <1>4. OthersStay(p) /\ pc'[p] = "decided" /\ run'[p] = r
    BY GotoOthers DEF CInv, Typed, TypeOK, Local
  <1>5. run[p].leave.event.name # "iteration_finished"
    BY DEF RecordInv, Writing
  <1>6. Writing(p)'
    <2>1. RowOf(p)' = row
      BY <1>2, <1>4 DEF RowOf
    <2>2. Index(p)' = r.start + r.attempt - 1
      BY <1>4 DEF Index
    <2> QED
      BY <1>4, <1>5, <2>1, <2>2 DEF Writing, Recorded
  <1>7. ASSUME NEW q \in Procs, q # p
        PROVE  Writing(q)' /\ pc'[q] = pc[q] /\ run'[q] = run[q]
    <2>1. pc'[q] = pc[q] /\ run'[q] = run[q] /\ Writing(q)
      BY <1>4, <1>7 DEF OthersStay, RecordInv
    <2>2. pc[q] \in Recording => run[q].row \in DOMAIN iters[run[q].task] /\ run[q].task \in Tasks
      BY DEF CInv, CompletionInv, OwnedRow, Owns, Typed, TaskOK, Recording
    <2>3. pc[q] \in Recording => RowOf(q)' = RowOf(q)
      BY <1>3, <2>1, <2>2 DEF RowOf
    <2>4. Index(q)' = Index(q)
      BY <2>1 DEF Index
    <2> QED
      BY <2>1, <2>3, <2>4 DEF Writing, Recorded
  <1>8. \A u \in Tasks : Finished(u)' = Finished(u)
    BY DEF Finished
  <1>9. ASSUME NEW u \in Tasks, NEW e \in Finished(u)
        PROVE  /\ e.row \in DOMAIN iters'[u] /\ Complete(iters'[u][e.row], e.index)
               /\ \A q \in Procs : pc'[q] \in Recording /\ run'[q].task = u => run'[q].row # e.row
    <2>1. e.row \in DOMAIN iters[u] /\ Complete(iters[u][e.row], e.index)
      BY DEF RecordInv
    <2>2. \A q \in Procs : pc[q] \in Recording /\ run[q].task = u => run[q].row # e.row
      BY DEF RecordInv
    <2> QED
      BY <1>2, <1>3, <1>4, <1>7, <2>1, <2>2
  <1> QED
    BY <1>6, <1>7, <1>8, <1>9 DEF RecordInv

LEMMA RecordedRow ==
    ASSUME CInv, RecordInv, NEW p \in Procs, RecordIteration(p) PROVE RecordInv'
  <1> DEFINE t == run[p].task
             r == [run[p] EXCEPT !.row = Len(iters[t]) + 1]
  <1>1. run[p] \in Runs /\ t \in Tasks
    BY DEF CInv, Typed, TypeOK, TaskOK, RecordIteration
  <1>2. /\ r.task = t /\ r.row = Len(iters[t]) + 1 /\ r.checks = run[p].checks
        /\ r.agent = run[p].agent /\ r.leave = run[p].leave
        /\ r.start = run[p].start /\ r.attempt = run[p].attempt
    BY <1>1 DEF Runs
  <1>3. Len(run[p].checks) = ResultChecks(run[p].agent)
    BY DEF RecordInv, Writing, RecordIteration
  <1>4. NewRow(p) \in Row /\ NewRow(p).index = Index(p) /\ NewRow(p).agent = run[p].agent
    BY NewRowType DEF NewRow, CInv, Typed
  <1>5. StageAt("decided", NewRow(p))
    <2>1. /\ NewRow(p).checks = << >> /\ NewRow(p).audited = 0 /\ NewRow(p).approvals = 0
          /\ NewRow(p).reflections = {} /\ NewRow(p).lessons = {}
      BY DEF NewRow
    <2>2. Pending(<< >>) \ {} = {} /\ Len(<< >>) = 0 + 0 /\ Cardinality({}) = 0
      BY FS_EmptySet DEF Pending
    <2> QED
      BY <2>1, <2>2 DEF StageAt
  <1>6. Local(p, r)
    BY DEF RecordIteration
  <1> HIDE DEF r
  <1> QED
    BY <1>1, <1>2, <1>3, <1>4, <1>5, <1>6, AppendRecord DEF RecordIteration, Index

LEMMA UnavailableRow ==
    ASSUME CInv, RecordInv, NEW p \in Procs, AgentUnavailable(p) PROVE RecordInv'
  <1> DEFINE t == run[p].task
             row == [NewRow(p) EXCEPT !.agent = "unavailable", !.decision = "blocked",
                                      !.reason = "unavailable", !.touched = FALSE]
             r == [run[p] EXCEPT !.decision = "blocked", !.reason = "unavailable",
                                 !.row = Len(iters[t]) + 1]
  <1>1. run[p] \in Runs /\ t \in Tasks
    BY DEF CInv, Typed, TypeOK, TaskOK, AgentUnavailable
  <1>2. /\ r.task = t /\ r.row = Len(iters[t]) + 1 /\ r.reason = "unavailable"
        /\ r.leave = run[p].leave
    BY <1>1 DEF Runs
  <1>3. row \in Row
    <2>1. NewRow(p) \in Row
      BY NewRowType DEF CInv, Typed
    <2> QED
      BY <2>1 DEF Row, Verdicts, Reasons
  <1>4. /\ Local(p, r) /\ iters' = [iters EXCEPT ![t] = Append(@, row)]
        /\ Goto(p, "decided") /\ UNCHANGED events
    BY DEF AgentUnavailable
  <1> HIDE DEF r, row
  <1> QED
    BY <1>1, <1>2, <1>3, <1>4, AppendRecord
-----------------------------------------------------------------------------
(* A row is only written by the process that records it, before an event     *)
(* vouches for it.                                                           *)
LEMMA RewriteRecord ==
    ASSUME CInv, RecordInv, NEW p \in Procs, NEW row, NEW l \in Recording \ {"decided"},
           pc[p] \in Recording \ {"decided"}, Goto(p, l), SetRow(p, row),
           UNCHANGED <<run, events>>, row.index = RowOf(p).index, row.agent = RowOf(p).agent,
           StageAt(l, row)
    PROVE  RecordInv'
  <1> DEFINE t == run[p].task
  <1>1. t \in Tasks /\ pc'[p] = l /\ OthersStay(p) /\ Owns(p)
    BY GotoOthers DEF Owns, CInv, Typed, TaskOK, Recording
  <1>2. run[p].row \in DOMAIN iters[t]
    BY <1>1 DEF CInv, CompletionInv, OwnedRow
  <1>3. /\ iters[t] \in Seq(Row) /\ iters'[t] = [iters[t] EXCEPT ![run[p].row] = row]
        /\ \A u \in Tasks : u # t => iters'[u] = iters[u]
    BY <1>1 DEF CInv, Typed, TypeOK, SetRow
  <1>4. /\ \A u \in Tasks : DOMAIN iters'[u] = DOMAIN iters[u]
        /\ \A u \in Tasks : \A i \in DOMAIN iters[u] :
             u # t \/ i # run[p].row => iters'[u][i] = iters[u][i]
        /\ iters'[t][run[p].row] = row
    BY <1>2, <1>3
  <1>5. Writing(p) /\ RowOf(p)' = row /\ Index(p)' = Index(p) /\ Recorded(p)
    BY <1>4 DEF RecordInv, RowOf, Index, Writing, Recorded
  <1>6. Writing(p)'
    BY <1>1, <1>5 DEF Writing, Recorded
  <1>7. ASSUME NEW q \in Procs, q # p PROVE Writing(q)' /\ pc'[q] = pc[q]
    <2>1. pc'[q] = pc[q] /\ Writing(q)
      BY <1>1, <1>7 DEF OthersStay, RecordInv
    <2>2. pc[q] \in Recording =>
            /\ run[q].row \in DOMAIN iters[run[q].task] /\ run[q].task \in Tasks
            /\ run[q].task # t \/ run[q].row # run[p].row
      BY <1>1, <1>7 DEF CInv, CompletionInv, OwnedRow, OwnersApart, Owns, Typed, TaskOK, Recording
    <2>3. pc[q] \in Recording => RowOf(q)' = RowOf(q)
      BY <1>4, <2>1, <2>2 DEF RowOf
    <2>4. Index(q)' = Index(q)
      BY DEF Index
    <2> QED
      BY <2>1, <2>3, <2>4 DEF Writing, Recorded
  <1>8. ASSUME NEW u \in Tasks, NEW e \in Finished(u)
        PROVE  /\ e.row \in DOMAIN iters'[u] /\ Complete(iters'[u][e.row], e.index)
               /\ \A q \in Procs : pc'[q] \in Recording /\ run'[q].task = u => run'[q].row # e.row
    <2>1. e.row \in DOMAIN iters[u] /\ Complete(iters[u][e.row], e.index)
      BY DEF RecordInv
    <2>2. \A q \in Procs : pc[q] \in Recording /\ run[q].task = u => run[q].row # e.row
      BY DEF RecordInv
    <2>3. u # t \/ e.row # run[p].row
      BY <2>2
    <2> QED
      BY <1>4, <1>7, <2>1, <2>2, <2>3
  <1>9. \A u \in Tasks : Finished(u)' = Finished(u)
    BY DEF Finished
  <1> QED
    BY <1>6, <1>7, <1>8, <1>9 DEF RecordInv

(* Once all its checks are stored, a row has the checks of its owner. *)
LEMMA SameChecks ==
    ASSUME CInv, NEW p \in Procs, pc[p] \in Recording,
           Len(RowOf(p).checks) = Len(run[p].checks)
    PROVE  RowOf(p).checks = run[p].checks
  <1>1. /\ RowOf(p).checks \in Seq(CheckStatuses) /\ run[p].checks \in Seq(CheckStatuses)
        /\ \A i \in 1..Len(RowOf(p).checks) : RowOf(p).checks[i] = run[p].checks[i]
    BY OwnRow
  <1> QED
    BY <1>1

LEMMA WriteRecord ==
    ASSUME CInv, RecordInv, NEW p \in Procs,
           \/ RecordCheck(p) \/ RecordAction(p) \/ RequestApproval(p) \/ RecordReplan(p)
           \/ RecordReflection(p) \/ RecordLesson(p)
    PROVE  RecordInv'
  <1>1. pc[p] \in Recording \ {"decided"} /\ UNCHANGED <<run, events>>
    BY DEF RecordCheck, RecordAction, RequestApproval, RecordReplan, RecordReflection,
           RecordLesson, Recording
  <1>2. /\ RowOf(p) \in Row /\ RowOf(p).checks \in Seq(CheckStatuses)
        /\ run[p].checks \in Seq(CheckStatuses)
        /\ pc[p] \in {"reflect", "lesson"} => Len(RowOf(p).checks) = Len(run[p].checks)
    BY <1>1, OwnRow
  <1>3. StageAt(pc[p], RowOf(p))
    BY <1>1 DEF RecordInv, Writing, Recorded
  <1>4. RowOf(p).decision = run[p].decision
    BY <1>1 DEF CInv, CompletionInv, OwnedRow, Owns, Records
  <1>5. PICK w \in Row : w = RowOf(p)
    BY <1>2
  <1>6. ASSUME NEW row, row.index = w.index, row.agent = w.agent,
               NEW l \in Recording \ {"decided"}, Goto(p, l), StageAt(l, row), SetRow(p, row)
        PROVE  RecordInv'
    BY <1>1, <1>5, <1>6, RewriteRecord
  <1>7. CASE RecordCheck(p)
    <2> DEFINE x == run[p].checks[Len(w.checks) + 1]
               row == [w EXCEPT !.checks = Append(@, x)]
    <2>1. x \in CheckStatuses
      <3>1. Len(w.checks) < Len(run[p].checks) /\ Len(w.checks) \in Nat
        BY <1>2, <1>5, <1>7 DEF RecordCheck
      <3> QED
        BY <1>2, <3>1
    <2>2. StageAt("audit", row)
      BY <1>3, <1>5, <1>7, <2>1, StageCheck DEF RecordCheck
    <2>3. row.index = w.index /\ row.agent = w.agent /\ "audit" \in Recording \ {"decided"}
      BY DEF Row, Recording
    <2>4. SetRow(p, row) /\ Goto(p, "audit")
      BY <1>5, <1>7 DEF RecordCheck
    <2> HIDE DEF row
    <2> QED
      BY <1>6, <2>2, <2>3, <2>4
  <1>8. CASE RecordAction(p)
    <2> DEFINE row == [w EXCEPT !.audited = @ + 1]
               l == IF w.checks[Len(w.checks)] = "needs_approval" THEN "approve" ELSE "checks"
    <2>1. StageAt(l, row)
      BY <1>3, <1>5, <1>8, StageAudit DEF RecordAction
    <2>2. row.index = w.index /\ row.agent = w.agent /\ l \in Recording \ {"decided"}
      BY DEF Row, Recording
    <2>3. SetRow(p, row) /\ Goto(p, l)
      BY <1>5, <1>8 DEF RecordAction
    <2> HIDE DEF row, l
    <2> QED
      BY <1>6, <2>1, <2>2, <2>3
  <1>9. CASE RequestApproval(p)
    <2> DEFINE row == [w EXCEPT !.approvals = @ + 1]
    <2>1. StageAt("checks", row)
      BY <1>3, <1>5, <1>9, StageApprove DEF RequestApproval
    <2>2. row.index = w.index /\ row.agent = w.agent /\ "checks" \in Recording \ {"decided"}
      BY DEF Row, Recording
    <2>3. SetRow(p, row) /\ Goto(p, "checks")
      BY <1>5, <1>9 DEF RequestApproval
    <2> HIDE DEF row
    <2> QED
      BY <1>6, <2>1, <2>2, <2>3
  <1>10. CASE RecordReplan(p)
    <2> DEFINE row == [w EXCEPT !.replan = ReplanDue(w.decision, w.checks)]
    <2>1. StageAt("reflect", row)
      BY <1>3, <1>5, <1>10, StageReplan DEF RecordReplan
    <2>2. row.index = w.index /\ row.agent = w.agent /\ "reflect" \in Recording \ {"decided"}
      BY DEF Row, Recording
    <2>3. run[p].checks = w.checks /\ run[p].decision = w.decision
      BY <1>1, <1>4, <1>5, <1>10, SameChecks DEF RecordReplan
    <2>4. SetRow(p, row) /\ Goto(p, "reflect")
      BY <1>5, <1>10, <2>3 DEF RecordReplan
    <2> HIDE DEF row
    <2> QED
      BY <1>6, <2>1, <2>2, <2>4
  <1>11. CASE RecordReflection(p)
    <2>1. run[p].checks = w.checks /\ run[p].decision = w.decision
      BY <1>1, <1>2, <1>4, <1>5, <1>11, SameChecks DEF RecordReflection
    <2>2. PICK k \in ReflectionsDue(w.decision, w.checks) :
            SetRow(p, [w EXCEPT !.reflections = @ \union {k}])
      BY <1>5, <1>11, <2>1 DEF RecordReflection
    <2> DEFINE row == [w EXCEPT !.reflections = @ \union {k}]
    <2>3. StageAt("lesson", row)
      BY <1>3, <1>5, <1>11, StageReflect DEF RecordReflection
    <2>4. row.index = w.index /\ row.agent = w.agent /\ "lesson" \in Recording \ {"decided"}
      BY DEF Row, Recording
    <2>5. SetRow(p, row) /\ Goto(p, "lesson")
      BY <1>11, <2>2 DEF RecordReflection
    <2> HIDE DEF row
    <2> QED
      BY <1>6, <2>3, <2>4, <2>5
  <1>12. CASE RecordLesson(p)
    <2> DEFINE row == [w EXCEPT !.lessons = w.reflections]
    <2>1. StageAt("reflect", row)
      BY <1>3, <1>5, <1>12, StageLesson DEF RecordLesson
    <2>2. row.index = w.index /\ row.agent = w.agent /\ "reflect" \in Recording \ {"decided"}
      BY DEF Row, Recording
    <2>3. SetRow(p, row) /\ Goto(p, "reflect")
      BY <1>5, <1>12 DEF RecordLesson
    <2> HIDE DEF row
    <2> QED
      BY <1>6, <2>1, <2>2, <2>3
  <1> QED
    BY <1>7, <1>8, <1>9, <1>10, <1>11, <1>12

(* The row of an agent that answered goes on to its checks. *)
LEMMA DecisionRecord ==
    ASSUME CInv, RecordInv, NEW p \in Procs, RecordDecision(p) PROVE RecordInv'
  <1>1. NoneFinished /\ UNCHANGED iters /\ pc[p] = "decided"
    <2>1. Entry("decision_made", Index(p), run[p].row).name # "iteration_finished"
      BY DEF Entry
    <2> QED
      BY <2>1, LogNotFinished DEF RecordDecision, CInv, Typed
  <1>2. CASE Leave(p, "blocked", "task_blocked", Index(p), run[p].row)
    BY <1>1, <1>2, LeaveRecord
  <1>3. CASE run[p].reason # "unavailable" /\ Goto(p, "checks") /\ UNCHANGED run
    <2>1. OthersStay(p) /\ pc'[p] = "checks"
      BY <1>3, GotoOthers DEF CInv, Typed
    <2>2. Writing(p) /\ Recorded(p)
      BY <1>1, <1>3 DEF RecordInv, Recorded, Recording
    <2>3. RowOf(p)' = RowOf(p) /\ Index(p)' = Index(p)
      BY <1>1, <1>3 DEF RowOf, Index
    <2>4. StageAt("checks", RowOf(p))
      BY <1>1, <2>2 DEF Writing, StageAt
    <2>5. Writing(p)'
      BY <1>3, <2>1, <2>2, <2>3, <2>4 DEF Writing, Recorded
    <2> QED
      BY <1>1, <1>3, <2>1, <2>5, RecordFrame DEF Recording
  <1> QED
    BY <1>2, <1>3 DEF RecordDecision

(* The last step vouches for a row that has all it should have. *)
LEMMA FinishRecord ==
    ASSUME CInv, RecordInv, NEW p \in Procs, FinishIteration(p) PROVE RecordInv'
  <1>t. PICK t \in Tasks : t = run[p].task
    BY DEF FinishIteration, CInv, Typed, TaskOK
  <1>e. PICK new : new = Entry("iteration_finished", Index(p), run[p].row)
    OBVIOUS
  <1>1. /\ pc[p] = "reflect" /\ Recorded(p) /\ Writing(p) /\ UNCHANGED iters
        /\ run[p] \in Runs
    BY DEF FinishIteration, RecordInv, Writing, Recorded, Recording, CInv, Typed, TypeOK, TaskOK
  <1>2. run[p].row \in DOMAIN iters[t] /\ RowOf(p).decision = run[p].decision
    BY <1>t, <1>1 DEF CInv, CompletionInv, OwnedRow, Owns, Records, Recording
  <1>3. RowOf(p).checks = run[p].checks
    BY <1>1, OwnRow, SameChecks DEF Recording
  <1>4. Complete(RowOf(p), Index(p))
    <2>1. StageAt("reflect", RowOf(p)) /\ RowOf(p).checks \in Seq(CheckStatuses)
      BY <1>1, OwnRow DEF Writing, Recording
    <2>2. RowOf(p).audited \in Nat
      BY <1>1, OwnRow DEF Row, Recording
    <2>3. /\ RowOf(p).reflections = ReflectionsDue(RowOf(p).decision, RowOf(p).checks)
          /\ RowOf(p).lessons = RowOf(p).reflections
      BY <1>2, <1>3, <2>1 DEF FinishIteration, StageAt
    <2>4. Pending(RowOf(p).checks) \ {} = Pending(RowOf(p).checks)
      OBVIOUS
    <2>5. /\ RowOf(p).audited + 0 = Len(RowOf(p).checks)
          /\ RowOf(p).approvals = Cardinality(Pending(RowOf(p).checks))
          /\ RowOf(p).replan = ReplanDue(RowOf(p).decision, RowOf(p).checks)
      BY <2>1, <2>4 DEF StageAt
    <2>6. /\ RowOf(p).index = Index(p)
          /\ Len(RowOf(p).checks) = ResultChecks(RowOf(p).agent)
      BY <1>1, <1>3 DEF Writing
    <2> QED
      BY <2>2, <2>3, <2>5, <2>6 DEF Complete
  <1>5. /\ \A u \in Tasks \ {t} : Finished(u)' = Finished(u)
        /\ \A e \in Finished(t)' : e \in Finished(t) \/ e = new
    <2>1. Log(t, {new}) /\ events \in [Tasks -> SUBSET Entries]
      BY <1>t, <1>e DEF FinishIteration, CInv, Typed, TypeOK
    <2>2. \A u \in Tasks \ {t} : events'[u] = events[u]
      BY <2>1 DEF Log
    <2>3. events'[t] \subseteq events[t] \union {new}
      BY <1>1, <2>1 DEF Log
    <2> QED
      BY <2>2, <2>3 DEF Finished
  <1>6. OthersStay(p) /\ pc'[p] \notin Recording \union {"decide", "record"}
        /\ run'[p].leave.event.name # "iteration_finished"
    <2>1. CASE Goto(p, "gate") /\ Local(p, [run[p] EXCEPT !.attempt = @ + 1])
      <3> DEFINE r == [run[p] EXCEPT !.attempt = @ + 1]
      <3>1. r.leave = run[p].leave
        BY <1>1 DEF Runs
      <3>2. Local(p, r)
        BY <2>1
      <3> HIDE DEF r
      <3>3. OthersStay(p) /\ pc'[p] = "gate" /\ run'[p] = r
        BY <2>1, <3>2, GotoOthers DEF CInv, Typed, TypeOK, Local
      <3> QED
        BY <1>1, <3>1, <3>3 DEF Writing, Recording
    <2>2. ASSUME NEW st, NEW name, name # "iteration_finished",
                 Leave(p, st, name, Index(p), run[p].row)
          PROVE  /\ OthersStay(p) /\ pc'[p] \notin Recording \union {"decide", "record"}
                 /\ run'[p].leave.event.name # "iteration_finished"
      <3> DEFINE e == Entry(name, Index(p), run[p].row)
                 r == [run[p] EXCEPT !.leave = [status |-> st, event |-> e]]
      <3>1. e.name # "iteration_finished"
        BY <2>2 DEF Entry
      <3> HIDE DEF e
      <3>2. r.leave.event.name # "iteration_finished"
        BY <1>1, <3>1 DEF Runs
      <3>3. Local(p, r) /\ Goto(p, "exit")
        BY <2>2 DEF Leave, e
      <3> HIDE DEF r
      <3>4. OthersStay(p) /\ pc'[p] = "exit" /\ run'[p] = r
        BY <3>3, GotoOthers DEF CInv, Typed, TypeOK, Local
      <3> QED
        BY <3>2, <3>4 DEF Recording
    <2> QED
      BY <2>1, <2>2 DEF FinishIteration
  <1>7. ASSUME NEW q \in Procs PROVE Writing(q)' /\ (q # p => pc'[q] = pc[q] /\ run'[q] = run[q])
    <2>1. CASE q = p
      BY <1>6, <2>1 DEF Writing, Recorded
    <2>2. CASE q # p
      <3>1. pc'[q] = pc[q] /\ run'[q] = run[q] /\ Writing(q)
        BY <1>6, <2>2 DEF OthersStay, RecordInv
      <3> QED
        BY <1>1, <3>1 DEF Writing, Recorded, RowOf, Index
    <2> QED
      BY <2>1, <2>2
  <1>8. ASSUME NEW u \in Tasks, NEW e \in Finished(u)'
        PROVE  /\ e.row \in DOMAIN iters'[u] /\ Complete(iters'[u][e.row], e.index)
               /\ \A q \in Procs : pc'[q] \in Recording /\ run'[q].task = u => run'[q].row # e.row
    <2>1. CASE e \in Finished(u)
      BY <1>1, <1>6, <1>7, <2>1 DEF RecordInv
    <2>2. CASE e \notin Finished(u)
      <3>1. u = t /\ e.row = run[p].row /\ e.index = Index(p)
        <4>1. new.row = run[p].row /\ new.index = Index(p)
          BY <1>e DEF Entry
        <4> QED
          BY <1>5, <2>2, <4>1
      <3>2. ASSUME NEW q \in Procs, pc'[q] \in Recording, run'[q].task = u
            PROVE  run'[q].row # e.row
        <4>1. q # p /\ pc[q] \in Recording /\ run'[q] = run[q]
          BY <1>6, <1>7, <3>2
        <4> QED
          BY <1>t, <1>1, <3>1, <3>2, <4>1 DEF CInv, CompletionInv, OwnersApart, Owns, Recording
      <3> QED
        BY <1>t, <1>1, <1>2, <1>4, <3>1, <3>2 DEF RowOf
    <2> QED
      BY <2>1, <2>2
  <1> QED
    BY <1>7, <1>8 DEF RecordInv

LEMMA RecordStays ==
    CInv /\ RecordInv /\ [Next]_vars => RecordInv'
  <1> SUFFICES ASSUME CInv, RecordInv, [Next]_vars PROVE RecordInv'
    OBVIOUS
  <1>1. ASSUME NEW p \in Procs, Step(p) \/ Interrupt(p) \/ Die(p) PROVE RecordInv'
    BY <1>1, LoopRecord, ResultRecord, VerifiedRecord, JudgedRecord, RecordedRow,
       UnavailableRow, WriteRecord, DecisionRecord, FinishRecord DEF Step
  <1>2. ASSUME NEW p \in Procs, NEW t \in Tasks, Start(p, t) \/ Resume(p, t) PROVE RecordInv'
    BY <1>2, LoopRecord
  <1>3. ASSUME UNCHANGED <<pc, run, iters>>, NoneFinished PROVE RecordInv'
    <2>1. \A q \in Procs : Writing(q)'
      BY <1>3 DEF RecordInv, Writing, Recorded, RowOf, Index
    <2> QED
      BY <1>3, <2>1 DEF RecordInv, NoneFinished
  <1>4. CASE RecoverScan \/ UNCHANGED vars \/ \E p \in Procs : AgentEdit(p)
    BY <1>3, <1>4, StillNotFinished DEF RecoverScan, AgentEdit, vars
  <1>5. ASSUME NEW t \in Tasks, Operator(t) PROVE RecordInv'
    <2>1. UNCHANGED <<pc, run, iters>>
      BY <1>5 DEF Operator, Cancel, RecoverBlock, RecoverLog
    <2>2. UNCHANGED events \/ Log(t, {Entry("task_recovered", 0, 0)})
      BY <1>5 DEF Operator, Cancel, RecoverBlock, RecoverLog
    <2>3. Entry("task_recovered", 0, 0).name # "iteration_finished"
      BY DEF Entry
    <2> QED
      BY <1>3, <2>1, <2>2, <2>3, StillNotFinished, LogNotFinished DEF CInv, Typed
  <1> QED
    BY <1>1, <1>2, <1>4, <1>5 DEF Next

LEMMA InitRecord == Init => RecordInv
  BY BlankNotFinished DEF Init, RecordInv, Writing, Recorded, Recording, Finished

(* Whoever reads iteration_finished in the event log finds the whole record  *)
(* of the iteration in the other tables, whatever other runs of the task,    *)
(* cancels, recoveries and deaths came between (the record steps of _run).   *)
THEOREM FinishedIsComplete == Spec => []FinishedIterationComplete
  <1>1. RecordInv => FinishedIterationComplete
    <2> SUFFICES ASSUME RecordInv, NEW t \in Tasks, NEW e \in events[t],
                        e.name = "iteration_finished"
                 PROVE  /\ e.row \in DOMAIN iters[t]
                        /\ LET row == iters[t][e.row]
                               pending == {i \in DOMAIN row.checks : row.checks[i] = "needs_approval"}
                               due == ReflectionsDue(row.decision, row.checks)
                           IN  /\ row.index = e.index
                               /\ Len(row.checks) = (IF row.agent = "success" THEN NumChecks ELSE 0)
                               /\ row.audited = Len(row.checks)
                               /\ row.approvals = Cardinality(pending)
                               /\ row.replan = ReplanDue(row.decision, row.checks)
                               /\ row.reflections = due /\ row.lessons = due
      BY ZenonT(40) DEF FinishedIterationComplete
    <2>1. e.row \in DOMAIN iters[t] /\ Complete(iters[t][e.row], e.index)
      BY DEF RecordInv, Finished
    <2> QED
      BY <2>1 DEF Complete, Pending, ResultChecks
  <1> QED
    BY <1>1, InitRecord, RecordStays, InitCompletion, NextCompletion, PTL DEF Spec
-----------------------------------------------------------------------------
(* The agent calls that the runs of a task may still make, as pairs of the   *)
(* process and the attempt.                                                  *)

ToCall == {"resume", "mark", "announce", "available", "gate"}

MayCall(p, k, t) ==
    /\ pc[p] # "idle" /\ run[p].task = t
    /\ run[p].attempt <= k /\ k <= run[p].limit
    /\ pc[p] \notin ToCall => k # run[p].attempt

Left(t) == {c \in Procs \X Nat : MayCall(c[1], c[2], t)}

BudgetInv ==
    \A t \in Tasks : /\ IsFiniteSet(Left(t))
                     /\ calls[t].made + Cardinality(Left(t)) <= calls[t].allowed

(* A step of p that lets it make no call it could not make before. *)
LEMMA BudgetFrame ==
    ASSUME Typed, BudgetInv, NEW p \in Procs, OthersStay(p), UNCHANGED calls,
           \A t \in Tasks : \A k \in Nat : MayCall(p, k, t)' => MayCall(p, k, t)
    PROVE  BudgetInv'
  <1>1. ASSUME NEW t \in Tasks, NEW q \in Procs, NEW k \in Nat, MayCall(q, k, t)'
        PROVE  MayCall(q, k, t)
    BY <1>1 DEF OthersStay, MayCall
  <1>2. ASSUME NEW t \in Tasks
        PROVE  /\ IsFiniteSet(Left(t)')
               /\ calls'[t].made + Cardinality(Left(t)') <= calls'[t].allowed
    <2>1. Left(t)' \in SUBSET Left(t)
      BY <1>1 DEF Left
    <2>2. IsFiniteSet(Left(t)) /\ calls[t].made + Cardinality(Left(t)) <= calls[t].allowed
      BY DEF BudgetInv
    <2>3. IsFiniteSet(Left(t)') /\ Cardinality(Left(t)') <= Cardinality(Left(t))
      BY <2>1, <2>2, FS_Subset
    <2>4. calls[t].made \in Nat /\ calls[t].allowed \in Nat
      BY DEF Typed, TypeOK
    <2>5. Cardinality(Left(t)) \in Nat /\ Cardinality(Left(t)') \in Nat
      BY <2>2, <2>3, FS_CardinalityType
    <2> QED
      BY <2>2, <2>3, <2>4, <2>5
  <1> QED
    BY <1>2 DEF BudgetInv

LEMMA MoveBudget ==
    ASSUME Typed, BudgetInv, NEW p \in Procs, NEW l, NEW r, Goto(p, l), Local(p, r),
           UNCHANGED calls,
           \/ l = "idle"
           \/ /\ pc[p] # "idle" /\ r.task = run[p].task /\ r.attempt = run[p].attempt
              /\ r.limit = run[p].limit
              /\ (l \in ToCall => pc[p] \in ToCall)
    PROVE  BudgetInv'
  <1>1. OthersStay(p) /\ pc'[p] = l /\ run'[p] = r
    BY GotoOthers DEF Typed, TypeOK, Local
  <1>2. ASSUME NEW t \in Tasks, NEW k \in Nat, MayCall(p, k, t)' PROVE MayCall(p, k, t)
    <2>1. CASE l = "idle"
      BY <1>1, <1>2, <2>1 DEF MayCall
    <2>2. CASE l # "idle"
      <3>1. /\ r.task = t /\ r.attempt <= k /\ k <= r.limit
            /\ l \notin ToCall => k # r.attempt
        BY <1>1, <1>2 DEF MayCall
      <3>2. /\ pc[p] # "idle" /\ r.task = run[p].task /\ r.attempt = run[p].attempt
            /\ r.limit = run[p].limit
            /\ l \in ToCall => pc[p] \in ToCall
        BY <2>2
      <3> QED
        BY <3>1, <3>2 DEF MayCall
    <2> QED
      BY <2>1, <2>2
  <1> QED
    BY <1>1, <1>2, BudgetFrame

LEMMA GotoBudget ==
    ASSUME Typed, BudgetInv, NEW p \in Procs, NEW l, Goto(p, l), UNCHANGED <<run, calls>>,
           pc[p] # "idle", l \in ToCall => pc[p] \in ToCall
    PROVE  BudgetInv'
  <1>1. Local(p, run[p])
    BY DEF Typed, TypeOK, Local
  <1> QED
    BY <1>1, MoveBudget

LEMMA LeaveBudget ==
    ASSUME Typed, BudgetInv, NEW p \in Procs, NEW st, NEW name, NEW i, NEW row,
           Leave(p, st, name, i, row), UNCHANGED calls, pc[p] # "idle"
    PROVE  BudgetInv'
  <1> DEFINE r == [run[p] EXCEPT !.leave = [status |-> st, event |-> Entry(name, i, row)]]
  <1>1. r.task = run[p].task /\ r.attempt = run[p].attempt /\ r.limit = run[p].limit
    BY DEF Typed, TypeOK, Runs
  <1>2. Local(p, r) /\ Goto(p, "exit") /\ "exit" \notin ToCall
    BY DEF Leave, ToCall
  <1> HIDE DEF r
  <1> QED
    BY <1>1, <1>2, MoveBudget

LEMMA ReturnBudget ==
    ASSUME Typed, BudgetInv, NEW p \in Procs, Return(p), UNCHANGED calls
    PROVE  BudgetInv'
  BY MoveBudget DEF Return

(* A run is started with as many calls as its limit allows. *)
LEMMA BeginBudget ==
    ASSUME Typed, BudgetInv, NEW p \in Procs, NEW t \in Tasks, NEW limit \in Limits, NEW l, NEW r,
           pc[p] = "idle", Goto(p, l), Local(p, r), l \in ToCall,
           r.task = t, r.limit = limit, r.attempt = 1,
           calls' = [calls EXCEPT ![t].allowed = @ + limit]
    PROVE  BudgetInv'
  <1> DEFINE new == {p} \X (1..limit)
  <1>1. OthersStay(p) /\ pc'[p] = l /\ run'[p] = r /\ limit \in Nat /\ l # "idle"
    BY GotoOthers, LimitAssumption DEF Typed, TypeOK, Local, ToCall
  <1>2. \A q \in Procs : \A k \in Nat : \A u \in Tasks :
          MayCall(q, k, u)' <=> IF q = p THEN u = t /\ k \in 1..limit ELSE MayCall(q, k, u)
    BY <1>1 DEF OthersStay, MayCall
  <1>3. \A k \in Nat : \A u \in Tasks : ~ MayCall(p, k, u)
    BY DEF MayCall
  <1>4. \A u \in Tasks : Left(u)' = IF u = t THEN Left(u) \union new ELSE Left(u)
    <2>1. ASSUME NEW u \in Tasks, NEW c \in Procs \X Nat
          PROVE  MayCall(c[1], c[2], u)' <=> MayCall(c[1], c[2], u) \/ (u = t /\ c \in new)
      BY <1>1, <1>2, <1>3
    <2>2. new \subseteq Procs \X Nat
      BY <1>1
    <2> QED
      BY <2>1, <2>2 DEF Left
  <1>5. IsFiniteSet(new) /\ Cardinality(new) <= limit
    <2> DEFINE f == [k \in 1..limit |-> <<p, k>>]
    <2>1. f \in Surjection(1..limit, new)
      BY DEF Surjection
    <2>2. IsFiniteSet(1..limit) /\ Cardinality(1..limit) = limit
      BY <1>1, FS_Interval
    <2> HIDE DEF f, new
    <2> QED
      BY <2>1, <2>2, FS_Surjection
  <1>6. ASSUME NEW u \in Tasks
        PROVE  /\ IsFiniteSet(Left(u)')
               /\ calls'[u].made + Cardinality(Left(u)') <= calls'[u].allowed
    <2>1. IsFiniteSet(Left(u)) /\ calls[u].made + Cardinality(Left(u)) <= calls[u].allowed
      BY DEF BudgetInv
    <2>2. calls[u].made \in Nat /\ calls[u].allowed \in Nat /\ Cardinality(Left(u)) \in Nat
      BY <2>1, FS_CardinalityType DEF Typed, TypeOK
    <2>3. CASE u # t
      <3>1. calls'[u] = calls[u]
        BY <2>3 DEF Typed, TypeOK
      <3> QED
        BY <1>4, <2>1, <2>3, <3>1
    <2>4. CASE u = t
      <3>1. calls'[u].made = calls[u].made /\ calls'[u].allowed = calls[u].allowed + limit
        BY <2>4 DEF Typed, TypeOK
      <3> HIDE DEF new
      <3>2. /\ IsFiniteSet(Left(u) \union new) /\ IsFiniteSet(Left(u) \cap new)
            /\ Cardinality(Left(u) \union new) =
                 Cardinality(Left(u)) + Cardinality(new) - Cardinality(Left(u) \cap new)
        BY <1>5, <2>1, FS_Union, FS_Intersection
      <3>3. Cardinality(new) \in Nat /\ Cardinality(Left(u) \cap new) \in Nat
        BY <1>5, <3>2, FS_CardinalityType
      <3>4. Left(u)' = Left(u) \union new
        BY <1>4, <2>4
      <3> QED
        BY <1>1, <1>5, <2>1, <2>2, <3>1, <3>2, <3>3, <3>4
    <2> QED
      BY <2>3, <2>4
  <1> QED
    BY <1>6 DEF BudgetInv

(* A call uses up one of those left. *)
LEMMA CallBudgetKept ==
    ASSUME Typed, BudgetInv, NEW p \in Procs, CallAgent(p) PROVE BudgetInv'
  <1> DEFINE c == <<p, run[p].attempt>>
  <1>t. PICK t \in Tasks : t = run[p].task
    BY DEF CallAgent, Typed, TaskOK
  <1>1. OthersStay(p) /\ pc'[p] = "agent" /\ pc[p] = "gate" /\ UNCHANGED run
        /\ run[p].attempt \in Nat /\ run[p].attempt <= run[p].limit
        /\ calls' = [calls EXCEPT ![t].made = @ + 1]
    BY <1>t, GotoOthers DEF CallAgent, Typed, TypeOK, Runs
  <1>2. \A q \in Procs : \A k \in Nat : \A u \in Tasks :
          MayCall(q, k, u)' <=> MayCall(q, k, u) /\ <<q, k>> # c
    BY <1>1 DEF OthersStay, MayCall, ToCall
  <1>3. MayCall(p, run[p].attempt, t) /\ \A u \in Tasks : \A k : MayCall(p, k, u) => u = t
    BY <1>t, <1>1 DEF MayCall, ToCall, Typed, TypeOK, Runs
  <1>4. Left(t)' = Left(t) \ {c} /\ c \in Left(t)
    <2>1. \A d \in Procs \X Nat : d = <<d[1], d[2]>> /\ d[1] \in Procs /\ d[2] \in Nat
      OBVIOUS
    <2> QED
      BY <1>1, <1>2, <1>3, <2>1 DEF Left
  <1>5. \A u \in Tasks \ {t} : Left(u)' = Left(u)
    <2>1. \A d \in Procs \X Nat : d = <<d[1], d[2]>> /\ d[1] \in Procs /\ d[2] \in Nat
      OBVIOUS
    <2>2. \A u \in Tasks \ {t} : \A q \in Procs : \A k \in Nat :
            MayCall(q, k, u)' <=> MayCall(q, k, u)
      BY <1>2, <1>3
    <2> QED
      BY <2>1, <2>2 DEF Left
  <1> HIDE DEF c
  <1>6. ASSUME NEW u \in Tasks
        PROVE  /\ IsFiniteSet(Left(u)')
               /\ calls'[u].made + Cardinality(Left(u)') <= calls'[u].allowed
    <2>1. IsFiniteSet(Left(u)) /\ calls[u].made + Cardinality(Left(u)) <= calls[u].allowed
      BY DEF BudgetInv
    <2>2. calls[u].made \in Nat /\ calls[u].allowed \in Nat /\ Cardinality(Left(u)) \in Nat
      BY <2>1, FS_CardinalityType DEF Typed, TypeOK
    <2>3. CASE u # t
      BY <1>1, <1>5, <2>1, <2>3 DEF Typed, TypeOK
    <2>4. CASE u = t
      <3>1. calls'[u].made = calls[u].made + 1 /\ calls'[u].allowed = calls[u].allowed
        BY <1>1, <2>4 DEF Typed, TypeOK
      <3>2. IsFiniteSet(Left(u) \ {c}) /\ Cardinality(Left(u) \ {c}) = Cardinality(Left(u)) - 1
        BY <1>4, <2>1, <2>4, FS_RemoveElement
      <3>3. Left(u)' = Left(u) \ {c}
        BY <1>4, <2>4
      <3>4. IsFiniteSet(Left(u)') /\ Cardinality(Left(u)') = Cardinality(Left(u)) - 1
        BY <3>2, <3>3
      <3> QED
        BY <2>1, <2>2, <3>1, <3>4
    <2> QED
      BY <2>3, <2>4
  <1> QED
    BY <1>6 DEF BudgetInv

LEMMA StepBudget ==
    ASSUME Typed, BudgetInv, NEW p \in Procs, Step(p) \/ Interrupt(p) \/ Die(p) PROVE BudgetInv'
  <1>0. run[p] \in Runs /\ pc \in [Procs -> Labels]
    BY DEF Typed, TypeOK
  <1>1. pc[p] # "idle"
    BY DEF Step, Interrupt, Die, ResumeCheck, MarkRunning, Announce, AgentUnavailable, StartSession,
       Exhausted, OutOfTime, CancelledBeforeAgent, CallAgent, AgentReturns, AgentStopped,
       ReceiveResult, OutOfTimeBeforeVerification, PrepareVerification, RunCheck,
       FinishVerification, DecideIteration, RecordIteration, RecordDecision, RecordCheck,
       RecordAction, RequestApproval, RecordReplan, RecordReflection, RecordLesson,
       FinishIteration, WriteStatus, LogStatus
  <1>2. CASE CallAgent(p)
    BY <1>2, CallBudgetKept
  <1>3. CASE \/ ResumeCheck(p) \/ CancelledBeforeAgent(p) \/ PrepareVerification(p)
             \/ LogStatus(p) \/ Interrupt(p) \/ Die(p)
    BY <1>1, <1>3, ReturnBudget, GotoBudget DEF ResumeCheck, CancelledBeforeAgent,
       PrepareVerification, LogStatus, Interrupt, Die, loopvars, ToCall
  <1>4. CASE \/ MarkRunning(p) \/ Announce(p) \/ FinishVerification(p) \/ RecordCheck(p)
             \/ RecordAction(p) \/ RequestApproval(p) \/ RecordReplan(p) \/ RecordReflection(p)
             \/ RecordLesson(p) \/ WriteStatus(p)
    BY <1>1, <1>4, GotoBudget DEF MarkRunning, Announce, FinishVerification, RecordCheck,
       RecordAction, RequestApproval, RecordReplan, RecordReflection, RecordLesson, WriteStatus,
       loopvars, ToCall
  <1>5. CASE Exhausted(p) \/ OutOfTime(p) \/ OutOfTimeBeforeVerification(p)
    BY <1>1, <1>5, LeaveBudget DEF Exhausted, OutOfTime, OutOfTimeBeforeVerification, loopvars
  <1>6. CASE RecordDecision(p)
    BY <1>1, <1>6, LeaveBudget, GotoBudget DEF RecordDecision, loopvars, ToCall
  <1>7. ASSUME NEW r, Local(p, r), NEW l, Goto(p, l), UNCHANGED calls,
               r.task = run[p].task, r.attempt = run[p].attempt, r.limit = run[p].limit,
               l \in ToCall => pc[p] \in ToCall
        PROVE  BudgetInv'
    BY <1>1, <1>7, MoveBudget
  <1>8. CASE AgentUnavailable(p)
    <2> DEFINE r == [run[p] EXCEPT !.decision = "blocked", !.reason = "unavailable",
                                   !.row = Len(iters[run[p].task]) + 1]
    <2>1. r.task = run[p].task /\ r.attempt = run[p].attempt /\ r.limit = run[p].limit
      BY <1>0 DEF Runs
    <2>2. Local(p, r) /\ Goto(p, "decided") /\ UNCHANGED calls
      BY <1>8 DEF AgentUnavailable, loopvars
    <2> HIDE DEF r
    <2> QED
      BY <1>7, <2>1, <2>2 DEF ToCall
  <1>9. CASE StartSession(p)
    <2>1. PICK snap : Local(p, [run[p] EXCEPT !.base = snap, !.origin = tree.version,
                                          !.seen = tree.version])
      BY <1>9 DEF StartSession
    <2> DEFINE r == [run[p] EXCEPT !.base = snap, !.origin = tree.version, !.seen = tree.version]
    <2>2. r.task = run[p].task /\ r.attempt = run[p].attempt /\ r.limit = run[p].limit
      BY <1>0 DEF Runs
    <2>3. Local(p, r) /\ Goto(p, "gate") /\ UNCHANGED calls /\ pc[p] = "available"
      BY <1>9, <2>1 DEF StartSession, loopvars
    <2> HIDE DEF r
    <2> QED
      BY <1>7, <2>2, <2>3 DEF ToCall
  <1>10. CASE AgentReturns(p)
    <2>1. PICK st, files : Local(p, [run[p] EXCEPT !.agent = st, !.files = files])
      BY <1>10 DEF AgentReturns
    <2> DEFINE r == [run[p] EXCEPT !.agent = st, !.files = files]
    <2>2. r.task = run[p].task /\ r.attempt = run[p].attempt /\ r.limit = run[p].limit
      BY <1>0 DEF Runs
    <2>3. Local(p, r) /\ Goto(p, "agent_result") /\ UNCHANGED calls
      BY <1>10, <2>1 DEF AgentReturns, loopvars
    <2> HIDE DEF r
    <2> QED
      BY <1>7, <2>2, <2>3 DEF ToCall
  <1>11. CASE AgentStopped(p)
    <2> DEFINE r == [run[p] EXCEPT !.agent = "cancelled", !.files = {}]
    <2>2. r.task = run[p].task /\ r.attempt = run[p].attempt /\ r.limit = run[p].limit
      BY <1>0 DEF Runs
    <2>3. Local(p, r) /\ Goto(p, "agent_result") /\ UNCHANGED calls
      BY <1>11 DEF AgentStopped, loopvars
    <2> HIDE DEF r
    <2> QED
      BY <1>7, <2>2, <2>3 DEF ToCall
  <1>12. CASE ReceiveResult(p)
    <2>1. CASE Leave(p, "cancelled", "cancelled_after_agent", Index(p), 0)
      BY <1>1, <1>12, <2>1, LeaveBudget DEF ReceiveResult, loopvars
    <2>2. CASE /\ Goto(p, IF run[p].agent = "success" THEN "prepare" ELSE "decide")
               /\ Local(p, [run[p] EXCEPT !.checks = << >>])
      <3> DEFINE r == [run[p] EXCEPT !.checks = << >>]
      <3>1. r.task = run[p].task /\ r.attempt = run[p].attempt /\ r.limit = run[p].limit
        BY <1>0 DEF Runs
      <3>2. Local(p, r) /\ UNCHANGED calls
        BY <1>12, <2>2 DEF ReceiveResult, loopvars
      <3> HIDE DEF r
      <3> QED
        BY <1>7, <2>2, <3>1, <3>2 DEF ToCall
    <2> QED
      BY <1>12, <2>1, <2>2 DEF ReceiveResult
  <1>13. CASE RunCheck(p)
    <2>1. PICK st : Local(p, [run[p] EXCEPT !.checks = Append(@, st)])
      BY <1>13 DEF RunCheck
    <2> DEFINE r == [run[p] EXCEPT !.checks = Append(@, st)]
    <2>2. r.task = run[p].task /\ r.attempt = run[p].attempt /\ r.limit = run[p].limit
      BY <1>0 DEF Runs
    <2>3. Local(p, r) /\ Goto(p, "verify") /\ UNCHANGED calls
      BY <1>0, <1>13, <2>1 DEF RunCheck, Goto, loopvars
    <2> HIDE DEF r
    <2> QED
      BY <1>7, <2>2, <2>3 DEF ToCall
  <1>14. CASE DecideIteration(p)
    <2>1. PICK snap : Local(p, Decided(p, snap))
      BY <1>14 DEF DecideIteration
    <2> DEFINE r == Decided(p, snap)
    <2>2. r.task = run[p].task /\ r.attempt = run[p].attempt /\ r.limit = run[p].limit
      BY <1>0 DEF Decided, Runs
    <2>3. Local(p, r) /\ Goto(p, "record") /\ UNCHANGED calls
      BY <1>14, <2>1 DEF DecideIteration, loopvars
    <2> HIDE DEF r
    <2> QED
      BY <1>7, <2>2, <2>3 DEF ToCall
  <1>15. CASE RecordIteration(p)
    <2> DEFINE r == [run[p] EXCEPT !.row = Len(iters[run[p].task]) + 1]
    <2>2. r.task = run[p].task /\ r.attempt = run[p].attempt /\ r.limit = run[p].limit
      BY <1>0 DEF Runs
    <2>3. Local(p, r) /\ Goto(p, "decided") /\ UNCHANGED calls
      BY <1>15 DEF RecordIteration, loopvars
    <2> HIDE DEF r
    <2> QED
      BY <1>7, <2>2, <2>3 DEF ToCall
  <1>16. CASE FinishIteration(p)
    <2>1. CASE \E st, name : Leave(p, st, name, Index(p), run[p].row)
      BY <1>1, <1>16, <2>1, LeaveBudget DEF FinishIteration, loopvars
    <2>2. CASE Goto(p, "gate") /\ Local(p, [run[p] EXCEPT !.attempt = @ + 1])
      <3> DEFINE r == [run[p] EXCEPT !.attempt = @ + 1]
      <3>1. /\ r.task = run[p].task /\ r.attempt = run[p].attempt + 1
            /\ r.limit = run[p].limit /\ run[p].attempt \in Nat
        BY <1>0 DEF Runs
      <3>2. Local(p, r)
        BY <2>2
      <3> HIDE DEF r
      <3>3. OthersStay(p) /\ pc'[p] = "gate" /\ run'[p] = r /\ UNCHANGED calls
            /\ pc[p] = "reflect"
        BY <1>16, <2>2, <3>2, GotoOthers DEF Typed, TypeOK, Local, FinishIteration, loopvars
      <3>4. \A t \in Tasks : \A k \in Nat : MayCall(p, k, t)' => MayCall(p, k, t)
        BY <3>1, <3>3 DEF MayCall
      <3> QED
        BY <3>3, <3>4, BudgetFrame
    <2> QED
      BY <1>16, <2>1, <2>2 DEF FinishIteration
  <1> QED
    BY <1>2, <1>3, <1>4, <1>5, <1>6, <1>8, <1>9, <1>10, <1>11, <1>12, <1>13, <1>14, <1>15, <1>16
    DEF Step

LEMMA NextBudget == Typed /\ BudgetInv /\ [Next]_vars => BudgetInv'
  <1> SUFFICES ASSUME Typed, BudgetInv, [Next]_vars PROVE BudgetInv'
    OBVIOUS
  <1>1. ASSUME NEW p \in Procs, Step(p) \/ Interrupt(p) \/ Die(p) PROVE BudgetInv'
    BY <1>1, StepBudget
  <1>2. ASSUME NEW p \in Procs, NEW t \in Tasks, Start(p, t) PROVE BudgetInv'
    <2>1. PICK limit \in Limits :
            /\ Local(p, [Blank EXCEPT !.task = t, !.fresh = TRUE, !.limit = limit])
            /\ calls' = [calls EXCEPT ![t].allowed = @ + limit]
      BY <1>2 DEF Start
    <2> DEFINE r == [Blank EXCEPT !.task = t, !.fresh = TRUE, !.limit = limit]
    <2>2. r.task = t /\ r.limit = limit /\ r.attempt = 1
      BY DEF Blank
    <2>3. Local(p, r)
      BY <2>1
    <2> HIDE DEF r
    <2> QED
      BY <1>2, <2>1, <2>2, <2>3, BeginBudget DEF Start, ToCall
  <1>3. ASSUME NEW p \in Procs, NEW t \in Tasks, Resume(p, t) PROVE BudgetInv'
    <2>1. PICK limit \in Limits :
            /\ Local(p, [Blank EXCEPT !.task = t, !.limit = limit, !.start = Len(iters[t]) + 1])
            /\ calls' = [calls EXCEPT ![t].allowed = @ + limit]
      BY <1>3 DEF Resume
    <2> DEFINE r == [Blank EXCEPT !.task = t, !.limit = limit, !.start = Len(iters[t]) + 1]
    <2>2. r.task = t /\ r.limit = limit /\ r.attempt = 1
      BY DEF Blank
    <2>3. Local(p, r)
      BY <2>1
    <2> HIDE DEF r
    <2> QED
      BY <1>3, <2>1, <2>2, <2>3, BeginBudget DEF Resume, ToCall
  <1>4. CASE UNCHANGED <<pc, run, calls>>
    BY <1>4 DEF BudgetInv, Left, MayCall
  <1> QED
    BY <1>1, <1>2, <1>3, <1>4 DEF Next, AgentEdit, Operator, Cancel, RecoverBlock, RecoverLog,
       RecoverScan, vars

(* However often a task is resumed, by however many processes and after any  *)
(* number of deaths, its agent is called no more often than the runs' own    *)
(* max_iterations add up to (the loop head of _run).                         *)
THEOREM CallsWithinBudget == Spec => []CallBudget
  <1>1. Init => BudgetInv
    <2> SUFFICES ASSUME Init, NEW t \in Tasks
                 PROVE  /\ IsFiniteSet(Left(t))
                        /\ calls[t].made + Cardinality(Left(t)) <= calls[t].allowed
      BY DEF BudgetInv
    <2>1. Left(t) = {} /\ calls[t].made = 0 /\ calls[t].allowed = 0
      BY DEF Init, Left, MayCall
    <2> QED
      BY <2>1, FS_EmptySet
  <1>2. Typed /\ BudgetInv => CallBudget
    <2> SUFFICES ASSUME Typed, BudgetInv, NEW t \in Tasks PROVE calls[t].made <= calls[t].allowed
      BY DEF CallBudget
    <2>1. /\ calls[t].made + Cardinality(Left(t)) <= calls[t].allowed
          /\ calls[t].made \in Nat /\ calls[t].allowed \in Nat /\ Cardinality(Left(t)) \in Nat
      BY FS_CardinalityType DEF BudgetInv, Typed, TypeOK
    <2> QED
      BY <2>1
  <1> QED
    BY <1>1, <1>2, NextBudget, InitTyped, NextTyped, PTL DEF Spec
-----------------------------------------------------------------------------
(* What a run knows of the tree: as long as the version is the one it        *)
(* started from, `git status' still shows what it showed then.               *)

Grounded(r) ==
    r.base # << >> => /\ r.origin <= tree.version
                      /\ r.origin = tree.version => r.base = <<tree.dirty>>

Moved(r) == r.files # {} \/ r.origin < tree.version

Touched(row) == row.decision = "done" => row.touched \/ row.reported

AllTouched == \A t \in Tasks : \A i \in DOMAIN iters[t] : Touched(iters[t][i])

RepoInv ==
    /\ \A p \in Procs : Grounded(run[p])
    /\ RequireRepoChange =>
         /\ \A p \in Procs : pc[p] = "record" /\ run[p].decision = "done" => Moved(run[p])
         /\ AllTouched

LEMMA RepoFrame ==
    ASSUME RepoInv, NEW p \in Procs, OthersStay(p), UNCHANGED tree, Grounded(run[p])',
           RequireRepoChange => AllTouched',
           pc'[p] = "record" => (RequireRepoChange /\ run'[p].decision = "done" => Moved(run[p])')
    PROVE  RepoInv'
  <1>1. ASSUME NEW q \in Procs PROVE Grounded(run[q])'
    BY <1>1 DEF OthersStay, RepoInv, Grounded
  <1>2. ASSUME RequireRepoChange, NEW q \in Procs, pc'[q] = "record", run'[q].decision = "done"
        PROVE  Moved(run[q])'
    <2>1. CASE q = p
      BY <1>2, <2>1
    <2>2. CASE q # p
      <3>1. pc[q] = "record" /\ run'[q] = run[q]
        BY <1>2, <2>2 DEF OthersStay
      <3> QED
        BY <1>2, <3>1 DEF RepoInv, Moved
    <2> QED
      BY <2>1, <2>2
  <1> QED
    BY <1>1, <1>2 DEF RepoInv

(* The steps of p that leave its view of the tree alone, or forget it. *)
LEMMA MoveRepo ==
    ASSUME Typed, RepoInv, NEW p \in Procs, NEW l, NEW r, Goto(p, l), Local(p, r),
           UNCHANGED tree, l # "record", RequireRepoChange => AllTouched',
           r.base = << >> \/ (r.base = run[p].base /\ r.origin = run[p].origin)
    PROVE  RepoInv'
  <1>1. OthersStay(p) /\ pc'[p] = l /\ run'[p] = r
    BY GotoOthers DEF Typed, TypeOK, Local
  <1>2. Grounded(run[p])'
    BY <1>1 DEF RepoInv, Grounded
  <1> QED
    BY <1>1, <1>2, RepoFrame

LEMMA GotoRepo ==
    ASSUME Typed, RepoInv, NEW p \in Procs, NEW l, Goto(p, l), UNCHANGED <<run, tree>>,
           l # "record", RequireRepoChange => AllTouched'
    PROVE  RepoInv'
  <1>1. Local(p, run[p])
    BY DEF Typed, TypeOK, Local
  <1> QED
    BY <1>1, MoveRepo

LEMMA SameRows == RepoInv /\ UNCHANGED iters => (RequireRepoChange => AllTouched')
  BY DEF RepoInv, AllTouched

LEMMA LeaveRepo ==
    ASSUME Typed, RepoInv, NEW p \in Procs, NEW st, NEW name, NEW i, NEW row,
           Leave(p, st, name, i, row), UNCHANGED <<tree, iters>>
    PROVE  RepoInv'
  <1> DEFINE r == [run[p] EXCEPT !.leave = [status |-> st, event |-> Entry(name, i, row)]]
  <1>1. r.base = run[p].base /\ r.origin = run[p].origin
    BY DEF Typed, TypeOK, Runs
  <1>2. Local(p, r) /\ Goto(p, "exit")
    BY DEF Leave
  <1> HIDE DEF r
  <1> QED
    BY <1>1, <1>2, SameRows, MoveRepo

LEMMA ReturnRepo ==
    ASSUME Typed, RepoInv, NEW p \in Procs, Return(p), UNCHANGED <<tree, iters>>
    PROVE  RepoInv'
  <1>1. Blank.base = << >>
    BY DEF Blank
  <1> QED
    BY <1>1, SameRows, MoveRepo DEF Return

(* The verdict: done is refused unless the agent named a file or two         *)
(* snapshots that were both taken differ, so that the version has moved on.  *)
LEMMA JudgedRepo ==
    ASSUME Typed, RepoInv, NEW p \in Procs, DecideIteration(p) PROVE RepoInv'
  <1>1. PICK snap \in snapshot : Local(p, Decided(p, snap))
    BY DEF DecideIteration
  <1>2. OthersStay(p) /\ run'[p] = Decided(p, snap) /\ UNCHANGED <<tree, iters>>
    BY <1>1, GotoOthers DEF DecideIteration, Typed, TypeOK, Local, loopvars
  <1> DEFINE r == Decided(p, snap)
  <1>3. r.base = run[p].base /\ r.origin = run[p].origin /\ r.files = run[p].files
    BY DEF Decided, Typed, TypeOK, Runs
  <1>4. RequireRepoChange /\ r.decision = "done" => HasRepoChange(run[p].files, run[p].base, snap)
    BY DEF Decided, Typed, TypeOK, Runs
  <1>5. Grounded(run[p])' /\ Grounded(run[p])
    BY <1>2, <1>3 DEF RepoInv, Grounded
  <1>6. snap # << >> => snap = <<tree.dirty>>
    BY DEF snapshot
  <1>7. run[p].origin \in Nat /\ tree.version \in Nat
    BY DEF Typed, TypeOK, Runs
  <1>8. HasRepoChange(run[p].files, run[p].base, snap) => Moved(run[p])
    BY <1>5, <1>6, <1>7 DEF HasRepoChange, Moved, Grounded
  <1>9. Moved(run[p]) => Moved(run[p])'
    BY <1>2, <1>3 DEF Moved
  <1> QED
    BY <1>2, <1>4, <1>5, <1>8, <1>9, SameRows, RepoFrame

(* Rows that are added or rewritten. *)
LEMMA AppendTouched ==
    ASSUME Typed, AllTouched, NEW t \in Tasks, NEW row, Touched(row),
           iters' = [iters EXCEPT ![t] = Append(@, row)]
    PROVE  AllTouched'
  <1>1. iters[t] \in Seq(Row) /\ iters'[t] = Append(iters[t], row)
    BY DEF Typed, TypeOK
  <1>2. /\ DOMAIN iters'[t] = DOMAIN iters[t] \union {Len(iters[t]) + 1}
        /\ iters'[t][Len(iters[t]) + 1] = row
        /\ \A i \in DOMAIN iters[t] : iters'[t][i] = iters[t][i]
    BY <1>1
  <1>3. \A u \in Tasks : u # t => iters'[u] = iters[u]
    BY DEF Typed, TypeOK
  <1>4. \A i \in DOMAIN iters'[t] : Touched(iters'[t][i])
    BY <1>2 DEF AllTouched
  <1> QED
    BY <1>3, <1>4 DEF AllTouched

LEMMA RewriteTouched ==
    ASSUME CInv, AllTouched, NEW p \in Procs, NEW row, pc[p] \in Recording, SetRow(p, row),
           row.decision = RowOf(p).decision, row.touched = RowOf(p).touched,
           row.reported = RowOf(p).reported
    PROVE  AllTouched'
  <1>t. PICK t \in Tasks : t = run[p].task
    BY DEF CInv, Typed, TaskOK, Recording
  <1>1. run[p].row \in DOMAIN iters[t]
    BY <1>t DEF Owns, OwnedRow, CInv, CompletionInv
  <1>2. /\ iters'[t] = [iters[t] EXCEPT ![run[p].row] = row]
        /\ \A u \in Tasks : u # t => iters'[u] = iters[u]
    BY <1>t DEF CInv, Typed, TypeOK, SetRow
  <1>3. Touched(row)
    <2>1. Touched(RowOf(p))
      BY <1>t, <1>1 DEF AllTouched, RowOf
    <2> QED
      BY <2>1 DEF Touched
  <1>4. iters[t] \in Seq(Row)
    BY DEF CInv, Typed, TypeOK
  <1>5. \A i \in DOMAIN iters'[t] : Touched(iters'[t][i])
    BY <1>1, <1>2, <1>3, <1>4 DEF AllTouched
  <1> QED
    BY <1>2, <1>5 DEF AllTouched

LEMMA RecordedRepo ==
    ASSUME Typed, RepoInv, NEW p \in Procs, RecordIteration(p) PROVE RepoInv'
  <1> DEFINE r == [run[p] EXCEPT !.row = Len(iters[run[p].task]) + 1]
  <1>1. run[p].task \in Tasks /\ run[p].origin \in Nat /\ tree.version \in Nat
    BY DEF RecordIteration, Typed, TaskOK, TypeOK, Runs
  <1>2. RequireRepoChange => Touched(NewRow(p))
    <2>1. RequireRepoChange /\ run[p].decision = "done" => Moved(run[p])
      BY DEF RepoInv, RecordIteration
    <2>2. Moved(run[p]) => tree.version # run[p].origin \/ run[p].files # {}
      BY <1>1 DEF Moved
    <2>3. (run[p].decision = "done" => tree.version # run[p].origin \/ run[p].files # {})
            => Touched(NewRow(p))
      BY DEF NewRow, Touched
    <2> QED
      BY <2>1, <2>2, <2>3
  <1>3. RequireRepoChange => AllTouched'
    BY <1>1, <1>2, AppendTouched DEF RecordIteration, RepoInv
  <1>4. r.base = run[p].base /\ r.origin = run[p].origin
    BY DEF Typed, TypeOK, Runs
  <1>5. Local(p, r) /\ Goto(p, "decided") /\ UNCHANGED tree
    BY DEF RecordIteration, loopvars
  <1> HIDE DEF r
  <1> QED
    BY <1>3, <1>4, <1>5, MoveRepo

LEMMA UnavailableRepo ==
    ASSUME Typed, RepoInv, NEW p \in Procs, AgentUnavailable(p) PROVE RepoInv'
  <1> DEFINE r == [run[p] EXCEPT !.decision = "blocked", !.reason = "unavailable",
                                 !.row = Len(iters[run[p].task]) + 1]
             row == [NewRow(p) EXCEPT !.agent = "unavailable", !.decision = "blocked",
                                      !.reason = "unavailable", !.touched = FALSE]
  <1>1. run[p].task \in Tasks
    BY DEF AgentUnavailable, Typed, TaskOK
  <1>2. row.decision = "blocked" /\ iters' = [iters EXCEPT ![run[p].task] = Append(@, row)]
    BY DEF NewRow, AgentUnavailable
  <1>4. r.base = run[p].base /\ r.origin = run[p].origin
    BY DEF Typed, TypeOK, Runs
  <1>5. Local(p, r) /\ Goto(p, "decided") /\ UNCHANGED tree
    BY DEF AgentUnavailable, loopvars
  <1> HIDE DEF r, row
  <1>3. RequireRepoChange => AllTouched'
    BY <1>1, <1>2, AppendTouched DEF RepoInv, Touched
  <1> QED
    BY <1>3, <1>4, <1>5, MoveRepo

(* Steps of p outside the record. *)
LEMMA LoopRepo ==
    ASSUME Typed, RepoInv, NEW p \in Procs,
           \/ ResumeCheck(p) \/ MarkRunning(p) \/ Announce(p) \/ StartSession(p)
           \/ Exhausted(p) \/ OutOfTime(p) \/ CancelledBeforeAgent(p) \/ CallAgent(p)
           \/ AgentReturns(p) \/ AgentStopped(p) \/ ReceiveResult(p)
           \/ OutOfTimeBeforeVerification(p) \/ PrepareVerification(p) \/ RunCheck(p)
           \/ FinishVerification(p) \/ RecordDecision(p) \/ FinishIteration(p)
           \/ WriteStatus(p) \/ LogStatus(p) \/ Interrupt(p) \/ Die(p)
           \/ \E t \in Tasks : Start(p, t) \/ Resume(p, t)
    PROVE  RepoInv'
  <1>0. run[p] \in Runs /\ pc \in [Procs -> Labels] /\ tree.version \in Nat
    BY DEF Typed, TypeOK
  <1>1. CASE \/ ResumeCheck(p) \/ CancelledBeforeAgent(p) \/ PrepareVerification(p)
             \/ LogStatus(p) \/ Interrupt(p) \/ Die(p)
    BY <1>1, ReturnRepo, GotoRepo, SameRows DEF ResumeCheck, CancelledBeforeAgent,
       PrepareVerification, LogStatus, Interrupt, Die, loopvars
  <1>2. CASE \/ MarkRunning(p) \/ Announce(p) \/ FinishVerification(p) \/ CallAgent(p)
             \/ WriteStatus(p)
    BY <1>2, GotoRepo, SameRows DEF MarkRunning, Announce, FinishVerification, CallAgent,
       WriteStatus, loopvars
  <1>3. CASE Exhausted(p) \/ OutOfTime(p) \/ OutOfTimeBeforeVerification(p)
    BY <1>3, LeaveRepo DEF Exhausted, OutOfTime, OutOfTimeBeforeVerification, loopvars
  <1>4. CASE RecordDecision(p)
    BY <1>4, LeaveRepo, GotoRepo, SameRows DEF RecordDecision, loopvars
  <1>5. ASSUME NEW r, Local(p, r), NEW l, Goto(p, l), UNCHANGED <<iters, tree>>, l # "record",
               r.base = << >> \/ (r.base = run[p].base /\ r.origin = run[p].origin)
        PROVE  RepoInv'
    BY <1>5, SameRows, MoveRepo
  <1>6. CASE StartSession(p)
    <2>1. PICK snap \in snapshot \union {<< >>} :
            Local(p, [run[p] EXCEPT !.base = snap, !.origin = tree.version,
                                    !.seen = tree.version])
      BY <1>6 DEF StartSession
    <2> DEFINE r == [run[p] EXCEPT !.base = snap, !.origin = tree.version, !.seen = tree.version]
    <2>2. r.base = snap /\ r.origin = tree.version
      BY <1>0 DEF Runs
    <2>3. Local(p, r)
      BY <2>1
    <2> HIDE DEF r
    <2>4. /\ OthersStay(p) /\ pc'[p] = "gate" /\ run'[p] = r
          /\ UNCHANGED <<tree, iters>>
      BY <1>6, <2>3, GotoOthers DEF StartSession, Typed, TypeOK, Local, loopvars
    <2>5. snap # << >> => snap = <<tree.dirty>>
      BY DEF snapshot
    <2>6. Grounded(run[p])'
      BY <1>0, <2>2, <2>4, <2>5 DEF Grounded
    <2> QED
      BY <2>4, <2>6, SameRows, RepoFrame
  <1>7. CASE AgentReturns(p)
    <2>1. PICK st, files : Local(p, [run[p] EXCEPT !.agent = st, !.files = files])
      BY <1>7 DEF AgentReturns
    <2> DEFINE r == [run[p] EXCEPT !.agent = st, !.files = files]
    <2>2. r.base = run[p].base /\ r.origin = run[p].origin
      BY <1>0 DEF Runs
    <2>3. Local(p, r) /\ Goto(p, "agent_result") /\ UNCHANGED <<iters, tree>>
      BY <1>7, <2>1 DEF AgentReturns, loopvars
    <2> HIDE DEF r
    <2> QED
      BY <1>5, <2>2, <2>3
  <1>8. CASE AgentStopped(p)
    <2> DEFINE r == [run[p] EXCEPT !.agent = "cancelled", !.files = {}]
    <2>2. r.base = run[p].base /\ r.origin = run[p].origin
      BY <1>0 DEF Runs
    <2>3. Local(p, r) /\ Goto(p, "agent_result") /\ UNCHANGED <<iters, tree>>
      BY <1>8 DEF AgentStopped, loopvars
    <2> HIDE DEF r
    <2> QED
      BY <1>5, <2>2, <2>3
  <1>9. CASE ReceiveResult(p)
    <2>1. CASE Leave(p, "cancelled", "cancelled_after_agent", Index(p), 0)
      BY <1>9, <2>1, LeaveRepo DEF ReceiveResult, loopvars
    <2>2. CASE /\ Goto(p, IF run[p].agent = "success" THEN "prepare" ELSE "decide")
               /\ Local(p, [run[p] EXCEPT !.checks = << >>])
      <3> DEFINE r == [run[p] EXCEPT !.checks = << >>]
      <3>1. r.base = run[p].base /\ r.origin = run[p].origin
        BY <1>0 DEF Runs
      <3>2. Local(p, r) /\ UNCHANGED <<iters, tree>>
        BY <1>9, <2>2 DEF ReceiveResult, loopvars
      <3> HIDE DEF r
      <3> QED
        BY <1>5, <2>2, <3>1, <3>2
    <2> QED
      BY <1>9, <2>1, <2>2 DEF ReceiveResult
  <1>10. CASE RunCheck(p)
    <2>1. PICK st : Local(p, [run[p] EXCEPT !.checks = Append(@, st)])
      BY <1>10 DEF RunCheck
    <2> DEFINE r == [run[p] EXCEPT !.checks = Append(@, st)]
    <2>2. r.base = run[p].base /\ r.origin = run[p].origin
      BY <1>0 DEF Runs
    <2>3. Local(p, r) /\ Goto(p, "verify") /\ UNCHANGED <<iters, tree>>
      BY <1>0, <1>10, <2>1 DEF RunCheck, Goto, loopvars
    <2> HIDE DEF r
    <2> QED
      BY <1>5, <2>2, <2>3
  <1>11. CASE FinishIteration(p)
    <2>1. CASE \E st, name : Leave(p, st, name, Index(p), run[p].row)
      BY <1>11, <2>1, LeaveRepo DEF FinishIteration, loopvars
    <2>2. CASE Goto(p, "gate") /\ Local(p, [run[p] EXCEPT !.attempt = @ + 1])
      <3> DEFINE r == [run[p] EXCEPT !.attempt = @ + 1]
      <3>1. r.base = run[p].base /\ r.origin = run[p].origin
        BY <1>0 DEF Runs
      <3>2. Local(p, r) /\ UNCHANGED <<iters, tree>>
        BY <1>11, <2>2 DEF FinishIteration, loopvars
      <3> HIDE DEF r
      <3> QED
        BY <1>5, <2>2, <3>1, <3>2
    <2> QED
      BY <1>11, <2>1, <2>2 DEF FinishIteration
  <1>12. ASSUME NEW t \in Tasks, Start(p, t) PROVE RepoInv'
    <2>1. PICK limit : Local(p, [Blank EXCEPT !.task = t, !.fresh = TRUE, !.limit = limit])
      BY <1>12 DEF Start
    <2> DEFINE r == [Blank EXCEPT !.task = t, !.fresh = TRUE, !.limit = limit]
    <2>2. r.base = << >> /\ Local(p, r) /\ Goto(p, "mark") /\ UNCHANGED <<iters, tree>>
      BY <1>12, <2>1 DEF Start, Blank
    <2> HIDE DEF r
    <2> QED
      BY <1>5, <2>2
  <1>13. ASSUME NEW t \in Tasks, Resume(p, t) PROVE RepoInv'
    <2>1. PICK limit :
            Local(p, [Blank EXCEPT !.task = t, !.start = Len(iters[t]) + 1, !.limit = limit])
      BY <1>13 DEF Resume
    <2> DEFINE r == [Blank EXCEPT !.task = t, !.start = Len(iters[t]) + 1, !.limit = limit]
    <2>2. r.base = << >> /\ Local(p, r) /\ Goto(p, "resume") /\ UNCHANGED <<iters, tree>>
      BY <1>13, <2>1 DEF Resume, Blank
    <2> HIDE DEF r
    <2> QED
      BY <1>5, <2>2
  <1> QED
    BY <1>1, <1>2, <1>3, <1>4, <1>6, <1>7, <1>8, <1>9, <1>10, <1>11, <1>12, <1>13

(* The writes of the record keep what the row says of the tree. *)
LEMMA WrittenRepo ==
    ASSUME CInv, RepoInv, NEW p \in Procs,
           \/ RecordCheck(p) \/ RecordAction(p) \/ RequestApproval(p)
           \/ RecordReplan(p) \/ RecordReflection(p) \/ RecordLesson(p)
    PROVE  RepoInv'
  <1>1. /\ pc[p] \in Recording /\ UNCHANGED <<run, tree>>
        /\ \E l : Goto(p, l) /\ l # "record"
    BY DEF RecordCheck, RecordAction, RequestApproval, RecordReplan,
           RecordReflection, RecordLesson, Recording, loopvars
  <1>2. RowOf(p) \in Row
    BY <1>1, OwnRow
  <1>3. PICK row : /\ SetRow(p, row) /\ row.decision = RowOf(p).decision
                   /\ row.touched = RowOf(p).touched /\ row.reported = RowOf(p).reported
    <2>1. CASE RecordCheck(p)
      BY <1>2, <2>1 DEF RecordCheck, Row
    <2>2. CASE RecordAction(p)
      BY <1>2, <2>2 DEF RecordAction, Row
    <2>3. CASE RequestApproval(p)
      BY <1>2, <2>3 DEF RequestApproval, Row
    <2>4. CASE RecordReplan(p)
      BY <1>2, <2>4 DEF RecordReplan, Row
    <2>5. CASE RecordReflection(p)
      BY <1>2, <2>5 DEF RecordReflection, Row
    <2>6. CASE RecordLesson(p)
      BY <1>2, <2>6 DEF RecordLesson, Row
    <2> QED
      BY <2>1, <2>2, <2>3, <2>4, <2>5, <2>6
  <1>4. RequireRepoChange => AllTouched'
    BY <1>1, <1>3, RewriteTouched DEF RepoInv
  <1> QED
    BY <1>1, <1>4, GotoRepo DEF CInv

LEMMA RepoStays == CInv /\ RepoInv /\ [Next]_vars => RepoInv'
  <1> SUFFICES ASSUME CInv, RepoInv, [Next]_vars PROVE RepoInv'
    OBVIOUS
  <1>0. Typed
    BY DEF CInv
  <1>1. ASSUME NEW p \in Procs, Step(p) \/ Interrupt(p) \/ Die(p) PROVE RepoInv'
    BY <1>0, <1>1, LoopRepo, JudgedRepo, RecordedRepo, UnavailableRepo, WrittenRepo DEF Step
  <1>2. ASSUME NEW p \in Procs, NEW t \in Tasks, Start(p, t) \/ Resume(p, t) PROVE RepoInv'
    BY <1>0, <1>2, LoopRepo
  <1>3. ASSUME NEW p \in Procs, AgentEdit(p) PROVE RepoInv'
    <2>1. tree.version \in Nat /\ tree'.version = tree.version + 1 /\ UNCHANGED <<pc, run, iters>>
      BY <1>0, <1>3 DEF AgentEdit, Typed, TypeOK
    <2>2. \A q \in Procs : run[q].origin \in Nat
      BY <1>0 DEF Typed, TypeOK, Runs
    <2>3. \A q \in Procs : Grounded(run[q])' /\ (Moved(run[q]) => Moved(run[q])')
      BY <2>1, <2>2 DEF RepoInv, Grounded, Moved
    <2> QED
      BY <2>1, <2>3 DEF RepoInv, AllTouched
  <1>4. CASE UNCHANGED <<pc, run, iters, tree>>
    BY <1>4 DEF RepoInv, Grounded, Moved, AllTouched
  <1> QED
    BY <1>1, <1>2, <1>3, <1>4 DEF Next, Operator, Cancel, RecoverBlock, RecoverLog, RecoverScan,
       vars

(* A task that must change the repository is never accepted without one:     *)
(* HasRepoChange lets done pass only if the agent named files or two         *)
(* snapshots differ, and a snapshot that failed proves nothing.              *)
THEOREM AcceptedWorkIsChange == Spec => []AcceptedWorkChangedTheRepo
  <1>1. Init => RepoInv
    BY DEF Init, RepoInv, Grounded, AllTouched, Blank
  <1>2. RepoInv => AcceptedWorkChangedTheRepo
    BY DEF RepoInv, AllTouched, Touched, AcceptedWorkChangedTheRepo, Accepted
  <1> QED
    BY <1>1, <1>2, RepoStays, InitCompletion, NextCompletion, PTL DEF Spec
-----------------------------------------------------------------------------
(* One supervisor process works at a time. *)
OneProcess == \A p, q \in Procs : p = q

(* Where the process stands before it has recorded an attempt. *)
Before == {"resume", "mark", "announce", "available", "gate", "agent", "agent_result",
           "prepare", "verify", "decide", "record"}

(* At label l, with locals r, an attempt's index is the position its row has *)
(* or will have, and the row p works on is the task's last.                  *)
InPlace(l, r) ==
    /\ l \in Before => r.start + r.attempt - 1 = Len(iters[r.task]) + 1
    /\ l \in Recording => r.start + r.attempt - 1 = Len(iters[r.task])
    /\ l \in Recording \/ (l = "exit" /\ r.leave.status = "done") => r.row = Len(iters[r.task])
    /\ l \notin {"idle", "resume", "mark", "exited"} => status[r.task] # "done"
    /\ l # "idle" => status[r.task] # "absent"

SerialInv ==
    /\ IndexIsPosition /\ DoneIsLatestVerdict
    /\ \A t \in Tasks : status[t] = "absent" => iters[t] = << >>
    /\ \A p \in Procs : InPlace(pc[p], run[p])

(* The steps of p that write no row and no status. *)
LEMMA MoveSerial ==
    ASSUME OneProcess, Typed, SerialInv, NEW p \in Procs, NEW l, NEW r, Goto(p, l), Local(p, r),
           UNCHANGED <<status, iters>>, InPlace(l, r)
    PROVE  SerialInv'
  <1>1. pc'[p] = l /\ run'[p] = r
    BY GotoOthers DEF Typed, TypeOK, Local
  <1>2. InPlace(pc[p], run[p])'
    BY <1>1 DEF InPlace
  <1>3. \A q \in Procs : InPlace(pc[q], run[q])'
    BY <1>2 DEF OneProcess
  <1> QED
    BY <1>3 DEF SerialInv, IndexIsPosition, DoneIsLatestVerdict

LEMMA ReturnSerial ==
    ASSUME OneProcess, Typed, SerialInv, NEW p \in Procs, Return(p), UNCHANGED <<status, iters>>
    PROVE  SerialInv'
  <1>1. InPlace("idle", Blank)
    BY DEF InPlace, Before, Recording
  <1> QED
    BY <1>1, MoveSerial DEF Return

(* ... within an attempt, *)
LEMMA StepSerial ==
    ASSUME OneProcess, Typed, SerialInv, NEW p \in Procs, NEW l, NEW r, Goto(p, l), Local(p, r),
           UNCHANGED <<status, iters>>,
           r.task = run[p].task, r.start = run[p].start, r.attempt = run[p].attempt,
           r.row = run[p].row,
           \/ pc[p] \in Before /\ l \in Before
           \/ pc[p] \in Before /\ l = "exit" /\ r.leave.status # "done"
           \/ pc[p] \in Recording /\ l \in Recording \union {"exit"},
           pc[p] \in {"resume", "mark"} => l \in {"resume", "mark"}
    PROVE  SerialInv'
  <1>1. InPlace(pc[p], run[p])
    BY DEF SerialInv
  <1>2. Before \cap Recording = {} /\ "exit" \notin Before \union Recording
        /\ {"idle", "exited"} \cap (Before \union Recording) = {}
        /\ {"resume", "mark"} \subseteq Before
    BY DEF Before, Recording
  <1>3. InPlace(l, r)
    BY <1>1, <1>2 DEF InPlace
  <1> QED
    BY <1>3, MoveSerial

LEMMA GotoSerial ==
    ASSUME OneProcess, Typed, SerialInv, NEW p \in Procs, NEW l, Goto(p, l),
           UNCHANGED <<run, status, iters>>,
           (pc[p] \in Before /\ l \in Before) \/ (pc[p] \in Recording /\ l \in Recording),
           pc[p] \in {"resume", "mark"} => l \in {"resume", "mark"}
    PROVE  SerialInv'
  <1>1. Local(p, run[p])
    BY DEF Typed, TypeOK, Local
  <1> QED
    BY <1>1, StepSerial

LEMMA LeaveSerial ==
    ASSUME OneProcess, Typed, SerialInv, NEW p \in Procs, NEW st, NEW name, NEW i, NEW row,
           Leave(p, st, name, i, row), UNCHANGED <<status, iters>>,
           pc[p] \in Recording \/ (pc[p] \in Before \ {"resume", "mark"} /\ st # "done")
    PROVE  SerialInv'
  <1> DEFINE r == [run[p] EXCEPT !.leave = [status |-> st, event |-> Entry(name, i, row)]]
  <1>1. /\ r.task = run[p].task /\ r.start = run[p].start /\ r.attempt = run[p].attempt
        /\ r.row = run[p].row /\ r.leave.status = st
    BY DEF Typed, TypeOK, Runs
  <1>2. Local(p, r) /\ Goto(p, "exit") /\ {"resume", "mark"} \cap Recording = {}
    BY DEF Leave, Recording
  <1> HIDE DEF r
  <1> QED
    BY <1>1, <1>2, StepSerial

(* The writes of a status: any but done, ... *)
LEMMA StatusSerial ==
    ASSUME Typed, SerialInv, NEW t \in Tasks, NEW s, s \notin {"absent", "done"},
           status' = [status EXCEPT ![t] = s], UNCHANGED iters,
           \A p \in Procs : InPlace(pc[p], run[p])'
    PROVE  SerialInv'
  <1>1. \A u \in Tasks : status'[u] = IF u = t THEN s ELSE status[u]
    BY DEF Typed, TypeOK
  <1>2. /\ IndexIsPosition' /\ DoneIsLatestVerdict'
        /\ \A u \in Tasks : status'[u] = "absent" => iters'[u] = << >>
    BY <1>1 DEF SerialInv, IndexIsPosition, DoneIsLatestVerdict
  <1> QED
    BY <1>2 DEF SerialInv

LEMMA OperatorSerial ==
    ASSUME Typed, SerialInv, NEW t \in Tasks, NEW s, s \notin {"absent", "done"},
           status' = [status EXCEPT ![t] = s], UNCHANGED <<iters, pc, run>>
    PROVE  SerialInv'
  <1>1. ASSUME NEW p \in Procs PROVE InPlace(pc[p], run[p])'
    <2>1. pc[p] # "idle" => run[p].task \in Tasks
      BY DEF Typed, TaskOK
    <2>2. \A u \in Tasks : status'[u] = IF u = t THEN s ELSE status[u]
      BY DEF Typed, TypeOK
    <2>3. InPlace(pc[p], run[p]) /\ "idle" \notin Before \union Recording \union {"exit"}
      BY DEF SerialInv, Before, Recording
    <2> QED
      BY <2>1, <2>2, <2>3 DEF InPlace
  <1> QED
    BY <1>1, StatusSerial

LEMMA StartSerial ==
    ASSUME OneProcess, Typed, SerialInv, NEW p \in Procs, NEW t \in Tasks, Start(p, t)
    PROVE  SerialInv'
  <1>1. PICK limit : Local(p, [Blank EXCEPT !.task = t, !.fresh = TRUE, !.limit = limit])
    BY DEF Start
  <1> DEFINE r == [Blank EXCEPT !.task = t, !.fresh = TRUE, !.limit = limit]
  <1>2. r.task = t /\ r.start = 1 /\ r.attempt = 1 /\ Local(p, r)
    BY <1>1 DEF Blank
  <1> HIDE DEF r
  <1>3. pc'[p] = "mark" /\ run'[p] = r
    BY <1>2, GotoOthers DEF Start, Typed, TypeOK, Local
  <1>4. iters[t] = << >> /\ UNCHANGED iters /\ status'[t] = "created"
    BY DEF Start, SerialInv, Typed, TypeOK
  <1>5. InPlace(pc[p], run[p])'
    <2>1. Len(iters'[t]) = 0
      BY <1>4
    <2> QED
      BY <1>2, <1>3, <1>4, <2>1 DEF InPlace, Recording
  <1>6. \A q \in Procs : InPlace(pc[q], run[q])'
    BY <1>5 DEF OneProcess
  <1> QED
    BY <1>6, StatusSerial DEF Start

LEMMA ResumeSerial ==
    ASSUME OneProcess, Typed, SerialInv, NEW p \in Procs, NEW t \in Tasks, Resume(p, t)
    PROVE  SerialInv'
  <1>1. PICK limit :
          Local(p, [Blank EXCEPT !.task = t, !.start = Len(iters[t]) + 1, !.limit = limit])
    BY DEF Resume
  <1> DEFINE r == [Blank EXCEPT !.task = t, !.start = Len(iters[t]) + 1, !.limit = limit]
  <1>2. r.task = t /\ r.start = Len(iters[t]) + 1 /\ r.attempt = 1 /\ Local(p, r)
    BY <1>1 DEF Blank
  <1> HIDE DEF r
  <1>3. Len(iters[t]) \in Nat /\ status[t] # "absent"
    BY DEF Typed, TypeOK, Resume
  <1>4. InPlace("resume", r)
    BY <1>2, <1>3 DEF InPlace, Recording
  <1> QED
    BY <1>2, <1>4, MoveSerial DEF Resume

LEMMA MarkSerial ==
    ASSUME OneProcess, Typed, SerialInv, NEW p \in Procs, MarkRunning(p) PROVE SerialInv'
  <1>t. PICK t \in Tasks : t = run[p].task
    BY DEF MarkRunning, Typed, TaskOK
  <1>1. pc'[p] = "announce" /\ pc[p] = "mark" /\ UNCHANGED <<run, iters>>
    BY GotoOthers DEF MarkRunning, Typed
  <1>2. status' = [status EXCEPT ![t] = "running"] /\ status'[t] = "running"
    BY <1>t DEF MarkRunning, Typed, TypeOK
  <1>3. InPlace(pc[p], run[p])
    BY DEF SerialInv
  <1>4. InPlace(pc[p], run[p])'
    BY <1>t, <1>1, <1>2, <1>3 DEF InPlace, Before, Recording
  <1>5. \A q \in Procs : InPlace(pc[q], run[q])'
    BY <1>4 DEF OneProcess
  <1> QED
    BY <1>1, <1>2, <1>5, StatusSerial

(* ... and done, on the strength of the last row. *)
LEMMA WriteStatusSerial ==
    ASSUME OneProcess, CInv, SerialInv, NEW p \in Procs, WriteStatus(p) PROVE SerialInv'
  <1>t. PICK t \in Tasks : t = run[p].task
    BY DEF WriteStatus, CInv, Typed, TaskOK
  <1>s. PICK s \in {"blocked", "cancelled", "done"} : s = run[p].leave.status
    BY DEF CInv, Typed, TypeOK, Runs
  <1>1. pc'[p] = "exited" /\ pc[p] = "exit" /\ UNCHANGED <<run, iters>>
    BY GotoOthers DEF WriteStatus, CInv, Typed
  <1>2. status' = [status EXCEPT ![t] = s] /\ \A u \in Tasks : status'[u] = IF u = t THEN s ELSE status[u]
    BY <1>t, <1>s DEF WriteStatus, CInv, Typed, TypeOK
  <1>3. InPlace(pc[p], run[p])
    BY DEF SerialInv
  <1>4. InPlace(pc[p], run[p])'
    BY <1>t, <1>1, <1>2 DEF InPlace, Before, Recording
  <1>5. \A q \in Procs : InPlace(pc[q], run[q])'
    BY <1>4 DEF OneProcess
  <1>6. CASE s # "done"
    BY <1>1, <1>2, <1>5, <1>6, StatusSerial DEF CInv
  <1>7. CASE s = "done"
    <2>1. run[p].row \in DOMAIN iters[t] /\ Accepted(iters[t][run[p].row])
      BY <1>t, <1>s, <1>1, <1>7, DoneIsAccepted DEF RowOf
    <2>2. run[p].row = Len(iters[t])
      BY <1>t, <1>s, <1>1, <1>3, <1>7 DEF InPlace
    <2>3. iters[t] # << >> /\ Accepted(iters[t][Len(iters[t])])
      BY <2>1, <2>2
    <2>4. /\ IndexIsPosition' /\ DoneIsLatestVerdict'
          /\ \A u \in Tasks : status'[u] = "absent" => iters'[u] = << >>
      BY <1>1, <1>2, <1>7, <2>3 DEF SerialInv, IndexIsPosition, DoneIsLatestVerdict
    <2> QED
      BY <1>5, <2>4 DEF SerialInv
  <1> QED
    BY <1>6, <1>7

(* The rows: one is added at the end, ... *)
LEMMA AppendSerial ==
    ASSUME OneProcess, Typed, SerialInv, NEW p \in Procs,
           pc[p] \in {"available", "record"}, Goto(p, "decided"), UNCHANGED status,
           \E new : /\ iters' = [iters EXCEPT ![run[p].task] = Append(@, new)]
                    /\ new.index = Index(p),
           \E s : /\ Local(p, s) /\ s.task = run[p].task /\ s.start = run[p].start
                  /\ s.attempt = run[p].attempt /\ s.row = Len(iters[run[p].task]) + 1
    PROVE  SerialInv'
  <1>row. PICK row : /\ iters' = [iters EXCEPT ![run[p].task] = Append(@, row)]
                     /\ row.index = Index(p)
    OBVIOUS
  <1>r. PICK r : /\ Local(p, r) /\ r.task = run[p].task /\ r.start = run[p].start
                 /\ r.attempt = run[p].attempt /\ r.row = Len(iters[run[p].task]) + 1
    OBVIOUS
  <1>t. PICK t \in Tasks : t = run[p].task
    BY DEF Typed, TaskOK
  <1>1. pc'[p] = "decided" /\ run'[p] = r
    BY <1>r, GotoOthers DEF Typed, TypeOK, Local
  <1>2. iters[t] \in Seq(Row) /\ iters'[t] = Append(iters[t], row)
        /\ \A u \in Tasks : u # t => iters'[u] = iters[u]
    BY <1>t, <1>row DEF Typed, TypeOK
  <1>3. /\ Len(iters'[t]) = Len(iters[t]) + 1
        /\ DOMAIN iters'[t] = DOMAIN iters[t] \union {Len(iters[t]) + 1}
        /\ iters'[t][Len(iters[t]) + 1] = row
        /\ \A i \in DOMAIN iters[t] : iters'[t][i] = iters[t][i]
    BY <1>2
  <1>4. InPlace(pc[p], run[p]) /\ pc[p] \in Before
    BY DEF SerialInv, Before
  <1>5. /\ Index(p) = Len(iters[t]) + 1
        /\ status[t] \notin {"done", "absent"}
    BY <1>t, <1>4 DEF InPlace, Index
  <1>6. InPlace(pc[p], run[p])'
    BY <1>t, <1>r, <1>row, <1>1, <1>3, <1>5 DEF InPlace, Index, Before
  <1>7. \A q \in Procs : InPlace(pc[q], run[q])'
    BY <1>6 DEF OneProcess
  <1>8. /\ IndexIsPosition' /\ DoneIsLatestVerdict'
        /\ \A u \in Tasks : status'[u] = "absent" => iters'[u] = << >>
    BY <1>row, <1>2, <1>3, <1>5 DEF SerialInv, IndexIsPosition, DoneIsLatestVerdict
  <1> QED
    BY <1>7, <1>8 DEF SerialInv

(* ... or the process rewrites its own in place. *)
LEMMA RewriteSerial ==
    ASSUME OneProcess, CInv, SerialInv, NEW p \in Procs, NEW row, NEW l,
           pc[p] \in Recording, Goto(p, l), l \in Recording,
           SetRow(p, row), row.index = RowOf(p).index, UNCHANGED <<run, status>>
    PROVE  SerialInv'
  <1>t. PICK t \in Tasks : t = run[p].task
    BY DEF CInv, Typed, TaskOK, Recording
  <1>1. run[p].row \in DOMAIN iters[t]
    BY <1>t DEF Owns, OwnedRow, CInv, CompletionInv
  <1>2. /\ iters'[t] = [iters[t] EXCEPT ![run[p].row] = row]
        /\ \A u \in Tasks : u # t => iters'[u] = iters[u]
    BY <1>t DEF CInv, Typed, TypeOK, SetRow
  <1>3. row.index = run[p].row
    BY <1>t, <1>1 DEF SerialInv, IndexIsPosition, RowOf
  <1>4. iters[t] \in Seq(Row)
    BY DEF CInv, Typed, TypeOK
  <1>5. Len(iters'[t]) = Len(iters[t]) /\ \A i \in DOMAIN iters'[t] : iters'[t][i].index = i
    BY <1>1, <1>2, <1>3, <1>4 DEF SerialInv, IndexIsPosition
  <1>6. InPlace(pc[p], run[p]) /\ pc'[p] = l
    BY GotoOthers DEF SerialInv, CInv, Typed
  <1>7. Recording \cap Before = {} /\ {"idle", "resume", "mark", "exit", "exited"} \cap Recording = {}
    BY DEF Before, Recording
  <1>8. InPlace(pc[p], run[p])' /\ status[t] \notin {"done", "absent"}
    BY <1>t, <1>5, <1>6, <1>7 DEF InPlace
  <1>9. \A q \in Procs : InPlace(pc[q], run[q])'
    BY <1>8 DEF OneProcess
  <1>10. /\ IndexIsPosition' /\ DoneIsLatestVerdict'
         /\ \A u \in Tasks : status'[u] = "absent" => iters'[u] = << >>
    BY <1>2, <1>5, <1>8 DEF SerialInv, IndexIsPosition, DoneIsLatestVerdict
  <1> QED
    BY <1>9, <1>10 DEF SerialInv

LEMMA WrittenSerial ==
    ASSUME OneProcess, CInv, SerialInv, NEW p \in Procs,
           \/ RecordCheck(p) \/ RecordAction(p) \/ RequestApproval(p)
           \/ RecordReplan(p) \/ RecordReflection(p) \/ RecordLesson(p)
    PROVE  SerialInv'
  <1>1. /\ pc[p] \in Recording /\ UNCHANGED <<run, status>>
        /\ \E l \in Recording : Goto(p, l)
    BY DEF RecordCheck, RecordAction, RequestApproval, RecordReplan,
           RecordReflection, RecordLesson, Recording
  <1>2. RowOf(p) \in Row
    BY <1>1, OwnRow
  <1>3. PICK row : SetRow(p, row) /\ row.index = RowOf(p).index
    <2>1. CASE RecordCheck(p)
      BY <1>2, <2>1 DEF RecordCheck, Row
    <2>2. CASE RecordAction(p)
      BY <1>2, <2>2 DEF RecordAction, Row
    <2>3. CASE RequestApproval(p)
      BY <1>2, <2>3 DEF RequestApproval, Row
    <2>4. CASE RecordReplan(p)
      BY <1>2, <2>4 DEF RecordReplan, Row
    <2>5. CASE RecordReflection(p)
      BY <1>2, <2>5 DEF RecordReflection, Row
    <2>6. CASE RecordLesson(p)
      BY <1>2, <2>6 DEF RecordLesson, Row
    <2> QED
      BY <2>1, <2>2, <2>3, <2>4, <2>5, <2>6
  <1> QED
    BY <1>1, <1>3, RewriteSerial

LEMMA AddedSerial ==
    ASSUME OneProcess, Typed, SerialInv, NEW p \in Procs, RecordIteration(p) \/ AgentUnavailable(p)
    PROVE  SerialInv'
  <1>0. run[p] \in Runs
    BY DEF Typed, TypeOK
  <1>1. CASE RecordIteration(p)
    <2> DEFINE r == [run[p] EXCEPT !.row = Len(iters[run[p].task]) + 1]
               row == NewRow(p)
    <2>1. /\ r.task = run[p].task /\ r.start = run[p].start /\ r.attempt = run[p].attempt
          /\ r.row = Len(iters[run[p].task]) + 1 /\ row.index = Index(p)
      BY <1>0 DEF Runs, NewRow
    <2>2. /\ Local(p, r) /\ Goto(p, "decided") /\ UNCHANGED status
          /\ pc[p] \in {"available", "record"}
          /\ iters' = [iters EXCEPT ![run[p].task] = Append(@, row)]
      BY <1>1 DEF RecordIteration
    <2> HIDE DEF r, row
    <2> QED
      BY <2>1, <2>2, AppendSerial
  <1>2. CASE AgentUnavailable(p)
    <2> DEFINE r == [run[p] EXCEPT !.decision = "blocked", !.reason = "unavailable",
                                   !.row = Len(iters[run[p].task]) + 1]
               row == [NewRow(p) EXCEPT !.agent = "unavailable", !.decision = "blocked",
                                        !.reason = "unavailable", !.touched = FALSE]
    <2>1. /\ r.task = run[p].task /\ r.start = run[p].start /\ r.attempt = run[p].attempt
          /\ r.row = Len(iters[run[p].task]) + 1 /\ row.index = Index(p)
      BY <1>0 DEF Runs, NewRow
    <2>2. /\ Local(p, r) /\ Goto(p, "decided") /\ UNCHANGED status
          /\ pc[p] \in {"available", "record"}
          /\ iters' = [iters EXCEPT ![run[p].task] = Append(@, row)]
      BY <1>2 DEF AgentUnavailable
    <2> HIDE DEF r, row
    <2> QED
      BY <2>1, <2>2, AppendSerial
  <1> QED
    BY <1>1, <1>2

(* Steps of p that write neither a row nor a status. *)
LEMMA LoopSerial ==
    ASSUME OneProcess, Typed, SerialInv, NEW p \in Procs,
           \/ ResumeCheck(p) \/ Announce(p) \/ StartSession(p)
           \/ Exhausted(p) \/ OutOfTime(p) \/ CancelledBeforeAgent(p) \/ CallAgent(p)
           \/ AgentReturns(p) \/ AgentStopped(p) \/ ReceiveResult(p)
           \/ OutOfTimeBeforeVerification(p) \/ PrepareVerification(p) \/ RunCheck(p)
           \/ FinishVerification(p) \/ DecideIteration(p) \/ RecordDecision(p)
           \/ FinishIteration(p) \/ LogStatus(p) \/ Interrupt(p) \/ Die(p)
    PROVE  SerialInv'
  <1>0. run[p] \in Runs /\ pc \in [Procs -> Labels]
    BY DEF Typed, TypeOK
  <1>1. CASE \/ CancelledBeforeAgent(p) \/ LogStatus(p) \/ Interrupt(p) \/ Die(p)
    BY <1>1, ReturnSerial DEF CancelledBeforeAgent, LogStatus, Interrupt, Die
  <1>2. CASE ResumeCheck(p) \/ PrepareVerification(p)
    BY <1>2, ReturnSerial, GotoSerial DEF ResumeCheck, PrepareVerification, Before
  <1>3. CASE Announce(p) \/ FinishVerification(p) \/ CallAgent(p)
    BY <1>3, GotoSerial DEF Announce, FinishVerification, CallAgent, Before
  <1>4. CASE Exhausted(p) \/ OutOfTime(p) \/ OutOfTimeBeforeVerification(p)
    BY <1>4, LeaveSerial DEF Exhausted, OutOfTime, OutOfTimeBeforeVerification, Before
  <1>5. CASE RecordDecision(p)
    BY <1>5, LeaveSerial, GotoSerial DEF RecordDecision, Recording
  <1>6. ASSUME NEW r, Local(p, r), NEW l, Goto(p, l), UNCHANGED <<status, iters>>,
               r.task = run[p].task, r.start = run[p].start, r.attempt = run[p].attempt,
               r.row = run[p].row, pc[p] \in Before \ {"resume", "mark"}, l \in Before
        PROVE  SerialInv'
    BY <1>6, StepSerial
  <1>7. CASE StartSession(p)
    <2>1. PICK snap : Local(p, [run[p] EXCEPT !.base = snap, !.origin = tree.version,
                                              !.seen = tree.version])
      BY <1>7 DEF StartSession
    <2> DEFINE r == [run[p] EXCEPT !.base = snap, !.origin = tree.version, !.seen = tree.version]
    <2>2. /\ r.task = run[p].task /\ r.start = run[p].start /\ r.attempt = run[p].attempt
          /\ r.row = run[p].row
      BY <1>0 DEF Runs
    <2>3. /\ Local(p, r) /\ Goto(p, "gate") /\ UNCHANGED <<status, iters>>
          /\ pc[p] \in Before \ {"resume", "mark"} /\ "gate" \in Before
      BY <1>7, <2>1 DEF StartSession, Before
    <2> HIDE DEF r
    <2> QED
      BY <1>6, <2>2, <2>3
  <1>8. CASE AgentReturns(p)
    <2>1. PICK st, files : Local(p, [run[p] EXCEPT !.agent = st, !.files = files])
      BY <1>8 DEF AgentReturns
    <2> DEFINE r == [run[p] EXCEPT !.agent = st, !.files = files]
    <2>2. /\ r.task = run[p].task /\ r.start = run[p].start /\ r.attempt = run[p].attempt
          /\ r.row = run[p].row
      BY <1>0 DEF Runs
    <2>3. /\ Local(p, r) /\ Goto(p, "agent_result") /\ UNCHANGED <<status, iters>>
          /\ pc[p] \in Before \ {"resume", "mark"} /\ "agent_result" \in Before
      BY <1>8, <2>1 DEF AgentReturns, Before
    <2> HIDE DEF r
    <2> QED
      BY <1>6, <2>2, <2>3
  <1>9. CASE AgentStopped(p)
    <2> DEFINE r == [run[p] EXCEPT !.agent = "cancelled", !.files = {}]
    <2>2. /\ r.task = run[p].task /\ r.start = run[p].start /\ r.attempt = run[p].attempt
          /\ r.row = run[p].row
      BY <1>0 DEF Runs
    <2>3. /\ Local(p, r) /\ Goto(p, "agent_result") /\ UNCHANGED <<status, iters>>
          /\ pc[p] \in Before \ {"resume", "mark"} /\ "agent_result" \in Before
      BY <1>9 DEF AgentStopped, Before
    <2> HIDE DEF r
    <2> QED
      BY <1>6, <2>2, <2>3
  <1>10. CASE ReceiveResult(p)
    <2>1. CASE Leave(p, "cancelled", "cancelled_after_agent", Index(p), 0)
      BY <1>10, <2>1, LeaveSerial DEF ReceiveResult, Before
    <2>2. CASE /\ Goto(p, IF run[p].agent = "success" THEN "prepare" ELSE "decide")
               /\ Local(p, [run[p] EXCEPT !.checks = << >>])
      <3> DEFINE r == [run[p] EXCEPT !.checks = << >>]
      <3>1. /\ r.task = run[p].task /\ r.start = run[p].start /\ r.attempt = run[p].attempt
            /\ r.row = run[p].row
        BY <1>0 DEF Runs
      <3>2. /\ Local(p, r) /\ UNCHANGED <<status, iters>>
            /\ pc[p] \in Before \ {"resume", "mark"}
            /\ (IF run[p].agent = "success" THEN "prepare" ELSE "decide") \in Before
        BY <1>10, <2>2 DEF ReceiveResult, Before
      <3> HIDE DEF r
      <3> QED
        BY <1>6, <2>2, <3>1, <3>2
    <2> QED
      BY <1>10, <2>1, <2>2 DEF ReceiveResult
  <1>11. CASE RunCheck(p)
    <2>1. PICK st : Local(p, [run[p] EXCEPT !.checks = Append(@, st)])
      BY <1>11 DEF RunCheck
    <2> DEFINE r == [run[p] EXCEPT !.checks = Append(@, st)]
    <2>2. /\ r.task = run[p].task /\ r.start = run[p].start /\ r.attempt = run[p].attempt
          /\ r.row = run[p].row
      BY <1>0 DEF Runs
    <2>3. /\ Local(p, r) /\ Goto(p, "verify") /\ UNCHANGED <<status, iters>>
          /\ pc[p] \in Before \ {"resume", "mark"} /\ "verify" \in Before
      BY <1>0, <1>11, <2>1 DEF RunCheck, Goto, Before
    <2> HIDE DEF r
    <2> QED
      BY <1>6, <2>2, <2>3
  <1>12. CASE DecideIteration(p)
    <2>1. PICK snap : Local(p, Decided(p, snap))
      BY <1>12 DEF DecideIteration
    <2> DEFINE r == Decided(p, snap)
    <2>2. /\ r.task = run[p].task /\ r.start = run[p].start /\ r.attempt = run[p].attempt
          /\ r.row = run[p].row
      BY <1>0 DEF Decided, Runs
    <2>3. /\ Local(p, r) /\ Goto(p, "record") /\ UNCHANGED <<status, iters>>
          /\ pc[p] \in Before \ {"resume", "mark"} /\ "record" \in Before
      BY <1>12, <2>1 DEF DecideIteration, Before
    <2> HIDE DEF r
    <2> QED
      BY <1>6, <2>2, <2>3
  <1>13. CASE FinishIteration(p)
    <2>1. CASE \E st, name : Leave(p, st, name, Index(p), run[p].row)
      BY <1>13, <2>1, LeaveSerial DEF FinishIteration, Recording
    <2>2. CASE Goto(p, "gate") /\ Local(p, [run[p] EXCEPT !.attempt = @ + 1])
      <3> DEFINE r == [run[p] EXCEPT !.attempt = @ + 1]
      <3>1. /\ r.task = run[p].task /\ r.start = run[p].start /\ r.attempt = run[p].attempt + 1
            /\ run[p].attempt \in Nat /\ run[p].start \in Nat
        BY <1>0 DEF Runs
      <3>2. Local(p, r) /\ UNCHANGED <<status, iters>> /\ pc[p] = "reflect"
        BY <1>13, <2>2 DEF FinishIteration
      <3> HIDE DEF r
      <3>3. InPlace("gate", r)
        <4>1. InPlace(pc[p], run[p])
          BY DEF SerialInv
        <4>2. /\ run[p].start + run[p].attempt - 1 = Len(iters[run[p].task])
              /\ status[run[p].task] \notin {"done", "absent"}
          BY <3>2, <4>1 DEF InPlace, Recording
        <4>3. r.start + r.attempt - 1 = Len(iters[r.task]) + 1
          <5>1. PICK n \in Nat, m \in Nat : n = run[p].start /\ m = run[p].attempt
            BY <3>1
          <5>2. r.start + r.attempt - 1 = n + (m + 1) - 1
            BY <3>1, <5>1
          <5>3. Len(iters[r.task]) = n + m - 1
            BY <3>1, <4>2, <5>1
          <5> QED
            BY <5>2, <5>3
        <4>4. status[r.task] \notin {"done", "absent"}
          BY <3>1, <4>2
        <4> QED
          BY <4>3, <4>4 DEF InPlace, Recording
      <3> QED
        BY <2>2, <3>2, <3>3, MoveSerial
    <2> QED
      BY <1>13, <2>1, <2>2 DEF FinishIteration
  <1> QED
    BY <1>1, <1>2, <1>3, <1>4, <1>5, <1>7, <1>8, <1>9, <1>10, <1>11, <1>12, <1>13

LEMMA SerialStays ==
    ASSUME OneProcess PROVE CInv /\ SerialInv /\ [Next]_vars => SerialInv'
  <1> SUFFICES ASSUME CInv, SerialInv, [Next]_vars PROVE SerialInv'
    OBVIOUS
  <1>0. Typed
    BY DEF CInv
  <1>1. ASSUME NEW p \in Procs, Step(p) \/ Interrupt(p) \/ Die(p) PROVE SerialInv'
    BY <1>0, <1>1, LoopSerial, MarkSerial, WriteStatusSerial, AddedSerial, WrittenSerial DEF Step
  <1>2. ASSUME NEW p \in Procs, NEW t \in Tasks, Start(p, t) \/ Resume(p, t) PROVE SerialInv'
    BY <1>0, <1>2, StartSerial, ResumeSerial
  <1>3. ASSUME NEW t \in Tasks, Cancel(t) \/ RecoverBlock(t) PROVE SerialInv'
    BY <1>0, <1>3, OperatorSerial DEF Cancel, RecoverBlock
  <1>4. CASE UNCHANGED <<pc, run, iters, status>>
    BY <1>4 DEF SerialInv, InPlace, IndexIsPosition, DoneIsLatestVerdict
  <1> QED
    BY <1>1, <1>2, <1>3, <1>4 DEF Next, AgentEdit, Operator, RecoverLog, RecoverScan, vars

LEMMA SerialAlways ==
    ASSUME OneProcess PROVE Spec => []SerialInv
  <1>1. Init => SerialInv
    BY DEF Init, SerialInv, InPlace, Before, Recording, IndexIsPosition, DoneIsLatestVerdict
  <1> QED
    BY <1>1, SerialStays, InitCompletion, NextCompletion, PTL DEF Spec

(* One process at a time numbers a task's iterations 1, 2, ... through any   *)
(* crashes, resumes, cancels and recoveries: run_existing counts the stored  *)
(* rows and starts behind them.                                              *)
THEOREM SerialRunsNumberRows ==
    ASSUME OneProcess PROVE Spec => []IndexIsPosition
  BY SerialAlways, PTL DEF SerialInv

(* One process at a time leaves no iteration behind the one a done task was  *)
(* completed on: whoever resumes a done task first marks it running again.   *)
THEOREM SerialDoneIsLatest ==
    ASSUME OneProcess PROVE Spec => []DoneIsLatestVerdict
  BY SerialAlways, PTL DEF SerialInv
-----------------------------------------------------------------------------
(* THE LENGTH OF A RUN *)

(* RunEnds is liveness, and TLC's; what makes it true is that a run has only *)
(* so much to do.  The agent calls it may still make:                        *)
Ended == {"idle", "exit", "exited"}
RoundsAt(l, r) ==
    LET n == r.limit - r.attempt + (IF l \in ToCall THEN 1 ELSE 0)
    IN  IF l \notin Ended /\ n > 0 THEN n ELSE 0

(* ... and, within a round, the steps it may still take: those from its      *)
(* label on, four for each check (to run it and for its three rows), two for *)
(* each reflection.                                                          *)
Weight(l) ==
    CASE l = "idle" -> 0 [] l = "exited" -> 1 [] l = "exit" -> 2 [] l = "gate" -> 3
      [] l = "reflect" -> 4 [] l = "lesson" -> 5 [] l = "checks" -> 9
      [] l = "approve" -> 10 [] l = "audit" -> 11 [] l = "decided" -> 10
      [] l = "record" -> 11 [] l = "decide" -> 12 [] l = "verify" -> 13
      [] l = "prepare" -> 14 [] l = "agent_result" -> 15 [] l = "agent" -> 16
      [] l = "available" -> 17 [] l = "announce" -> 18 [] l = "mark" -> 19
      [] l = "resume" -> 20

Unreflected(r, row) == Cardinality(ReflectionsDue(r.decision, r.checks) \ row.reflections)
Unwritten(r, row) == Len(r.checks) - Len(row.checks)

Share(l, r, row) ==
    CASE l \in Ended \union {"gate"} -> 0
      [] l \in {"reflect", "lesson"} -> 2 * Unreflected(r, row)
      [] l \in {"decided", "checks", "audit", "approve"} -> 3 * Unwritten(r, row)
      [] l \in {"decide", "record"} -> 3 * Len(r.checks)
      [] l = "verify" -> 4 * NumChecks - Len(r.checks)
      [] l \in {"resume", "mark", "announce", "available", "agent", "agent_result", "prepare"} ->
           4 * NumChecks

Rounds(p) == RoundsAt(pc[p], run[p])
Work(p) == Weight(pc[p]) + Share(pc[p], run[p], RowOf(p))

Same(p) == Rounds(p)' = Rounds(p) /\ Work(p)' = Work(p)
Lower(p) == Rounds(p)' <= Rounds(p) /\ Work(p)' < Work(p)
Falls(p) == Rounds(p)' < Rounds(p) \/ (Rounds(p)' = Rounds(p) /\ Work(p)' < Work(p))

LEMMA Weights ==
    /\ Weight("idle") = 0 /\ Weight("exited") = 1 /\ Weight("exit") = 2 /\ Weight("gate") = 3
    /\ Weight("reflect") = 4 /\ Weight("lesson") = 5 /\ Weight("checks") = 9
    /\ Weight("approve") = 10 /\ Weight("audit") = 11 /\ Weight("decided") = 10
    /\ Weight("record") = 11 /\ Weight("decide") = 12 /\ Weight("verify") = 13
    /\ Weight("prepare") = 14 /\ Weight("agent_result") = 15 /\ Weight("agent") = 16
    /\ Weight("available") = 17 /\ Weight("announce") = 18 /\ Weight("mark") = 19
    /\ Weight("resume") = 20
  BY DEF Weight

LEMMA WeightBound == \A l \in Labels : Weight(l) \in 0..20 /\ (l \notin Ended => Weight(l) >= 3)
  BY Weights DEF Labels, Ended

LEMMA Shares ==
    ASSUME NEW l, NEW r, NEW row
    PROVE  /\ l \in Ended \union {"gate"} => Share(l, r, row) = 0
           /\ l \in {"reflect", "lesson"} => Share(l, r, row) = 2 * Unreflected(r, row)
           /\ l \in {"decided", "checks", "audit", "approve"} =>
                Share(l, r, row) = 3 * Unwritten(r, row)
           /\ l \in {"decide", "record"} => Share(l, r, row) = 3 * Len(r.checks)
           /\ l = "verify" => Share(l, r, row) = 4 * NumChecks - Len(r.checks)
           /\ l \in {"resume", "mark", "announce", "available", "agent", "agent_result", "prepare"} =>
                Share(l, r, row) = 4 * NumChecks
  BY DEF Share, Ended

LEMMA DueFinite ==
    ASSUME NEW d, NEW checks, NEW done
    PROVE  /\ IsFiniteSet(ReflectionsDue(d, checks) \ done)
           /\ Cardinality(ReflectionsDue(d, checks) \ done) \in 0..2
  <1>1. IsFiniteSet(ReflectionKinds) /\ Cardinality(ReflectionKinds) <= 2
    <2>1. IsFiniteSet({"failed_verification"}) /\ Cardinality({"failed_verification"}) = 1
      BY FS_Singleton
    <2>2. ReflectionKinds = {"failed_verification"} \union {"blocked_run"}
      BY DEF ReflectionKinds
    <2> QED
      BY <2>1, <2>2, FS_AddElement
  <1>2. ReflectionsDue(d, checks) \ done \subseteq ReflectionKinds
    BY DEF ReflectionsDue
  <1>3. /\ IsFiniteSet(ReflectionsDue(d, checks) \ done)
        /\ Cardinality(ReflectionsDue(d, checks) \ done) <= Cardinality(ReflectionKinds)
    BY <1>1, <1>2, FS_Subset
  <1> QED
    BY <1>1, <1>3, FS_CardinalityType

LEMMA ShareBound ==
    ASSUME CInv, NEW p \in Procs
    PROVE  /\ Share(pc[p], run[p], RowOf(p)) \in Nat
           /\ Share(pc[p], run[p], RowOf(p)) <= 4 + 4 * NumChecks
           /\ pc[p] \in Recording => Unwritten(run[p], RowOf(p)) \in 0..NumChecks
           /\ Unreflected(run[p], RowOf(p)) \in 0..2
           /\ Len(run[p].checks) \in 0..NumChecks /\ NumChecks \in Nat
           /\ pc[p] \notin {"reflect", "lesson"} =>
                Share(pc[p], run[p], RowOf(p)) <= 4 * NumChecks
  <1>1. Len(run[p].checks) \in 0..NumChecks /\ NumChecks \in Nat /\ pc[p] \in Labels
    BY ChecksCounted, LimitAssumption DEF CInv, CompletionInv, Evidence, Typed, TypeOK
  <1>2. pc[p] \in Recording => Unwritten(run[p], RowOf(p)) \in 0..NumChecks
    <2> SUFFICES ASSUME pc[p] \in Recording
                 PROVE  Unwritten(run[p], RowOf(p)) \in 0..NumChecks
      OBVIOUS
    <2>1. Len(RowOf(p).checks) \in Nat /\ Len(RowOf(p).checks) <= Len(run[p].checks)
      BY OwnRow
    <2> QED
      BY <1>1, <2>1 DEF Unwritten
  <1>3. Unreflected(run[p], RowOf(p)) \in 0..2
    BY DueFinite DEF Unreflected
  <1> DEFINE S == Share(pc[p], run[p], RowOf(p))
             n == Len(run[p].checks)
  <1> HIDE DEF S, n
  <1>4. CASE pc[p] \in Ended \union {"gate"}
    <2>1. S = 0
      BY <1>4, Shares DEF S
    <2> QED
      BY <1>1, <1>2, <1>3, <2>1 DEF S
  <1>5. CASE pc[p] \in {"reflect", "lesson"}
    <2>1. S = 2 * Unreflected(run[p], RowOf(p))
      BY <1>5, Shares DEF S
    <2> QED
      BY <1>1, <1>2, <1>3, <1>5, <2>1 DEF S
  <1>6. CASE pc[p] \in {"decided", "checks", "audit", "approve"}
    <2>1. S = 3 * Unwritten(run[p], RowOf(p)) /\ pc[p] \in Recording
      BY <1>6, Shares DEF S, Recording
    <2> QED
      BY <1>1, <1>2, <1>3, <2>1 DEF S
  <1>7. CASE pc[p] \in {"decide", "record"}
    <2>1. S = 3 * n
      BY <1>7, Shares DEF S, n
    <2> QED
      BY <1>1, <1>2, <1>3, <2>1 DEF S, n
  <1>8. CASE pc[p] = "verify"
    <2>1. S = 4 * NumChecks - n
      BY <1>8, Shares DEF S, n
    <2>2. n \in 0..NumChecks /\ NumChecks \in Nat
      BY <1>1 DEF n
    <2>3. S \in Nat /\ S <= 4 * NumChecks
      BY <2>1, <2>2
    <2> QED
      BY <1>1, <1>2, <1>3, <2>3 DEF S
  <1>9. CASE pc[p] \in {"resume", "mark", "announce", "available", "agent", "agent_result", "prepare"}
    <2>1. S = 4 * NumChecks
      BY <1>9, Shares DEF S
    <2> QED
      BY <1>1, <1>2, <1>3, <2>1 DEF S
  <1>10. \/ pc[p] \in Ended \union {"gate"} \/ pc[p] \in {"reflect", "lesson"}
         \/ pc[p] \in {"decided", "checks", "audit", "approve"}
         \/ pc[p] \in {"decide", "record"} \/ pc[p] = "verify"
         \/ pc[p] \in {"resume", "mark", "announce", "available", "agent", "agent_result", "prepare"}
    BY <1>1 DEF Labels, Ended
  <1> QED
    BY <1>4, <1>5, <1>6, <1>7, <1>8, <1>9, <1>10

LEMMA WorkBound ==
    CInv => \A p \in Procs : /\ Rounds(p) \in 0..run[p].limit
                             /\ Work(p) \in 0..(20 + 4 * NumChecks)
  <1> SUFFICES ASSUME CInv, NEW p \in Procs
               PROVE  /\ Rounds(p) \in 0..run[p].limit
                      /\ Work(p) \in 0..(20 + 4 * NumChecks)
    OBVIOUS
  <1>1. run[p].limit \in Nat /\ run[p].attempt \in Nat \ {0} /\ pc[p] \in Labels
    BY DEF CInv, Typed, TypeOK, Runs
  <1>2. Rounds(p) \in 0..run[p].limit
    BY <1>1 DEF Rounds, RoundsAt
  <1>3. /\ Weight(pc[p]) \in 0..20 /\ NumChecks \in Nat
        /\ pc[p] \in {"reflect", "lesson"} => Weight(pc[p]) <= 5
        /\ Share(pc[p], run[p], RowOf(p)) \in Nat
        /\ Share(pc[p], run[p], RowOf(p)) <= 4 + 4 * NumChecks
        /\ pc[p] \notin {"reflect", "lesson"} =>
             Share(pc[p], run[p], RowOf(p)) <= 4 * NumChecks
    <2>1. pc[p] \in {"reflect", "lesson"} => Weight(pc[p]) <= 5
      BY Weights
    <2>2. Weight(pc[p]) \in 0..20
      BY <1>1, WeightBound
    <2> QED
      BY <2>1, <2>2, ShareBound
  <1>4. CASE pc[p] \in {"reflect", "lesson"}
    BY <1>2, <1>3, <1>4 DEF Work
  <1>5. CASE pc[p] \notin {"reflect", "lesson"}
    BY <1>2, <1>3, <1>5 DEF Work
  <1> QED
    BY <1>4, <1>5
-----------------------------------------------------------------------------
(* A step that keeps the attempt and does part of the work. *)
LEMMA StepDown ==
    ASSUME CInv, NEW p \in Procs, NEW l, NEW r, pc'[p] = l, run'[p] = r,
           r.limit = run[p].limit, r.attempt = run[p].attempt,
           pc[p] \notin Ended, l \in ToCall => pc[p] \in ToCall,
           Weight(l) + Share(l, r, RowOf(p)') < Weight(pc[p]) + Share(pc[p], run[p], RowOf(p))
    PROVE  Lower(p)
  <1>1. run[p].limit \in Nat /\ run[p].attempt \in Nat
    BY DEF CInv, Typed, TypeOK, Runs
  <1>2. RoundsAt(l, r) <= RoundsAt(pc[p], run[p])
    BY <1>1 DEF RoundsAt
  <1> QED
    BY <1>2 DEF Lower, Rounds, Work

(* A step that leaves the loop. *)
LEMMA EndDown ==
    ASSUME CInv, NEW p \in Procs, pc'[p] \in Ended, Weight(pc'[p]) < Weight(pc[p])
    PROVE  Lower(p)
  <1>1. Rounds(p)' = 0 /\ Work(p)' = Weight(pc'[p])
    <2>1. Share(pc'[p], run'[p], RowOf(p)') = 0
      BY Shares
    <2>2. Weight(pc'[p]) \in Nat
      BY Weights DEF Ended
    <2> QED
      BY <2>1, <2>2 DEF Rounds, RoundsAt, Work
  <1>2. Rounds(p) \in Nat
    BY WorkBound DEF CInv, Typed, TypeOK, Runs
  <1>3. /\ Share(pc[p], run[p], RowOf(p)) \in Nat
        /\ Weight(pc[p]) \in Nat /\ Weight(pc'[p]) \in Nat
    <2>1. pc[p] \in Labels
      BY DEF CInv, Typed, TypeOK
    <2>2. Weight(pc[p]) \in Nat
      BY <2>1, WeightBound
    <2>3. Weight(pc'[p]) \in Nat
      BY Weights DEF Ended
    <2> QED
      BY <2>2, <2>3, ShareBound
  <1> QED
    BY <1>1, <1>2, <1>3 DEF Work, Lower
-----------------------------------------------------------------------------
(* A label p steps to within a round, with its locals kept but for those no  *)
(* measure looks at.                                                         *)
LEMMA MoveDown ==
    ASSUME CInv, NEW p \in Procs, NEW l \in Labels, pc'[p] = l,
           run'[p].limit = run[p].limit, run'[p].attempt = run[p].attempt,
           run'[p].checks = run[p].checks,
           \/ pc[p] = "resume" /\ l = "mark"
           \/ pc[p] = "mark" /\ l = "announce"
           \/ pc[p] = "announce" /\ l = "available"
           \/ pc[p] = "available" /\ l = "gate"
           \/ pc[p] = "agent" /\ l = "agent_result"
           \/ pc[p] = "prepare" /\ l = "verify"
           \/ pc[p] = "decide" /\ l = "record"
           \/ pc[p] = "verify" /\ l = "decide" /\ Len(run[p].checks) = NumChecks
    PROVE  Lower(p)
  <1> DEFINE s == Share(pc[p], run[p], RowOf(p))
             t == Share(l, run'[p], RowOf(p)')
             n == Len(run[p].checks)
  <1>1. n \in 0..NumChecks /\ NumChecks \in Nat
    BY ShareBound
  <1>2. pc[p] \notin Ended /\ (l \in ToCall => pc[p] \in ToCall)
    BY DEF Ended, ToCall
  <1>3. \/ t = 4 * NumChecks /\ s = 4 * NumChecks
        \/ t = 0 /\ s = 4 * NumChecks
        \/ t = 4 * NumChecks - n /\ s = 4 * NumChecks
        \/ t = 3 * n /\ s = 3 * n
        \/ t = 3 * n /\ s = 4 * NumChecks - n /\ n = NumChecks
    <2> DEFINE r2 == run'[p]
               w2 == RowOf(p)'
    <2>1. Len(r2.checks) = n /\ t = Share(l, r2, w2)
      OBVIOUS
    <2>2. /\ pc[p] \in {"resume", "mark", "announce", "available", "agent", "prepare"} =>
               s = 4 * NumChecks
          /\ pc[p] = "decide" => s = 3 * n
          /\ pc[p] = "verify" => s = 4 * NumChecks - n
      BY Shares
    <2>3. /\ l \in {"mark", "announce", "available", "agent_result"} => t = 4 * NumChecks
          /\ l = "gate" => t = 0
          /\ l = "verify" => t = 4 * NumChecks - n
          /\ l \in {"record", "decide"} => t = 3 * n
      <3> HIDE DEF n, t, r2, w2
      <3>1. /\ l \in {"mark", "announce", "available", "agent_result"} =>
                 Share(l, r2, w2) = 4 * NumChecks
            /\ l = "gate" => Share(l, r2, w2) = 0
            /\ l = "verify" => Share(l, r2, w2) = 4 * NumChecks - Len(r2.checks)
            /\ l \in {"record", "decide"} => Share(l, r2, w2) = 3 * Len(r2.checks)
        BY Shares DEF Ended
      <3> QED
        BY <2>1, <3>1
    <2> HIDE DEF n, s, t, r2, w2
    <2>4. CASE pc[p] = "verify" /\ l = "decide" /\ n = NumChecks
      BY <2>2, <2>3, <2>4
    <2>5. CASE pc[p] = "decide" /\ l = "record"
      BY <2>2, <2>3, <2>5
    <2>6. CASE pc[p] = "prepare" /\ l = "verify"
      BY <2>2, <2>3, <2>6
    <2>7. CASE \/ pc[p] = "resume" /\ l = "mark"
               \/ pc[p] = "mark" /\ l = "announce"
               \/ pc[p] = "announce" /\ l = "available"
               \/ pc[p] = "available" /\ l = "gate"
               \/ pc[p] = "agent" /\ l = "agent_result"
      BY <2>2, <2>3, <2>7
    <2> QED
      BY <2>4, <2>5, <2>6, <2>7 DEF n
  <1> HIDE DEF s, t, n
  <1>4. Weight(l) \in Nat /\ Weight(pc[p]) \in Nat /\ Weight(l) < Weight(pc[p])
    <2>1. CASE pc[p] \in {"resume", "mark"}
      BY <2>1, Weights
    <2>2. CASE pc[p] \in {"announce", "available"}
      BY <2>2, Weights
    <2>3. CASE pc[p] \in {"agent", "prepare"}
      BY <2>3, Weights
    <2>4. CASE pc[p] \in {"decide", "verify"}
      BY <2>4, Weights
    <2> QED
      BY <2>1, <2>2, <2>3, <2>4
  <1>5. Weight(l) + t < Weight(pc[p]) + s
    BY <1>1, <1>3, <1>4
  <1> QED
    BY <1>2, <1>5, StepDown DEF s, t

LEMMA AfterLocal ==
    ASSUME TypeOK, NEW p \in Procs, NEW r, Local(p, r)
    PROVE  run'[p] = r
  BY DEF TypeOK, Local

LEMMA AfterGoto ==
    ASSUME TypeOK, NEW p \in Procs, NEW l, Goto(p, l)
    PROVE  pc'[p] = l
  BY DEF TypeOK, Goto

LEMMA ReturnDown ==
    ASSUME CInv, NEW p \in Procs, Return(p), pc[p] # "idle"
    PROVE  Lower(p)
  <1>1. pc'[p] = "idle" /\ pc[p] \in Labels
    BY DEF CInv, Typed, TypeOK, Return, Goto
  <1>2. Weight("idle") < Weight(pc[p])
    BY <1>1, Weights, WeightBound DEF Ended
  <1> QED
    BY <1>1, <1>2, EndDown DEF Ended

LEMMA LeaveDown ==
    ASSUME CInv, NEW p \in Procs, pc'[p] = "exit", pc[p] \notin Ended
    PROVE  Lower(p)
  <1>1. pc[p] \in Labels
    BY DEF CInv, Typed, TypeOK
  <1>2. Weight("exit") < Weight(pc[p])
    BY <1>1, Weights, WeightBound
  <1> QED
    BY <1>2, EndDown DEF Ended

(* The steps up to the record, and those that end a run. *)
LEMMA LoopDown ==
    ASSUME CInv, NEW p \in Procs,
           \/ ResumeCheck(p) \/ MarkRunning(p) \/ Announce(p) \/ StartSession(p)
           \/ Exhausted(p) \/ OutOfTime(p) \/ CancelledBeforeAgent(p)
           \/ AgentReturns(p) \/ AgentStopped(p)
           \/ OutOfTimeBeforeVerification(p) \/ PrepareVerification(p)
           \/ FinishVerification(p) \/ DecideIteration(p)
           \/ WriteStatus(p) \/ LogStatus(p)
    PROVE  Lower(p)
  <1>t. TypeOK /\ run[p] \in Runs
    BY DEF CInv, Typed, TypeOK
  <1> DEFINE Kept(l) == /\ pc'[p] = l /\ run'[p].limit = run[p].limit
                         /\ run'[p].attempt = run[p].attempt /\ run'[p].checks = run[p].checks
  <1>1. CASE ResumeCheck(p)
    <2>1. Return(p) \/ Kept("mark")
      BY <1>1, <1>t, AfterGoto DEF ResumeCheck
    <2> QED
      BY <1>1, <2>1, ReturnDown, MoveDown DEF ResumeCheck, Labels
  <1>2. CASE MarkRunning(p)
    BY <1>2, <1>t, AfterGoto, MoveDown DEF MarkRunning, Labels
  <1>3. CASE Announce(p)
    BY <1>3, <1>t, AfterGoto, MoveDown DEF Announce, Labels
  <1>4. CASE StartSession(p)
    <2>1. Kept("gate")
      <3>1. PICK snap : Local(p, [run[p] EXCEPT !.base = snap, !.origin = tree.version,
                                        !.seen = tree.version])
        BY <1>4 DEF StartSession
      <3> DEFINE r == [run[p] EXCEPT !.base = snap, !.origin = tree.version,
                                    !.seen = tree.version]
      <3>2. run'[p] = r /\ pc'[p] = "gate"
        BY <1>4, <1>t, <3>1, AfterGoto, AfterLocal DEF StartSession
      <3>3. r.limit = run[p].limit /\ r.attempt = run[p].attempt /\ r.checks = run[p].checks
        BY <1>t DEF Runs
      <3> HIDE DEF r
      <3> QED
        BY <3>2, <3>3
    <2> QED
      BY <1>4, <2>1, MoveDown DEF StartSession, Labels
  <1>5. CASE Exhausted(p) \/ OutOfTime(p) \/ OutOfTimeBeforeVerification(p)
    <2>1. pc'[p] = "exit" /\ pc[p] \in {"gate", "prepare"}
      BY <1>5, <1>t, AfterGoto DEF Exhausted, OutOfTime, OutOfTimeBeforeVerification, Leave
    <2> QED
      BY <2>1, LeaveDown DEF Ended
  <1>6. CASE CancelledBeforeAgent(p) \/ LogStatus(p)
    BY <1>6, ReturnDown DEF CancelledBeforeAgent, LogStatus
  <1>7. CASE AgentReturns(p) \/ AgentStopped(p)
    <2>1. PICK st, files : Local(p, [run[p] EXCEPT !.agent = st, !.files = files])
      BY <1>7 DEF AgentReturns, AgentStopped
    <2>2. Kept("agent_result")
      <3> DEFINE r == [run[p] EXCEPT !.agent = st, !.files = files]
      <3>1. run'[p] = r /\ pc'[p] = "agent_result"
        BY <1>7, <1>t, <2>1, AfterGoto, AfterLocal DEF AgentReturns, AgentStopped
      <3>2. r.limit = run[p].limit /\ r.attempt = run[p].attempt /\ r.checks = run[p].checks
        BY <1>t DEF Runs
      <3> HIDE DEF r
      <3> QED
        BY <3>1, <3>2
    <2> QED
      BY <1>7, <2>2, MoveDown DEF AgentReturns, AgentStopped, Labels
  <1>8. CASE PrepareVerification(p)
    <2>1. Return(p) \/ Kept("verify")
      BY <1>8, <1>t, AfterGoto DEF PrepareVerification
    <2> QED
      BY <1>8, <2>1, ReturnDown, MoveDown DEF PrepareVerification, Labels
  <1>9. CASE FinishVerification(p)
    BY <1>9, <1>t, AfterGoto, MoveDown DEF FinishVerification, Labels
  <1>10. CASE DecideIteration(p)
    <2>1. PICK snap : Local(p, Decided(p, snap))
      BY <1>10 DEF DecideIteration
    <2>2. Kept("record")
      <3>1. run'[p] = Decided(p, snap) /\ pc'[p] = "record"
        BY <1>10, <1>t, <2>1, AfterGoto, AfterLocal DEF DecideIteration
      <3>2. /\ Decided(p, snap).limit = run[p].limit
            /\ Decided(p, snap).attempt = run[p].attempt
            /\ Decided(p, snap).checks = run[p].checks
        BY <1>t DEF Decided, Runs
      <3> QED
        BY <3>1, <3>2
    <2> QED
      BY <1>10, <2>2, MoveDown DEF DecideIteration, Labels
  <1>11. CASE WriteStatus(p)
    <2>1. pc[p] = "exit" /\ pc'[p] = "exited"
      BY <1>11, <1>t, AfterGoto DEF WriteStatus
    <2>2. Weight("exited") < Weight("exit")
      BY Weights
    <2> QED
      BY <2>1, <2>2, EndDown DEF Ended
  <1> QED
    BY <1>1, <1>2, <1>3, <1>4, <1>5, <1>6, <1>7, <1>8, <1>9, <1>10, <1>11

LEMMA ResultDown ==
    ASSUME CInv, NEW p \in Procs, ReceiveResult(p)
    PROVE  Lower(p)
  <1>t. TypeOK /\ run[p] \in Runs /\ pc[p] = "agent_result"
    BY DEF CInv, Typed, TypeOK, ReceiveResult
  <1>1. CASE Goto(p, "exit")
    BY <1>1, <1>t, AfterGoto, LeaveDown DEF Ended
  <1>2. ASSUME NEW l \in {"prepare", "decide"}, Goto(p, l),
               Local(p, [run[p] EXCEPT !.checks = << >>])
        PROVE  Lower(p)
    <2> DEFINE r == [run[p] EXCEPT !.checks = << >>]
    <2>1. pc'[p] = l /\ run'[p] = r /\ r.checks = << >>
          /\ r.limit = run[p].limit /\ r.attempt = run[p].attempt
      BY <1>2, <1>t, AfterGoto, AfterLocal DEF Runs
    <2> HIDE DEF r
    <2>2. /\ Share(l, r, RowOf(p)') \in {4 * NumChecks, 0}
          /\ Share(pc[p], run[p], RowOf(p)) = 4 * NumChecks
      <3>1. Len(r.checks) = 0
        BY <2>1
      <3> QED
        BY <1>2, <1>t, <3>1, Shares
    <2>3. NumChecks \in Nat /\ Weight(l) \in Nat /\ Weight(l) < 15 /\ Weight(pc[p]) = 15
      BY <1>2, <1>t, LimitAssumption, Weights
    <2>4. Weight(l) + Share(l, r, RowOf(p)') < Weight(pc[p]) + Share(pc[p], run[p], RowOf(p))
      BY <2>2, <2>3
    <2>5. pc[p] \notin Ended /\ l \notin ToCall
      BY <1>2, <1>t DEF Ended, ToCall
    <2> QED
      BY <2>1, <2>4, <2>5, StepDown
  <1>3. Goto(p, "exit") \/ \E l \in {"prepare", "decide"} :
            Goto(p, l) /\ Local(p, [run[p] EXCEPT !.checks = << >>])
    BY DEF ReceiveResult, Leave
  <1> QED
    BY <1>1, <1>2, <1>3

LEMMA CheckDown ==
    ASSUME CInv, NEW p \in Procs, RunCheck(p)
    PROVE  Lower(p)
  <1>t. TypeOK /\ run[p] \in Runs /\ pc[p] = "verify" /\ pc'[p] = "verify"
    BY DEF CInv, Typed, TypeOK, RunCheck
  <1>1. PICK st \in CheckStatuses : Local(p, [run[p] EXCEPT !.checks = Append(@, st)])
    BY DEF RunCheck
  <1> DEFINE r == [run[p] EXCEPT !.checks = Append(@, st)]
  <1>2. /\ run'[p] = r /\ r.checks = Append(run[p].checks, st)
        /\ r.limit = run[p].limit /\ r.attempt = run[p].attempt
    BY <1>1, <1>t, AfterLocal DEF Runs
  <1> HIDE DEF r
  <1>3. Len(r.checks) = Len(run[p].checks) + 1 /\ Len(run[p].checks) \in Nat
    <2>1. run[p].checks \in Seq(CheckStatuses)
      BY <1>t DEF Runs
    <2> QED
      BY <1>2, <2>1
  <1>4. /\ Share("verify", r, RowOf(p)') = 4 * NumChecks - Len(r.checks)
        /\ Share("verify", run[p], RowOf(p)) = 4 * NumChecks - Len(run[p].checks)
    BY Shares
  <1>5. Weight("verify") + Share("verify", r, RowOf(p)')
          < Weight("verify") + Share("verify", run[p], RowOf(p))
    <2> DEFINE n == Len(run[p].checks)
               s == Share("verify", run[p], RowOf(p))
               t == Share("verify", r, RowOf(p)')
    <2>1. NumChecks \in Nat /\ Weight("verify") = 13 /\ n \in Nat
      BY <1>3, LimitAssumption, Weights
    <2>2. t = 4 * NumChecks - (n + 1) /\ s = 4 * NumChecks - n
      BY <1>3, <1>4
    <2> HIDE DEF n, s, t
    <2>3. Weight("verify") + t < Weight("verify") + s
      BY <2>1, <2>2
    <2> QED
      BY <2>3 DEF s, t
  <1> QED
    BY <1>t, <1>2, <1>5, StepDown DEF Ended, ToCall

(* The row added by RecordIteration or AgentUnavailable: all its checks are  *)
(* still to be written.                                                      *)
LEMMA AddDown ==
    ASSUME CInv, NEW p \in Procs, NEW row \in Row, NEW r, run[p].task \in Tasks,
           pc[p] \in {"available", "record"}, pc'[p] = "decided", run'[p] = r,
           iters' = [iters EXCEPT ![run[p].task] = Append(@, row)],
           r.task = run[p].task, r.row = Len(iters[run[p].task]) + 1,
           r.limit = run[p].limit, r.attempt = run[p].attempt,
           r.checks = run[p].checks, row.checks = << >>
    PROVE  Lower(p)
  <1> DEFINE t == run[p].task
             n == Len(run[p].checks)
             s == Share(pc[p], run[p], RowOf(p))
             u == Share("decided", r, RowOf(p)')
  <1>1. RowOf(p)' = row
    <2>1. iters[t] \in Seq(Row) /\ iters'[t] = Append(iters[t], row)
      BY DEF CInv, Typed, TypeOK
    <2>2. iters'[t][Len(iters[t]) + 1] = row
      BY <2>1
    <2> QED
      BY <2>2 DEF RowOf
  <1>2. n \in 0..NumChecks /\ NumChecks \in Nat
    BY ShareBound
  <1>3. u = 3 * n
    <2>1. u = 3 * Unwritten(r, RowOf(p)')
      BY Shares
    <2>2. Unwritten(r, RowOf(p)') = Len(r.checks) - Len(row.checks)
      BY <1>1 DEF Unwritten
    <2>3. Len(row.checks) = 0 /\ Len(r.checks) = n
      OBVIOUS
    <2> HIDE DEF u, n
    <2>4. Unwritten(r, RowOf(p)') = n
      BY <1>2, <2>2, <2>3
    <2> QED
      BY <2>1, <2>4
  <1>4. /\ pc[p] = "available" => s = 4 * NumChecks
        /\ pc[p] = "record" => s = 3 * n
    <2>1. CASE pc[p] = "available"
      BY <2>1, Shares
    <2>2. CASE pc[p] = "record"
      <3>1. pc[p] \in {"decide", "record"} => s = 3 * Len(run[p].checks)
        BY Shares
      <3> HIDE DEF s
      <3> QED
        BY <2>2, <3>1
    <2> QED
      BY <2>1, <2>2
  <1>5. Weight("decided") = 10 /\ Weight(pc[p]) \in {17, 11}
    BY Weights
  <1> HIDE DEF n, s, u
  <1>6. Weight("decided") + u < Weight(pc[p]) + s
    BY <1>2, <1>3, <1>4, <1>5
  <1> QED
    BY <1>6, StepDown DEF s, u, Ended, ToCall

LEMMA RecordDown ==
    ASSUME CInv, Typed', NEW p \in Procs, RecordIteration(p) \/ AgentUnavailable(p)
    PROVE  Lower(p)
  <1>t. TypeOK /\ run[p] \in Runs
    BY DEF CInv, Typed, TypeOK
  <1>1. pc[p] \in {"available", "record"} /\ pc'[p] = "decided" /\ run[p].task \in Tasks
    BY <1>t, AfterGoto DEF RecordIteration, AgentUnavailable, CInv, Typed, TaskOK
  <1>2. CASE RecordIteration(p)
    <2> DEFINE r == [run[p] EXCEPT !.row = Len(iters[run[p].task]) + 1]
    <2>1. run'[p] = r
      BY <1>2, <1>t, AfterLocal DEF RecordIteration
    <2>2. /\ r.task = run[p].task /\ r.row = Len(iters[run[p].task]) + 1
          /\ r.limit = run[p].limit /\ r.attempt = run[p].attempt /\ r.checks = run[p].checks
      BY <1>t DEF Runs
    <2>3. NewRow(p) \in Row /\ NewRow(p).checks = << >>
      BY <1>t, NewRowType DEF NewRow
    <2> HIDE DEF r
    <2> QED
      BY <1>1, <1>2, <2>1, <2>2, <2>3, AddDown DEF RecordIteration
  <1>3. CASE AgentUnavailable(p)
    <2> DEFINE r == [run[p] EXCEPT !.decision = "blocked", !.reason = "unavailable",
                                   !.row = Len(iters[run[p].task]) + 1]
               row == [NewRow(p) EXCEPT !.agent = "unavailable", !.decision = "blocked",
                                        !.reason = "unavailable", !.touched = FALSE]
    <2>1. run'[p] = r /\ iters' = [iters EXCEPT ![run[p].task] = Append(@, row)]
      BY <1>3, <1>t, AfterLocal DEF AgentUnavailable
    <2>2. /\ r.task = run[p].task /\ r.row = Len(iters[run[p].task]) + 1
          /\ r.limit = run[p].limit /\ r.attempt = run[p].attempt /\ r.checks = run[p].checks
      BY <1>t DEF Runs
    <2>3. row \in Row /\ row.checks = << >>
      <3>1. NewRow(p) \in Row /\ NewRow(p).checks = << >>
        BY <1>t, NewRowType DEF NewRow
      <3>2. row.checks = << >>
        BY DEF NewRow
      <3> QED
        BY <3>1, <3>2 DEF Row, Reasons, Verdicts
    <2> HIDE DEF r, row
    <2> QED
      BY <1>1, <2>1, <2>2, <2>3, AddDown
  <1> QED
    BY <1>2, <1>3

(* The rows written for an iteration: fewer checks or reflections are left.  *)
LEMMA AfterRewrite ==
    ASSUME CInv, NEW p \in Procs, NEW row, pc[p] \in Recording, SetRow(p, row),
           run'[p] = run[p]
    PROVE  RowOf(p)' = row
  <1>1. Owns(p) /\ OwnedRow(p) /\ run[p].task \in Tasks
    BY DEF Owns, CInv, CompletionInv, Typed, TaskOK, Recording
  <1>2. /\ run[p].row \in DOMAIN iters[run[p].task]
        /\ iters'[run[p].task] = [iters[run[p].task] EXCEPT ![run[p].row] = row]
    BY <1>1 DEF OwnedRow, SetRow, CInv, Typed, TypeOK
  <1> QED
    BY <1>2 DEF RowOf

LEMMA WriteDown ==
    ASSUME CInv, NEW p \in Procs, NEW l \in Recording, NEW row, pc[p] \in Recording,
           pc'[p] = l, run'[p] = run[p], RowOf(p)' = row,
           Weight(l) + Share(l, run[p], row) < Weight(pc[p]) + Share(pc[p], run[p], RowOf(p))
    PROVE  Lower(p)
  <1>1. pc[p] \notin Ended /\ l \notin ToCall
    BY DEF Recording, Ended, ToCall
  <1> QED
    BY <1>1, StepDown

LEMMA RecordCheckDown ==
    ASSUME CInv, NEW p \in Procs, RecordCheck(p)
    PROVE  Lower(p)
  <1> DEFINE n == Len(RowOf(p).checks)
             row == [RowOf(p) EXCEPT !.checks = Append(@, run[p].checks[Len(@) + 1])]
             u == Unwritten(run[p], RowOf(p))
             s == Share("checks", run[p], RowOf(p))
             t == Share("audit", run[p], row)
  <1>1. pc[p] = "checks" /\ pc'[p] = "audit" /\ run'[p] = run[p] /\ SetRow(p, row)
    BY AfterGoto DEF RecordCheck, CInv, Typed
  <1>2. pc[p] \in Recording /\ "audit" \in Recording
    BY <1>1 DEF Recording
  <1>3. RowOf(p)' = row
    BY <1>1, <1>2, AfterRewrite
  <1>4. Len(row.checks) = n + 1 /\ n \in Nat
    <2>1. RowOf(p) \in Row /\ RowOf(p).checks \in Seq(CheckStatuses)
      BY <1>2, OwnRow
    <2>2. row.checks = Append(RowOf(p).checks, run[p].checks[n + 1])
      BY <2>1 DEF Row
    <2> HIDE DEF row
    <2> QED
      BY <2>1, <2>2
  <1>5. Unwritten(run[p], row) = u - 1 /\ u \in 0..NumChecks /\ NumChecks \in Nat
    <2>1. Len(run[p].checks) \in Nat
      BY ShareBound
    <2>2. u \in 0..NumChecks /\ NumChecks \in Nat
      BY <1>2, ShareBound
    <2> HIDE DEF row
    <2> QED
      BY <1>4, <2>1, <2>2 DEF Unwritten
  <1>6. s = 3 * u /\ t = 3 * Unwritten(run[p], row)
    BY Shares
  <1> HIDE DEF s, t, u, row
  <1>7. Weight("audit") + t < Weight("checks") + s
    BY <1>5, <1>6, Weights
  <1> QED
    BY <1>1, <1>2, <1>3, <1>7, WriteDown DEF s, t

(* Audit record, approval request, lesson and replan leave what is still to  *)
(* be written as it is.                                                      *)
LEMMA AnnotateDown ==
    ASSUME CInv, NEW p \in Procs, NEW row,
           run'[p] = run[p], SetRow(p, row), row.checks = RowOf(p).checks,
           row.reflections = RowOf(p).reflections,
           \/ pc[p] = "audit" /\ pc'[p] = "approve"
           \/ pc[p] = "audit" /\ pc'[p] = "checks"
           \/ pc[p] = "approve" /\ pc'[p] = "checks"
           \/ pc[p] = "lesson" /\ pc'[p] = "reflect"
           \/ pc[p] = "checks" /\ pc'[p] = "reflect"
    PROVE  Lower(p)
  <1> DEFINE u == Unwritten(run[p], RowOf(p))
             m == Unreflected(run[p], RowOf(p))
             s == Share(pc[p], run[p], RowOf(p))
             t == Share(pc'[p], run[p], row)
  <1>1. pc[p] \in Recording /\ pc'[p] \in Recording
    BY DEF Recording
  <1>2. RowOf(p)' = row
    BY <1>1, AfterRewrite
  <1>3. Unwritten(run[p], row) = u /\ Unreflected(run[p], row) = m
    BY DEF Unwritten, Unreflected
  <1>4. u \in Nat /\ m \in 0..2
    BY <1>1, ShareBound
  <1>5. /\ pc[p] \in {"audit", "approve", "checks"} => s = 3 * u
        /\ pc[p] = "lesson" => s = 2 * m
    BY Shares
  <1>6. /\ pc'[p] \in {"approve", "checks"} => t = 3 * u
        /\ pc'[p] = "reflect" => t = 2 * m
    BY <1>3, Shares
  <1> HIDE DEF s, t, u, m
  <1>7. Weight(pc'[p]) + t < Weight(pc[p]) + s
    BY <1>4, <1>5, <1>6, Weights
  <1> QED
    BY <1>1, <1>2, <1>7, WriteDown DEF s, t

LEMMA AnnotationsDown ==
    ASSUME CInv, NEW p \in Procs,
           RecordAction(p) \/ RequestApproval(p) \/ RecordReplan(p) \/ RecordLesson(p)
    PROVE  Lower(p)
  <1>1. pc[p] \in Recording /\ TypeOK /\ run'[p] = run[p]
    BY DEF RecordAction, RequestApproval, RecordReplan, RecordLesson, Recording, CInv, Typed
  <1>2. RowOf(p) \in Row
    BY <1>1, OwnRow
  <1>3. CASE RecordAction(p)
    <2> DEFINE row == [RowOf(p) EXCEPT !.audited = @ + 1]
    <2>1. row.checks = RowOf(p).checks /\ row.reflections = RowOf(p).reflections
      BY <1>2 DEF Row
    <2>2. pc[p] = "audit" /\ pc'[p] \in {"approve", "checks"} /\ SetRow(p, row)
      BY <1>1, <1>3, AfterGoto DEF RecordAction
    <2> HIDE DEF row
    <2> QED
      BY <1>1, <2>1, <2>2, AnnotateDown
  <1>4. CASE RequestApproval(p)
    <2> DEFINE row == [RowOf(p) EXCEPT !.approvals = @ + 1]
    <2>1. row.checks = RowOf(p).checks /\ row.reflections = RowOf(p).reflections
      BY <1>2 DEF Row
    <2>2. pc[p] = "approve" /\ pc'[p] = "checks" /\ SetRow(p, row)
      BY <1>1, <1>4, AfterGoto DEF RequestApproval
    <2> HIDE DEF row
    <2> QED
      BY <1>1, <2>1, <2>2, AnnotateDown
  <1>5. CASE RecordReplan(p)
    <2> DEFINE row == [RowOf(p) EXCEPT !.replan = ReplanDue(run[p].decision, run[p].checks)]
    <2>1. row.checks = RowOf(p).checks /\ row.reflections = RowOf(p).reflections
      BY <1>2 DEF Row
    <2>2. pc[p] = "checks" /\ pc'[p] = "reflect" /\ SetRow(p, row)
      BY <1>1, <1>5, AfterGoto DEF RecordReplan
    <2> HIDE DEF row
    <2> QED
      BY <1>1, <2>1, <2>2, AnnotateDown
  <1>6. CASE RecordLesson(p)
    <2> DEFINE row == [RowOf(p) EXCEPT !.lessons = RowOf(p).reflections]
    <2>1. row.checks = RowOf(p).checks /\ row.reflections = RowOf(p).reflections
      BY <1>2 DEF Row
    <2>2. pc[p] = "lesson" /\ pc'[p] = "reflect" /\ SetRow(p, row)
      BY <1>1, <1>6, AfterGoto DEF RecordLesson
    <2> HIDE DEF row
    <2> QED
      BY <1>1, <2>1, <2>2, AnnotateDown
  <1> QED
    BY <1>3, <1>4, <1>5, <1>6

LEMMA ReflectionDown ==
    ASSUME CInv, NEW p \in Procs, RecordReflection(p)
    PROVE  Lower(p)
  <1> DEFINE due == ReflectionsDue(run[p].decision, run[p].checks) \ RowOf(p).reflections
             m == Unreflected(run[p], RowOf(p))
             s == Share("reflect", run[p], RowOf(p))
  <1>1. /\ pc[p] = "reflect" /\ pc[p] \in Recording /\ "lesson" \in Recording
        /\ pc'[p] = "lesson" /\ run'[p] = run[p]
    BY AfterGoto DEF RecordReflection, Recording, CInv, Typed
  <1>2. PICK k \in due : SetRow(p, [RowOf(p) EXCEPT !.reflections = @ \union {k}])
    BY DEF RecordReflection
  <1> DEFINE row == [RowOf(p) EXCEPT !.reflections = @ \union {k}]
             t == Share("lesson", run[p], row)
  <1>3. row.reflections = RowOf(p).reflections \union {k}
    BY <1>1, OwnRow DEF Row
  <1>4. RowOf(p)' = row
    BY <1>1, <1>2, AfterRewrite
  <1> HIDE DEF row
  <1>5. Unreflected(run[p], row) = m - 1 /\ m \in 0..2 /\ m - 1 \in 0..2
    <2>1. IsFiniteSet(due) /\ m = Cardinality(due) /\ m \in 0..2
      BY DueFinite DEF Unreflected
    <2>2. due \ {k} = ReflectionsDue(run[p].decision, run[p].checks) \ row.reflections
      BY <1>3
    <2>k. k \in due
      BY <1>2
    <2> HIDE DEF due, m
    <2>3. Cardinality(due \ {k}) = m - 1
      BY <2>1, <2>k, FS_RemoveElement
    <2>4. Unreflected(run[p], row) = m - 1
      BY <2>2, <2>3 DEF Unreflected, due
    <2>5. Unreflected(run[p], row) \in 0..2
      BY DueFinite DEF Unreflected
    <2> QED
      BY <2>1, <2>4, <2>5
  <1>6. s = 2 * m /\ t = 2 * Unreflected(run[p], row)
    BY Shares
  <1> HIDE DEF s, t, m, due
  <1>7. Weight("lesson") + t < Weight("reflect") + s
    BY <1>5, <1>6, Weights
  <1> QED
    BY <1>1, <1>4, <1>7, WriteDown DEF s, t

(* A verdict of continue begins the next round, with one attempt less.       *)
LEMMA FinishDown ==
    ASSUME CInv, NEW p \in Procs, RecordDecision(p) \/ FinishIteration(p)
    PROVE  Lower(p)
  <1>t. TypeOK /\ run[p] \in Runs /\ pc[p] \in Recording /\ pc[p] \notin Ended
    BY DEF CInv, Typed, TypeOK, RecordDecision, FinishIteration, Recording, Ended
  <1>1. CASE Goto(p, "exit")
    BY <1>1, <1>t, AfterGoto, LeaveDown
  <1>2. CASE pc[p] = "decided" /\ Goto(p, "checks") /\ UNCHANGED <<run, iters>>
    <2> DEFINE u == Unwritten(run[p], RowOf(p))
               s == Share("decided", run[p], RowOf(p))
               t == Share("checks", run[p], RowOf(p))
    <2>1. pc'[p] = "checks" /\ run'[p] = run[p] /\ RowOf(p)' = RowOf(p)
      BY <1>2, <1>t, AfterGoto DEF RowOf
    <2>2. s = 3 * u /\ t = 3 * u
      BY Shares
    <2>3. u \in Nat
      BY <1>t, ShareBound
    <2> HIDE DEF s, t, u
    <2>4. Weight("checks") + t < Weight("decided") + s
      BY <2>2, <2>3, Weights
    <2>5. "checks" \in Recording
      BY DEF Recording
    <2> QED
      BY <1>2, <1>t, <2>1, <2>4, <2>5, WriteDown DEF s, t
  <1>3. CASE pc[p] = "reflect" /\ Goto(p, "gate") /\ Local(p, [run[p] EXCEPT !.attempt = @ + 1])
    <2> DEFINE r == [run[p] EXCEPT !.attempt = @ + 1]
               s == Share("reflect", run[p], RowOf(p))
               t == Share("gate", r, RowOf(p)')
    <2>1. /\ pc'[p] = "gate" /\ run'[p] = r
          /\ r.limit = run[p].limit /\ r.attempt = run[p].attempt + 1
          /\ run[p].limit \in Nat /\ run[p].attempt \in Nat
      BY <1>3, <1>t, AfterGoto, AfterLocal DEF Runs
    <2>2. t = 0 /\ s \in Nat
      <3>1. t = 0
        BY Shares
      <3>2. s \in Nat
        BY <1>3, ShareBound
      <3> QED
        BY <3>1, <3>2
    <2> HIDE DEF r, s, t
    <2>3. Weight("gate") + t < Weight("reflect") + s
      BY <2>2, Weights
    <2>4. RoundsAt("gate", r) = RoundsAt("reflect", run[p])
      BY <2>1 DEF RoundsAt, Ended, ToCall
    <2>5. RoundsAt("reflect", run[p]) \in Nat
      BY <1>3, WorkBound, <2>1 DEF Rounds
    <2> QED
      BY <1>3, <2>1, <2>3, <2>4, <2>5 DEF s, t, Lower, Rounds, Work
  <1> QED
    BY <1>1, <1>2, <1>3 DEF RecordDecision, FinishIteration, Leave

(* The call of an agent uses up one of the run's.                            *)
LEMMA CallDown ==
    ASSUME CInv, NEW p \in Procs, CallAgent(p)
    PROVE  Rounds(p)' < Rounds(p)
  <1>1. /\ pc[p] = "gate" /\ pc'[p] = "agent" /\ run'[p] = run[p]
        /\ run[p].limit \in Nat /\ run[p].attempt \in Nat
        /\ run[p].attempt <= run[p].limit
    BY AfterGoto DEF CallAgent, CInv, Typed, TypeOK, Runs
  <1> QED
    BY <1>1 DEF Rounds, RoundsAt, Ended, ToCall

LEMMA StepFalls ==
    ASSUME CInv, Typed', NEW p \in Procs, Step(p)
    PROVE  Falls(p)
  <1>1. CASE CallAgent(p)
    BY <1>1, CallDown DEF Falls
  <1>2. CASE ~CallAgent(p)
    <2>1. Lower(p)
      BY <1>2, LoopDown, ResultDown, CheckDown, RecordDown, RecordCheckDown,
         AnnotationsDown, ReflectionDown, FinishDown DEF Step
    <2>2. Rounds(p) \in Nat
      <3>1. run[p].limit \in Nat
        BY DEF CInv, Typed, TypeOK, Runs
      <3> QED
        BY <3>1, WorkBound
    <2>3. Rounds(p)' \in Int
      <3>1. run'[p].limit \in Int /\ run'[p].attempt \in Int
        BY DEF Typed, TypeOK, Runs
      <3> QED
        BY <3>1 DEF Rounds, RoundsAt
    <2> QED
      BY <2>1, <2>2, <2>3 DEF Lower, Falls
  <1> QED
    BY <1>1, <1>2
-----------------------------------------------------------------------------
(* What the others do is not p's work: its row is its own.                   *)
LEMMA RowStays ==
    ASSUME CInv, NEW p \in Procs, NEW q \in Procs, p # q, pc[q] \in Recording,
           run'[q] = run[q], run[p].task \in Tasks,
           \/ UNCHANGED iters
           \/ \E row : iters' = [iters EXCEPT ![run[p].task] = Append(@, row)]
           \/ pc[p] \in Recording /\ \E row : SetRow(p, row)
    PROVE  RowOf(q)' = RowOf(q)
  <1> DEFINE t == run[q].task
             i == run[q].row
  <1>1. Owns(q) /\ OwnedRow(q) /\ t \in Tasks
    BY DEF Owns, CInv, CompletionInv, Typed, TaskOK, Recording
  <1>2. iters[t] \in Seq(Row) /\ i \in DOMAIN iters[t]
    BY <1>1 DEF OwnedRow, CInv, Typed, TypeOK
  <1>3. CASE UNCHANGED iters
    BY <1>3 DEF RowOf
  <1>4. ASSUME NEW row, iters' = [iters EXCEPT ![run[p].task] = Append(@, row)]
        PROVE  RowOf(q)' = RowOf(q)
    <2>1. iters'[t][i] = iters[t][i]
      <3>1. CASE t = run[p].task
        <4>1. iters'[t] = Append(iters[t], row)
          BY <1>1, <1>4, <3>1 DEF CInv, Typed, TypeOK
        <4> QED
          BY <1>2, <4>1
      <3>2. CASE t # run[p].task
        BY <1>1, <1>4, <3>2 DEF CInv, Typed, TypeOK
      <3> QED
        BY <3>1, <3>2
    <2> QED
      BY <2>1 DEF RowOf
  <1>5. ASSUME NEW row, SetRow(p, row), pc[p] \in Recording
        PROVE  RowOf(q)' = RowOf(q)
    <2>1. run[p].task # t \/ run[p].row # i
      BY <1>1, <1>5 DEF CInv, CompletionInv, OwnersApart, Owns
    <2>2. iters'[t][i] = iters[t][i]
      BY <1>1, <1>2, <1>5, <2>1 DEF SetRow, CInv, Typed, TypeOK
    <2> QED
      BY <2>2 DEF RowOf
  <1> QED
    BY <1>3, <1>4, <1>5

LEMMA WorkStays ==
    ASSUME CInv, NEW q \in Procs, pc'[q] = pc[q], run'[q] = run[q],
           pc[q] \in Recording => RowOf(q)' = RowOf(q)
    PROVE  Same(q)
  <1>1. Rounds(q)' = Rounds(q)
    BY DEF Rounds
  <1>2. Share(pc[q], run[q], RowOf(q)') = Share(pc[q], run[q], RowOf(q))
    <2>1. CASE pc[q] \in Recording
      BY <2>1
    <2>2. CASE pc[q] \notin Recording
      <3>1. pc[q] \in Labels
        BY DEF CInv, Typed, TypeOK
      <3> QED
        BY <2>2, <3>1, Shares DEF Labels, Recording, Ended
    <2> QED
      BY <2>1, <2>2
  <1> QED
    BY <1>1, <1>2 DEF Work, Same

(* What a step of p does to the rows, and to nobody else's locals.           *)
Alters(p) ==
    \/ UNCHANGED iters
    \/ \E row : iters' = [iters EXCEPT ![run[p].task] = Append(@, row)]
    \/ pc[p] \in Recording /\ \E row : SetRow(p, row)

LEMMA StepTouches ==
    ASSUME CInv, NEW p \in Procs, Step(p) \/ Interrupt(p) \/ Die(p)
    PROVE  OthersStay(p) /\ Alters(p)
  <1>1. ASSUME UNCHANGED pc \/ \E l : Goto(p, l), UNCHANGED run \/ \E r : Local(p, r)
        PROVE  OthersStay(p)
    BY <1>1 DEF CInv, Typed, TypeOK, Goto, Local, OthersStay
  <1>2. CASE ResumeCheck(p) \/ MarkRunning(p) \/ Announce(p) \/ StartSession(p)
    BY <1>1, <1>2 DEF ResumeCheck, MarkRunning, Announce, StartSession, Return, Alters
  <1>3. CASE Exhausted(p) \/ OutOfTime(p) \/ CancelledBeforeAgent(p) \/ CallAgent(p)
    BY <1>1, <1>3 DEF Exhausted, OutOfTime, CancelledBeforeAgent, CallAgent, Leave, Return, Alters
  <1>4. CASE AgentReturns(p) \/ AgentStopped(p) \/ ReceiveResult(p)
    BY <1>1, <1>4 DEF AgentReturns, AgentStopped, ReceiveResult, Leave, Alters
  <1>5. CASE OutOfTimeBeforeVerification(p) \/ PrepareVerification(p)
             \/ RunCheck(p) \/ FinishVerification(p)
    BY <1>1, <1>5 DEF OutOfTimeBeforeVerification, PrepareVerification, RunCheck,
       FinishVerification, Leave, Return, Alters
  <1>6. CASE DecideIteration(p) \/ RecordDecision(p) \/ FinishIteration(p)
    BY <1>1, <1>6 DEF DecideIteration, RecordDecision, FinishIteration, Leave, Alters
  <1>7. CASE RecordIteration(p) \/ AgentUnavailable(p)
    BY <1>1, <1>7 DEF RecordIteration, AgentUnavailable, Alters
  <1>8. CASE RecordCheck(p) \/ RecordAction(p) \/ RequestApproval(p) \/ RecordReplan(p)
             \/ RecordReflection(p) \/ RecordLesson(p)
    <2>1. pc[p] \in Recording /\ \E row : SetRow(p, row)
      BY <1>8 DEF RecordCheck, RecordAction, RequestApproval, RecordReplan,
         RecordReflection, RecordLesson, Recording
    <2>2. UNCHANGED run /\ \E l : Goto(p, l)
      BY <1>8 DEF RecordCheck, RecordAction, RequestApproval, RecordReplan,
         RecordReflection, RecordLesson
    <2> QED
      BY <1>1, <2>1, <2>2 DEF Alters
  <1>9. CASE WriteStatus(p) \/ LogStatus(p) \/ Interrupt(p) \/ Die(p)
    BY <1>1, <1>9 DEF WriteStatus, LogStatus, Interrupt, Die, Return, Alters
  <1> QED
    BY <1>2, <1>3, <1>4, <1>5, <1>6, <1>7, <1>8, <1>9 DEF Step

LEMMA StepBusy ==
    ASSUME NEW p \in Procs, Step(p) \/ Interrupt(p) \/ Die(p)
    PROVE  pc[p] # "idle"
  <1>1. CASE Interrupt(p) \/ Die(p)
    BY <1>1 DEF Interrupt, Die
  <1>2. CASE Step(p)
    BY <1>2 DEF Step, ResumeCheck, MarkRunning, Announce, AgentUnavailable, StartSession,
       Exhausted, OutOfTime, CancelledBeforeAgent, CallAgent, AgentReturns, AgentStopped,
       ReceiveResult, OutOfTimeBeforeVerification, PrepareVerification, RunCheck,
       FinishVerification, DecideIteration, RecordIteration, RecordDecision, RecordCheck,
       RecordAction, RequestApproval, RecordReplan, RecordReflection, RecordLesson,
       FinishIteration, WriteStatus, LogStatus
  <1> QED
    BY <1>1, <1>2

LEMMA StopFalls ==
    ASSUME CInv, NEW p \in Procs, Interrupt(p) \/ Die(p)
    PROVE  Falls(p)
  <1>1. Return(p) /\ pc[p] # "idle"
    BY DEF Interrupt, Die
  <1>2. Rounds(p)' = 0
    <2>1. pc'[p] = "idle"
      BY <1>1 DEF Return, Goto, CInv, Typed, TypeOK
    <2> QED
      BY <2>1 DEF Rounds, RoundsAt, Ended
  <1>3. Rounds(p) \in Nat
    <2>1. run[p].limit \in Nat
      BY DEF CInv, Typed, TypeOK, Runs
    <2> QED
      BY <2>1, WorkBound
  <1>4. Lower(p)
    BY <1>1, ReturnDown
  <1> QED
    BY <1>2, <1>3, <1>4 DEF Lower, Falls

RunningOut ==
    \A p \in Procs : pc[p] # "idle" => (Step(p) => Falls(p)) /\ (Falls(p) \/ Same(p))

LEMMA NextRunsOut == CInv /\ [Next]_vars => [RunningOut]_vars
  <1> SUFFICES ASSUME CInv, Next PROVE RunningOut
    OBVIOUS
  <1>0. Typed'
    BY NextTyped DEF CInv
  <1>1. ASSUME NEW q \in Procs, Step(q) PROVE Falls(q)
    BY <1>0, <1>1, StepFalls
  <1>2. ASSUME NEW p \in Procs, NEW q \in Procs, p # q, pc[p] # "idle", OthersStay(p), Alters(p)
        PROVE  Same(q)
    <2>1. pc'[q] = pc[q] /\ run'[q] = run[q] /\ run[p].task \in Tasks
      BY <1>2 DEF OthersStay, CInv, Typed, TaskOK
    <2>2. pc[q] \in Recording => RowOf(q)' = RowOf(q)
      BY <1>2, <2>1, RowStays DEF Alters
    <2> QED
      BY <2>1, <2>2, WorkStays
  <1>3. ASSUME NEW q \in Procs, UNCHANGED iters, pc'[q] = pc[q], run'[q] = run[q]
        PROVE  Same(q)
    <2>1. RowOf(q)' = RowOf(q)
      BY <1>3 DEF RowOf
    <2> QED
      BY <1>3, <2>1, WorkStays
  <1>4. SUFFICES ASSUME NEW q \in Procs, pc[q] # "idle" PROVE Falls(q) \/ Same(q)
    BY <1>1 DEF RunningOut
  <1>5. ASSUME NEW p \in Procs, Step(p) \/ Interrupt(p) \/ Die(p)
        PROVE  Falls(q) \/ Same(q)
    <2>1. CASE p = q
      BY <1>1, <1>5, <2>1, StopFalls
    <2>2. CASE p # q
      <3>1. pc[p] # "idle"
        BY <1>5, StepBusy
      <3> QED
        BY <1>2, <1>5, <2>2, <3>1, StepTouches
    <2> QED
      BY <2>1, <2>2
  <1>6. ASSUME NEW p \in Procs, NEW t \in Tasks, Start(p, t) \/ Resume(p, t)
        PROVE  Falls(q) \/ Same(q)
    <2>1. pc[p] = "idle" /\ UNCHANGED iters /\ OthersStay(p)
      BY <1>6 DEF Start, Resume, Goto, Local, OthersStay, CInv, Typed, TypeOK
    <2> QED
      BY <1>3, <1>4, <2>1 DEF OthersStay
  <1>7. CASE RecoverScan \/ (\E p \in Procs : AgentEdit(p)) \/ \E t \in Tasks : Operator(t)
    <2>1. UNCHANGED <<pc, run, iters>>
      BY <1>7 DEF RecoverScan, AgentEdit, Operator, Cancel, RecoverBlock, RecoverLog
    <2> QED
      BY <1>3, <2>1
  <1> QED
    BY <1>5, <1>6, <1>7 DEF Next

(* A run ends: it has at most limit agent calls to make, and between them at *)
(* most 20 + 4 * NumChecks steps.  Each step it takes is one less, and       *)
(* nothing other processes, operators or agents do gives it more (the loop   *)
(* of _run and the order of its writes).                                     *)
THEOREM RunsOut ==
    Spec =>
      /\ [](\A p \in Procs : Rounds(p) \in 0..run[p].limit /\ Work(p) \in 0..(20 + 4 * NumChecks))
      /\ [][RunningOut]_vars
  <1>1. CInv => \A p \in Procs : Rounds(p) \in 0..run[p].limit
                                /\ Work(p) \in 0..(20 + 4 * NumChecks)
    BY WorkBound
  <1> QED
    BY <1>1, NextRunsOut, InitCompletion, NextCompletion, PTL DEF Spec
=============================================================================

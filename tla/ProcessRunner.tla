---------------------------- MODULE ProcessRunner ----------------------------
(***************************************************************************)
(* ProcessRunner.run of process/runner.py, which every agent and every     *)
(* verification or tool command is run with: the child process, the poll   *)
(* loop with its cancel and progress callbacks, the deadline, the grace    *)
(* period and the kill.  One call.                                         *)
(*                                                                         *)
(* The child, those who hold its pipes, the clock and the user are the     *)
(* environment.  Popen.communicate returns when both pipes are closed and  *)
(* the child has been waited for.                                          *)
(***************************************************************************)
EXTENDS Naturals

VARIABLES
    polled,     \* was a callback given? otherwise communicate waits in one go
    child,      \* "none", "running", "exited", "killed"
    code,       \* the exit code of a child that has exited: 0 or 1
    pipes,      \* who holds the child's output: its descendants too, or itself
    deaf,       \* does the child ignore SIGTERM?
    reaped,     \* has communicate waited for it?
    cancelled,  \* does should_cancel say so?
    late,       \* is the deadline past?
    place,      \* where run stands
    ending,     \* why it ends the child: "cancelled", "timeout", "interrupted"
    result,     \* what run returned or raised
    signalled,  \* history: a signal was sent while the child was running
    escaped     \* history: an exception came from a callback or within a handler

processVars == <<polled, child, code, pipes, deaf, reaped, cancelled, late, place, ending,
                 result, signalled, escaped>>

Results == {"success", "failed", "cancelled", "timeout", "raised"}

ProcessTypeOK ==
    /\ polled \in BOOLEAN /\ deaf \in BOOLEAN /\ reaped \in BOOLEAN
    /\ cancelled \in BOOLEAN /\ late \in BOOLEAN /\ signalled \in BOOLEAN /\ escaped \in BOOLEAN
    /\ child \in {"none", "running", "exited", "killed"} /\ code \in 0..1
    /\ pipes \in {"child", "family", "closed"}
    /\ place \in {"spawn", "poll", "progress", "wait", "terminate", "grace", "drain", "done"}
    /\ ending \in {"none", "cancelled", "timeout", "interrupted"}
    /\ result \in Results \union {"none"}

ProcessInit ==
    /\ polled \in BOOLEAN /\ deaf \in BOOLEAN
    /\ child = "none" /\ code = 0 /\ pipes = "child" /\ reaped = FALSE
    /\ cancelled = FALSE /\ late = FALSE
    /\ place = "spawn" /\ ending = "none" /\ result = "none"
    /\ signalled = FALSE /\ escaped = FALSE

ChildVars == <<child, code, pipes, deaf>>
Outside == <<polled, cancelled, late>>

Return(status) == place' = "done" /\ result' = status
-----------------------------------------------------------------------------
(* THE CHILD AND THE REST OF THE WORLD *)

Gone == child \in {"exited", "killed"}

(* Is all the output read and the child dead?  Then communicate returns.     *)
Over == Gone /\ pipes = "closed"

CloseOwn == pipes' = IF pipes = "family" THEN "family" ELSE "closed"

Exit(c) ==
    /\ child = "running" /\ child' = "exited" /\ code' = c /\ CloseOwn
    /\ UNCHANGED <<deaf, reaped, place, ending, result, signalled, escaped, Outside>>

(* A process the child has started inherits its pipes and may outlive it.    *)
Fork ==
    /\ child = "running" /\ pipes = "child" /\ pipes' = "family"
    /\ UNCHANGED <<child, code, deaf, reaped, place, ending, result, signalled, escaped, Outside>>

FamilyEnds ==
    /\ pipes = "family"
    /\ pipes' = IF child = "running" THEN "child" ELSE "closed"
    /\ UNCHANGED <<child, code, deaf, reaped, place, ending, result, signalled, escaped, Outside>>

RequestCancel ==
    /\ polled /\ ~cancelled /\ cancelled' = TRUE
    /\ UNCHANGED <<ChildVars, polled, late, reaped, place, ending, result, signalled, escaped>>

DeadlinePasses ==
    /\ ~late /\ late' = TRUE
    /\ UNCHANGED <<ChildVars, polled, cancelled, reaped, place, ending, result, signalled, escaped>>

Environment ==
    \/ \E c \in 0..1 : Exit(c)
    \/ Fork \/ FamilyEnds \/ RequestCancel \/ DeadlinePasses
-----------------------------------------------------------------------------
(* run *)

(* No argv, no such executable, or Popen fails.                              *)
Refuse ==
    /\ place = "spawn" /\ \E status \in {"failed", "raised"} : Return(status)
    /\ UNCHANGED <<ChildVars, reaped, ending, signalled, escaped, Outside>>

Spawn ==
    /\ place = "spawn" /\ child' = "running"
    /\ place' = IF polled THEN "poll" ELSE "wait"
    /\ UNCHANGED <<code, pipes, deaf, reaped, ending, result, signalled, escaped, Outside>>

EndFor(reason) == place' = "terminate" /\ ending' = reason

(* _communicate_with_progress: should_cancel is asked first ...              *)
PollCancel ==
    /\ place = "poll"
    /\ IF cancelled THEN EndFor("cancelled") ELSE place' = "progress" /\ UNCHANGED ending
    /\ UNCHANGED <<ChildVars, reaped, result, signalled, escaped, Outside>>

(* ... progress is reported if it is time, the deadline checked ...          *)
PollDeadline ==
    /\ place = "progress"
    /\ IF late THEN EndFor("timeout") ELSE place' = "wait" /\ UNCHANGED ending
    /\ UNCHANGED <<ChildVars, reaped, result, signalled, escaped, Outside>>

(* A callback raises: nothing in run catches it.                             *)
CallbackRaises ==
    /\ place \in {"poll", "progress"} /\ Return("raised") /\ escaped' = TRUE
    /\ UNCHANGED <<ChildVars, reaped, ending, signalled, Outside>>

(* ... and the child is waited for, at most a fifth of a second a round.     *)
WaitOver ==
    /\ place = "wait" /\ Over
    /\ reaped' = TRUE
    /\ Return(IF child = "exited" /\ code = 0 THEN "success" ELSE "failed")
    /\ UNCHANGED <<ChildVars, ending, signalled, escaped, Outside>>

WaitExpires ==
    /\ place = "wait" /\ ~Over
    /\ IF polled THEN place' = "poll" /\ UNCHANGED ending ELSE late /\ EndFor("timeout")
    /\ UNCHANGED <<ChildVars, reaped, result, signalled, escaped, Outside>>

(* Ctrl-C while the child is awaited, and Ctrl-C once more in the handler.   *)
Interrupt ==
    /\ place \in {"poll", "progress", "wait"} /\ EndFor("interrupted")
    /\ UNCHANGED <<ChildVars, reaped, result, signalled, escaped, Outside>>

InterruptHandler ==
    /\ place \in {"grace", "drain"} /\ ending # "cancelled" /\ Return("raised") /\ escaped' = TRUE
    /\ UNCHANGED <<ChildVars, reaped, ending, signalled, Outside>>

(* terminate, then up to terminate_grace_sec for the child.                  *)
Terminate ==
    /\ place = "terminate" /\ place' = "grace"
    /\ \/ ~Gone /\ ~deaf /\ child' = "killed" /\ CloseOwn
       \/ (Gone \/ deaf) /\ UNCHANGED <<child, pipes>>
    /\ signalled' = (signalled \/ ~Gone)
    /\ UNCHANGED <<code, deaf, reaped, ending, result, escaped, Outside>>

(* Mutant: a child that has been told to terminate is not waited for. *)
LeaveTerminated ==
    /\ place = "grace"
    /\ Return(IF ending = "interrupted" THEN "raised" ELSE ending)
    /\ UNCHANGED <<ChildVars, reaped, ending, signalled, escaped, Outside>>

(* Mutant: the exit code decides, as it does for a child that was left alone. *)
ResultOfCode ==
    /\ place = "grace" /\ Over /\ reaped' = TRUE
    /\ Return(IF child = "exited" /\ code = 0 THEN "success" ELSE "failed")
    /\ UNCHANGED <<ChildVars, ending, signalled, escaped, Outside>>

GraceOver ==
    /\ place = "grace" /\ Over /\ reaped' = TRUE
    /\ Return(IF ending = "interrupted" THEN "raised" ELSE ending)
    /\ UNCHANGED <<ChildVars, ending, signalled, escaped, Outside>>

(* Mutant: the child is terminated once more instead. *)
TerminateAgain ==
    /\ place = "grace" /\ ~Over /\ place' = "drain"
    /\ signalled' = (signalled \/ ~Gone)
    /\ UNCHANGED <<ChildVars, reaped, ending, result, escaped, Outside>>

Kill ==
    /\ place = "grace" /\ ~Over /\ place' = "drain"
    /\ IF Gone THEN UNCHANGED <<child, pipes>> ELSE child' = "killed" /\ CloseOwn
    /\ signalled' = (signalled \/ ~Gone)
    /\ UNCHANGED <<code, deaf, reaped, ending, result, escaped, Outside>>

(* The last communicate has no timeout.                                      *)
DrainOver ==
    /\ place = "drain" /\ Over /\ reaped' = TRUE
    /\ Return(IF ending = "interrupted" THEN "raised" ELSE ending)
    /\ UNCHANGED <<ChildVars, ending, signalled, escaped, Outside>>

(* Ctrl-C during the cancel handler, which runs inside run's try: the child  *)
(* is ended once more, for the interrupt.                                    *)
InterruptCancel ==
    /\ place \in {"grace", "drain"} /\ ending = "cancelled" /\ EndFor("interrupted")
    /\ UNCHANGED <<ChildVars, reaped, result, signalled, escaped, Outside>>
-----------------------------------------------------------------------------
Run ==
    \/ Spawn \/ PollCancel \/ PollDeadline \/ WaitOver \/ WaitExpires
    \/ Terminate \/ GraceOver \/ Kill \/ DrainOver

ProcessNext ==
    \/ Run \/ Refuse \/ CallbackRaises
    \/ Interrupt \/ InterruptHandler \/ InterruptCancel
    \/ Environment

(* run takes its steps and time passes; nothing is asked of the child.        *)
Fairness == WF_processVars(Run) /\ WF_processVars(DeadlinePasses)
ProcessSpec == ProcessInit /\ [][ProcessNext]_processVars /\ Fairness
-----------------------------------------------------------------------------
(* PROPERTIES *)

(* When run returns the child is dead and waited for, and its output read to *)
(* the end, over every race of its exit with a cancel, the deadline, Ctrl-C  *)
(* and the grace period; only an exception that passes the handlers leaves a *)
(* child behind.                                                             *)
NoChildLeftBehind ==
    place = "done" /\ child # "none" /\ ~escaped => Over /\ reaped

(* The status says why the child ended: success and failure are its own, and *)
(* a child is signalled for a cancel that was asked for, a deadline that is  *)
(* past, or an interrupt.                                                    *)
ResultIsTrue ==
    /\ result = "success" => child = "exited" /\ code = 0 /\ ~signalled
    /\ result = "failed" => ~signalled /\ (child = "none" \/ code = 1)
    /\ result = "cancelled" => cancelled
    /\ result = "timeout" => late
    /\ signalled => \/ ending = "cancelled" /\ cancelled
                    \/ ending = "timeout" /\ late
                    \/ ending = "interrupted"

(* run ends after its deadline, even with a child that ignores SIGTERM -     *)
(* unless a descendant of the child keeps its pipes open for good.           *)
RunReturns == (place = "spawn") ~> (place = "done" \/ [](pipes = "family"))
=============================================================================

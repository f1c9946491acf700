---------------------------- MODULE ServicesProofs ----------------------------
(***************************************************************************)
(* Proofs about the services every command stands on: the lease of an      *)
(* action, for any number of workers, any time to live and any length of   *)
(* time; one run of a child process; and the four services side by side,   *)
(* as TLC checks them.                                                     *)
(***************************************************************************)
EXTENDS MCServices, EventLogProofs, MigrationsProofs

(* THE LEASE *)

(* A worker that holds the lease of a started action is the owner in the row, *)
(* and knows it once it has read the row back.  One that holds the lease of a *)
(* closed action may have read a row that names nobody.                      *)
HolderOK(w) ==
    /\ clock[w] <= now
    /\ Holds(w) /\ row.status = "started" => row.owner = w /\ row.expires = until[w]
    /\ Holds(w) /\ call[w] # "read" =>
         told[w] = w \/ (told[w] = NoOwner /\ row.status # "started")

(* LeaseIsExclusive is not inductive alone: a rival is refused because the   *)
(* row names the holder and no call works with a time that is yet to come,   *)
(* and after the action is closed, which clears the row, nothing is granted. *)
LeaseInv ==
    /\ LeaseTypeOK
    /\ \A w \in Workers : HolderOK(w)
    /\ \A v, w \in Workers : Holds(v) /\ Holds(w) => v = w
    /\ row.status # "started" => row.owner = NoOwner
    /\ listed /\ row.status = "started" => renewed \/ \A w \in Workers : ~ Holds(w)

LEMMA InitLease == LeaseInit => LeaseInv
  <1> SUFFICES ASSUME LeaseInit PROVE LeaseInv
    OBVIOUS
  <1>1. 0 \in Times /\ 0 \in 0..MaxTime
    BY LeaseAssumption DEF Times
  <1>2. LeaseTypeOK
    BY <1>1 DEF LeaseInit, LeaseTypeOK, Leases
  <1> QED
    BY <1>2, LeaseAssumption DEF LeaseInit, LeaseInv, HolderOK, Holds

LEMMA TypeStep == LeaseTypeOK /\ [LeaseNext]_leaseVars => LeaseTypeOK'
  <1> SUFFICES ASSUME LeaseTypeOK, [LeaseNext]_leaseVars PROVE LeaseTypeOK'
    OBVIOUS
  <1>t. 0 \in Times /\ \A t \in 0..MaxTime : t + Ttl \in Times
    BY LeaseAssumption DEF Times
  <1>1. ASSUME NEW w \in Workers, NEW o \in {"acquire", "heartbeat"}, BeginCall(w, o) PROVE LeaseTypeOK'
    BY <1>1 DEF LeaseTypeOK, BeginCall, MoveTo
  <1>g. ASSUME NEW w \in Workers, MoveTo(w, "read"), Extend(w),
               UNCHANGED <<now, clock, told, listed>>, renewed' = listed
        PROVE  LeaseTypeOK'
    <2>1. clock[w] + Ttl \in Times
      BY <1>t DEF LeaseTypeOK
    <2>2. row' \in Leases
      BY <1>g, <2>1 DEF Extend, LeaseTypeOK, Leases
    <2>3. until' \in [Workers -> Times]
      BY <1>g, <2>1 DEF Extend, LeaseTypeOK
    <2> QED
      BY <1>g, <2>2, <2>3 DEF LeaseTypeOK, MoveTo
  <1>f. ASSUME NEW w \in Workers, Fail(w), UNCHANGED <<now, clock, told, listed, renewed>>
        PROVE  LeaseTypeOK'
    BY <1>f DEF Fail, MoveTo, LeaseTypeOK
  <1>2. ASSUME NEW w \in Workers, Acquire(w) \/ Heartbeat(w) PROVE LeaseTypeOK'
    BY <1>2, <1>g, <1>f DEF Acquire, Heartbeat, Fail
  <1>3. ASSUME NEW w \in Workers, ReadBack(w) PROVE LeaseTypeOK'
    BY <1>3 DEF ReadBack, MoveTo, LeaseTypeOK, Leases
  <1>4. ASSUME NEW w \in Workers, Release(w) PROVE LeaseTypeOK'
    BY <1>4, <1>t DEF Release, LeaseTypeOK, Leases
  <1>5. ASSUME NEW w \in Workers, Complete(w) PROVE LeaseTypeOK'
    BY <1>5, <1>t DEF Complete, Closes, LeaseTypeOK, Leases
  <1>6. CASE ListStale \/ RecoverAction
    <2>1. CASE ListStale
      BY <2>1 DEF ListStale, LeaseTypeOK
    <2>2. CASE RecoverAction
      BY <2>2, <1>t DEF RecoverAction, Closes, LeaseTypeOK, Leases
    <2> QED
      BY <1>6, <2>1, <2>2
  <1>7. CASE Tick
    BY <1>7, LeaseAssumption DEF Tick, LeaseTypeOK
  <1>8. CASE UNCHANGED leaseVars
    BY <1>8 DEF leaseVars, LeaseTypeOK
  <1> QED
    BY <1>1, <1>2, <1>3, <1>4, <1>5, <1>6, <1>7, <1>8 DEF LeaseNext

(* A grant to w: nobody else can hold the lease at that time.                *)
LEMMA GrantStep ==
    ASSUME LeaseInv, LeaseTypeOK', NEW w \in Workers,
           row.status = "started",
           row.owner \in {w, NoOwner} \/ row.expires <= clock[w],
           MoveTo(w, "read"), Extend(w), renewed' = listed, UNCHANGED <<now, clock, told, listed>>
    PROVE  LeaseInv'
  <1>1. ASSUME NEW v \in Workers, v # w PROVE ~ Holds(v) /\ ~ Holds(v)' /\ HolderOK(v)'
    BY <1>1, LeaseAssumption DEF LeaseInv, LeaseTypeOK, HolderOK, Holds, Extend, MoveTo, Leases, Times
  <1>2. HolderOK(w)'
    BY LeaseAssumption DEF LeaseInv, LeaseTypeOK, HolderOK, Holds, Extend, MoveTo, Leases, Times
  <1>3. \A u, v \in Workers : Holds(u)' /\ Holds(v)' => u = v
    BY <1>1
  <1>4. row'.status = "started"
    BY DEF Extend, LeaseInv, LeaseTypeOK, Leases
  <1>5. listed' => renewed'
    BY DEF LeaseInv, LeaseTypeOK
  <1> QED
    BY <1>1, <1>2, <1>3, <1>4, <1>5 DEF LeaseInv

LEMMA LeaseStep == LeaseInv /\ [LeaseNext]_leaseVars => LeaseInv'
  <1> SUFFICES ASSUME LeaseInv, [LeaseNext]_leaseVars PROVE LeaseInv'
    OBVIOUS
  <1>t. LeaseTypeOK'
    BY TypeStep DEF LeaseInv
  <1>1. ASSUME NEW w \in Workers, NEW o \in {"acquire", "heartbeat"}, BeginCall(w, o) PROVE LeaseInv'
    BY <1>1, <1>t DEF BeginCall, MoveTo, LeaseInv, LeaseTypeOK, HolderOK, Holds
  <1>2. ASSUME NEW w \in Workers, Acquire(w) \/ Heartbeat(w) PROVE LeaseInv'
    <2>1. CASE Fail(w) /\ UNCHANGED <<now, clock, told, listed, renewed>> /\ call[w] # "read"
      BY <2>1, <1>t DEF Fail, MoveTo, LeaseInv, LeaseTypeOK, HolderOK, Holds
    <2>2. CASE /\ row.status = "started"
               /\ row.owner \in {w, NoOwner} \/ row.expires <= clock[w]
               /\ MoveTo(w, "read") /\ Extend(w) /\ renewed' = listed
               /\ UNCHANGED <<now, clock, told, listed>>
      BY <2>2, <1>t, GrantStep
    <2> QED
      BY <1>2, <2>1, <2>2 DEF Acquire, Heartbeat, Grants, Fail
  <1>3. ASSUME NEW w \in Workers, ReadBack(w) PROVE LeaseInv'
    BY <1>3, <1>t DEF ReadBack, MoveTo, LeaseInv, LeaseTypeOK, HolderOK, Holds
  <1>4. ASSUME NEW w \in Workers, Release(w) PROVE LeaseInv'
    <2>1. ~ Holds(w)'
      BY <1>4 DEF Release, LeaseInv, LeaseTypeOK, Holds
    <2>2. ASSUME NEW v \in Workers, v # w PROVE ~ Holds(v) /\ ~ Holds(v)'
      BY <1>4, <2>2, LeaseAssumption DEF Release, LeaseInv, LeaseTypeOK, HolderOK, Holds
    <2> QED
      BY <1>4, <1>t, <2>1, <2>2 DEF Release, LeaseInv, HolderOK, LeaseTypeOK
  <1>5. ASSUME NEW w \in Workers, Complete(w) PROVE LeaseInv'
    BY <1>5, <1>t, LeaseAssumption DEF Complete, Closes, LeaseInv, LeaseTypeOK, HolderOK, Holds, Leases
  <1>6. CASE ListStale
    BY <1>6, <1>t, LeaseAssumption DEF ListStale, LeaseInv, LeaseTypeOK, HolderOK, Holds, Leases, Times
  <1>7. CASE RecoverAction
    BY <1>7, <1>t, LeaseAssumption DEF RecoverAction, Closes, LeaseInv, LeaseTypeOK, HolderOK, Holds, Leases
  <1>8. CASE Tick
    BY <1>8, <1>t, LeaseAssumption DEF Tick, LeaseInv, LeaseTypeOK, HolderOK, Holds, Leases, Times
  <1>9. CASE UNCHANGED leaseVars
    BY <1>9 DEF leaseVars, LeaseInv, LeaseTypeOK, HolderOK, Holds
  <1> QED
    BY <1>1, <1>2, <1>3, <1>4, <1>5, <1>6, <1>7, <1>8, <1>9 DEF LeaseNext

LEMMA LeaseAlways == LeaseSpec => []LeaseInv
  BY InitLease, LeaseStep, PTL DEF LeaseSpec

(* The rows of an action and the calls on its lease keep their types         *)
(* (StateStore.acquire_action_lease, heartbeat and release).                 *)
THEOREM LeaseTypeCorrect == LeaseSpec => []LeaseTypeOK
  <1>1. LeaseInv => LeaseTypeOK
    BY DEF LeaseInv
  <1> QED
    BY <1>1, LeaseAlways, PTL

(* Two workers never hold the lease at a time, and a holder is told so, or   *)
(* that nobody has it once the action is closed                              *)
(* (the compare-and-set of StateStore.acquire_action_lease,                  *)
(* StateStore.complete_action_record).                                       *)
THEOREM LeaseExclusive == LeaseSpec => []LeaseIsExclusive
  <1>1. LeaseInv => LeaseIsExclusive
    BY DEF LeaseInv, LeaseIsExclusive, HolderOK
  <1> QED
    BY <1>1, LeaseAlways, PTL

(* recover --apply fails an action under a live lease only if the lease was  *)
(* granted after it looked (_run_recover, StateStore.list_stale_action_records). *)
THEOREM RecoverSpares == LeaseSpec => RecoverSparesHolders
  <1>1. LeaseInv =>
          (RecoverAction /\ row.status = "started" => renewed \/ \A w \in Workers : ~ Holds(w))
    BY DEF LeaseInv, RecoverAction
  <1>2. LeaseInv /\ [LeaseNext]_leaseVars =>
          [RecoverAction /\ row.status = "started" => renewed \/ \A w \in Workers : ~ Holds(w)]_leaseVars
    BY <1>1
  <1> QED
    BY <1>2, LeaseAlways, PTL DEF LeaseSpec, RecoverSparesHolders
-----------------------------------------------------------------------------
(* THE CHILD PROCESS *)

(* What run knows of its child at each place.  Neither property is inductive *)
(* alone: that the child is dead when run returns was seen by communicate,   *)
(* and stays so only because nothing opens the pipes of a dead child again;  *)
(* that a status is true rests on why the child was signalled, steps before. *)
ChildOK ==
    /\ place = "spawn" => child = "none" /\ result = "none"
    /\ child = "none" => place \in {"spawn", "done"} /\ pipes = "child" /\ ~signalled
    /\ Gone <=> child # "none" /\ child # "running"
    /\ pipes = "closed" => Gone
    /\ Gone => pipes # "child"
    /\ child = "killed" => signalled
    /\ code = 1 => child = "exited"
    /\ reaped => Over
    /\ place = "drain" => Gone

EndingOK ==
    /\ place \in {"spawn", "poll", "progress", "wait"} => ending = "none"
    /\ place \in {"terminate", "grace", "drain"} => ending # "none"
    /\ signalled => ending # "none"
    /\ ending = "cancelled" => cancelled
    /\ ending = "timeout" => late

ResultOK ==
    /\ result # "none" => place = "done"
    /\ place = "done" /\ child # "none" /\ ~escaped => reaped
    /\ ResultIsTrue

ProcessInv == ProcessTypeOK /\ ChildOK /\ EndingOK /\ ResultOK

LEMMA InitProcess == ProcessInit => ProcessInv
  <1> SUFFICES ASSUME ProcessInit PROVE ProcessInv
    OBVIOUS
  <1>1. ProcessTypeOK
    <2>1. code \in 0..1
      BY DEF ProcessInit
    <2> QED
      BY <2>1, Zenon DEF ProcessInit, ProcessTypeOK, Results
  <1>2. ChildOK
    BY DEF ProcessInit, ChildOK, Gone, Over
  <1>3. EndingOK /\ ResultOK
    BY DEF ProcessInit, EndingOK, ResultOK, ResultIsTrue
  <1> QED
    BY <1>1, <1>2, <1>3 DEF ProcessInv

(* No step opens the pipes of a dead child or brings it back.                *)
LEMMA ChildStep == ProcessInv /\ ProcessNext => ChildOK'
  <1> SUFFICES ASSUME ProcessInv, ProcessNext PROVE ChildOK'
    OBVIOUS
  <1> USE DEF ProcessInv, ChildOK, ChildVars, Outside, Gone, Over
  <1>1. CASE Environment
    <2>1. ASSUME NEW c \in 0..1, Exit(c) PROVE ChildOK'
      BY <2>1 DEF Exit, CloseOwn, ProcessTypeOK
    <2>2. CASE Fork
      BY <2>2 DEF Fork
    <2>3. CASE FamilyEnds
      BY <2>3 DEF FamilyEnds
    <2>4. CASE RequestCancel \/ DeadlinePasses
      BY <2>4 DEF RequestCancel, DeadlinePasses
    <2> QED
      BY <1>1, <2>1, <2>2, <2>3, <2>4 DEF Environment
  <1>2. CASE Spawn
    BY <1>2 DEF Spawn, ProcessTypeOK
  <1>3. CASE Terminate
    BY <1>3 DEF Terminate, CloseOwn, ProcessTypeOK
  <1>4. CASE Kill
    BY <1>4 DEF Kill, CloseOwn, ProcessTypeOK
  <1>5. CASE WaitOver \/ GraceOver \/ DrainOver
    BY <1>5 DEF WaitOver, GraceOver, DrainOver, Return
  <1>6. CASE PollCancel \/ PollDeadline \/ WaitExpires
    BY <1>6 DEF PollCancel, PollDeadline, WaitExpires, EndFor
  <1>7. CASE Refuse \/ CallbackRaises
    BY <1>7 DEF Refuse, CallbackRaises, Return
  <1>8. CASE Interrupt \/ InterruptHandler \/ InterruptCancel
    BY <1>8 DEF Interrupt, InterruptHandler, InterruptCancel, EndFor, Return
  <1> QED
    BY <1>1, <1>2, <1>3, <1>4, <1>5, <1>6, <1>7, <1>8 DEF ProcessNext, Run

(* A reason to end the child is given once for each ending, and it holds.    *)
LEMMA EndingStep == ProcessInv /\ ProcessNext => EndingOK'
  <1> SUFFICES ASSUME ProcessInv, ProcessNext PROVE EndingOK'
    OBVIOUS
  <1> USE DEF ProcessInv, EndingOK, ChildVars, Outside
  <1>1. CASE Environment
    BY <1>1 DEF Environment, Exit, Fork, FamilyEnds, RequestCancel, DeadlinePasses
  <1>2. CASE Spawn
    BY <1>2 DEF Spawn
  <1>3. CASE Terminate \/ Kill
    BY <1>3 DEF Terminate, Kill
  <1>4. CASE WaitOver \/ GraceOver \/ DrainOver
    BY <1>4 DEF WaitOver, GraceOver, DrainOver, Return
  <1>5. CASE PollCancel \/ PollDeadline \/ WaitExpires
    BY <1>5 DEF PollCancel, PollDeadline, WaitExpires, EndFor
  <1>6. CASE Refuse \/ CallbackRaises
    BY <1>6 DEF Refuse, CallbackRaises, Return
  <1>7. CASE Interrupt \/ InterruptHandler \/ InterruptCancel
    BY <1>7 DEF Interrupt, InterruptHandler, InterruptCancel, EndFor, Return
  <1> QED
    BY <1>1, <1>2, <1>3, <1>4, <1>5, <1>6, <1>7 DEF ProcessNext, Run

(* What has been returned stays true: a child that has returned a status of  *)
(* its own is over, and nobody signals one that is.                          *)
LEMMA ResultStep == ProcessInv /\ ProcessNext => ResultOK'
  <1> SUFFICES ASSUME ProcessInv, ProcessNext PROVE ResultOK'
    OBVIOUS
  <1> USE DEF ProcessInv, ResultOK, ResultIsTrue, ChildVars, Outside
  <1>1. CASE Environment
    BY <1>1 DEF Environment, Exit, Fork, FamilyEnds, RequestCancel, DeadlinePasses,
                ChildOK, Gone, Over
  <1>2. CASE Spawn
    BY <1>2 DEF Spawn, ChildOK
  <1>3. CASE Terminate \/ Kill
    BY <1>3 DEF Terminate, Kill, EndingOK, ProcessTypeOK
  <1>4. CASE WaitOver
    BY <1>4 DEF WaitOver, Return, ChildOK, EndingOK, Over, Gone, ProcessTypeOK
  <1>5. CASE GraceOver \/ DrainOver
    BY <1>5 DEF GraceOver, DrainOver, Return, ChildOK, EndingOK, ProcessTypeOK
  <1>6. CASE PollCancel \/ PollDeadline \/ WaitExpires
    BY <1>6 DEF PollCancel, PollDeadline, WaitExpires, EndFor, EndingOK
  <1>7. CASE Refuse \/ CallbackRaises
    BY <1>7 DEF Refuse, CallbackRaises, Return, ChildOK, EndingOK
  <1>8. CASE Interrupt \/ InterruptHandler \/ InterruptCancel
    BY <1>8 DEF Interrupt, InterruptHandler, InterruptCancel, EndFor, Return, EndingOK
  <1> QED
    BY <1>1, <1>2, <1>3, <1>4, <1>5, <1>6, <1>7, <1>8 DEF ProcessNext, Run

LEMMA ProcessTypeStep == ProcessTypeOK /\ ProcessNext => ProcessTypeOK'
  <1> SUFFICES ASSUME ProcessTypeOK, ProcessNext PROVE ProcessTypeOK'
    OBVIOUS
  <1> USE DEF ProcessTypeOK, ChildVars, Outside, Results
  <1>1. CASE Environment
    <2>1. ASSUME NEW c \in 0..1, Exit(c) PROVE ProcessTypeOK'
      BY <2>1 DEF Exit, CloseOwn
    <2>2. CASE Fork
      BY <2>2 DEF Fork
    <2>3. CASE FamilyEnds
      BY <2>3 DEF FamilyEnds
    <2>4. CASE RequestCancel
      BY <2>4 DEF RequestCancel
    <2>5. CASE DeadlinePasses
      BY <2>5 DEF DeadlinePasses
    <2> QED
      BY <1>1, <2>1, <2>2, <2>3, <2>4, <2>5 DEF Environment
  <1>2. CASE Spawn
    BY <1>2 DEF Spawn
  <1>3. CASE Terminate
    BY <1>3 DEF Terminate, CloseOwn
  <1>4. CASE Kill
    BY <1>4 DEF Kill, CloseOwn
  <1>5. CASE WaitOver \/ GraceOver \/ DrainOver
    <2>1. CASE WaitOver
      BY <2>1 DEF WaitOver, Return
    <2>2. CASE GraceOver
      BY <2>2 DEF GraceOver, Return
    <2>3. CASE DrainOver
      BY <2>3 DEF DrainOver, Return
    <2> QED
      BY <1>5, <2>1, <2>2, <2>3
  <1>6. CASE PollCancel \/ PollDeadline \/ WaitExpires
    <2>1. CASE PollCancel
      BY <2>1 DEF PollCancel, EndFor
    <2>2. CASE PollDeadline
      BY <2>2 DEF PollDeadline, EndFor
    <2>3. CASE WaitExpires
      BY <2>3 DEF WaitExpires, EndFor
    <2> QED
      BY <1>6, <2>1, <2>2, <2>3
  <1>7. CASE Refuse \/ CallbackRaises
    <2>1. CASE Refuse
      BY <2>1 DEF Refuse, Return
    <2>2. CASE CallbackRaises
      BY <2>2 DEF CallbackRaises, Return
    <2> QED
      BY <1>7, <2>1, <2>2
  <1>8. CASE Interrupt \/ InterruptHandler \/ InterruptCancel
    <2>1. CASE Interrupt
      BY <2>1 DEF Interrupt, EndFor
    <2>2. CASE InterruptHandler
      BY <2>2 DEF InterruptHandler, Return
    <2>3. CASE InterruptCancel
      BY <2>3 DEF InterruptCancel, EndFor
    <2> QED
      BY <1>8, <2>1, <2>2, <2>3
  <1> QED
    BY <1>1, <1>2, <1>3, <1>4, <1>5, <1>6, <1>7, <1>8 DEF ProcessNext, Run

LEMMA ProcessStep == ProcessInv /\ [ProcessNext]_processVars => ProcessInv'
  <1> SUFFICES ASSUME ProcessInv, [ProcessNext]_processVars PROVE ProcessInv'
    OBVIOUS
  <1>1. CASE ProcessNext
    BY <1>1, ProcessTypeStep, ChildStep, EndingStep, ResultStep DEF ProcessInv
  <1>2. CASE UNCHANGED processVars
    BY <1>2 DEF processVars, ProcessInv, ProcessTypeOK, ChildOK, EndingOK, ResultOK,
                ResultIsTrue, Gone, Over
  <1> QED
    BY <1>1, <1>2

LEMMA ProcessAlways == ProcessSpec => []ProcessInv
  BY InitProcess, ProcessStep, PTL DEF ProcessSpec

(* When ProcessRunner.run returns, its child is dead, waited for and read to *)
(* the end, unless an exception passed the handlers.                         *)
THEOREM ChildIsEnded == ProcessSpec => []NoChildLeftBehind
  <1>1. ProcessInv => NoChildLeftBehind
    BY DEF ProcessInv, ResultOK, ChildOK, NoChildLeftBehind
  <1> QED
    BY <1>1, ProcessAlways, PTL

(* The status ProcessRunner.run returns says why the child ended.            *)
THEOREM StatusIsTrue == ProcessSpec => []ResultIsTrue
  <1>1. ProcessInv => ResultIsTrue
    BY DEF ProcessInv, ResultOK
  <1> QED
    BY <1>1, ProcessAlways, PTL
-----------------------------------------------------------------------------
(* THE END OF THE CALL *)

(* How many steps run can still take once its deadline is past.  A cancel is *)
(* worth three more, for an interrupt starts the ending over, once.          *)
Rung(l) ==
    CASE l = "done" -> 0 [] l = "drain" -> 1 [] l = "grace" -> 2
      [] l = "terminate" -> 3 [] l = "progress" -> 7 [] l = "poll" -> 8
      [] l = "wait" -> 9 [] l = "spawn" -> 10
Again == place \in {"terminate", "grace", "drain"} /\ ending = "cancelled"
StepsLeft == Rung(place) + IF Again THEN 3 ELSE 0

LEMMA Rungs ==
    /\ Rung("done") = 0 /\ Rung("drain") = 1 /\ Rung("grace") = 2 /\ Rung("terminate") = 3
    /\ Rung("progress") = 7 /\ Rung("poll") = 8 /\ Rung("wait") = 9 /\ Rung("spawn") = 10
  BY DEF Rung

LEMMA StepsCounted == ProcessInv => StepsLeft \in 0..10
  BY Rungs DEF ProcessInv, ProcessTypeOK, StepsLeft, Again

(* With a clock that has passed the deadline each step of run, whatever the  *)
(* child, the user and the callbacks do, is one step less to the end.        *)
LEMMA StepsFall ==
    ProcessInv /\ ProcessNext /\ late =>
      StepsLeft' < StepsLeft \/ (Environment /\ StepsLeft' = StepsLeft)
  <1> SUFFICES ASSUME ProcessInv, ProcessNext, late
               PROVE  StepsLeft' < StepsLeft \/ (Environment /\ StepsLeft' = StepsLeft)
    OBVIOUS
  <1> DEFINE Passes(from, to) == place = from /\ place' = to /\ UNCHANGED ending
             Ends(from, why) == place = from /\ place' = "terminate" /\ ending' = why
  <1>1. CASE Environment
    <2>1. UNCHANGED <<place, ending>>
      BY <1>1 DEF Environment, Exit, Fork, FamilyEnds, RequestCancel, DeadlinePasses
    <2> QED
      BY <1>1, <2>1 DEF StepsLeft, Again
  <1>2. \/ Environment
        \/ \E l \in {"poll", "wait"} : Passes("spawn", l)
        \/ \E l \in {"poll", "progress", "wait", "grace", "drain", "spawn"} : Passes(l, "done")
        \/ Passes("poll", "progress") \/ Passes("wait", "poll")
        \/ Passes("terminate", "grace") \/ Passes("grace", "drain")
        \/ \E l \in {"poll", "progress", "wait"}, why \in {"cancelled", "timeout", "interrupted"} :
             Ends(l, why)
        \/ \E l \in {"grace", "drain"} : ending = "cancelled" /\ Ends(l, "interrupted")
    <2>1. CASE Spawn
      BY <2>1 DEF Spawn
    <2>2. CASE Terminate \/ Kill
      BY <2>2 DEF Terminate, Kill
    <2>3. CASE WaitOver \/ GraceOver \/ DrainOver
      BY <2>3 DEF WaitOver, GraceOver, DrainOver, Return
    <2>4. CASE PollCancel \/ PollDeadline
      BY <2>4 DEF PollCancel, PollDeadline, EndFor
    <2>5. CASE WaitExpires
      BY <2>5 DEF WaitExpires, EndFor
    <2>6. CASE Refuse \/ CallbackRaises
      BY <2>6 DEF Refuse, CallbackRaises, Return
    <2>7. CASE Interrupt \/ InterruptCancel
      BY <2>7 DEF Interrupt, InterruptCancel, EndFor
    <2>8. CASE InterruptHandler
      BY <2>8 DEF InterruptHandler, Return
    <2> QED
      BY <2>1, <2>2, <2>3, <2>4, <2>5, <2>6, <2>7, <2>8 DEF ProcessNext, Run
  <1>3. ASSUME NEW from, NEW to, Passes(from, to), to # "terminate",
               Rung(from) \in Nat, Rung(to) \in Nat, Rung(to) < Rung(from),
               to = "done" \/ from \in {"terminate", "grace"} \/ to \notin {"grace", "drain"}
        PROVE  StepsLeft' < StepsLeft
    BY <1>3 DEF StepsLeft, Again
  <1> QED
    BY <1>1, <1>2, <1>3, Rungs DEF StepsLeft, Again

(* After its deadline ProcessRunner.run takes at most ten steps: no cancel,  *)
(* interrupt or deaf child makes it go round its poll loop or its handlers   *)
(* for ever.                                                                 *)
THEOREM CallRunsOut ==
    ProcessSpec =>
      /\ [](StepsLeft \in 0..10)
      /\ [][late => StepsLeft' < StepsLeft \/ (Environment /\ StepsLeft' = StepsLeft)]_processVars
  <1> DEFINE Falls == late => StepsLeft' < StepsLeft \/ (Environment /\ StepsLeft' = StepsLeft)
  <1>1. ProcessInv /\ [ProcessNext]_processVars => [Falls]_processVars
    BY StepsFall
  <1> QED
    BY <1>1, StepsCounted, ProcessAlways, PTL DEF ProcessSpec

(* The one wait of ProcessRunner.run without a timeout, for the output after *)
(* the kill, lasts only while a descendant of the child holds the pipes.     *)
THEOREM OnlyHeirsDelay ==
    ProcessSpec => [](place = "drain" /\ ~Over => pipes = "family")
  <1>1. ProcessInv => (place = "drain" /\ ~Over => pipes = "family")
    BY DEF ProcessInv, ProcessTypeOK, ChildOK, Over
  <1> QED
    BY <1>1, ProcessAlways, PTL
-----------------------------------------------------------------------------
(* THE FOUR SERVICES SIDE BY SIDE *)

(* What is proved of each service holds of the composition that TLC checks:  *)
(* each of its behaviours is one of the log, of the schema, of the lease and *)
(* of a run.                                                                 *)
THEOREM ServicesAreServices ==
    ServicesSpec =>
      /\ Spec /\ SchemaSpec /\ LeaseSpec
      /\ ProcessInit /\ [][ProcessNext]_processVars
  <1>1. ServicesInit => Init /\ SchemaInit /\ LeaseInit /\ ProcessInit
    BY DEF ServicesInit
  <1>2. [ServicesNext]_servicesVars =>
          [Next]_vars /\ [SchemaNext]_schemaVars /\ [LeaseNext]_leaseVars
            /\ [ProcessNext]_processVars
    BY DEF ServicesNext, servicesVars
  <1> QED
    BY <1>1, <1>2, PTL DEF ServicesSpec, Spec, SchemaSpec, LeaseSpec

(* Every variable of the four services has its type, whichever is used.      *)
THEOREM ServicesTypes == ServicesSpec => []TypesOK
  <1>1. ProcessInit /\ [][ProcessNext]_processVars => []ProcessTypeOK
    <2>1. ProcessInv => ProcessTypeOK
      BY DEF ProcessInv
    <2> QED
      BY <2>1, InitProcess, ProcessStep, PTL
  <1>2. TypeOK /\ SchemaTypeOK /\ LeaseTypeOK /\ ProcessTypeOK => TypesOK
    BY DEF TypesOK
  <1> QED
    BY <1>1, <1>2, ServicesAreServices, LogTypeCorrect, MigrationTypes, LeaseTypeCorrect, PTL

(* The composition has every safety property of its services.               *)
THEOREM ServicesSafe ==
    ServicesSpec =>
      /\ []Numbered /\ []ReturnedIsStored /\ []RaisedOnlyByRival
      /\ AppendsAtTheEnd /\ ImplementsLog
      /\ []SchemaMatchesVersion /\ []RaisesAreExplained /\ TablesStay
      /\ []LeaseIsExclusive /\ RecoverSparesHolders
      /\ []NoChildLeftBehind /\ []ResultIsTrue
  <1>1. ServicesSpec => []Numbered /\ []ReturnedIsStored /\ []RaisedOnlyByRival
    BY ServicesAreServices, NumberingCorrect, ReturnedCorrect, RaisedCorrect, PTL
  <1>2. ServicesSpec => AppendsAtTheEnd /\ ImplementsLog
    BY ServicesAreServices, AppendOrder, LogImplemented
  <1>3. ServicesSpec => []SchemaMatchesVersion /\ []RaisesAreExplained
    BY ServicesAreServices, VersionStandsForSchema, RaisesHaveReasons, PTL
  <1>4. ServicesSpec => TablesStay /\ RecoverSparesHolders
    BY ServicesAreServices, NothingIsDropped, RecoverSpares
  <1>5. ServicesSpec => []LeaseIsExclusive
    BY ServicesAreServices, LeaseExclusive, PTL
  <1>6. ServicesSpec => []NoChildLeftBehind /\ []ResultIsTrue
    <2>1. ProcessInv => NoChildLeftBehind /\ ResultIsTrue
      BY DEF ProcessInv, ResultOK, ChildOK, NoChildLeftBehind
    <2> QED
      BY <2>1, ServicesAreServices, InitProcess, ProcessStep, PTL
  <1> QED
    BY <1>1, <1>2, <1>3, <1>4, <1>5, <1>6
===============================================================================

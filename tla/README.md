# Formal model of ai_orchestrator

TLA+ modules, TLC runs and machine-checked proofs about the program under
`src/`: a local supervisor for CLI coding agents. It calls an agent, runs
verification commands of its own, decides `done`, `continue` or `blocked`, and
keeps everything it did in a SQLite file that several commands and processes
share. Its promise is *trusted completion* (docs/DECISIONS.md, ADR-0003):
`done` means that supervisor-controlled verification passed.

Everything hard about the program comes from that file. Each write is a
transaction of its own, no command holds a lock across two of them, commands
read a status and act on it later, and any process may die in between.

## 1. The system

| Component | State | Operations | Interacts with | Hard behaviour | What makes it correct |
|---|---|---|---|---|---|
| Supervisor loop (`core/supervisor.py`) | locals of `_run`: attempt, row id, verdict, no-change streak, first snapshot | `run_once`, `run_existing`, `_run` | agent adapter, verification runner, decision engine, store | death between any two writes, cancel and recover during a run, two runs of one task, resume after a crash | `done` only on a complete passing record; rows have one owner; every run ends |
| Decision engine (`core/decision.py`) | none | `decide` | supervisor | order of the cases, last attempt | never `done` without checks, with a policy stop or a failed agent |
| Task rows (`storage/db.py`) | `tasks`, `iterations`, `verification_runs`, reflections, replans, lessons | `create_task`, `update_task_status`, `add_*`, `record_*` | all commands | unconditional status writes | a row's dependants belong to the run that wrote it |
| Event log (`storage/db.py`) | `task_events` | `append_task_event` | all commands | two reads before the inserting transaction | dense order, append only, a key once, no event lost |
| Operator commands (`cli/app.py`) | none | `cancel`, `resume`, `recover --apply` | task rows | act on a status read earlier | recovery spares completed work, a cancel is heeded |
| Tool broker, action records, approvals (`tools/broker.py`, `storage/db.py`) | `action_records`, `approval_requests` | `run`, `run_approved`, `record_result`, resolve, stale, retry, recover | supervisor, CLI | replays of started actions, unguarded completion, request after record | an action's effect happens once; nothing runs unauthorised; a request can be retried |
| Action leases (`storage/db.py`) | `lease_owner`, `lease_expires_at` | acquire, heartbeat, release, list stale | recover | the clock is read before the row is written | one holder at a time; recovery spares it |
| Plan queue (`autopilot/queue.py`, `cli/app.py`) | `plan_items`, `dead_letter_items`, `autopilot_loop_runs` | sync, run-next, batch, requeue, skip, reconcile, recover | supervisor, git worktrees | claim and mark are separate | an item tells what became of its task; worktrees are not shared; one dead letter an item |
| PlanGraph (`storage/db.py`) | nodes, dependencies | add, ready, run, block, follow-up | replans, queue | cycle check before the insert, readiness by two queries | acyclic, a node runs after its dependencies, one repair a replan |
| Process runner (`process/runner.py`) | child process | run, poll, terminate, kill | adapters, verification | cancel, timeout and exit race | the child ends, the status says how |
| Migrations (`storage/migrations.py`) | schema version | the ladder | every store call | concurrent opens, deaths, DDL outside a transaction | the version stands for the schema; no table is ever gone |
| Memory (`storage/db.py`) | lessons, influence, feedback | record, search, feedback | supervisor | ranking | the rows of a run are modelled, the ranking of hints is not |
| Policy, sandbox, action types (`policy/`, `tools/`) | none | evaluate | broker, verification | classification makes verdicts stricter | a denied call never runs, even approved |
| Reports, TUI, configuration, setup, release checks, redaction | none of their own | read and render | store | none | not modelled |

`PROJECT.json` lists every component with its status, and under `hazards` each
place where the code is exposed, with the properties that cover it.

## 2. The modules

| Module | Role |
|---|---|
| `Decision` | `DecisionEngine.decide` as operators |
| `Supervisor` | `_run` and the operator commands on the task rows, with its properties |
| `VerifiedCompletion` | abstract: what completion promises |
| `MCSupervisor`, `Supervisor*.cfg` | instances for TLC |
| `SupervisorProofs` | type correctness of `Supervisor` |
| `CompletionProofs` | the other safety properties of `Supervisor`, that it implements `VerifiedCompletion`, and how long a run can be |
| `EventLog` | `append_task_event` by concurrent processes, with its properties |
| `AppendOnlyLog` | abstract: an append-only log with unique keys |
| `EventLogProofs` | all properties of `EventLog` |
| `ToolBroker` | the broker, the action journal, approvals and their commands |
| `ActionLedger` | abstract: what an action journal with idempotency keys promises |
| `MCToolBroker`, `ToolBroker.cfg` | an instance for TLC |
| `ToolBrokerProofs` | all properties of `ToolBroker`, and that it implements `ActionLedger` |
| `PlanQueue`, `MCPlanQueue`, `PlanQueue.cfg` | the autopilot queue, its runners and operators |
| `PlanQueueProofs` | all properties of `PlanQueue` |
| `PlanGraph`, `MCPlanGraph`, `PlanGraph.cfg` | the graph of nodes, its executors and operators |
| `PlanGraphProofs` | all properties of `PlanGraph` |
| `ActionLease` | the lease of an action |
| `Migrations` | opening a store: the script and the ladder of migrations |
| `MigrationsProofs` | all properties of `Migrations` that hold |
| `ProcessRunner` | `ProcessRunner.run` with its child, the clock and the user |
| `MCServices`, `Services.cfg`, `OldStores.cfg` | instances of `EventLog`, `ActionLease`, `Migrations`, `ProcessRunner` |
| `ServicesProofs` | all properties of `ActionLease` and the safety properties of `ProcessRunner`, how long a call of `run` can be, and that the composition of `MCServices` keeps what is proved of its parts |

Histories, in every module: a variable marked *history* is written by actions
and read by properties only. The properties that excuse a case do it through one
(`upset`, `disturbed`, `late`, `died`, `lost`, `renewed`, `escaped`), so that what is excused
is named: a rival process, a death, an operator's override, a sync beside another, a
worktree taken by `--worktree`, a node the queue starts out of turn.

### Supervisor

A process is where its program counter `pc[p]` says, with the locals of `_run` in
`run[p]`. `status`, `iters` and `events` are the store. Every committed write is
an action of its own and `Die` can follow any of them:

| Code in `_run` | Actions |
|---|---|
| create or resume, mark running, announce | `Start`, `Resume`, `ResumeCheck`, `MarkRunning`, `Announce` |
| availability, session, first snapshot | `AgentUnavailable`, `StartSession` |
| loop head: range, clock, cancelled | `Exhausted`, `OutOfTime`, `CancelledBeforeAgent`, `CallAgent` |
| the agent | `AgentEdit`, `AgentReturns`, `AgentStopped`, `ReceiveResult` |
| before and during verification | `OutOfTimeBeforeVerification`, `PrepareVerification`, `RunCheck`, `FinishVerification` |
| the verdict with the repository rules | `DecideIteration` (`Decided`, `HasRepoChange`, `Decide`) |
| the record, in the order of the code | `RecordIteration`, `RecordDecision`, `RecordCheck`, `RecordAction`, `RequestApproval`, `RecordReplan`, `RecordReflection`, `RecordLesson`, `FinishIteration` |
| the closing status and its event | `WriteStatus`, `LogStatus` |
| Ctrl-C, a killed process, an exception | `Interrupt`, `Die` |
| `cancel`; `recover --apply` | `Cancel`; `RecoverScan`, `RecoverBlock`, `RecoverLog` |

A row of `iters[t]` stands for the `iterations` row and all rows that carry its
`iteration_id`. The position in the sequence is the row id; `index` is the
`iteration_index` the code computes, which two runs can share. Three columns are
history and are read by no action: `idle`, `touched`, `reported`; so are `spent`
and `calls`. `max_iterations` is read from the configuration when a run starts, so
each run draws its own `limit` from `Limits`.

The working tree is a version, which every edit raises, and the set of dirty paths,
which is all that `git status --porcelain` shows: editing a dirty file changes the
one and not the other. A snapshot may fail (`<< >>`).

Abstractions: agent and check statuses are the classes the decision tells apart;
the clock is a choice at each place that reads it; a needs_approval result is taken
to carry its command string, as the verification runner's does. Events that the
code appends one after the other, with no row written between them, are one step
(a death between them loses a suffix of the group, and no property here reads a
proper part of a group). Left out: the `checkpoint_saved` events that accompany a
lifecycle event of the same moment, `memory_influence` rows, the second,
unkeyed `task.recovered` event, and all text.

### EventLog

`append_task_event` looks up the idempotency key, reads the highest sequence
number and inserts. Python's `sqlite3` opens the transaction at the INSERT, so the
two reads are steps of their own (`Lookup`, `Number`) and `Insert`, with its commit
under SQLite's single write lock, is the third. The unique constraints make the
loser of a race raise (`Conflict`). A writer can die, or wait for the lock beyond
the busy timeout, at any point (`GiveUp`). In `Supervisor` one append is one step,
and a raising append is a `Die`.

### ToolBroker and ActionLedger

`rows` maps an idempotency key to its `action_records` row, `requests` are the
`approval_requests` by id. The key of an approved retry is the key of its call with
the approval id added, so a key is a work and a path of approvals. A row keeps its
status and the approval its stored output names (`link`), which is how `approvals
retry` finds the action it retries (`LinkedTo`).

| Code | Actions |
|---|---|
| `run`: `_blocked_status`, record, request, link | `Call`, `RecordDenied`, `RecordBlocked`, `CreateRequest`, `LinkRequest` |
| `run`: record as started, execute, complete, or the stored answer | `RecordStarted`, `Execute`, `Complete`, `Replay` |
| `approvals retry`, `run_approved`, `record_approval_retry` | `Retry`, `Find`, `CompleteDenied`, `CountRetry` |
| `approvals approve`, `reject`, `stale` | `Resolve`, `ListStale`, `MarkStale` |
| `recover --apply`, actions | `ListStarted`, `RecoverAction` |
| a configuration edited between commands; death | `EditPolicy`, `Die` |

A call is of the read tier, of another (`risky`), or dangerous by its text; a
`command` is work whose approval the verification runner or memory commands ask for, and
which the broker sees as a retry only. The verdict of the patterns is what
`policy` says at the time a command starts; a dangerous call is denied whatever
it says. Executors succeed or fail. In `ActionLedger` a worker is admitted while
an action is open, and each admission allows one execution; the refinement reads
`open`, `closed` and `admitted` off the rows and the program counters.

### PlanQueue

One plan file, whose lines are tasks, and its `plan_items`, none of them synced yet. A
sync compares the file with the rows once (`CompareWithPlan`) and then inserts row by row
(`RecordItem`), beside other syncs or until it is stopped (`StopSync`). A runner is a
`run-next`, `run-batch` (in order, by id, or rotated over worktrees) or `loop`
command, the first three with a `--worktree` or without (`Begin`). It selects (`Select`,
`SelectItem`; a loop then starts its batch, `CountRounds`), takes an item (`Pick`),
may be refused before it starts (`Refuse`), marks item and node (`MarkItem`,
`MarkNode`), runs the task (`RunTask`), and settles both (`SettleItem`,
`SettleNode`); a loop then writes dead letters (`CheckLetter`, `AddLetter`).
Operators edit the plan (`EditPlan`), move shifted lines (`ListMoves`, `RefreshRef`), reconcile
or recover (`ListSweep`, `SweepItem`), and `Requeue`, `Skip` and `LinkPlanGraph` items.

Where the code goes on with an item as it was read, so does the model: `run-next`, `--item-id` and a
rotated batch keep the link to a graph that the item had when they selected it (`links`); a batch
and a loop read the next item anew, link and all. `run-batch --worktree` records the tree with the
item whatever is under way in it, a rotated batch the tree it found free, and `run-next
--worktree` none at all (`Recorded`), so no property speaks of where its item is; its task tells
a rotation later (`TreeOf`).

The supervised task is one action with either result: `Supervisor` says what a result
means. The root node of an item is its own here; items that share nodes with executors are in
`PlanGraph`. Left out: the ledger row of a loop, which sums up what the items say, `--item-id` of a
rotated batch (a rotated batch of one item), resuming the task of an item by hand, the parsing of the
file, dry runs and reports.

### PlanGraph

Nodes in order of id, dependencies as pairs, replans with the task that made
them. `add-dependency` checks (`CheckDependency`) and then inserts (`AddDependency`); an
executor lists nodes, then dependencies (`ListNodes`, `Pick`), or is a command of the queue
that takes the node its item is linked to, whatever that node waits for (`TakeItem`); it is refused or starts
(`Refuse`, `Start`), and after the task writes the node (`Finish`), links the replans
(`LinkReplans`) and adds their repairs (`FollowUp`), each a transaction of its own. The
recursive query of the cycle check is stated by the sets closed under
dependency: `Reaches(m, n)` says that every closed set that holds `m` holds `n`. The
status of a graph, which no command reads before it runs nodes, is left out.

### ActionLease, Migrations, ProcessRunner

These share no state with the rest, and each is small. `MCServices` extends them and
`EventLog`; a behaviour exercises one of the four (`part`), the others rest in an initial state.

* `ActionLease`: the time a call works with is read when it begins (`BeginCall`), the
  row is updated later (`Acquire`, `Heartbeat`), and the record is read back later still
  (`ReadBack`). `complete_action_record` asks for no lease and no status, and clears the
  lease of whoever holds it (`Closes`): a holder may then read that nobody has it. No caller in `src/`
  takes a lease, so it is not composed with the broker.
* `Migrations`: the schema is a set of parts, a part being what one step gave to
  one table. Python's `sqlite3` commits each DDL statement by itself until an INSERT
  opens a transaction; `draft` is what the writer sees, `disk` what is committed. The
  copy of a rebuilt table is such an INSERT. Plain child tables come with their parent.
* `ProcessRunner`: one call of `run`, with or without callbacks. The child may ignore
  SIGTERM, exit at any time, or leave a descendant that holds its pipes; the deadline
  may pass and the user cancel or press Ctrl-C at any point, also in the handlers.

## 3. What is checked

`tlc -config X.cfg M` for each; deadlock is not checked in any run because the
program really stops (all runs are over, the bounded commands are used up).

| Run | Instance | Shows |
|---|---|---|
| `supervisor_serial` | 1 process, 1 task, 1 check, `max_iterations` 0 or 2, 2 runs, 1 cancel, 1 recover; 466k states | `TypeOK`; `IndexIsPosition`: crashes and resumes leave the iterations numbered 1, 2, ...; `DoneIsLatestVerdict`: `done` is never contradicted by a later iteration; `FinishedIterationComplete`: the finished event vouches for check, audit, approval, replan, reflection and lesson rows; `CallBudget` |
| `supervisor_concurrent` | 2 processes on 1 task, 1 iteration each, 2 runs, cancel, recover; 1.3M states | `DoneOnlyAfterVerification`, `NoRowForStoppedAgent`, `CompletionInv` (the invariant of the proofs), and `ImplementsGate`: refinement of `VerifiedCompletion` |
| `supervisor_repo` | 1 process, 1 path, 2 edits, 3 iterations, limit of 2 unchanged ones, clock, cancel; 199k states | `AcceptedWorkChangedTheRepo` and, under fairness, `RunEnds` |
| `event_log` | `MCServices`: 3 writers, 2 keys and the missing key, 4 appends; 2 processes open a store of version 0 (new), 1, 2, 3, 8, 12, 17 to 20, 3 times; 2 workers on a lease of 2 ticks, clock up to 5; one child; 737k states | `TypesOK`; for the log `Numbered`, `AppendsAtTheEnd`, `ReturnedIsStored`, `RaisedOnlyByRival`, `ImplementsLog` (refinement of `AppendOnlyLog`); for opening `SchemaMatchesVersion`, `TablesStay`, `RaisesAreExplained`; for leases `LeaseIsExclusive`, `RecoverSparesHolders`; for a child `NoChildLeftBehind`, `ResultIsTrue` and, under fairness, `CallReturns` |
| `tool_broker` | 2 brokers, 1 work of every class, policy allow or ask, 3 calls or retries, 2 requests, 1 edit, 1 decision, 1 sweep; 591k states under symmetry | `TypeOK`; `Authorised`: nothing runs that was denied, or above the read tier unapproved; `EffectOnce`; `RequestsAreLinked`; `ImplementsLedger` |
| `plan_queue` | 2 runners of every kind, 2 syncers, plans `<<a>>` and `<<b, a>>`, 2 worktrees, one of them named by `run-next` or `run-batch --item-id`, batches of 2, 2 rows, 2 tasks; 2 begins, 2 syncs, 2 commands, edits or deaths, 4 of all these; 2.3M states under symmetry | `TypeOK`; `DoneIsAccountedFor`, `NodesFollowItems`, `DeadLettersAreDead`, `WorktreesAreExclusive`, `QueuedOncePerPlan` |
| `plan_graph` | 2 executors, 1 operator of dependencies, 3 nodes, batches of 2 (a `run-next` is one that dies after its first node), 2 runs in order or by the queue, 2 replans, 3 commands; 2.3M states under symmetry | `TypeOK`; `Acyclic`; `StartsFollowDependencies`; `RepairsMatchReplans` |
| `cancel_race` | violation | a cancel after the last look at the status is overwritten by `done` |
| `recover_race` | violation | `recover --apply` overwrites `done` by `blocked` |
| `replay_gap` | violation | the second agent call of a reused iteration index leaves no event |
| `stall_reason` | violation | a run is blocked for "no change" although the agent changed files |
| `old_stores` | violation | one process alone cannot open a store left by a release of version 9 to 17 |

The violation runs state what README.md, docs/USER_GUIDE.md, CHANGELOG.md and the
stored reason say; the findings in `PROJECT.json` quote them. `old_stores` is a defect met while
`initialize` was read: its script indexes `idempotency_key` and `lease_expires_at`
before the migrations that add these columns to older tables, so a store of
version 9 to 17 cannot be opened. `RaisesAreExplained` lists every other way in
which opening fails.

**Bounds.** `MaxRuns`, `MaxCancels`, `MaxRecovers` and `MaxEdits` bound what
the environment does; nothing in the code is bounded otherwise. Two runs are enough
for every pairwise race and for crash and resume; one check is enough to tell a row
with all its checks from one without (the proofs cover any number); two iterations
have one that continues and one that is last; one path suffices for a tree that is
clean, dirty, edited while dirty, and clean again. Three writers give a race of two with a third
in between. The serial properties are claims about one process at a time: with two,
both take the same index, and `IndexIsPosition` and `DoneIsLatestVerdict` do not
hold.

In `tool_broker` three calls or retries, two requests, a decision and a sweep give a
call that is asked for, an approval granted while it expires, and one retried twice; the one work is drawn from every class, and two works
would share only the numbering of the requests (the proofs cover any number). In `plan_queue` two items
and two worktrees are the least in which a rotation can take a tree in use, and
two begins make one overlap or one command after a death; the four uses of the bounds are a
sync, two commands of runners and one death, edit or command of an operator, or two syncs and two others. `plan_graph` needs three nodes
for a cycle that direct dependencies do not show, and two replans for two repairs
of one task; of the statuses that stop a node for good, `Overrides` keeps one. The versions left to
`Migrations` have one before each kind of step; one death and one rival
suffice for each excuse. A clock of 5 outlasts two leases.

What the excuses mean: two runners of the queue that overlap can run one item
twice and share a worktree; a `--worktree` can name a tree that an item is under way in, or that a
dead runner left; a sweep that listed an item can set it back; a link made after a
command has read the item leaves its node behind; two syncs at a time insert a task twice; two
executors can run one node, and the queue runs the node of a linked item before its dependencies are
done. The code has no claim that would prevent these, so the
properties say what holds apart from them.
`approvals stale` can withdraw an approval granted while it runs; `Authorised`
shows that it can do nothing worse. `Acyclic` is a claim about one operator at a
time: two that check and then insert can close a cycle.

**Mutants.** Beside a definition stands a plausible bug of it ("Mutant: ...");
`PROJECT.json` pairs each with a property that TLC finds violated when the mutant
replaces the definition.

**Fairness.** `RunEnds` assumes `WF(Step(p))`, for a live process keeps
executing. Its blocking calls are the agent and the checks, both run under a
timeout that ends in terminate and kill, and store calls, which fail after the busy
timeout. `CallReturns` (`RunReturns` of `ProcessRunner`, for the behaviours of that part) looks
into that timeout: under `WF(Run)` (the runner takes its
steps) and `WF(DeadlinePasses)` (time passes) a call returns, even with a child that
ignores SIGTERM, unless a descendant of the child holds the pipes for good, for
after the kill the runner waits for them without limit. So `RunEnds` assumes that no
descendant does. Nothing is assumed of the child, the operators, agents'
edits, or dead processes coming back.

## 4. What is proved

`tlapm` checks these for every value of the constants, under the named assumptions
`TaskAssumption`, `LimitAssumption`, `BoundAssumption`, `KeyAssumption`,
`AppendAssumption`, `WorkAssumption`, `BrokerAssumption`, `GraphAssumption`,
`QueueAssumption`, `LeaseAssumption` and `SchemaAssumption` (limits and bounds are
naturals or booleans, the null values are no members, a plan has at most as many lines
as the queue may have rows, a store has a version that a release has written, or one
later than it knows); nothing else is taken on trust. Three hypotheses stand in theorems
themselves, because the property is about instances that satisfy them:

| Hypothesis | Where | Why |
|---|---|---|
| one process (`OneProcess`) | `SerialRunsNumberRows`, `SerialDoneIsLatest` | two runs of a task take the same index; the code makes no claim against that |
| one operator of `add-dependency` | `GraphAcyclic` | two that check and then insert can close a cycle |
| no plan lists a task twice | `QueueHoldsEachTaskOnce` | a task on two lines is two tasks for `sync_plan_items`, which goes by line and text |

Every safety invariant, action property and refinement that a passing run checks is stated by a
theorem. Of the two liveness properties, `RunEnds` and `CallReturns`, the half that
is no matter of fairness is proved: a measure that each step lowers.

* `SupervisorProofs`: `TypeCorrect`. One lemma per action shows that it keeps the
  types; `TaskOK`, that a process inside `_run` has a task, is the strengthening.
* `CompletionProofs`: `CompletionCorrect`, `DoneVerified`, `GateImplemented`,
  `StoppedAgentLeavesNoRow`. "A done task has an accepted row" is not inductive: the
  write of `done` reads nothing, so it is right only because of what the process did
  many steps before. `CompletionInv` says what each process carries from the
  agent's result to that write: its locals justify its verdict (`Evidence`); the row it is
  recording is its own and holds a prefix of its check results, all of them once it
  is past the checks (`OwnedRow`, `Records`); no two processes own one row
  (`OwnersApart`); rows completed on are accepted. The refinement follows:
  the last check row that completes an accepted record is `Verify`, `WriteStatus` with
  `done` is `Complete` on the owner's row, other status writes are `Change`, and
  every other step is a stutter.

  Four more invariants stand beside it:
  * `FinishedIsComplete`. `RecordInv` says what the row of a process holds at each label of
    the record (`StageAt`), so that at the finished event all has been written, and that no
    process is still recording a row that was finished.
  * `CallsWithinBudget`. That calls made stay within calls allowed says nothing of the
    next call. `BudgetInv` adds the calls still to come: the set `Left(t)` of pairs
    of a live run and an attempt it may still make is finite, and calls made plus its
    cardinality are within what was allowed. A call takes one pair out of the
    set, a start or a resume adds as many as it allows, a death removes some.
  * `AcceptedWorkIsChange`. `RepoInv` says what a run knows of the tree since it took its first
    snapshot: a clean comparison with an origin at the present version shows the
    dirty set of the origin, so a difference means that the version moved.
  * `SerialRunsNumberRows`, `SerialDoneIsLatest`. `SerialInv` relates the index a run computes
    from its start and attempt to the length of `iters` at every label (`InPlace`).

  `RunsOut` is about length. `Rounds(p)` counts the agent calls a run may still make, `Work(p)` the
  steps left of its round: the labels to come, four steps for each check, two for each reflection.
  Every step of a run lowers the pair in lexicographic order, and no step of anybody else
  raises it: not of a rival run of the same task, an operator, an edit, or a death. So a run that keeps
  executing ends, after at most its limit of calls and `20 + 4 * NumChecks` steps a round. It
  rests on `CInv`: that a run records no more checks than it ran, and that others leave
  the row it writes alone (`OwnersApart`), without which a rival could give it more to do.
* `EventLogProofs`: `LogTypeCorrect`, `NumberingCorrect`, `ReturnedCorrect`,
  `RaisedCorrect`, `AppendOrder`, `LogImplemented`. `LogInv` adds to the properties that numbers are
  `1..n` and that a number read is at most one beyond the rows there (`ReadOK`), so
  an insert the uniqueness constraint lets through is the next one.
* `ToolBrokerProofs`: `BrokerTypeCorrect`, `BrokerAuthorised`, `LedgerImplemented`.
  `Authorised` speaks of effects, which are known only many steps after
  the decision; `BrokerInv` adds what each broker carries meanwhile: that a
  retry under way has an approval that was once granted for the same work, that the
  verdict it holds denies a dangerous call, that its key was announced before
  it executes. A request keeps its work and an approval once granted stays in
  `approved`, so later expiry or rejection disturbs nothing.

  `BrokerEffectOnce` and `BrokerLinksRequests` are about work that nothing has upset.
  `AloneInv` says, work by work, that then one broker at a time is on it, that an
  action that can still be executed was not (`RanOnce`), and that a request is
  named by a row or by the broker about to link it (`WorkLinked`). A step concerns one
  work (`Touches`), so each action is looked at for its own work only.
* `PlanGraphProofs`: `GraphTypeCorrect`, and `GraphAcyclic` for at most one operator. The
  inductive invariant adds to `Acyclic` that edges, sources and links name nodes that
  exist (`RefsOK`), and that an edge checked and not yet written still closes no cycle
  (`CheckedOK`): what an executor adds in between are edges from new nodes
  to old ones, under which a closed set stays closed.
  `GraphStartsFollow`, for executors that go by dependencies beside the queue that does not, needs what an executor has seen: of each listed node, that the dependencies it
  had when they were read are done (`SeenOK`), and that a node under way is run by one
  executor (`RunningOK`). `GraphRepairsMatch` needs that each replan has been answered, or
  its executor is on the way to (`Answered`), and that tasks of executors differ (`TaskOK`).
* `PlanQueueProofs`: `QueueTypes`, `QueueAccountsForDone`, `QueueNodesFollow`,
  `QueueBuriesTheDead`, `QueueWorktreesExclusive`, `QueueHoldsEachTaskOnce`. First comes one
  lemma per action, which says what the step does to which row (`...Does`); the
  invariants are shown from these alone. All of them rest on who has an item in
  hand: two runners only where a rival was noted (`HeldOnce`), and where the item then stands
  (`Stage`). `Account` adds that no runner holds an item that a task was already done
  for; `Linked` that a node nobody touched is pending and that a runner knows the
  link of its item, which is what `Reads` says of the links a selection has fixed: they
are those of the items, but where an operator was noted; `Lettered` that a loop about to write a letter has found none, and a
  dead item; `Housed` what is free: a rotated runner's trees are different from one another
  and from those of the items under way (`Reserved`); `Mirrored` that the rows stand for
  different lines of the plan, and that what a sync has still to insert are lines that no row
  stands for. `Queue`, `Limit` and `FreeTrees`, which choose a sequence, are characterised
  by lemmas on ranks in finite sets.
* `MigrationsProofs`: `MigrationTypes`, `VersionStandsForSchema`, `RaisesHaveReasons`,
  `NothingIsDropped`. The version stands for the schema although a process sets
  a version without looking at the one there. What makes it right is monotonic:
  `Sound` says which parts a process at each label knows to be there (`PlaceOK`); no step of
  any process takes a part away, so it keeps knowing them while others write, and
  when it writes a version the parts are there, in the draft and on disk alike.
  `Calm` holds while there was no rival: then the version a process has
  come to is the one it sees (`Lone`), which no second process can change, a temporary
  table on disk is its own or a dead process's, and a process that was refused
  has one of the listed reasons, which last until the next open.
* `ServicesProofs`, of the lease: `LeaseTypeCorrect`, `LeaseExclusive`, `RecoverSpares`. A grant is
  judged by a time read before; the proof needs that this time is never ahead of the
  clock, so a lease it takes over has really run out; and that a row somebody else completed since
  the grant names no owner, so a holder that reads it back is told of nobody, never of another.

  Of the child process: `ChildIsEnded`, `StatusIsTrue`. A result speaks of what happened several steps
  before it, so `ProcessInv` says at each place of the code what the runner has done to the
  child by then (`ChildOK`), which ending is under way and why (`EndingOK`), and what the
  result, once there, says (`ResultOK`). This model has no constants; TLC found the invariant
  inductive on all 7952 typed states that satisfy it before it was proved. `CallRunsOut`:
  once the deadline is past, a call is at most ten steps from its end (`StepsLeft`) and each step
  it takes is one less, whatever the child, the user and the callbacks do. `OnlyHeirsDelay`: of
  the waits in its endings, the one without a timeout is held up only by a descendant that keeps the
  pipes open, which is the case `RunReturns` excuses.

  Of the composition: `ServicesAreServices` (a behaviour of `ServicesSpec` is one of the log, of the schema, of
  the lease and of a call), and from it `ServicesTypes` and `ServicesSafe`: what is proved
  of the parts holds of what the run `event_log` checks.

Only model-checked:

* `RunEnds` and `CallReturns`. Liveness under fairness needs `ENABLED`, which is out of the prover's
  reach, and an induction on the measure, whose rule takes an operator as a parameter. `RunsOut` and
  `CallRunsOut` leave only this to TLC: that a step is always possible, and that a measure which falls
  with every step reaches its end.
* The five violation runs, which are counterexamples.

## 5. Not modelled

* Configuration loader, argument parsing, printing, setup, doctor, onboarding:
  they turn text into the values the operations above start from.
* Reports, traces, timeline, TUI, worktree overview, the local operator client and the
  MCP/ACP boundary: they read rows, or call the operations above.
* Release checks, golden evaluation, the codebase memory client, redaction:
  stateless functions of a checkout, an external program or a text.
* The matching of tokens and paths in the policy engine, the ranking of lessons,
  the wording of prompts: their results are choices of the models, so the
  properties hold for whatever they answer.
* In the queue: the ledger row of a loop; in the graph: its status; in recovery:
  worktree recommendations, whose items no run of the queue leaves behind.

## 6. Next

The models could be carried further: leases composed with the broker once a caller takes one, a second plan
file, and the ledger row of a loop.

----------------------------- MODULE PlanQueue -----------------------------
(***************************************************************************)
(* The autopilot queue: table plan_items of storage/db.py, filled from a   *)
(* plan file by autopilot/queue.py and worked off by `ai-orch autopilot    *)
(* queue run-next|run-batch' and `ai-orch autopilot loop' (cli/app.py),    *)
(* with the commands operators review it by: sync, refresh-created-refs,   *)
(* reconcile, recover-in-progress, requeue, skip and link-plan-graph.      *)
(*                                                                         *)
(* One plan.  Each list and each committed write is an action of its own;  *)
(* nothing claims an item between the query that finds it and the write    *)
(* that marks it.  The supervised task (module Supervisor) is one action   *)
(* with either result.  Of the PlanGraph (module PlanGraph) only the root  *)
(* node of each linked item is kept.                                       *)
(***************************************************************************)
EXTENDS Integers, Sequences, FiniteSets

CONSTANTS
    Runners,        \* processes of run-next, run-batch and loop
    Texts,          \* the tasks a plan file can hold
    Plans,          \* what the plan file can be: the open task of each line
    Worktrees,      \* how many worktrees the rotation directory holds
    Named,          \* the kinds of command, and worktrees, that --worktree is used with
    Syncers,        \* processes of sync
    BatchSize,      \* --max-items
    MaxRows,        \* bound: plan_items
    MaxTasks,       \* bound: tasks run
    MaxBegins,      \* bound: commands of runners
    MaxSyncs,       \* bound: syncs that find something
    MaxCommands,    \* bound: other commands of operators, edits of the plan and deaths
    MaxUses         \* bound: all of these together

ASSUME QueueAssumption ==
    /\ Plans \subseteq Seq(Texts) /\ \A p \in Plans : Len(p) <= MaxRows
    /\ Worktrees \in Nat /\ Named \subseteq {"next", "item", "batch"} \X (Nat \ {0})
    /\ BatchSize \in Nat \ {0} /\ MaxRows \in Nat
    /\ MaxTasks \in Nat /\ MaxBegins \in Nat /\ MaxSyncs \in Nat /\ MaxCommands \in Nat
    /\ MaxUses \in Nat

VARIABLES
    plan,       \* the plan file
    items,      \* plan_items, in order of plan_item_id
    nodes,      \* the status of the root node each item would be linked to
    tasks,      \* tasks in order of creation: the item they ran, where, and their result
    letters,    \* dead_letter_items: how many per item
    pc,         \* where each runner stands
    job,        \* each runner's local variables
    insert,     \* what each sync has found missing and not inserted yet
    moves,      \* what refresh-created-refs has found moved and not written yet
    sweep,      \* what reconcile or recover-in-progress listed and has not written yet
    upset,      \* history: what interfered with which item
    used        \* the bounds used up so far

vars == <<plan, items, nodes, tasks, letters, pc, job, insert, moves, sweep, upset, used>>

Ids == 1..MaxRows
Statuses == {"created", "in_progress", "done", "blocked", "skipped"}
Kinds == {"next", "item", "batch", "rotated", "loop"}
Trees == 0..Worktrees \union {named[2] : named \in Named}
Rows == [line : Nat, text : Texts, status : Statuses, task : 0..MaxTasks,
         worktree : Trees, linked : BOOLEAN]
Row(line, text) == [line |-> line, text |-> text, status |-> "created", task |-> 0,
                    worktree |-> 0, linked |-> FALSE]

(* tree: the --worktree of the command, 0 for none (the repository itself).  *)
Jobs == [kind : Kinds, tree : Trees, ids : Seq(Ids), links : SUBSET Ids, trees : Seq(Nat),
         item : 0..MaxRows, task : 0..MaxTasks, linked : BOOLEAN]
NoJob == [kind |-> "next", tree |-> 0, ids |-> << >>, links |-> {}, trees |-> << >>,
          item |-> 0, task |-> 0, linked |-> FALSE]
NoSweep == [ids |-> {}, to |-> "skipped"]

TypeOK ==
    /\ plan \in Plans
    /\ items \in Seq(Rows) /\ Len(items) <= MaxRows
    /\ nodes \in [Ids -> {"pending", "in_progress", "done", "blocked"}]
    /\ tasks \in Seq([item : Ids, ok : BOOLEAN, tree : Trees])
    /\ letters \in [Ids -> Nat]
    /\ pc \in [Runners -> {"idle", "select", "count", "pick", "guard", "mark_node", "run",
                           "settle", "settle_node", "letters", "letter"}]
    /\ job \in [Runners -> Jobs]
    /\ insert \in [Syncers -> Seq(Nat \X Texts)]
    /\ moves \subseteq Ids \X Nat
    /\ sweep \in [ids : SUBSET Ids, to : {"skipped", "blocked"}]
    /\ upset \subseteq Ids \X {"rival", "sweep", "operator", "death", "plan",
                           "syncs", "overlap", "chosen"}
    /\ used \in [begins : 0..MaxBegins, syncs : 0..MaxSyncs, commands : 0..MaxCommands]

(* Nothing has been synced yet. *)
Init ==
    /\ plan \in Plans /\ items = << >> /\ tasks = << >>
    /\ insert = [s \in Syncers |-> << >>] /\ moves = {} /\ upset = {}
    /\ nodes = [i \in Ids |-> "pending"] /\ letters = [i \in Ids |-> 0]
    /\ pc = [r \in Runners |-> "idle"]
    /\ job = [r \in Runners |-> NoJob]
    /\ sweep = NoSweep
    /\ used = [begins |-> 0, syncs |-> 0, commands |-> 0]

Goto(r, label) == pc' = [pc EXCEPT ![r] = label]
Budget(field, limit) ==
    /\ used[field] < limit /\ used.begins + used.syncs + used.commands < MaxUses
    /\ used' = [used EXCEPT ![field] = @ + 1]
Upset(S, why) == upset' = upset \union (S \X {why})
Held(i) == {r \in Runners : pc[r] \notin {"idle", "letters", "letter"} /\ job[r].item = i}
-----------------------------------------------------------------------------
(* FILLING THE QUEUE *)

(* The item a line stands for is the latest one recorded for it.             *)
Latest(line) ==
    LET at == {i \in DOMAIN items : items[i].line = line}
    IN  IF at = {} THEN 0 ELSE CHOOSE i \in at : \A j \in at : j <= i

(* Mutant: sync looks at unstarted items only. *)
MissingUnstarted(line) == Latest(line) = 0 \/ items[Latest(line)].status # "created"

Missing(line) == Latest(line) = 0 \/ items[Latest(line)].text # plan[line]

(* (Edits before the first sync make another plan to begin with.)            *)
EditPlan(p) ==
    /\ p # plan /\ used.syncs > 0 /\ Budget("commands", MaxCommands) /\ plan' = p
    /\ Upset(Ids, "plan")
    /\ UNCHANGED <<items, nodes, tasks, letters, pc, job, insert, moves, sweep>>

(* sync compares the file with the rows once and then inserts what it found, *)
(* row by row, whatever another sync has inserted meanwhile.  (A sync that   *)
(* finds nothing does nothing.)                                              *)
CompareWithPlan(s) ==
    LET lines == {l \in DOMAIN plan : Missing(l)}
        nth(k) == CHOOSE l \in lines : Cardinality({m \in lines : m <= l}) = k
    IN  /\ insert[s] = << >> /\ Budget("syncs", MaxSyncs) /\ lines # {}
        /\ insert' = [insert EXCEPT ![s] =
                        [k \in 1..Cardinality(lines) |-> <<nth(k), plan[nth(k)]>>]]
        /\ IF \A t \in Syncers : insert[t] = << >>
           THEN UNCHANGED upset ELSE Upset(Ids, "syncs")
        /\ UNCHANGED <<plan, items, nodes, tasks, letters, pc, job, moves, sweep>>

RecordItem(s) ==
    /\ insert[s] # << >> /\ Len(items) < MaxRows
    /\ items' = Append(items, Row(Head(insert[s])[1], Head(insert[s])[2]))
    /\ insert' = [insert EXCEPT ![s] = Tail(@)]
    /\ UNCHANGED <<plan, nodes, tasks, letters, pc, job, moves, sweep, upset, used>>

(* A sync that is stopped leaves the rows it has inserted.                   *)
StopSync(s) ==
    /\ insert[s] # << >> /\ Budget("commands", MaxCommands)
    /\ insert' = [insert EXCEPT ![s] = << >>]
    /\ UNCHANGED <<plan, items, nodes, tasks, letters, pc, job, moves, sweep, upset>>

(* refresh-created-refs lists the unstarted items whose task has moved to    *)
(* another line, when one item and one line hold that text, and then moves   *)
(* those that are still unstarted.                                           *)
Moved(i, line) ==
    /\ items[i].status = "created" /\ items[i].text = plan[line] /\ items[i].line # line
    /\ \A l \in DOMAIN plan : plan[l] = plan[line] => l = line
    /\ \A j \in DOMAIN items :
         items[j].status = "created" /\ items[j].text = items[i].text => j = i

ListMoves ==
    /\ Budget("commands", MaxCommands) /\ moves = {}
    /\ moves' = {m \in (DOMAIN items) \X (DOMAIN plan) : Moved(m[1], m[2])}
    /\ moves' # {}
    /\ UNCHANGED <<plan, items, nodes, tasks, letters, pc, job, insert, sweep, upset>>

RefreshRef(i, line) ==
    /\ <<i, line>> \in moves /\ moves' = moves \ {<<i, line>>}
    /\ items' = [items EXCEPT ![i].line = IF items[i].status = "created" THEN line ELSE @]
    /\ UNCHANGED <<plan, nodes, tasks, letters, pc, job, insert, sweep, upset, used>>
-----------------------------------------------------------------------------
(* RUNNING THE QUEUE *)

(* list_plan_items(status="created"): by line, then by id.                   *)
Before(i, j) == items[i].line < items[j].line \/ (items[i].line = items[j].line /\ i <= j)
Created == {i \in DOMAIN items : items[i].status = "created"}
Queue ==
    [k \in 1..Cardinality(Created) |->
       CHOOSE i \in Created : Cardinality({j \in Created : Before(j, i)}) = k]
Limit(s, n) == SubSeq(s, 1, IF n < Len(s) THEN n ELSE Len(s))

(* Mutant: busy worktrees are looked up by the task, which a running item has not got yet. *)
BusyByTask ==
    {items[i].worktree : i \in {j \in DOMAIN items :
                                   items[j].status = "in_progress" /\ items[j].task # 0}}

(* Where an item is under way: in the tree recorded, or else its task's.     *)
TreeOf(i) ==
    IF items[i].worktree # 0 \/ items[i].task = 0 THEN items[i].worktree
    ELSE tasks[items[i].task].tree

Busy == {TreeOf(i) : i \in {j \in DOMAIN items : items[j].status = "in_progress"}}
FreeTrees(n) ==
    LET free == 1..Worktrees \ Busy
    IN  Limit([k \in 1..Cardinality(free) |->
                 CHOOSE w \in free : Cardinality({x \in free : x <= w}) = k], n)

(* A rotated batch takes no --worktree, and a loop drops it.                 *)
Begin(r, kind, tree) ==
    /\ pc[r] = "idle" /\ Goto(r, "select") /\ Budget("begins", MaxBegins)
    /\ kind \in Kinds /\ (tree = 0 \/ <<kind, tree>> \in Named)
    /\ job' = [job EXCEPT ![r] = [NoJob EXCEPT !.kind = kind, !.tree = tree]]
    /\ IF \A s \in Runners : pc[s] = "idle" THEN UNCHANGED upset ELSE Upset(Ids, "overlap")
    /\ UNCHANGED <<plan, items, nodes, tasks, letters, insert, moves, sweep>>

Quit(r) == Goto(r, "idle") /\ job' = [job EXCEPT ![r] = NoJob]

(* run-next, --item-id and a rotated batch run the items they select as they *)
(* are when selected, whatever they become: the links, too.                  *)
Fixed(r) == job[r].kind \in {"next", "item", "rotated"}
LinkedOf(r, ids) ==
    {i \in DOMAIN items : Fixed(r) /\ items[i].linked /\ \E k \in DOMAIN ids : ids[k] = i}

(* The items a command works on.  A loop lists them for its ledger and then  *)
(* starts a batch, which lists them again.  A rotated batch also fixes a     *)
(* worktree for each, or gives up.                                           *)

Select(r) ==
    LET kind == job[r].kind
        ids == Limit(Queue, IF kind = "next" THEN 1 ELSE BatchSize)
        trees == FreeTrees(Len(ids))
    IN  /\ pc[r] = "select" /\ kind # "item"
        /\ IF (ids = << >> /\ kind # "loop") \/ (kind = "rotated" /\ Len(trees) < Len(ids))
           THEN Quit(r)
           ELSE /\ Goto(r, IF kind = "loop" THEN "count" ELSE "pick")
                /\ job' = [job EXCEPT ![r].ids = ids, ![r].links = LinkedOf(r, ids),
                             ![r].trees = IF kind = "rotated" THEN trees ELSE << >>]
        /\ UNCHANGED <<plan, items, nodes, tasks, letters, insert, moves, sweep, upset, used>>

(* run-batch --item-id.                                                      *)
SelectItem(r, i) ==
    /\ pc[r] = "select" /\ job[r].kind = "item"
    /\ i \in Created
    /\ Goto(r, "pick")
    /\ job' = [job EXCEPT ![r].ids = <<i>>, ![r].links = LinkedOf(r, <<i>>)]
    /\ UNCHANGED <<plan, items, nodes, tasks, letters, insert, moves, sweep, upset, used>>

(* Preflight stops a loop on risk or for want of an agent.                   *)
StopLoop(r) ==
    /\ pc[r] = "select" /\ job[r].kind = "loop" /\ Quit(r)
    /\ UNCHANGED <<plan, items, nodes, tasks, letters, insert, moves, sweep, upset, used>>

(* The batch of a loop: as many rounds as there are items ready now.         *)
CountRounds(r) ==
    /\ pc[r] = "count"
    /\ Goto(r, IF Created = {} THEN "letters" ELSE "pick")
    /\ job' = [job EXCEPT ![r].trees = Limit(Queue, BatchSize)]
    /\ UNCHANGED <<plan, items, nodes, tasks, letters, insert, moves, sweep, upset, used>>

(* A batch takes the next item that is ready now, as it is now.  A loop      *)
(* keeps its rounds in trees and its ids for the dead letters.               *)
Ended(r) ==
    IF job[r].kind = "loop"
    THEN /\ Goto(r, "letters")
         /\ job' = [job EXCEPT ![r] = [NoJob EXCEPT !.kind = "loop", !.ids = job[r].ids]]
    ELSE Quit(r)

Pick(r) ==
    LET i == IF Fixed(r) THEN Head(job[r].ids) ELSE Queue[1]
    IN  /\ pc[r] = "pick"
        /\ IF ~ Fixed(r) /\ Created = {}
           THEN Ended(r) /\ UNCHANGED upset
           ELSE /\ Goto(r, "guard")
                /\ job' = [job EXCEPT ![r].item = i,
                             ![r].linked = IF Fixed(r) THEN i \in job[r].links
                                           ELSE items[i].linked]
                /\ IF Held(i) # {} \/ items[i].status # "created"
                   THEN Upset({i}, "rival") ELSE UNCHANGED upset
        /\ UNCHANGED <<plan, items, nodes, tasks, letters, insert, moves, sweep, used>>

(* The mock agent, a missing agent, a bad worktree or uncommitted changes    *)
(* block the item before it is started; no task is created.                  *)
Refuse(r) ==
    /\ pc[r] = "guard" /\ Goto(r, "settle")
    /\ job' = [job EXCEPT ![r].task = 0]
    /\ UNCHANGED <<plan, items, nodes, tasks, letters, insert, moves, sweep, upset, used>>

(* The worktree a command runs its item in, and the one it records with the  *)
(* item: run-next records none.                                              *)
Tree(r) == IF job[r].kind = "rotated" THEN Head(job[r].trees) ELSE job[r].tree
Recorded(r) == IF job[r].kind = "next" THEN 0 ELSE Tree(r)

(* update_plan_item_status leaves the columns it is given no value for.      *)
Keeping(old, new) == IF new = 0 THEN old ELSE new

(* Only a rotation looks whether a tree is in use; --worktree takes any.     *)
Taken(i, tree) ==
    \E j \in DOMAIN items \ {i} : items[j].status = "in_progress" /\ items[j].worktree = tree

MarkItem(r) ==
    LET i == job[r].item
    IN  /\ pc[r] = "guard" /\ Goto(r, "mark_node")
        /\ items' = [items EXCEPT ![i].status = "in_progress",
                                  ![i].worktree = Keeping(@, Recorded(r))]
        /\ IF job[r].kind # "rotated" /\ Recorded(r) # 0 /\ Taken(i, Recorded(r))
           THEN Upset({i}, "chosen") ELSE UNCHANGED upset
        /\ UNCHANGED <<plan, nodes, tasks, letters, job, insert, moves, sweep, used>>

(* Mutant: without a task the node is left alone. *)
SetNodeOfTask(r, status) ==
    nodes' = IF job[r].linked /\ (status = "in_progress" \/ job[r].task # 0)
             THEN [nodes EXCEPT ![job[r].item] = status] ELSE nodes

(* The link is the one the item had when it was read.                        *)
SetNode(r, status) ==
    nodes' = IF job[r].linked THEN [nodes EXCEPT ![job[r].item] = status] ELSE nodes

MarkNode(r) ==
    /\ pc[r] = "mark_node" /\ Goto(r, "run") /\ SetNode(r, "in_progress")
    /\ UNCHANGED <<plan, items, tasks, letters, job, insert, moves, sweep, upset, used>>

RunTask(r, ok) ==
    /\ pc[r] = "run" /\ Goto(r, "settle") /\ Len(tasks) < MaxTasks
    /\ tasks' = Append(tasks, [item |-> job[r].item, ok |-> ok, tree |-> Tree(r)])
    /\ job' = [job EXCEPT ![r].task = Len(tasks) + 1]
    /\ UNCHANGED <<plan, items, nodes, letters, insert, moves, sweep, upset, used>>

(* Mutant: the supervisor's status is stored as it is. *)
SupervisorStatus(r) == IF job[r].task # 0 /\ tasks[job[r].task].ok THEN "done" ELSE "cancelled"

(* plan_item_status_from_supervisor.                                         *)
Result(r) == IF job[r].task # 0 /\ tasks[job[r].task].ok THEN "done" ELSE "blocked"

SettleItem(r) ==
    LET i == job[r].item
    IN  /\ pc[r] = "settle" /\ Goto(r, "settle_node")
        /\ items' = [items EXCEPT
                       ![i].status = Result(r),
                       ![i].task = Keeping(@, job[r].task),
                       ![i].worktree = Keeping(@, Recorded(r))]
        /\ UNCHANGED <<plan, nodes, tasks, letters, job, insert, moves, sweep, upset, used>>

(* The first item that is not done ends the command.                         *)
Rounds(r) == IF job[r].kind = "loop" THEN job[r].trees ELSE job[r].ids
SettleNode(r) ==
    /\ pc[r] = "settle_node" /\ SetNode(r, Result(r))
    /\ IF Result(r) = "done" /\ Len(Rounds(r)) > 1
       THEN /\ Goto(r, "pick")
            /\ job' = [job EXCEPT ![r].item = 0, ![r].task = 0, ![r].linked = FALSE,
                         ![r].ids = IF job[r].kind = "loop" THEN @ ELSE Tail(@),
                         ![r].trees = IF @ = << >> THEN @ ELSE Tail(@)]
       ELSE Ended(r)
    /\ UNCHANGED <<plan, items, tasks, letters, insert, moves, sweep, upset, used>>

(* Mutant: the letters an item has already are not looked at. *)
CheckLetterAnew(r) ==
    LET i == Head(job[r].ids)
    IN  /\ pc[r] = "letters"
        /\ IF job[r].ids = << >> THEN Quit(r)
           ELSE IF items[i].status = "blocked"
                THEN Goto(r, "letter") /\ UNCHANGED job
                ELSE job' = [job EXCEPT ![r].ids = Tail(@)] /\ UNCHANGED pc
        /\ UNCHANGED <<plan, items, nodes, tasks, letters, insert, moves, sweep, upset, used>>

(* A loop buries the items it had listed that are blocked now, once each.    *)
CheckLetter(r) ==
    LET i == Head(job[r].ids)
    IN  /\ pc[r] = "letters"
        /\ IF job[r].ids = << >> THEN Quit(r)
           ELSE IF items[i].status = "blocked" /\ letters[i] = 0
                THEN Goto(r, "letter") /\ UNCHANGED job
                ELSE job' = [job EXCEPT ![r].ids = Tail(@)] /\ UNCHANGED pc
        /\ UNCHANGED <<plan, items, nodes, tasks, letters, insert, moves, sweep, upset, used>>

AddLetter(r) ==
    LET i == Head(job[r].ids)
    IN  /\ pc[r] = "letter" /\ Goto(r, "letters")
        /\ letters' = [letters EXCEPT ![i] = @ + 1]
        /\ job' = [job EXCEPT ![r].ids = Tail(@)]
        /\ IF \E s \in Runners \ {r} : pc[s] = "letter" /\ Head(job[s].ids) = i
           THEN Upset({i}, "rival") ELSE UNCHANGED upset
        /\ UNCHANGED <<plan, items, nodes, tasks, insert, moves, sweep, used>>

Die(r) ==
    /\ pc[r] # "idle" /\ Quit(r) /\ Budget("commands", MaxCommands)
    /\ Upset({job[r].item} \ {0}, "death")
    /\ UNCHANGED <<plan, items, nodes, tasks, letters, insert, moves, sweep>>
-----------------------------------------------------------------------------
(* OPERATORS *)

(* reconcile lists the created items whose task is no longer in the file;    *)
(* recover-in-progress the items in progress that are old enough.  Both then *)
(* write the status item by item, whatever it has become.                    *)
IsStale(i) ==
    items[i].status = "created"
      /\ ~ (items[i].line \in DOMAIN plan /\ plan[items[i].line] = items[i].text)

ListSweep(to, ids) ==
    /\ Budget("commands", MaxCommands) /\ sweep.ids = {} /\ ids # {}
    /\ IF to = "skipped" THEN ids = {i \in DOMAIN items : IsStale(i)}
       ELSE ids \subseteq {i \in DOMAIN items : items[i].status = "in_progress"}
    /\ sweep' = [ids |-> ids, to |-> to]
    /\ UNCHANGED <<plan, items, nodes, tasks, letters, pc, job, insert, moves, upset>>

SweepItem(i) ==
    /\ i \in sweep.ids
    /\ items' = [items EXCEPT ![i].status = sweep.to]
    /\ sweep' = IF sweep.ids = {i} THEN NoSweep ELSE [sweep EXCEPT !.ids = @ \ {i}]
    /\ Upset({i}, "sweep")
    /\ UNCHANGED <<plan, nodes, tasks, letters, pc, job, insert, moves, used>>

(* Mutant: any item that is not under way can be requeued. *)
RequeueSettled(i) ==
    /\ i \in DOMAIN items /\ items[i].status # "in_progress" /\ Budget("commands", MaxCommands)
    /\ items' = [items EXCEPT ![i].status = "created", ![i].task = 0, ![i].worktree = 0]
    /\ Upset({i}, "operator")
    /\ UNCHANGED <<plan, nodes, tasks, letters, pc, job, insert, moves, sweep>>

Requeue(i) ==
    /\ Budget("commands", MaxCommands) /\ i \in DOMAIN items /\ items[i].status = "blocked"
    /\ items' = [items EXCEPT ![i].status = "created", ![i].task = 0, ![i].worktree = 0]
    /\ Upset({i}, "operator")
    /\ UNCHANGED <<plan, nodes, tasks, letters, pc, job, insert, moves, sweep>>

Skip(i) ==
    /\ i \in DOMAIN items /\ items[i].status \in {"created", "blocked"}
    /\ Budget("commands", MaxCommands)
    /\ items' = [items EXCEPT ![i].status = "skipped"]
    /\ IF Held(i) # {} THEN Upset({i}, "operator") ELSE UNCHANGED upset
    /\ UNCHANGED <<plan, nodes, tasks, letters, pc, job, insert, moves, sweep>>

(* The link is not seen by a command that has read the item already.         *)
Read(i) ==
    {r \in Runners : Fixed(r) /\ \E k \in DOMAIN job[r].ids : job[r].ids[k] = i}

LinkPlanGraph(i) ==
    /\ i \in DOMAIN items /\ ~ items[i].linked /\ Budget("commands", MaxCommands)
    /\ items' = [items EXCEPT ![i].linked = TRUE]
    /\ IF Held(i) # {} \/ Read(i) # {} \/ items[i].status # "created"
       THEN Upset({i}, "operator") ELSE UNCHANGED upset
    /\ UNCHANGED <<plan, nodes, tasks, letters, pc, job, insert, moves, sweep>>
-----------------------------------------------------------------------------
Step(r) ==
    \/ Select(r) \/ (\E i \in Ids : SelectItem(r, i)) \/ StopLoop(r) \/ CountRounds(r)
    \/ Pick(r) \/ Refuse(r) \/ MarkItem(r) \/ MarkNode(r)
    \/ \E ok \in BOOLEAN : RunTask(r, ok)
    \/ SettleItem(r) \/ SettleNode(r) \/ CheckLetter(r) \/ AddLetter(r)

Next ==
    \/ \E r \in Runners :
         \/ \E kind \in Kinds, tree \in Trees : Begin(r, kind, tree)
         \/ Step(r) \/ Die(r)
    \/ \E p \in Plans : EditPlan(p)
    \/ \E s \in Syncers : CompareWithPlan(s) \/ RecordItem(s) \/ StopSync(s)
    \/ ListMoves
    \/ \E i \in Ids :
         \/ \E line \in 1..MaxRows : RefreshRef(i, line)
         \/ SweepItem(i) \/ Requeue(i) \/ Skip(i) \/ LinkPlanGraph(i)
    \/ \E to \in {"skipped", "blocked"}, ids \in SUBSET Ids : ListSweep(to, ids)

Spec == Init /\ [][Next]_vars
-----------------------------------------------------------------------------
(* PROPERTIES *)

Calm(i, causes) == \A why \in causes : <<i, why>> \notin upset

(* What the queue says of an item is what happened to its task: an item is   *)
(* done only with a task of its own that ended done (and so was verified),   *)
(* and such a task makes its item done for good, unless its runner died, two *)
(* runners had it, or a sweep that listed it before wrote it after.          *)
DoneIsAccountedFor ==
    /\ \A i \in DOMAIN items : items[i].status = "done" =>
         items[i].task # 0 /\ tasks[items[i].task].item = i /\ tasks[items[i].task].ok
    /\ \A t \in DOMAIN tasks :
         LET i == tasks[t].item
         IN  tasks[t].ok /\ Calm(i, {"rival", "sweep", "death"}) =>
               \/ items[i].status = "done" /\ items[i].task = t
               \/ \E r \in Runners : pc[r] = "settle" /\ job[r].task = t

(* The root node of a linked item is where the item is, between commands     *)
(* and within them, but for the step that carries it over - unless an        *)
(* operator linked the item when a command had read it already, or it was    *)
(* no longer waiting.                                                        *)
NodesFollowItems ==
    \A i \in DOMAIN items :
      items[i].linked /\ Calm(i, {"rival", "sweep", "death", "operator"})
        /\ Held(i) \intersect {r \in Runners : pc[r] \in {"mark_node", "settle_node"}} = {}
      => CASE items[i].status = "created" -> nodes[i] = "pending"
           [] items[i].status = "skipped" -> nodes[i] \in {"pending", "blocked"}
           [] OTHER -> nodes[i] = items[i].status

(* A dead letter is written once for an item, for one that stays blocked     *)
(* until an operator takes it up again.                                      *)
DeadLettersAreDead ==
    \A i \in DOMAIN items : letters[i] > 0 =>
      /\ letters[i] = 1 \/ ~ Calm(i, {"rival"})
      /\ items[i].status \in {"blocked", "skipped"} \/ ~ Calm(i, {"rival", "operator", "sweep"})

(* No two items under way have the same worktree recorded, even one a dead   *)
(* runner left: a rotation avoids every tree in use, unless two runners were *)
(* at work when it selected.  A command given a --worktree looks at nothing, *)
(* so an item that one sent into a tree in use is apart.                     *)
WorktreesAreExclusive ==
    \A i, j \in DOMAIN items :
      /\ i # j /\ items[i].status = "in_progress" /\ items[j].status = "in_progress"
      /\ items[i].worktree # 0 /\ Calm(i, {"overlap", "chosen"}) /\ Calm(j, {"chosen"})
      => items[i].worktree # items[j].worktree

(* sync persists the tasks of a plan "without duplicates" (sync_plan_items), *)
(* from the first sync on, however often it is run and whatever became of    *)
(* the items - as far as it goes: two syncs at a time both insert what they  *)
(* find missing, and when an edit shifts the lines, tasks are queued again.  *)
QueuedOncePerPlan ==
    \A i, j \in DOMAIN items :
      Calm(i, {"plan", "syncs"}) /\ items[i].text = items[j].text => i = j
=============================================================================

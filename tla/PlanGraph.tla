----------------------------- MODULE PlanGraph -----------------------------
(***************************************************************************)
(* The PlanGraph: tables plan_graph_nodes, plan_graph_dependencies and     *)
(* replan_decisions of storage/db.py, with the commands of `ai-orch        *)
(* autopilot plan' that read and write them (cli/app.py): run-next,        *)
(* run-batch, recover, add-node, add-dependency and update-node.           *)
(* The queue (module PlanQueue) runs nodes its items are linked to as well.  *)
(*                                                                         *)
(* One graph.  A command opens a connection per query, so each list and    *)
(* each write is an action of its own; the cycle check of add-dependency   *)
(* is a read before the transaction of its insert begins.  The supervised  *)
(* task a node runs (module Supervisor) is one action with any outcome.    *)
(* Operators name their nodes otherwise than the code names repairs        *)
(* (`replan-<id>'), so node keys never clash.                              *)
(***************************************************************************)
EXTENDS Integers, Sequences, FiniteSets

CONSTANTS
    Executors,      \* processes of run-next, run-batch and the queue's runners
    Operators,      \* processes of add-dependency
    Overrides,      \* bound: statuses update-node is called with
    MaxNodes,       \* bound: nodes of the graph
    MaxItems,       \* bound: --max-items
    Batches,        \* how many nodes commands take: --max-items, or one for run-next
    MaxRuns,        \* bound: nodes picked, and the tasks they are run as
    MaxReplans,     \* bound: replan decisions
    MaxCommands     \* bound: commands of operators

NodeStatuses == {"pending", "in_progress", "done", "blocked", "failed", "skipped"}

ASSUME GraphAssumption ==
    /\ Overrides \subseteq NodeStatuses
    /\ MaxItems \in Nat \ {0} /\ Batches \subseteq 1..MaxItems
    /\ MaxNodes \in Nat /\ MaxRuns \in Nat /\ MaxReplans \in Nat /\ MaxCommands \in Nat

VARIABLES
    nodes,      \* plan_graph_nodes, in order of node_id
    edges,      \* plan_graph_dependencies: <<node_id, depends_on_node_id>>
    replans,    \* replan_decisions, in order of replan_id
    pc,         \* where each executor stands
    job,        \* each executor's local variables
    adding,     \* the edge an add-dependency has checked and not written yet
    stale,      \* nodes recover listed and has not written yet
    disturbed,  \* history: nodes that update-node or recover wrote, two executors picked,
                \* or the queue took before their dependencies were done
    late,       \* history: edges added when an executor had already judged the node
    died,       \* history: tasks whose executor died after they ended
    used        \* the bounds used up so far

vars == <<nodes, edges, replans, pc, job, adding, stale, disturbed, late, died, used>>

NodeIds == 1..MaxNodes

(* repairs: the replan whose follow-up the node is, 0 for a node an operator *)
(* added; source: its source_node_id.  A node is run as a task, numbered by  *)
(* the picks.  node = 0 stands for NULL in the link of a replan.               *)
Nodes == [status : NodeStatuses, repairs : 0..MaxReplans, source : 0..MaxNodes]
Replans == [task : 1..MaxRuns, node : 0..MaxNodes]

NoJob == [left |-> 0, seen |-> << >>, node |-> 0, task |-> 0, ok |-> FALSE]
None == <<0, 0>>

TypeOK ==
    /\ nodes \in Seq(Nodes) /\ Len(nodes) <= MaxNodes
    /\ edges \subseteq NodeIds \X NodeIds
    /\ replans \in Seq(Replans) /\ Len(replans) <= MaxReplans
    /\ pc \in [Executors -> {"idle", "list", "depend", "guard", "run", "link", "follow"}]
    /\ job \in [Executors -> [left : 0..MaxItems, seen : Seq(NodeStatuses),
                              node : 0..MaxNodes, task : 0..MaxRuns, ok : BOOLEAN]]
    /\ adding \in [Operators -> (NodeIds \X NodeIds) \union {None}]
    /\ stale \subseteq NodeIds /\ disturbed \subseteq NodeIds
    /\ late \subseteq edges /\ died \subseteq 1..MaxRuns
    /\ used \in [runs : 0..MaxRuns, commands : 0..MaxCommands]

Init ==
    /\ nodes = << >> /\ edges = {} /\ replans = << >>
    /\ pc = [e \in Executors |-> "idle"]
    /\ job = [e \in Executors |-> NoJob]
    /\ adding = [o \in Operators |-> None]
    /\ stale = {} /\ disturbed = {} /\ late = {} /\ died = {}
    /\ used = [runs |-> 0, commands |-> 0]

Goto(e, label) == pc' = [pc EXCEPT ![e] = label]
Budget(field, limit) ==
    used[field] < limit /\ used' = [used EXCEPT ![field] = @ + 1]
SetStatus(n, status) == nodes' = [nodes EXCEPT ![n].status = status]
DependsOn(n) == {m \in DOMAIN nodes : <<n, m>> \in edges}
-----------------------------------------------------------------------------
(* THE GRAPH *)

(* The nodes of S are all the WITH RECURSIVE query can reach from S.         *)
Closed(S) == \A d \in edges : d[1] \in S => d[2] \in S

(* Mutant: only direct dependencies are looked at. *)
ReachesAtOnce(m, n) == n = m \/ <<m, n>> \in edges

(* n is upstream of m, or is m: m depends on n, directly or not.             *)
Reaches(m, n) == \A S \in SUBSET (DOMAIN nodes) : m \in S /\ Closed(S) => n \in S

AddNode(deps) ==
    /\ Len(nodes) < MaxNodes /\ Budget("commands", MaxCommands)
    /\ deps \subseteq DOMAIN nodes
    /\ nodes' = Append(nodes, [status |-> "pending", repairs |-> 0, source |-> 0])
    /\ edges' = edges \union ({Len(nodes) + 1} \X deps)
    /\ UNCHANGED <<replans, pc, job, adding, stale, disturbed, late, died>>

CheckDependency(o, n, m) ==
    /\ adding[o] = None /\ Budget("commands", MaxCommands)
    /\ n \in DOMAIN nodes /\ m \in DOMAIN nodes /\ n # m
    /\ ~ Reaches(m, n)
    /\ adding' = [adding EXCEPT ![o] = <<n, m>>]
    /\ UNCHANGED <<nodes, edges, replans, pc, job, stale, disturbed, late, died>>

(* Has some executor judged n without seeing that it depends on m?           *)
Judged(n, m) ==
    \/ nodes[n].status # "pending"
    \/ \E e \in Executors :
         \/ pc[e] = "depend" /\ m \notin DOMAIN job[e].seen
         \/ pc[e] = "guard" /\ job[e].node = n

AddDependency(o) ==
    /\ adding[o] # None
    /\ edges' = edges \union {adding[o]}
    /\ late' = IF adding[o] \notin edges /\ Judged(adding[o][1], adding[o][2])
               THEN late \union {adding[o]} ELSE late
    /\ adding' = [adding EXCEPT ![o] = None]
    /\ UNCHANGED <<nodes, replans, pc, job, stale, disturbed, died, used>>

(* update-node takes any status there is; add-node --status is add-node and this.     *)
UpdateNode(n, status) ==
    /\ Budget("commands", MaxCommands)
    /\ n \in DOMAIN nodes /\ SetStatus(n, status)
    /\ disturbed' = disturbed \union {n}
    /\ UNCHANGED <<edges, replans, pc, job, adding, stale, late, died>>

(* recover --apply lists the nodes in progress that are old enough and then  *)
(* blocks them one by one, whatever they have become.                        *)
ListStale ==
    /\ stale = {} /\ Budget("commands", MaxCommands)
    /\ stale' \in SUBSET {n \in DOMAIN nodes : nodes[n].status = "in_progress"}
    /\ UNCHANGED <<nodes, edges, replans, pc, job, adding, disturbed, late, died>>

RecoverNode(n) ==
    /\ n \in stale /\ SetStatus(n, "blocked")
    /\ stale' = stale \ {n} /\ disturbed' = disturbed \union {n}
    /\ UNCHANGED <<edges, replans, pc, job, adding, late, died, used>>
-----------------------------------------------------------------------------
(* RUNNING NODES: run-next and run-batch *)

Begin(e, left) ==
    /\ pc[e] = "idle" /\ Goto(e, "list")
    /\ job' = [job EXCEPT ![e] = [NoJob EXCEPT !.left = left]]
    /\ UNCHANGED <<nodes, edges, replans, adding, stale, disturbed, late, died, used>>

ListNodes(e) ==
    /\ pc[e] = "list" /\ Goto(e, "depend")
    /\ job' = [job EXCEPT ![e].seen = [n \in DOMAIN nodes |-> nodes[n].status]]
    /\ UNCHANGED <<nodes, edges, replans, adding, stale, disturbed, late, died, used>>

(* Mutant: a blocked dependency is over. *)
BlockingUnsettled(seen, n) ==
    {m \in DOMAIN seen : <<n, m>> \in edges /\ seen[m] \notin {"done", "blocked"}}

(* Statuses are those seen in the first query, dependencies those of the     *)
(* second; a dependency on a node the first did not see is passed over.      *)
Blocking(seen, n) == {m \in DOMAIN seen : <<n, m>> \in edges /\ seen[m] # "done"}
Ready(seen) == {n \in DOMAIN seen : seen[n] = "pending" /\ Blocking(seen, n) = {}}
First(S) == {n \in S : \A m \in S : n <= m}

(* Node n is going to be run by e.  It is no longer in order when it has     *)
(* changed since it was looked at, when another executor runs it, or when it *)
(* waits for other nodes.                                                    *)
Rivals(e, n) ==
    {f \in Executors \ {e} : pc[f] \notin {"idle", "list", "depend"} /\ job[f].node = n}

Take(e, n, left, waits) ==
    /\ Goto(e, "guard") /\ Budget("runs", MaxRuns)
    /\ job' = [job EXCEPT ![e] = [NoJob EXCEPT !.left = left, !.node = n,
                                               !.task = used.runs + 1]]
    /\ disturbed' = IF nodes[n].status = "pending" /\ Rivals(e, n) = {} /\ waits = {}
                    THEN disturbed ELSE disturbed \union {n}
    /\ UNCHANGED <<nodes, edges, replans, adding, stale, late, died>>

(* list_ready_plan_graph_nodes(limit=1).                                     *)
Pick(e) ==
    LET ready == Ready(job[e].seen)
    IN  /\ pc[e] = "depend"
        /\ \/ /\ ready = {} /\ Goto(e, "idle")
              /\ job' = [job EXCEPT ![e] = NoJob]
              /\ UNCHANGED <<nodes, edges, replans, adding, stale, disturbed, late, died, used>>
           \/ \E n \in First(ready) : Take(e, n, job[e].left, {})

(* The queue runs an item that is linked to n, whatever n has become and     *)
(* whatever it waits for; what it writes to the node is what run-next does.  *)
TakeItem(e, n) ==
    /\ pc[e] = "idle" /\ n \in DOMAIN nodes
    /\ Take(e, n, 1, {m \in DependsOn(n) : nodes[m].status # "done"})

(* The worktree, the agent or uncommitted changes stop the run before it     *)
(* starts: the node is blocked, and so is the batch.                         *)
Refuse(e) ==
    /\ pc[e] = "guard" /\ Goto(e, "idle")
    /\ SetStatus(job[e].node, "blocked")
    /\ job' = [job EXCEPT ![e] = NoJob]
    /\ UNCHANGED <<edges, replans, adding, stale, disturbed, late, died, used>>

Start(e) ==
    /\ pc[e] = "guard" /\ Goto(e, "run")
    /\ SetStatus(job[e].node, "in_progress")
    /\ UNCHANGED <<edges, replans, job, adding, stale, disturbed, late, died, used>>

(* Mutant: the status of the task is stored as it is. *)
FinishAsTask(e, ok, count) ==
    /\ pc[e] = "run" /\ Goto(e, "link")
    /\ Len(replans) + count <= MaxReplans
    /\ SetStatus(job[e].node, IF ok THEN "done" ELSE "cancelled")
    /\ replans' = replans \o [r \in 1..count |-> [task |-> job[e].task, node |-> 0]]
    /\ job' = [job EXCEPT ![e].ok = ok]
    /\ UNCHANGED <<edges, adding, stale, disturbed, late, died, used>>

(* The task ran with `count' replan decisions, and the node takes its        *)
(* result, whatever it has become meanwhile.                                 *)
Finish(e, ok, count) ==
    /\ pc[e] = "run" /\ Goto(e, "link")
    /\ Len(replans) + count <= MaxReplans
    /\ SetStatus(job[e].node, IF ok THEN "done" ELSE "blocked")
    /\ replans' = replans \o [r \in 1..count |-> [task |-> job[e].task, node |-> 0]]
    /\ job' = [job EXCEPT ![e].ok = ok]
    /\ UNCHANGED <<edges, adding, stale, disturbed, late, died, used>>

(* Mutant: only a task that ended well has its replans linked. *)
LinkReplansOfDone(e) ==
    /\ pc[e] = "link" /\ Goto(e, "follow")
    /\ replans' = [r \in DOMAIN replans |->
                     IF replans[r].task = job[e].task /\ replans[r].node = 0 /\ job[e].ok
                     THEN [replans[r] EXCEPT !.node = job[e].node] ELSE replans[r]]
    /\ UNCHANGED <<nodes, edges, job, adding, stale, disturbed, late, died, used>>

LinkReplans(e) ==
    /\ pc[e] = "link" /\ Goto(e, "follow")
    /\ replans' = [r \in DOMAIN replans |->
                     IF replans[r].task = job[e].task /\ replans[r].node = 0
                     THEN [replans[r] EXCEPT !.node = job[e].node] ELSE replans[r]]
    /\ UNCHANGED <<nodes, edges, job, adding, stale, disturbed, late, died, used>>

(* create_replan_follow_up_nodes: a pending repair per linked replan of the  *)
(* task that has none, and its dependency on the node it repairs.            *)
Unrepaired(task) ==
    {r \in DOMAIN replans : replans[r].task = task /\ replans[r].node # 0
       /\ \A n \in DOMAIN nodes : nodes[n].repairs # r}

(* The enumeration of a set of replans in order of replan_id.                *)
InOrder(rs) ==
    {ids \in [1..Cardinality(rs) -> rs] :
       \A i, j \in 1..Cardinality(rs) : i < j => ids[i] < ids[j]}

FollowUp(e) ==
    LET rs == Unrepaired(job[e].task)
        next == job[e].left - 1
    IN  /\ pc[e] = "follow"
        /\ Len(nodes) + Cardinality(rs) <= MaxNodes
        /\ \E ids \in InOrder(rs) :
             /\ nodes' = nodes \o [i \in DOMAIN ids |->
                  [status |-> "pending", repairs |-> ids[i], source |-> replans[ids[i]].node]]
             /\ edges' = edges \union
                  {<<Len(nodes) + i, replans[ids[i]].node>> : i \in DOMAIN ids}
        /\ IF job[e].ok /\ next > 0
           THEN Goto(e, "list") /\ job' = [job EXCEPT ![e] = [NoJob EXCEPT !.left = next]]
           ELSE Goto(e, "idle") /\ job' = [job EXCEPT ![e] = NoJob]
        /\ UNCHANGED <<replans, adding, stale, disturbed, late, died, used>>

Die(e) ==
    /\ pc[e] # "idle" /\ Goto(e, "idle")
    /\ job' = [job EXCEPT ![e] = NoJob]
    /\ died' = IF pc[e] \in {"link", "follow"} THEN died \union {job[e].task} ELSE died
    /\ UNCHANGED <<nodes, edges, replans, adding, stale, disturbed, late, used>>
-----------------------------------------------------------------------------
Step(e) ==
    \/ ListNodes(e) \/ Pick(e) \/ (\E n \in NodeIds : TakeItem(e, n)) \/ Refuse(e) \/ Start(e)
    \/ \E ok \in BOOLEAN, count \in 0..2 : Finish(e, ok, count)
    \/ LinkReplans(e) \/ FollowUp(e)

Next ==
    \/ \E e \in Executors :
         \/ \E left \in Batches : Begin(e, left)
         \/ Step(e) \/ Die(e)
    \/ \E o \in Operators :
         \/ \E n, m \in NodeIds : CheckDependency(o, n, m)
         \/ AddDependency(o)
    \/ \E deps \in SUBSET (DOMAIN nodes) : AddNode(deps)
    \/ \E n \in NodeIds, status \in Overrides : UpdateNode(n, status)
    \/ ListStale
    \/ \E n \in NodeIds : RecoverNode(n)

Spec == Init /\ [][Next]_vars
-----------------------------------------------------------------------------
(* PROPERTIES *)

(* No set of nodes waits for itself: add-dependency refuses an edge that     *)
(* closes a cycle, and the repairs added meanwhile cannot close one either.  *)
(* It takes that operators add dependencies one at a time.                   *)
Acyclic ==
    \A S \in SUBSET (DOMAIN nodes) :
      S # {} => \E n \in S : \A m \in S : <<n, m>> \notin edges

(* Blocked nodes do not unblock dependents (V0_6_GOAL_PLAN, exit criteria of *)
(* readiness): a node under way or done has all the dependencies done that   *)
(* its executor could have seen, over all the queries and the other          *)
(* processes between, unless the node or the dependency was overridden,      *)
(* recovered, run by two executors, or run by the queue out of turn: an item *)
(* linked to a node starts it without a look at what the node depends on.    *)
StartsFollowDependencies ==
    \A n \in DOMAIN nodes \ disturbed :
      nodes[n].status \in {"in_progress", "done"} =>
        \A m \in DependsOn(n) \ disturbed : <<n, m>> \in late \/ nodes[m].status = "done"

(* Every replan decision of an ended task gets one repair node, which waits  *)
(* for the node the task was run for, or its executor died before.           *)
RepairsMatchReplans ==
    /\ \A r \in DOMAIN replans :
         \/ replans[r].task \in died
         \/ \E e \in Executors : pc[e] \in {"link", "follow"} /\ job[e].task = replans[r].task
         \/ \E n \in DOMAIN nodes : nodes[n].repairs = r
    /\ \A n \in DOMAIN nodes : nodes[n].repairs # 0 =>
         /\ nodes[n].source = replans[nodes[n].repairs].node
         /\ <<n, nodes[n].source>> \in edges
         /\ \A m \in DOMAIN nodes : nodes[m].repairs = nodes[n].repairs => m = n
=============================================================================

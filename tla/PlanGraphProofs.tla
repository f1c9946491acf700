-------------------------- MODULE PlanGraphProofs --------------------------
(***************************************************************************)
(* Proofs about PlanGraph, for any number of executors, nodes, runs,       *)
(* replans and commands.                                                   *)
(***************************************************************************)
EXTENDS PlanGraph, FiniteSetTheorems, TLAPS

(* What an executor knows of the nodes it has looked at.                     *)
ExecutorOK(e) ==
    /\ pc[e] = "depend" => DOMAIN job[e].seen \subseteq DOMAIN nodes
    /\ pc[e] \notin {"idle", "list", "depend"} =>
         job[e].node \in DOMAIN nodes /\ job[e].task \in 1..MaxRuns
    /\ pc[e] # "idle" => job[e].left # 0

(* Nodes are never removed, and only they are referred to.                   *)
RefsOK ==
    /\ edges \subseteq (DOMAIN nodes) \X (DOMAIN nodes)
    /\ \A r \in DOMAIN replans : replans[r].node \in DOMAIN nodes \union {0}
    /\ stale \subseteq DOMAIN nodes
    /\ \A o \in Operators : adding[o] # None => adding[o] \in (DOMAIN nodes) \X (DOMAIN nodes)
    /\ \A e \in Executors : ExecutorOK(e)

LEMMA NodesType ==
    ASSUME TypeOK
    PROVE  /\ Len(nodes) \in Nat /\ DOMAIN nodes = 1..Len(nodes) /\ DOMAIN nodes \subseteq NodeIds
           /\ \A n \in DOMAIN nodes : nodes[n] \in Nodes
           /\ Len(replans) \in Nat /\ DOMAIN replans = 1..Len(replans)
           /\ \A r \in DOMAIN replans : replans[r] \in Replans
  BY GraphAssumption DEF TypeOK, NodeIds

(* New edges may only lead from new nodes to old ones, or complete what an   *)
(* operator checked.                                                         *)
GrowsFromNew ==
    /\ DOMAIN nodes \subseteq DOMAIN nodes'
    /\ edges \subseteq edges'
    /\ \A d \in edges' \ edges : d[1] \notin DOMAIN nodes /\ d[2] \in DOMAIN nodes

LEMMA AcyclicGrows ==
    ASSUME Acyclic, edges \subseteq (DOMAIN nodes) \X (DOMAIN nodes), GrowsFromNew
    PROVE  Acyclic'
  <1> SUFFICES ASSUME NEW S \in SUBSET (DOMAIN nodes'), S # {}
               PROVE  \E n \in S : \A m \in S : <<n, m>> \notin edges'
    BY DEF Acyclic
  <1>1. CASE S \intersect DOMAIN nodes = {}
    <2>1. \A n, m \in S : <<n, m>> \notin edges'
      BY <1>1 DEF GrowsFromNew
    <2> QED
      BY <2>1
  <1>2. CASE S \intersect DOMAIN nodes # {}
    <2>1. PICK n \in S \intersect DOMAIN nodes :
                 \A m \in S \intersect DOMAIN nodes : <<n, m>> \notin edges
      BY <1>2 DEF Acyclic
    <2>2. \A m \in S : <<n, m>> \notin edges'
      BY <2>1 DEF GrowsFromNew
    <2> QED
      BY <2>1, <2>2
  <1> QED
    BY <1>1, <1>2

(* The edge an operator checked, on the graph it checked or a grown one.     *)
LEMMA AcyclicAdds ==
    ASSUME Acyclic, NEW n \in DOMAIN nodes, NEW m \in DOMAIN nodes, ~ Reaches(m, n),
           edges' = edges \union {<<n, m>>}, nodes' = nodes
    PROVE  Acyclic'
  <1>1. PICK C \in SUBSET (DOMAIN nodes) : m \in C /\ Closed(C) /\ n \notin C
    BY DEF Reaches
  <1> SUFFICES ASSUME NEW S \in SUBSET (DOMAIN nodes), S # {}
               PROVE  \E x \in S : \A y \in S : <<x, y>> \notin edges'
    BY DEF Acyclic
  <1>2. CASE S \intersect C = {}
    <2>1. PICK x \in S : \A y \in S : <<x, y>> \notin edges
      BY DEF Acyclic
    <2> QED
      BY <1>1, <1>2, <2>1
  <1>3. CASE S \intersect C # {}
    <2>1. PICK x \in S \intersect C : \A y \in S \intersect C : <<x, y>> \notin edges
      BY <1>3 DEF Acyclic
    <2>2. \A y \in S : <<x, y>> \notin edges
      BY <1>1, <2>1 DEF Closed
    <2> QED
      BY <1>1, <2>1, <2>2
  <1> QED
    BY <1>2, <1>3

(* The check of an operator stays good while the graph grows.                *)
LEMMA CheckStays ==
    ASSUME NEW n, NEW m, ~ Reaches(m, n), m \in DOMAIN nodes, GrowsFromNew
    PROVE  ~ Reaches(m, n)'
  <1>1. PICK C \in SUBSET (DOMAIN nodes) : m \in C /\ Closed(C) /\ n \notin C
    BY DEF Reaches
  <1>2. C \in SUBSET (DOMAIN nodes') /\ Closed(C)'
    BY <1>1 DEF GrowsFromNew, Closed
  <1> QED
    BY <1>1, <1>2 DEF Reaches
-----------------------------------------------------------------------------
(* Types and references *)

Labels == {"idle", "list", "depend", "guard", "run", "link", "follow"}
Jobs == [left : 0..MaxItems, seen : Seq(NodeStatuses), node : 0..MaxNodes,
         task : 0..MaxRuns, ok : BOOLEAN]

LEMMA JobsType == TypeOK => pc \in [Executors -> Labels] /\ job \in [Executors -> Jobs]
  BY DEF TypeOK, Labels, Jobs

LEMMA Concat ==
    ASSUME NEW T, NEW s \in Seq(T), NEW t \in Seq(T)
    PROVE  /\ s \o t \in Seq(T) /\ Len(s \o t) = Len(s) + Len(t)
           /\ DOMAIN s = 1..Len(s) /\ DOMAIN (s \o t) = 1..(Len(s) + Len(t))
           /\ \A i \in 1..Len(s) : (s \o t)[i] = s[i]
           /\ \A i \in 1..(Len(s) + Len(t)) :
                i > Len(s) => i - Len(s) \in 1..Len(t) /\ (s \o t)[i] = t[i - Len(s)]
  OBVIOUS

LEMMA NoJobType ==
    /\ NoJob \in Jobs
    /\ \A left \in 0..MaxItems : /\ [NoJob EXCEPT !.left = left] \in Jobs
                                 /\ [NoJob EXCEPT !.left = left].left = left
  <1>1. << >> \in Seq(NodeStatuses) /\ 0 \in 0..MaxItems /\ 0 \in 0..MaxNodes /\ 0 \in 0..MaxRuns
    BY GraphAssumption
  <1> QED
    BY <1>1 DEF NoJob, Jobs

LEMMA Moves ==
    ASSUME TypeOK, NEW e \in Executors, NEW l \in Labels, NEW j \in Jobs,
           Goto(e, l), job' = [job EXCEPT ![e] = j]
    PROVE  /\ pc' \in [Executors -> Labels] /\ job' \in [Executors -> Jobs]
           /\ pc'[e] = l /\ job'[e] = j
           /\ \A f \in Executors \ {e} : pc'[f] = pc[f] /\ job'[f] = job[f]
  BY JobsType DEF Goto

LEMMA StatusSet ==
    ASSUME TypeOK, NEW n \in DOMAIN nodes, NEW st \in NodeStatuses, SetStatus(n, st)
    PROVE  /\ nodes' \in Seq(Nodes) /\ Len(nodes') = Len(nodes)
           /\ DOMAIN nodes' = DOMAIN nodes
  <1> DEFINE r == [nodes[n] EXCEPT !.status = st]
  <1>1. nodes[n] \in Nodes
    BY NodesType
  <1>2. r \in Nodes
    BY <1>1 DEF Nodes
  <1>3. nodes' = [nodes EXCEPT ![n] = r]
    BY DEF SetStatus
  <1> HIDE DEF r
  <1> QED
    BY <1>2, <1>3 DEF TypeOK

(* The executors whose step it is not know what they knew.                   *)
LEMMA OthersKnow ==
    ASSUME RefsOK, DOMAIN nodes \subseteq DOMAIN nodes', NEW e \in Executors, ExecutorOK(e)',
           \A f \in Executors \ {e} : pc'[f] = pc[f] /\ job'[f] = job[f]
    PROVE  \A f \in Executors : ExecutorOK(f)'
  BY DEF RefsOK, ExecutorOK

LEMMA ExecutorsKnow ==
    ASSUME RefsOK, DOMAIN nodes \subseteq DOMAIN nodes', UNCHANGED <<pc, job>>
    PROVE  \A f \in Executors : ExecutorOK(f)'
  BY DEF RefsOK, ExecutorOK

LEMMA BudgetType ==
    ASSUME TypeOK, Budget("runs", MaxRuns) \/ Budget("commands", MaxCommands)
    PROVE  used' \in [runs : 0..MaxRuns, commands : 0..MaxCommands]
  <1>1. CASE Budget("runs", MaxRuns)
    <2>1. used.runs + 1 \in 0..MaxRuns /\ used \in [runs : 0..MaxRuns, commands : 0..MaxCommands]
      BY <1>1, GraphAssumption DEF TypeOK, Budget
    <2> QED
      BY <1>1, <2>1 DEF Budget
  <1>2. CASE Budget("commands", MaxCommands)
    <2>1. used.commands + 1 \in 0..MaxCommands
          /\ used \in [runs : 0..MaxRuns, commands : 0..MaxCommands]
      BY <1>2, GraphAssumption DEF TypeOK, Budget
    <2> QED
      BY <1>2, <2>1 DEF Budget
  <1> QED
    BY <1>1, <1>2

(* One lemma per action. *)

LEMMA AddNodeTypes ==
    ASSUME TypeOK, RefsOK, NEW deps, AddNode(deps)
    PROVE  TypeOK' /\ RefsOK' /\ GrowsFromNew
  <1> DEFINE r == [status |-> "pending", repairs |-> 0, source |-> 0]
  <1>1. r \in Nodes /\ nodes' = Append(nodes, r)
    BY GraphAssumption DEF Nodes, NodeStatuses, AddNode
  <1> HIDE DEF r
  <1>2. /\ nodes' \in Seq(Nodes) /\ Len(nodes') = Len(nodes) + 1 /\ Len(nodes') <= MaxNodes
        /\ DOMAIN nodes = 1..Len(nodes) /\ DOMAIN nodes' = 1..(Len(nodes) + 1)
        /\ DOMAIN nodes' \subseteq NodeIds /\ Len(nodes) \in Nat
    BY <1>1, GraphAssumption DEF AddNode, TypeOK, NodeIds
  <1>3. GrowsFromNew
    BY <1>2 DEF GrowsFromNew, AddNode
  <1>4. edges' \subseteq (DOMAIN nodes') \X (DOMAIN nodes')
    BY <1>2 DEF AddNode, RefsOK
  <1>5. TypeOK'
    BY <1>2, <1>4, BudgetType DEF AddNode, TypeOK
  <1>6. RefsOK'
    BY <1>2, <1>4, ExecutorsKnow DEF AddNode, RefsOK
  <1> QED
    BY <1>3, <1>5, <1>6

LEMMA CheckDependencyTypes ==
    ASSUME TypeOK, RefsOK, NEW o \in Operators, NEW n \in NodeIds, NEW m \in NodeIds,
           CheckDependency(o, n, m)
    PROVE  TypeOK' /\ RefsOK'
  <1>1. adding' \in [Operators -> (NodeIds \X NodeIds) \union {None}]
    BY DEF CheckDependency, TypeOK
  <1>2. TypeOK'
    BY <1>1, BudgetType DEF CheckDependency, TypeOK
  <1>3. \A p \in Operators : adding'[p] # None =>
          adding'[p] \in (DOMAIN nodes) \X (DOMAIN nodes)
    BY DEF CheckDependency, RefsOK, TypeOK
  <1> QED
    BY <1>2, <1>3, ExecutorsKnow DEF CheckDependency, RefsOK

LEMMA AddDependencyTypes ==
    ASSUME TypeOK, RefsOK, NEW o \in Operators, AddDependency(o)
    PROVE  TypeOK' /\ RefsOK'
  <1>1. /\ adding[o] \in (DOMAIN nodes) \X (DOMAIN nodes)
        /\ edges' \subseteq (DOMAIN nodes) \X (DOMAIN nodes)
    BY DEF AddDependency, RefsOK
  <1>2. /\ adding' \in [Operators -> (NodeIds \X NodeIds) \union {None}]
        /\ \A p \in Operators : adding'[p] # None =>
             adding'[p] \in (DOMAIN nodes) \X (DOMAIN nodes)
    BY DEF AddDependency, RefsOK, TypeOK
  <1>3. late' \subseteq edges'
    BY DEF AddDependency, TypeOK
  <1>4. TypeOK'
    BY <1>1, <1>2, <1>3, NodesType DEF AddDependency, TypeOK
  <1> QED
    BY <1>1, <1>2, <1>4, ExecutorsKnow DEF AddDependency, RefsOK

LEMMA UpdateNodeTypes ==
    ASSUME TypeOK, RefsOK, NEW n \in NodeIds, NEW st \in Overrides, UpdateNode(n, st)
    PROVE  TypeOK' /\ RefsOK' /\ DOMAIN nodes' = DOMAIN nodes
  <1>1. nodes' \in Seq(Nodes) /\ Len(nodes') = Len(nodes) /\ DOMAIN nodes' = DOMAIN nodes
    BY StatusSet, GraphAssumption DEF UpdateNode
  <1>2. TypeOK'
    BY <1>1, BudgetType DEF UpdateNode, TypeOK
  <1> QED
    BY <1>1, <1>2, ExecutorsKnow DEF UpdateNode, RefsOK

LEMMA RecoverTypes ==
    ASSUME TypeOK, RefsOK, ListStale \/ \E n \in NodeIds : RecoverNode(n)
    PROVE  TypeOK' /\ RefsOK' /\ DOMAIN nodes' = DOMAIN nodes
  <1>1. CASE ListStale
    <2>1. stale' \subseteq DOMAIN nodes /\ stale' \subseteq NodeIds
      BY <1>1, NodesType DEF ListStale
    <2>2. TypeOK'
      BY <1>1, <2>1, BudgetType DEF ListStale, TypeOK
    <2> QED
      BY <1>1, <2>1, <2>2, ExecutorsKnow DEF ListStale, RefsOK
  <1>2. ASSUME NEW n \in NodeIds, RecoverNode(n)
        PROVE  TypeOK' /\ RefsOK' /\ DOMAIN nodes' = DOMAIN nodes
    <2>1. nodes' \in Seq(Nodes) /\ Len(nodes') = Len(nodes) /\ DOMAIN nodes' = DOMAIN nodes
      BY <1>2, StatusSet DEF RecoverNode, RefsOK, NodeStatuses
    <2>2. TypeOK'
      BY <1>2, <2>1 DEF RecoverNode, TypeOK
    <2> QED
      BY <1>2, <2>1, <2>2, ExecutorsKnow DEF RecoverNode, RefsOK
  <1> QED
    BY <1>1, <1>2

LEMMA BeginTypes ==
    ASSUME TypeOK, RefsOK, NEW e \in Executors, NEW left \in 1..MaxItems, Begin(e, left)
    PROVE  TypeOK' /\ RefsOK'
  <1> DEFINE j == [NoJob EXCEPT !.left = left]
  <1>1. j \in Jobs /\ j.left = left /\ "list" \in Labels /\ left # 0
    BY NoJobType, GraphAssumption DEF Labels
  <1> HIDE DEF j
  <1>2. Goto(e, "list") /\ job' = [job EXCEPT ![e] = j]
    BY DEF Begin, j
  <1>3. /\ pc' \in [Executors -> Labels] /\ job' \in [Executors -> Jobs]
        /\ pc'[e] = "list" /\ job'[e] = j
        /\ \A f \in Executors \ {e} : pc'[f] = pc[f] /\ job'[f] = job[f]
    BY <1>1, <1>2, Moves
  <1>4. ExecutorOK(e)'
    BY <1>1, <1>3 DEF ExecutorOK
  <1>5. TypeOK'
    BY <1>3 DEF Begin, TypeOK, Labels, Jobs
  <1> QED
    BY <1>3, <1>4, <1>5, OthersKnow DEF Begin, RefsOK

LEMMA ListNodesTypes ==
    ASSUME TypeOK, RefsOK, NEW e \in Executors, ListNodes(e)
    PROVE  TypeOK' /\ RefsOK'
  <1> DEFINE s == [n \in DOMAIN nodes |-> nodes[n].status]
             j == [job[e] EXCEPT !.seen = s]
  <1>1. s \in Seq(NodeStatuses) /\ DOMAIN s = DOMAIN nodes
    <2>1. \A n \in 1..Len(nodes) : nodes[n].status \in NodeStatuses
      BY NodesType DEF Nodes
    <2> QED
      BY <2>1, NodesType
  <1> HIDE DEF s
  <1>2. j \in Jobs /\ j.seen = s /\ j.left = job[e].left /\ "depend" \in Labels
    BY <1>1, JobsType DEF Jobs, Labels
  <1>3. Goto(e, "depend") /\ job' = [job EXCEPT ![e] = j]
    BY DEF ListNodes, s
  <1> HIDE DEF j
  <1>4. /\ pc' \in [Executors -> Labels] /\ job' \in [Executors -> Jobs]
        /\ pc'[e] = "depend" /\ job'[e] = j
        /\ \A f \in Executors \ {e} : pc'[f] = pc[f] /\ job'[f] = job[f]
    BY <1>2, <1>3, Moves
  <1>5. ExecutorOK(e)'
    BY <1>1, <1>2, <1>4 DEF ExecutorOK, RefsOK, ListNodes
  <1>6. TypeOK'
    BY <1>4 DEF ListNodes, TypeOK, Labels, Jobs
  <1> QED
    BY <1>4, <1>5, <1>6, OthersKnow DEF ListNodes, RefsOK

(* The steps that leave an executor idle: it knows nothing then.             *)
LEMMA IdleTypes ==
    ASSUME TypeOK, RefsOK, NEW e \in Executors, Goto(e, "idle"), job' = [job EXCEPT ![e] = NoJob],
           DOMAIN nodes \subseteq DOMAIN nodes'
    PROVE  /\ pc' \in [Executors -> Labels] /\ job' \in [Executors -> Jobs]
           /\ \A f \in Executors : ExecutorOK(f)'
  <1>1. /\ pc' \in [Executors -> Labels] /\ job' \in [Executors -> Jobs]
        /\ pc'[e] = "idle"
        /\ \A f \in Executors \ {e} : pc'[f] = pc[f] /\ job'[f] = job[f]
    BY NoJobType, Moves DEF Labels
  <1>2. ExecutorOK(e)'
    BY <1>1 DEF ExecutorOK
  <1> QED
    BY <1>1, <1>2, OthersKnow

LEMMA DieTypes ==
    ASSUME TypeOK, RefsOK, NEW e \in Executors, Die(e)
    PROVE  TypeOK' /\ RefsOK'
  <1>1. /\ pc' \in [Executors -> Labels] /\ job' \in [Executors -> Jobs]
        /\ \A f \in Executors : ExecutorOK(f)'
    BY IdleTypes DEF Die
  <1>2. died' \subseteq 1..MaxRuns
    BY DEF Die, TypeOK, RefsOK, ExecutorOK
  <1>3. TypeOK'
    BY <1>1, <1>2 DEF Die, TypeOK, Labels, Jobs
  <1> QED
    BY <1>1, <1>3 DEF Die, RefsOK

LEMMA RefuseTypes ==
    ASSUME TypeOK, RefsOK, NEW e \in Executors, Refuse(e)
    PROVE  TypeOK' /\ RefsOK' /\ DOMAIN nodes' = DOMAIN nodes
  <1>1. nodes' \in Seq(Nodes) /\ Len(nodes') = Len(nodes) /\ DOMAIN nodes' = DOMAIN nodes
    BY StatusSet DEF Refuse, RefsOK, ExecutorOK, NodeStatuses
  <1>2. /\ pc' \in [Executors -> Labels] /\ job' \in [Executors -> Jobs]
        /\ \A f \in Executors : ExecutorOK(f)'
    BY <1>1, IdleTypes DEF Refuse
  <1>3. TypeOK'
    BY <1>1, <1>2 DEF Refuse, TypeOK, Labels, Jobs
  <1> QED
    BY <1>1, <1>2, <1>3 DEF Refuse, RefsOK

LEMMA TakeTypes ==
    ASSUME TypeOK, RefsOK, NEW e \in Executors, NEW n \in DOMAIN nodes, NEW left \in 1..MaxItems,
           NEW waits, Take(e, n, left, waits)
    PROVE  TypeOK' /\ RefsOK'
  <1>1. n \in NodeIds
    BY NodesType
  <1>2. PICK t \in 1..MaxRuns : t = used.runs + 1
    BY GraphAssumption, SMTT(30) DEF Take, Budget, TypeOK
  <1> DEFINE j == [NoJob EXCEPT !.left = left, !.node = n, !.task = t]
  <1>3. j \in Jobs /\ j.node = n /\ j.task = t /\ j.left = left /\ "guard" \in Labels
    <2>1. << >> \in Seq(NodeStatuses) /\ n \in 0..MaxNodes /\ t \in 0..MaxRuns
          /\ left \in 0..MaxItems
      BY <1>1, GraphAssumption DEF NodeIds
    <2> QED
      BY <2>1 DEF NoJob, Jobs, Labels
  <1>4. job' = [job EXCEPT ![e] = j]
    BY <1>2 DEF Take
  <1> HIDE DEF j
  <1>5. /\ pc' \in [Executors -> Labels] /\ job' \in [Executors -> Jobs]
        /\ pc'[e] = "guard" /\ job'[e] = j
        /\ \A f \in Executors \ {e} : pc'[f] = pc[f] /\ job'[f] = job[f]
    BY <1>3, <1>4, Moves DEF Take
  <1>6. ExecutorOK(e)'
    BY <1>2, <1>3, <1>5, GraphAssumption DEF ExecutorOK, Take
  <1>7. disturbed' \subseteq NodeIds
    BY <1>1 DEF Take, TypeOK
  <1>8. TypeOK'
    BY <1>5, <1>7, BudgetType DEF Take, TypeOK, Labels, Jobs
  <1> QED
    BY <1>5, <1>6, <1>8, OthersKnow DEF Take, RefsOK

(* The node an executor picks is one it has seen.                            *)
LEMMA PickedIsNode ==
    ASSUME TypeOK, RefsOK, NEW e \in Executors, pc[e] = "depend",
           NEW n \in First(Ready(job[e].seen))
    PROVE  n \in DOMAIN nodes /\ n \in DOMAIN job[e].seen /\ job[e].left \in 1..MaxItems
  <1>1. n \in DOMAIN job[e].seen
    BY DEF First, Ready
  <1>2. job[e].left \in 0..MaxItems /\ job[e].left # 0
    BY JobsType DEF RefsOK, ExecutorOK, Jobs
  <1> QED
    BY <1>1, <1>2, GraphAssumption DEF RefsOK, ExecutorOK

LEMMA PickTypes ==
    ASSUME TypeOK, RefsOK, NEW e \in Executors, Pick(e)
    PROVE  TypeOK' /\ RefsOK'
  <1>1. CASE /\ Goto(e, "idle") /\ job' = [job EXCEPT ![e] = NoJob]
             /\ UNCHANGED <<nodes, edges, replans, adding, stale, disturbed, late, died, used>>
    <2>1. /\ pc' \in [Executors -> Labels] /\ job' \in [Executors -> Jobs]
          /\ \A f \in Executors : ExecutorOK(f)'
      BY <1>1, IdleTypes
    <2>2. TypeOK'
      BY <1>1, <2>1 DEF TypeOK, Labels, Jobs
    <2> QED
      BY <1>1, <2>1, <2>2 DEF RefsOK
  <1>2. ASSUME NEW n \in First(Ready(job[e].seen)), Take(e, n, job[e].left, {})
        PROVE  TypeOK' /\ RefsOK'
    BY <1>2, PickedIsNode, TakeTypes DEF Pick
  <1> QED
    BY <1>1, <1>2 DEF Pick

LEMMA TakeItemTypes ==
    ASSUME TypeOK, RefsOK, NEW e \in Executors, NEW n, TakeItem(e, n)
    PROVE  TypeOK' /\ RefsOK'
  <1>1. 1 \in 1..MaxItems
    BY GraphAssumption
  <1> QED
    BY <1>1, TakeTypes DEF TakeItem

LEMMA StartTypes ==
    ASSUME TypeOK, RefsOK, NEW e \in Executors, Start(e)
    PROVE  TypeOK' /\ RefsOK' /\ DOMAIN nodes' = DOMAIN nodes
  <1>1. nodes' \in Seq(Nodes) /\ Len(nodes') = Len(nodes) /\ DOMAIN nodes' = DOMAIN nodes
    BY StatusSet DEF Start, RefsOK, ExecutorOK, NodeStatuses
  <1>2. pc' \in [Executors -> Labels] /\ pc' = [pc EXCEPT ![e] = "run"]
    BY JobsType DEF Start, Goto, Labels
  <1>3. \A f \in Executors : ExecutorOK(f)'
    <2>1. ExecutorOK(e)'
      BY <1>1, <1>2, JobsType DEF Start, RefsOK, ExecutorOK
    <2> QED
      BY <1>1, <1>2, <2>1, JobsType, OthersKnow DEF Start
  <1>4. TypeOK'
    BY <1>1, <1>2 DEF Start, TypeOK, Labels
  <1> QED
    BY <1>1, <1>3, <1>4 DEF Start, RefsOK

LEMMA FinishTypes ==
    ASSUME TypeOK, RefsOK, NEW e \in Executors, NEW ok \in BOOLEAN, NEW count \in 0..2,
           Finish(e, ok, count)
    PROVE  TypeOK' /\ RefsOK' /\ DOMAIN nodes' = DOMAIN nodes
  <1>1. nodes' \in Seq(Nodes) /\ Len(nodes') = Len(nodes) /\ DOMAIN nodes' = DOMAIN nodes
    <2>1. job[e].node \in DOMAIN nodes
      BY DEF Finish, RefsOK, ExecutorOK
    <2>2. PICK st \in NodeStatuses : SetStatus(job[e].node, st)
      BY DEF Finish, NodeStatuses
    <2> QED
      BY <2>1, <2>2, StatusSet
  <1>2. /\ replans' \in Seq(Replans) /\ Len(replans') <= MaxReplans
        /\ \A r \in DOMAIN replans' : replans'[r].node \in DOMAIN nodes \union {0}
    <2> DEFINE new == [r \in 1..count |-> [task |-> job[e].task, node |-> 0]]
    <2>1. job[e].task \in 1..MaxRuns /\ 0 \in 0..MaxNodes
      <3>1. pc[e] = "run"
        BY DEF Finish
      <3> QED
        BY <3>1, GraphAssumption DEF RefsOK, ExecutorOK
    <2>2. new \in Seq(Replans) /\ Len(new) = count /\ \A r \in 1..count : new[r].node = 0
      BY <2>1 DEF Replans
    <2> HIDE DEF new
    <2>3. replans' = replans \o new /\ Len(replans) + count <= MaxReplans
      BY DEF Finish, new
    <2>4. \A r \in DOMAIN replans' : replans'[r].node \in DOMAIN nodes \union {0}
      <3>1. \A r \in DOMAIN replans' :
              \/ r \in DOMAIN replans /\ replans'[r] = replans[r]
              \/ r - Len(replans) \in 1..count /\ replans'[r] = new[r - Len(replans)]
        <4>1. replans \in Seq(Replans)
          BY DEF TypeOK
        <4>2. /\ DOMAIN replans = 1..Len(replans)
              /\ DOMAIN replans' = 1..(Len(replans) + count)
              /\ \A r \in 1..Len(replans) : replans'[r] = replans[r]
              /\ \A r \in 1..(Len(replans) + count) : r > Len(replans) =>
                   r - Len(replans) \in 1..count /\ replans'[r] = new[r - Len(replans)]
          BY <2>2, <2>3, <4>1, Concat
        <4>3. Len(replans) \in Nat
          BY <4>1
        <4> QED
          BY <4>2, <4>3
      <3> QED
        BY <2>2, <3>1 DEF RefsOK
    <2> QED
      BY <2>2, <2>3, <2>4 DEF TypeOK
  <1> DEFINE j == [job[e] EXCEPT !.ok = ok]
  <1>3. j \in Jobs /\ j.node = job[e].node /\ j.task = job[e].task /\ j.left = job[e].left
        /\ "link" \in Labels
    BY JobsType DEF Jobs, Labels
  <1>4. Goto(e, "link") /\ job' = [job EXCEPT ![e] = j]
    BY DEF Finish
  <1> HIDE DEF j
  <1>5. /\ pc' \in [Executors -> Labels] /\ job' \in [Executors -> Jobs]
        /\ pc'[e] = "link" /\ job'[e] = j
        /\ \A f \in Executors \ {e} : pc'[f] = pc[f] /\ job'[f] = job[f]
    BY <1>3, <1>4, Moves
  <1>6. ExecutorOK(e)'
    BY <1>1, <1>3, <1>5 DEF ExecutorOK, RefsOK, Finish
  <1>7. TypeOK'
    BY <1>1, <1>2, <1>5 DEF Finish, TypeOK, Labels, Jobs
  <1> QED
    BY <1>1, <1>2, <1>5, <1>6, <1>7, OthersKnow DEF Finish, RefsOK

LEMMA LinkReplansTypes ==
    ASSUME TypeOK, RefsOK, NEW e \in Executors, LinkReplans(e)
    PROVE  TypeOK' /\ RefsOK'
  <1>1. job[e].node \in DOMAIN nodes /\ job[e].node \in 0..MaxNodes
    BY NodesType, GraphAssumption DEF LinkReplans, RefsOK, ExecutorOK, NodeIds
  <1> DEFINE new(r) == IF replans[r].task = job[e].task /\ replans[r].node = 0
                       THEN [replans[r] EXCEPT !.node = job[e].node] ELSE replans[r]
  <1>2. \A r \in 1..Len(replans) : new(r) \in Replans /\ new(r).node \in DOMAIN nodes \union {0}
    BY <1>1, NodesType DEF Replans, RefsOK
  <1>3. replans' = [r \in 1..Len(replans) |-> new(r)] /\ Len(replans) \in Nat
    BY NodesType DEF LinkReplans
  <1> HIDE DEF new
  <1>4. /\ replans' \in Seq(Replans) /\ Len(replans') = Len(replans)
        /\ \A r \in DOMAIN replans' : replans'[r].node \in DOMAIN nodes \union {0}
    BY <1>2, <1>3
  <1>5. pc' \in [Executors -> Labels] /\ pc' = [pc EXCEPT ![e] = "follow"]
    BY JobsType DEF LinkReplans, Goto, Labels
  <1>6. \A f \in Executors : ExecutorOK(f)'
    <2>1. ExecutorOK(e)'
      BY <1>5, JobsType DEF LinkReplans, RefsOK, ExecutorOK
    <2> QED
      BY <1>5, <2>1, JobsType, OthersKnow DEF LinkReplans
  <1>7. TypeOK'
    BY <1>4, <1>5 DEF LinkReplans, TypeOK, Labels
  <1> QED
    BY <1>4, <1>6, <1>7 DEF LinkReplans, RefsOK

(* Repairs are new nodes, and depend on nodes there were before.             *)
LEMMA FollowUpGrows ==
    ASSUME TypeOK, RefsOK, NEW e \in Executors, FollowUp(e)
    PROVE  /\ nodes' \in Seq(Nodes) /\ Len(nodes') <= MaxNodes
           /\ edges' \subseteq (DOMAIN nodes') \X (DOMAIN nodes')
           /\ DOMAIN nodes' \subseteq NodeIds /\ GrowsFromNew
  <1> DEFINE rs == Unrepaired(job[e].task)
  <1>1. rs \subseteq DOMAIN replans /\ Cardinality(rs) \in Nat
        /\ \A r \in rs : replans[r].node \in DOMAIN nodes
    <2>1. rs \subseteq 1..Len(replans) /\ IsFiniteSet(1..Len(replans))
      BY NodesType, FS_Interval DEF Unrepaired
    <2>2. IsFiniteSet(rs)
      BY <2>1, FS_Subset
    <2> QED
      BY <2>1, <2>2, FS_CardinalityType, NodesType DEF Unrepaired, RefsOK
  <1> DEFINE c == Cardinality(rs)
             row(r) == [status |-> "pending", repairs |-> r, source |-> replans[r].node]
             new(ids) == [i \in DOMAIN ids |-> row(ids[i])]
  <1>2. PICK ids \in InOrder(rs) :
          /\ nodes' = nodes \o new(ids)
          /\ edges' = edges \union {<<Len(nodes) + i, replans[ids[i]].node>> : i \in DOMAIN ids}
    BY DEF FollowUp
  <1>3. ids \in [1..c -> rs] /\ Len(nodes) + c <= MaxNodes
    BY <1>2 DEF InOrder, FollowUp
  <1>4. ASSUME NEW r \in rs PROVE row(r) \in Nodes
    <2>1. r \in 0..MaxReplans /\ replans[r].node \in 0..MaxNodes
      <3>1. r \in 1..Len(replans) /\ Len(replans) \in Nat /\ Len(replans) <= MaxReplans
            /\ replans[r] \in Replans
        BY <1>1, NodesType DEF TypeOK
      <3> QED
        BY <3>1, GraphAssumption DEF Replans
    <2> QED
      BY <2>1 DEF Nodes, NodeStatuses
  <1> HIDE DEF rs, row
  <1>5. PICK q \in Seq(Nodes) : Len(q) = c /\ nodes' = nodes \o q
    <2>1. new(ids) \in Seq(Nodes) /\ Len(new(ids)) = c
      BY <1>1, <1>3, <1>4
    <2> HIDE DEF new, c
    <2> QED
      BY <1>2, <2>1
  <1> HIDE DEF new, c
  <1>6. /\ nodes' \in Seq(Nodes) /\ Len(nodes') = Len(nodes) + c /\ c \in Nat
        /\ DOMAIN nodes = 1..Len(nodes) /\ DOMAIN nodes' = 1..(Len(nodes) + c)
        /\ Len(nodes) \in Nat
    <2>1. nodes \in Seq(Nodes)
      BY DEF TypeOK
    <2>2. c \in Nat
      BY <1>1 DEF c
    <2>3. /\ nodes \o q \in Seq(Nodes) /\ Len(nodes \o q) = Len(nodes) + c
          /\ DOMAIN nodes = 1..Len(nodes) /\ DOMAIN (nodes \o q) = 1..(Len(nodes) + c)
      BY <1>5, <2>1, Concat
    <2> QED
      BY <1>5, <2>1, <2>2, <2>3
  <1>7. \A d \in edges' \ edges : d \in ((Len(nodes) + 1)..(Len(nodes) + c)) \X (DOMAIN nodes)
    BY <1>1, <1>2, <1>3, <1>6
  <1>8. DOMAIN nodes' \subseteq NodeIds
    BY <1>3, <1>6, GraphAssumption DEF NodeIds
  <1>9. GrowsFromNew
    BY <1>2, <1>6, <1>7 DEF GrowsFromNew
  <1>10. edges' \subseteq (DOMAIN nodes') \X (DOMAIN nodes')
    BY <1>6, <1>7 DEF RefsOK
  <1> QED
    BY <1>3, <1>6, <1>8, <1>9, <1>10

LEMMA FollowUpTypes ==
    ASSUME TypeOK, RefsOK, NEW e \in Executors, FollowUp(e)
    PROVE  TypeOK' /\ RefsOK'
  <1>1. /\ nodes' \in Seq(Nodes) /\ Len(nodes') <= MaxNodes
        /\ edges' \subseteq (DOMAIN nodes') \X (DOMAIN nodes')
        /\ DOMAIN nodes' \subseteq NodeIds
        /\ edges \subseteq edges' /\ DOMAIN nodes \subseteq DOMAIN nodes'
    BY FollowUpGrows DEF GrowsFromNew
  <1>2. /\ pc' \in [Executors -> Labels] /\ job' \in [Executors -> Jobs]
        /\ \A f \in Executors : ExecutorOK(f)'
    <2>1. CASE Goto(e, "idle") /\ job' = [job EXCEPT ![e] = NoJob]
      BY <1>1, <2>1, IdleTypes
    <2>2. ASSUME job[e].left - 1 > 0, Goto(e, "list"),
                 job' = [job EXCEPT ![e] = [NoJob EXCEPT !.left = job[e].left - 1]]
          PROVE  /\ pc' \in [Executors -> Labels] /\ job' \in [Executors -> Jobs]
                 /\ \A f \in Executors : ExecutorOK(f)'
      <3>1. PICK next \in 0..MaxItems : next = job[e].left - 1 /\ next # 0
        BY <2>2, JobsType, GraphAssumption DEF Jobs
      <3> DEFINE j == [NoJob EXCEPT !.left = next]
      <3>2. j \in Jobs /\ j.left = next /\ "list" \in Labels
        BY NoJobType DEF Labels
      <3>3. job' = [job EXCEPT ![e] = j]
        BY <2>2, <3>1
      <3> HIDE DEF j
      <3>4. /\ pc' \in [Executors -> Labels] /\ job' \in [Executors -> Jobs]
            /\ pc'[e] = "list" /\ job'[e] = j
            /\ \A f \in Executors \ {e} : pc'[f] = pc[f] /\ job'[f] = job[f]
        BY <2>2, <3>2, <3>3, Moves
      <3>5. ExecutorOK(e)'
        BY <3>1, <3>2, <3>4 DEF ExecutorOK
      <3> QED
        BY <1>1, <3>4, <3>5, OthersKnow
    <2> QED
      BY <2>1, <2>2 DEF FollowUp
  <1>3. TypeOK'
    BY <1>1, <1>2 DEF FollowUp, TypeOK, Labels, Jobs
  <1> QED
    BY <1>1, <1>2, <1>3 DEF FollowUp, RefsOK
-----------------------------------------------------------------------------
(* The invariant *)

LEMMA InitTypes == Init => TypeOK /\ RefsOK
  <1> SUFFICES ASSUME Init PROVE TypeOK /\ RefsOK
    OBVIOUS
  <1>1. /\ nodes \in Seq(Nodes) /\ Len(nodes) <= MaxNodes /\ DOMAIN nodes = {}
        /\ replans \in Seq(Replans) /\ Len(replans) <= MaxReplans /\ DOMAIN replans = {}
    BY GraphAssumption DEF Init
  <1>2. pc \in [Executors -> Labels] /\ job \in [Executors -> Jobs]
    BY NoJobType DEF Init, Labels
  <1>3. used \in [runs : 0..MaxRuns, commands : 0..MaxCommands]
    BY GraphAssumption DEF Init
  <1>4. TypeOK
    BY <1>1, <1>2, <1>3 DEF Init, TypeOK, Labels, Jobs
  <1>5. RefsOK
    BY <1>1 DEF Init, RefsOK, ExecutorOK
  <1> QED
    BY <1>4, <1>5

(* What the steps of an executor do to the graph.                            *)
LEMMA StepTypes ==
    ASSUME TypeOK, RefsOK, NEW e \in Executors,
           (\E left \in Batches : Begin(e, left)) \/ Step(e) \/ Die(e)
    PROVE  /\ TypeOK' /\ RefsOK' /\ UNCHANGED adding
           /\ \/ GrowsFromNew
              \/ DOMAIN nodes' = DOMAIN nodes /\ UNCHANGED edges
  <1>1. CASE (\E left \in Batches : Begin(e, left)) \/ ListNodes(e) \/ Pick(e)
             \/ (\E n \in NodeIds : TakeItem(e, n)) \/ LinkReplans(e) \/ Die(e)
    <2>1. UNCHANGED <<nodes, edges, adding>>
      BY <1>1 DEF Begin, ListNodes, Pick, TakeItem, Take, LinkReplans, Die
    <2>2. Batches \subseteq 1..MaxItems
      BY GraphAssumption
    <2> QED
      BY <1>1, <2>1, <2>2, BeginTypes, ListNodesTypes, PickTypes, TakeItemTypes,
         LinkReplansTypes, DieTypes
  <1>2. CASE Refuse(e) \/ Start(e) \/ \E ok \in BOOLEAN, count \in 0..2 : Finish(e, ok, count)
    <2>1. UNCHANGED <<edges, adding>>
      BY <1>2 DEF Refuse, Start, Finish
    <2> QED
      BY <1>2, <2>1, RefuseTypes, StartTypes, FinishTypes
  <1>3. CASE FollowUp(e)
    <2>1. UNCHANGED adding
      BY <1>3 DEF FollowUp
    <2> QED
      BY <1>3, <2>1, FollowUpTypes, FollowUpGrows
  <1> QED
    BY <1>1, <1>2, <1>3 DEF Step

LEMMA TypesStay == TypeOK /\ RefsOK /\ [Next]_vars => TypeOK' /\ RefsOK'
  <1> SUFFICES ASSUME TypeOK, RefsOK, [Next]_vars PROVE TypeOK' /\ RefsOK'
    OBVIOUS
  <1>1. CASE UNCHANGED vars
    BY <1>1, ExecutorsKnow DEF vars, TypeOK, RefsOK
  <1>2. CASE Next
    BY <1>2, StepTypes, AddNodeTypes, CheckDependencyTypes, AddDependencyTypes,
       UpdateNodeTypes, RecoverTypes DEF Next
  <1> QED
    BY <1>1, <1>2

LEMMA TypesHold == Spec => [](TypeOK /\ RefsOK)
  BY InitTypes, TypesStay, PTL DEF Spec

(* Acyclic is not inductive alone: the edge an add-dependency has checked    *)
(* and not written yet must still close no cycle when it is written.         *)
CheckedOK ==
    \A o \in Operators : adding[o] # None => ~ Reaches(adding[o][2], adding[o][1])

LEMMA AcyclicStays ==
    ASSUME \A o, p \in Operators : o = p,
           TypeOK, RefsOK, Acyclic, CheckedOK, [Next]_vars
    PROVE  Acyclic' /\ CheckedOK'
  <1>1. ASSUME GrowsFromNew, UNCHANGED adding PROVE Acyclic' /\ CheckedOK'
    BY <1>1, AcyclicGrows, CheckStays DEF RefsOK, CheckedOK
  <1>2. ASSUME DOMAIN nodes' = DOMAIN nodes, UNCHANGED edges PROVE GrowsFromNew
    BY <1>2 DEF GrowsFromNew
  <1>3. CASE UNCHANGED vars
    BY <1>1, <1>2, <1>3 DEF vars
  <1>4. ASSUME NEW e \in Executors,
               (\E left \in Batches : Begin(e, left)) \/ Step(e) \/ Die(e)
        PROVE  Acyclic' /\ CheckedOK'
    BY <1>1, <1>2, <1>4, StepTypes
  <1>5. ASSUME NEW deps, AddNode(deps) PROVE Acyclic' /\ CheckedOK'
    BY <1>1, <1>5, AddNodeTypes DEF AddNode
  <1>6. CASE (\E n \in NodeIds, st \in Overrides : UpdateNode(n, st))
             \/ ListStale \/ \E n \in NodeIds : RecoverNode(n)
    <2>1. UNCHANGED <<edges, adding>>
      BY <1>6 DEF UpdateNode, ListStale, RecoverNode
    <2> QED
      BY <1>1, <1>2, <1>6, <2>1, UpdateNodeTypes, RecoverTypes
  <1>7. ASSUME NEW o \in Operators, NEW n \in NodeIds, NEW m \in NodeIds, CheckDependency(o, n, m)
        PROVE  Acyclic' /\ CheckedOK'
    <2>1. ~ Reaches(m, n) /\ UNCHANGED <<nodes, edges>>
          /\ adding' = [adding EXCEPT ![o] = <<n, m>>]
      BY <1>7 DEF CheckDependency
    <2>2. adding' \in [Operators -> {<<n, m>>}]
      BY <2>1 DEF TypeOK
    <2> QED
      BY <2>1, <2>2 DEF Acyclic, CheckedOK, Reaches, Closed
  <1>8. ASSUME NEW o \in Operators, AddDependency(o) PROVE Acyclic' /\ CheckedOK'
    <2>1. /\ adding[o] \in (DOMAIN nodes) \X (DOMAIN nodes)
          /\ ~ Reaches(adding[o][2], adding[o][1])
          /\ edges' = edges \union {adding[o]} /\ nodes' = nodes
          /\ adding' = [adding EXCEPT ![o] = None]
      BY <1>8 DEF AddDependency, RefsOK, CheckedOK
    <2>2. \A p \in Operators : adding'[p] = None
      BY <2>1 DEF TypeOK
    <2> QED
      BY <2>1, <2>2, AcyclicAdds DEF CheckedOK
  <1> QED
    BY <1>3, <1>4, <1>5, <1>6, <1>7, <1>8 DEF Next

(* Every variable keeps its type, the counters of the bounds included.       *)
THEOREM GraphTypeCorrect == Spec => []TypeOK
  BY TypesHold, PTL

(* add-dependency, add-node and the repairs of replans never close a cycle,  *)
(* as long as one operator at a time runs add-dependency.                    *)
THEOREM GraphAcyclic ==
    ASSUME \A o, p \in Operators : o = p PROVE Spec => []Acyclic
  <1>1. Init => Acyclic /\ CheckedOK
    BY DEF Init, Acyclic, CheckedOK
  <1>2. TypeOK /\ RefsOK /\ Acyclic /\ CheckedOK /\ [Next]_vars => Acyclic' /\ CheckedOK'
    BY AcyclicStays
  <1> QED
    BY <1>1, <1>2, TypesHold, PTL DEF Spec
-----------------------------------------------------------------------------
(* What an executor saw still stands, and nobody else runs the node it runs, *)
(* as long as the nodes in question are left alone.                          *)

Running(e) == pc[e] \notin {"idle", "list", "depend"}

DependsOnDone(n) ==
    \A m \in DependsOn(n) \ disturbed : <<n, m>> \in late \/ nodes[m].status = "done"

SeenOK(e) ==
    pc[e] = "depend" =>
      /\ \A m \in DOMAIN job[e].seen :
           job[e].seen[m] = "done" => m \in disturbed \/ nodes[m].status = "done"
      /\ \A d \in edges \ late : d[1] \in DOMAIN job[e].seen => d[2] \in DOMAIN job[e].seen

RunningOK(e) ==
    Running(e) /\ job[e].node \notin disturbed =>
      /\ \A f \in Executors : Running(f) /\ job[f].node = job[e].node => f = e
      /\ pc[e] = "guard" =>
           nodes[job[e].node].status = "pending" /\ DependsOnDone(job[e].node)
      /\ pc[e] = "run" => nodes[job[e].node].status = "in_progress"

StartInv ==
    /\ StartsFollowDependencies
    /\ \A e \in Executors : SeenOK(e) /\ RunningOK(e)
(* What the executors of X may do to the graph, beside growing it: set the   *)
(* status of the node each runs.                                             *)
Frame(X) ==
    /\ disturbed \subseteq disturbed' /\ late \subseteq late'
    /\ DOMAIN nodes \subseteq DOMAIN nodes'
    /\ \A f \in Executors \ X : pc'[f] = pc[f] /\ job'[f] = job[f]
    /\ \A m \in DOMAIN nodes \ disturbed' :
         \/ nodes'[m].status = nodes[m].status
         \/ \E e \in X : pc[e] \in {"guard", "run"} /\ job[e].node = m
    /\ \A m \in DOMAIN nodes' \ DOMAIN nodes : nodes'[m].status = "pending"
    /\ \A d \in edges' \ late' :
         \/ d \in edges
         \/ d[1] \notin DOMAIN nodes
         \/ ~ Judged(d[1], d[2])
    /\ \A e \in X : Running(e)' =>
         \/ Running(e) /\ job'[e].node = job[e].node
         \/ job'[e].node \in disturbed'
         \/ \A f \in Executors \ {e} : Running(f) => job[f].node # job'[e].node

LEMMA DoneStays ==
    ASSUME StartInv, NEW X \in SUBSET Executors, Frame(X), NEW m \in DOMAIN nodes,
           nodes[m].status = "done"
    PROVE  nodes'[m].status = "done" \/ m \in disturbed'
  <1> SUFFICES ASSUME m \notin disturbed' PROVE nodes'[m].status = "done"
    OBVIOUS
  <1>1. ~ \E e \in X : pc[e] \in {"guard", "run"} /\ job[e].node = m
    <2> SUFFICES ASSUME NEW e \in X, pc[e] \in {"guard", "run"}, job[e].node = m PROVE FALSE
      OBVIOUS
    <2>1. Running(e) /\ job[e].node \notin disturbed
      BY DEF Running, Frame
    <2> QED
      BY <2>1 DEF StartInv, RunningOK
  <1> QED
    BY <1>1 DEF Frame

(* A node under way or done, or about to be started, gets no dependency that *)
(* is not done, but late ones.                                               *)
Entitled(n) ==
    /\ n \in DOMAIN nodes /\ DependsOnDone(n)
    /\ nodes[n].status # "pending" \/ \E e \in Executors : pc[e] = "guard" /\ job[e].node = n

LEMMA DependsStay ==
    ASSUME RefsOK, StartInv, NEW X \in SUBSET Executors, Frame(X), NEW n, Entitled(n)
    PROVE  DependsOnDone(n)'
  <1> SUFFICES ASSUME NEW m \in DOMAIN nodes' \ disturbed', <<n, m>> \in edges' \ late'
               PROVE  nodes'[m].status = "done"
    BY DEF DependsOnDone, DependsOn
  <1>1. <<n, m>> \in edges
    BY DEF Frame, Entitled, Judged
  <1>2. m \in DOMAIN nodes /\ <<n, m>> \notin late /\ m \notin disturbed
    BY <1>1 DEF RefsOK, Frame
  <1>3. nodes[m].status = "done"
    BY <1>1, <1>2 DEF Entitled, DependsOnDone, DependsOn
  <1> QED
    BY <1>2, <1>3, DoneStays

LEMMA OthersSee ==
    ASSUME TypeOK, RefsOK, StartInv, NEW X \in SUBSET Executors, Frame(X),
           NEW f \in Executors \ X
    PROVE  SeenOK(f)'
  <1> SUFFICES ASSUME pc[f] = "depend" PROVE SeenOK(f)'
    BY DEF SeenOK, Frame
  <1>1. DOMAIN job[f].seen \subseteq DOMAIN nodes /\ SeenOK(f)
    BY DEF RefsOK, ExecutorOK, StartInv
  <1>2. ASSUME NEW m \in DOMAIN job[f].seen, job[f].seen[m] = "done"
        PROVE  m \in disturbed' \/ nodes'[m].status = "done"
    <2>1. m \in disturbed \/ nodes[m].status = "done"
      BY <1>1, <1>2 DEF SeenOK
    <2> QED
      BY <1>1, <2>1, DoneStays DEF Frame
  <1>3. ASSUME NEW d \in edges' \ late', d[1] \in DOMAIN job[f].seen
        PROVE  d[2] \in DOMAIN job[f].seen
    <2>1. CASE d \in edges
      BY <1>1, <1>3, <2>1 DEF SeenOK, Frame
    <2>2. CASE ~ Judged(d[1], d[2])
      BY <2>2 DEF Judged
    <2> QED
      BY <1>1, <1>3, <2>1, <2>2 DEF Frame
  <1> QED
    BY <1>2, <1>3 DEF SeenOK, Frame

LEMMA OthersRun ==
    ASSUME TypeOK, RefsOK, StartInv, NEW X \in SUBSET Executors, Frame(X),
           NEW f \in Executors \ X
    PROVE  RunningOK(f)'
  <1> SUFFICES ASSUME Running(f), job[f].node \notin disturbed' PROVE RunningOK(f)'
    BY DEF RunningOK, Running, Frame
  <1> DEFINE n == job[f].node
  <1>1. pc'[f] = pc[f] /\ job'[f] = job[f] /\ n \notin disturbed /\ n \in DOMAIN nodes
        /\ RunningOK(f)
    BY DEF Frame, RefsOK, ExecutorOK, Running, StartInv
  <1>2. ASSUME NEW g \in Executors, Running(g)', job'[g].node = n PROVE g = f
    <2>1. CASE g \in X
      BY <1>1, <1>2, <2>1 DEF Frame, RunningOK
    <2>2. CASE g \notin X
      BY <1>1, <1>2, <2>2 DEF Frame, RunningOK, Running
    <2> QED
      BY <2>1, <2>2
  <1>3. nodes'[n].status = nodes[n].status
    <2>1. ~ \E e \in X : pc[e] \in {"guard", "run"} /\ job[e].node = n
      BY <1>1 DEF RunningOK, Running
    <2> QED
      BY <1>1, <2>1 DEF Frame
  <1>4. pc[f] = "guard" => DependsOnDone(n)'
    BY <1>1, DependsStay DEF RunningOK, Entitled
  <1> QED
    BY <1>1, <1>2, <1>3, <1>4 DEF RunningOK

(* What is left to show of a step of executor e.                             *)
LEMMA StartFrame ==
    ASSUME TypeOK, RefsOK, StartInv, NEW X \in SUBSET Executors, Frame(X),
           \A e \in X : SeenOK(e)' /\ RunningOK(e)',
           \A e \in X : pc[e] \in {"guard", "run"} /\ job[e].node \notin disturbed'
                        /\ nodes'[job[e].node].status \in {"in_progress", "done"} =>
                          \/ nodes'[job[e].node].status = nodes[job[e].node].status
                          \/ Entitled(job[e].node)
    PROVE  StartInv'
  <1>1. \A f \in Executors : SeenOK(f)' /\ RunningOK(f)'
    BY OthersSee, OthersRun
  <1>2. ASSUME NEW n \in DOMAIN nodes' \ disturbed', nodes'[n].status \in {"in_progress", "done"}
        PROVE  DependsOnDone(n)'
    <2>1. n \in DOMAIN nodes /\ n \notin disturbed
      BY <1>2 DEF Frame
    <2>2. CASE nodes'[n].status = nodes[n].status
      <3>1. Entitled(n)
        BY <1>2, <2>1, <2>2 DEF Entitled, DependsOnDone, StartInv, StartsFollowDependencies
      <3> QED
        BY <3>1, DependsStay
    <2>3. CASE nodes'[n].status # nodes[n].status
      <3>1. Entitled(n)
        BY <1>2, <2>1, <2>3 DEF Frame
      <3> QED
        BY <3>1, DependsStay
    <2> QED
      BY <2>2, <2>3
  <1> QED
    BY <1>1, <1>2 DEF StartInv, StartsFollowDependencies, DependsOnDone

(* The steps that move no executor.                                          *)
LEMMA StillFrame ==
    ASSUME UNCHANGED <<pc, job>>, disturbed \subseteq disturbed', late \subseteq late',
           DOMAIN nodes \subseteq DOMAIN nodes',
           \A m \in DOMAIN nodes \ disturbed' : nodes'[m].status = nodes[m].status,
           \A m \in DOMAIN nodes' \ DOMAIN nodes : nodes'[m].status = "pending",
           \A d \in edges' \ late' :
             d \in edges \/ d[1] \notin DOMAIN nodes \/ ~ Judged(d[1], d[2])
    PROVE  Frame({})
  BY DEF Frame

(* The steps of an executor that leave the graph as it is.                   *)
LEMMA ReadFrame ==
    ASSUME NEW e \in Executors, UNCHANGED <<nodes, edges, late>>, disturbed \subseteq disturbed',
           \A f \in Executors \ {e} : pc'[f] = pc[f] /\ job'[f] = job[f],
           Running(e)' =>
             \/ Running(e) /\ job'[e].node = job[e].node
             \/ job'[e].node \in disturbed'
             \/ \A f \in Executors \ {e} : Running(f) => job[f].node # job'[e].node
    PROVE  Frame({e})
  BY DEF Frame

LEMMA OperatorStarts ==
    ASSUME TypeOK, RefsOK, StartInv,
           \/ \E deps : AddNode(deps)
           \/ \E o \in Operators :
                \/ \E n, m \in NodeIds : CheckDependency(o, n, m)
                \/ AddDependency(o)
           \/ \E n \in NodeIds, st \in Overrides : UpdateNode(n, st)
           \/ ListStale \/ \E n \in NodeIds : RecoverNode(n)
           \/ UNCHANGED vars
    PROVE  StartInv'
  <1> SUFFICES Frame({})
    BY StartFrame
  <1>1. ASSUME NEW deps, AddNode(deps) PROVE Frame({})
    <2> DEFINE r == [status |-> "pending", repairs |-> 0, source |-> 0]
    <2>1. r \in Nodes /\ r.status = "pending" /\ nodes' = Append(nodes, r) /\ nodes \in Seq(Nodes)
      BY <1>1, GraphAssumption DEF Nodes, NodeStatuses, AddNode, TypeOK
    <2> HIDE DEF r
    <2>2. /\ DOMAIN nodes = 1..Len(nodes) /\ DOMAIN nodes' = 1..(Len(nodes) + 1)
          /\ Len(nodes) \in Nat /\ nodes'[Len(nodes) + 1] = r
          /\ \A m \in DOMAIN nodes : nodes'[m] = nodes[m]
      BY <2>1
    <2>3. \A d \in edges' : d \in edges \/ d[1] \notin DOMAIN nodes
      BY <1>1, <2>2 DEF AddNode
    <2>4. \A m \in DOMAIN nodes' \ DOMAIN nodes : nodes'[m].status = "pending"
      BY <2>1, <2>2
    <2> QED
      BY <1>1, <2>2, <2>3, <2>4, StillFrame DEF AddNode
  <1>2. ASSUME NEW o \in Operators, AddDependency(o) PROVE Frame({})
    BY <1>2, StillFrame DEF AddDependency
  <1>3. ASSUME NEW n \in NodeIds, NEW st, SetStatus(n, st), disturbed' = disturbed \union {n},
               UNCHANGED <<edges, pc, job, late>>
        PROVE  Frame({})
    <2>1. DOMAIN nodes' = DOMAIN nodes /\ \A m \in DOMAIN nodes \ {n} : nodes'[m] = nodes[m]
      BY <1>3 DEF SetStatus
    <2> QED
      BY <1>3, <2>1, StillFrame
  <1>4. ASSUME UNCHANGED <<nodes, edges, pc, job, late, disturbed>> PROVE Frame({})
    BY <1>4, StillFrame
  <1> QED
    BY <1>1, <1>2, <1>3, <1>4
    DEF CheckDependency, UpdateNode, ListStale, RecoverNode, vars

LEMMA TakeStarts ==
    ASSUME TypeOK, RefsOK, StartInv, NEW e \in Executors, NEW n \in DOMAIN nodes, NEW left,
           NEW waits, Take(e, n, left, waits), waits = {} => DependsOnDone(n)
    PROVE  StartInv'
  <1>1. pc \in [Executors -> Labels] /\ job \in [Executors -> Jobs]
    BY JobsType
  <1>2. job'[e].node = n /\ pc'[e] = "guard"
        /\ \A f \in Executors \ {e} : pc'[f] = pc[f] /\ job'[f] = job[f]
    <2> DEFINE t == used.runs + 1
               j == [NoJob EXCEPT !.left = left, !.node = n, !.task = t]
    <2>1. job' = [job EXCEPT ![e] = j] /\ j.node = n
      BY DEF Take, NoJob
    <2> HIDE DEF j
    <2> QED
      BY <1>1, <2>1 DEF Take, Goto
  <1>3. n \notin disturbed' =>
          /\ nodes[n].status = "pending" /\ waits = {}
          /\ \A f \in Executors \ {e} : Running(f) => job[f].node # n
    BY DEF Take, Rivals, Running
  <1>4. disturbed \subseteq disturbed' /\ UNCHANGED <<nodes, edges, late>>
    BY DEF Take
  <1>5. Frame({e})
    BY <1>2, <1>3, <1>4, ReadFrame
  <1>6. RunningOK(e)'
    <2> SUFFICES ASSUME n \notin disturbed' PROVE RunningOK(e)'
      BY <1>2 DEF RunningOK
    <2>1. ASSUME NEW f \in Executors, Running(f)', job'[f].node = n PROVE f = e
      BY <1>2, <1>3, <2>1 DEF Running
    <2>2. DependsOnDone(n)'
      BY <1>3, <1>4 DEF DependsOnDone, DependsOn
    <2> QED
      BY <1>2, <1>3, <1>4, <2>1, <2>2 DEF RunningOK
  <1> QED
    BY <1>2, <1>4, <1>5, <1>6, StartFrame DEF SeenOK

LEMMA PickStarts ==
    ASSUME TypeOK, RefsOK, StartInv, NEW e \in Executors, Pick(e) PROVE StartInv'
  <1>1. pc \in [Executors -> Labels] /\ job \in [Executors -> Jobs] /\ pc[e] = "depend"
    BY JobsType DEF Pick
  <1>2. CASE /\ Goto(e, "idle") /\ job' = [job EXCEPT ![e] = NoJob]
             /\ UNCHANGED <<nodes, edges, replans, adding, stale, disturbed, late, died, used>>
    <2>1. /\ pc'[e] = "idle"
          /\ \A f \in Executors \ {e} : pc'[f] = pc[f] /\ job'[f] = job[f]
      BY <1>1, <1>2 DEF Goto
    <2>2. Frame({e})
      BY <1>2, <2>1, ReadFrame DEF Running
    <2> QED
      BY <1>1, <2>1, <2>2, StartFrame DEF SeenOK, RunningOK, Running
  <1>3. ASSUME NEW n \in First(Ready(job[e].seen)), Take(e, n, job[e].left, {})
        PROVE  StartInv'
    <2>1. n \in DOMAIN nodes /\ n \in DOMAIN job[e].seen
      BY <1>1, PickedIsNode
    <2>2. Blocking(job[e].seen, n) = {} /\ SeenOK(e)
      BY DEF First, Ready, StartInv
    <2>3. DependsOnDone(n)
      BY <1>1, <2>1, <2>2 DEF SeenOK, Blocking, DependsOn, DependsOnDone
    <2> QED
      BY <1>3, <2>1, <2>3, TakeStarts
  <1> QED
    BY <1>2, <1>3 DEF Pick

LEMMA TakeItemStarts ==
    ASSUME TypeOK, RefsOK, StartInv, NEW e \in Executors, NEW n, TakeItem(e, n) PROVE StartInv'
  <1>1. {m \in DependsOn(n) : nodes[m].status # "done"} = {} => DependsOnDone(n)
    BY DEF DependsOnDone
  <1> QED
    BY <1>1, TakeStarts DEF TakeItem

(* The steps that set the status of the node the executor runs.              *)
LEMMA StatusFrame ==
    ASSUME TypeOK, RefsOK, StartInv, NEW e \in Executors, NEW st,
           pc[e] \in {"guard", "run"}, SetStatus(job[e].node, st),
           pc'[e] \notin {"depend", "guard"}, pc'[e] = "run" => st = "in_progress",
           Running(e)' => job'[e].node = job[e].node,
           \A f \in Executors \ {e} : pc'[f] = pc[f] /\ job'[f] = job[f],
           UNCHANGED <<edges, disturbed, late>>,
           st \in {"in_progress", "done"} =>
             job[e].node \in disturbed \/ DependsOnDone(job[e].node)
    PROVE  StartInv'
  <1> DEFINE n == job[e].node
  <1>2. n \in DOMAIN nodes /\ Running(e) /\ RunningOK(e)
    BY DEF RefsOK, ExecutorOK, Running, StartInv
  <1>3. /\ DOMAIN nodes' = DOMAIN nodes /\ nodes'[n].status = st
        /\ \A m \in DOMAIN nodes \ {n} : nodes'[m] = nodes[m]
    <2>1. nodes[n] \in Nodes /\ nodes \in Seq(Nodes)
      BY <1>2, NodesType DEF TypeOK
    <2> QED
      BY <1>2, <2>1 DEF SetStatus, Nodes
  <1>4. Frame({e})
    BY <1>2, <1>3 DEF Frame
  <1>5. RunningOK(e)'
    <2> SUFFICES ASSUME Running(e)', n \notin disturbed PROVE RunningOK(e)'
      BY DEF RunningOK
    <2>1. \A f \in Executors : Running(f)' /\ job'[f].node = n => f = e
      BY <1>2 DEF RunningOK, Running
    <2> QED
      BY <1>2, <1>3, <2>1 DEF RunningOK
  <1>6. n \notin disturbed /\ st \in {"in_progress", "done"} => Entitled(n)
    BY <1>2 DEF Entitled, RunningOK
  <1> QED
    BY <1>3, <1>4, <1>5, <1>6, StartFrame DEF SeenOK

LEMMA RunStarts ==
    ASSUME TypeOK, RefsOK, StartInv, NEW e \in Executors,
           Refuse(e) \/ Start(e) \/ \E ok \in BOOLEAN, count \in 0..2 : Finish(e, ok, count)
    PROVE  StartInv'
  <1> DEFINE n == job[e].node
  <1>1. /\ pc \in [Executors -> Labels] /\ job \in [Executors -> Jobs]
        /\ RunningOK(e) /\ StartsFollowDependencies
    BY JobsType DEF StartInv
  <1>2. CASE Refuse(e)
    <2>1. /\ pc'[e] = "idle" /\ ~ Running(e)' /\ pc[e] = "guard" /\ SetStatus(n, "blocked")
          /\ \A f \in Executors \ {e} : pc'[f] = pc[f] /\ job'[f] = job[f]
          /\ UNCHANGED <<edges, disturbed, late>>
      BY <1>1, <1>2 DEF Running, Refuse, Goto
    <2> QED
      BY <2>1, StatusFrame
  <1>3. CASE Start(e)
    <2>1. /\ pc'[e] = "run" /\ pc[e] = "guard" /\ SetStatus(n, "in_progress") /\ job' = job
          /\ \A f \in Executors \ {e} : pc'[f] = pc[f]
          /\ UNCHANGED <<edges, disturbed, late>>
      BY <1>1, <1>3 DEF Start, Goto
    <2>2. n \in disturbed \/ DependsOnDone(n)
      BY <1>1, <2>1 DEF RunningOK, Running
    <2> QED
      BY <2>1, <2>2, StatusFrame
  <1>4. ASSUME NEW ok \in BOOLEAN, NEW count \in 0..2, Finish(e, ok, count) PROVE StartInv'
    <2>1. pc[e] = "run" /\ Running(e) /\ n \in DOMAIN nodes
      BY <1>4 DEF Finish, Running, RefsOK, ExecutorOK
    <2>2. n \in disturbed \/ DependsOnDone(n)
      BY <1>1, <2>1 DEF RunningOK, StartsFollowDependencies, DependsOnDone
    <2>3. /\ pc'[e] = "link" /\ job'[e].node = n
          /\ \A f \in Executors \ {e} : pc'[f] = pc[f] /\ job'[f] = job[f]
          /\ UNCHANGED <<edges, disturbed, late>>
      BY <1>1, <1>4 DEF Finish, Goto, Jobs
    <2>4. PICK st \in {"done", "blocked"} : SetStatus(n, st)
      BY <1>4 DEF Finish
    <2>5. /\ pc[e] \in {"guard", "run"} /\ pc'[e] \notin {"depend", "guard", "run"}
          /\ Running(e)' => job'[e].node = n
      BY <2>1, <2>3
    <2> HIDE DEF n
    <2> QED
      BY <2>2, <2>3, <2>4, <2>5, StatusFrame, SMTT(30) DEF n
  <1> QED
    BY <1>2, <1>3, <1>4

(* The other steps of an executor.                                           *)
LEMMA OtherStarts ==
    ASSUME TypeOK, RefsOK, StartInv, NEW e \in Executors,
           (\E left \in Batches : Begin(e, left)) \/ ListNodes(e) \/ LinkReplans(e) \/ Die(e)
    PROVE  StartInv'
  <1>1. pc \in [Executors -> Labels] /\ job \in [Executors -> Jobs]
    BY JobsType
  <1>2. CASE (\E left \in Batches : Begin(e, left)) \/ Die(e)
    <2>1. /\ pc'[e] \in {"idle", "list"} /\ UNCHANGED <<nodes, edges, late, disturbed>>
          /\ \A f \in Executors \ {e} : pc'[f] = pc[f] /\ job'[f] = job[f]
      BY <1>1, <1>2 DEF Begin, Die, Goto
    <2>2. Frame({e})
      BY <2>1, ReadFrame DEF Running
    <2> QED
      BY <1>2, <2>1, <2>2, StartFrame DEF SeenOK, RunningOK, Running, Begin, Die
  <1>3. CASE ListNodes(e)
    <2>1. /\ pc'[e] = "depend" /\ UNCHANGED <<nodes, edges, late, disturbed>> /\ pc[e] = "list"
          /\ \A f \in Executors \ {e} : pc'[f] = pc[f] /\ job'[f] = job[f]
          /\ job'[e].seen = [n \in DOMAIN nodes |-> nodes[n].status]
      BY <1>1, <1>3 DEF ListNodes, Goto, Jobs
    <2>2. Frame({e})
      BY <2>1, ReadFrame DEF Running
    <2>3. SeenOK(e)'
      BY <2>1 DEF SeenOK, RefsOK
    <2> QED
      BY <2>1, <2>2, <2>3, StartFrame DEF RunningOK, Running
  <1>4. CASE LinkReplans(e)
    <2>1. /\ pc'[e] = "follow" /\ UNCHANGED <<nodes, edges, late, disturbed, job>>
          /\ pc[e] = "link" /\ \A f \in Executors \ {e} : pc'[f] = pc[f]
      BY <1>1, <1>4 DEF LinkReplans, Goto
    <2>2. Frame({e}) /\ RunningOK(e)
      BY <2>1, ReadFrame DEF Running, StartInv
    <2>3. RunningOK(e)'
      BY <2>1, <2>2 DEF RunningOK, Running
    <2> QED
      BY <2>1, <2>2, <2>3, StartFrame DEF SeenOK
  <1> QED
    BY <1>2, <1>3, <1>4

(* The ids of a finite set in order are each of its members once.            *)
LEMMA InOrderIsOnto ==
    ASSUME NEW rs, IsFiniteSet(rs), rs \subseteq Nat, NEW ids \in InOrder(rs)
    PROVE  LET c == Cardinality(rs) IN
           /\ c \in Nat /\ ids \in [1..c -> rs]
           /\ \A i, j \in 1..c : ids[i] = ids[j] => i = j
           /\ \A r \in rs : \E i \in 1..c : ids[i] = r
  <1>1. PICK c \in Nat : c = Cardinality(rs)
    BY FS_CardinalityType
  <1>2. ids \in [1..c -> rs] /\ \A i, j \in 1..c : i < j => ids[i] < ids[j]
    BY <1>1 DEF InOrder
  <1>3. ASSUME NEW i \in 1..c, NEW j \in 1..c, ids[i] = ids[j] PROVE i = j
    <2>1. ids[i] \in Nat /\ ids[j] \in Nat
      BY <1>2
    <2> QED
      BY <1>2, <1>3, <2>1
  <1>4. ids \in Injection(1..c, rs)
    BY <1>2, <1>3 DEF Injection, IsInjective
  <1>5. Cardinality(1..c) = c
    BY FS_Interval
  <1>6. ids \in Surjection(1..c, rs)
    BY <1>1, <1>4, <1>5, FS_Injection
  <1> QED
    BY <1>1, <1>2, <1>3, <1>6 DEF Surjection

LEMMA FollowUpAdds ==
    ASSUME TypeOK, RefsOK, NEW e \in Executors, FollowUp(e)
    PROVE  LET new == DOMAIN nodes' \ DOMAIN nodes
               rs == Unrepaired(job[e].task)
           IN  /\ edges \subseteq edges' /\ DOMAIN nodes \subseteq DOMAIN nodes'
               /\ \A m \in DOMAIN nodes : nodes'[m] = nodes[m]
               /\ \A m \in new :
                    /\ nodes'[m].status = "pending" /\ nodes'[m].repairs \in rs
                    /\ nodes'[m].source = replans[nodes'[m].repairs].node
                    /\ <<m, nodes'[m].source>> \in edges'
                    /\ \A k \in new : nodes'[k].repairs = nodes'[m].repairs => k = m
               /\ \A r \in rs : \E m \in new : nodes'[m].repairs = r
  <1> DEFINE rs == Unrepaired(job[e].task)
             c == Cardinality(rs)
             row(r) == [status |-> "pending", repairs |-> r, source |-> replans[r].node]
             added(ids) == [i \in DOMAIN ids |-> row(ids[i])]
  <1>1. rs \subseteq 1..Len(replans) /\ rs \subseteq Nat /\ IsFiniteSet(rs)
    <2>1. rs \subseteq 1..Len(replans) /\ IsFiniteSet(1..Len(replans)) /\ Len(replans) \in Nat
      BY NodesType, FS_Interval DEF Unrepaired
    <2> QED
      BY <2>1, FS_Subset
  <1>2. PICK ids \in InOrder(rs) :
          /\ nodes' = nodes \o added(ids)
          /\ edges' = edges \union {<<Len(nodes) + i, replans[ids[i]].node>> : i \in DOMAIN ids}
    BY DEF FollowUp
  <1>3. /\ c \in Nat /\ ids \in [1..c -> rs]
        /\ \A i, j \in 1..c : ids[i] = ids[j] => i = j
        /\ \A r \in rs : \E i \in 1..c : ids[i] = r
    BY <1>1, InOrderIsOnto
  <1> HIDE DEF rs
  <1>4. \A r : row(r).status = "pending" /\ row(r).repairs = r /\ row(r).source = replans[r].node
    OBVIOUS
  <1> DEFINE T == {row(r) : r \in rs}
  <1>5. PICK q \in Seq(T) : Len(q) = c /\ nodes' = nodes \o q /\ \A i \in 1..c : q[i] = row(ids[i])
    <2> HIDE DEF c, row
    <2>1. \A i \in 1..c : row(ids[i]) \in T
      BY <1>3
    <2>2. added(ids) = [i \in 1..c |-> row(ids[i])]
      BY <1>3
    <2>3. added(ids) \in Seq(T) /\ Len(added(ids)) = c /\ \A i \in 1..c : added(ids)[i] = row(ids[i])
      BY <1>3, <2>1, <2>2
    <2> HIDE DEF added
    <2> QED
      BY <1>2, <2>3
  <1> HIDE DEF row, T, c
  <1>6. /\ DOMAIN nodes = 1..Len(nodes) /\ DOMAIN nodes' = 1..(Len(nodes) + c)
        /\ Len(nodes) \in Nat
        /\ \A m \in 1..Len(nodes) : nodes'[m] = nodes[m]
        /\ \A m \in 1..(Len(nodes) + c) :
             m > Len(nodes) => m - Len(nodes) \in 1..c /\ nodes'[m] = q[m - Len(nodes)]
    <2>1. nodes \in Seq(Nodes \union T) /\ q \in Seq(Nodes \union T) /\ Len(nodes) \in Nat
      BY <1>5, NodesType, SMTT(30) DEF TypeOK
    <2> QED
      BY <1>5, <2>1, Concat
  <1>7. ASSUME NEW m \in DOMAIN nodes' \ DOMAIN nodes
        PROVE  m - Len(nodes) \in 1..c /\ nodes'[m] = row(ids[m - Len(nodes)])
    BY <1>3, <1>5, <1>6
  <1>8. ASSUME NEW i \in 1..c
        PROVE  Len(nodes) + i \in DOMAIN nodes' \ DOMAIN nodes
               /\ nodes'[Len(nodes) + i] = row(ids[i])
    <2>1. Len(nodes) + i \in 1..(Len(nodes) + c) /\ Len(nodes) + i > Len(nodes)
          /\ (Len(nodes) + i) - Len(nodes) = i
      BY <1>3, <1>6
    <2> QED
      BY <1>5, <1>6, <2>1
  <1>9. ASSUME NEW m \in DOMAIN nodes' \ DOMAIN nodes
        PROVE  /\ nodes'[m].status = "pending" /\ nodes'[m].repairs \in rs
               /\ nodes'[m].source = replans[nodes'[m].repairs].node
               /\ <<m, nodes'[m].source>> \in edges'
               /\ \A k \in DOMAIN nodes' \ DOMAIN nodes :
                    nodes'[k].repairs = nodes'[m].repairs => k = m
    <2> DEFINE i == m - Len(nodes)
    <2>1. i \in 1..c /\ nodes'[m] = row(ids[i]) /\ ids[i] \in rs /\ m = Len(nodes) + i
      BY <1>3, <1>6, <1>7
    <2>2. <<Len(nodes) + i, replans[ids[i]].node>> \in edges'
      BY <1>2, <1>3, <2>1
    <2>3. ASSUME NEW k \in DOMAIN nodes' \ DOMAIN nodes, nodes'[k].repairs = nodes'[m].repairs
          PROVE  k = m
      <3>1. k - Len(nodes) \in 1..c /\ nodes'[k] = row(ids[k - Len(nodes)])
        BY <1>7
      <3>2. k - Len(nodes) = m - Len(nodes)
        BY <1>3, <1>4, <2>1, <2>3, <3>1
      <3> QED
        BY <1>6, <3>2
    <2>4. /\ nodes'[m].status = "pending" /\ nodes'[m].repairs = ids[i]
          /\ nodes'[m].source = replans[ids[i]].node
      BY <1>4, <2>1
    <2> HIDE DEF i
    <2> QED
      BY <2>1, <2>2, <2>3, <2>4
  <1>10. ASSUME NEW r \in rs PROVE \E m \in DOMAIN nodes' \ DOMAIN nodes : nodes'[m].repairs = r
    <2>1. PICK i \in 1..c : ids[i] = r
      BY <1>3
    <2>2. Len(nodes) + i \in DOMAIN nodes' \ DOMAIN nodes
          /\ nodes'[Len(nodes) + i].repairs = row(r).repairs
      BY <1>8, <2>1
    <2> QED
      BY <1>4, <2>2
  <1>11. edges \subseteq edges'
    BY <1>2
  <1>12. DOMAIN nodes \subseteq DOMAIN nodes' /\ \A m \in DOMAIN nodes : nodes'[m] = nodes[m]
    BY <1>3, <1>6
  <1> QED
    BY <1>9, <1>10, <1>11, <1>12 DEF rs

LEMMA FollowUpStarts ==
    ASSUME TypeOK, RefsOK, StartInv, NEW e \in Executors, FollowUp(e) PROVE StartInv'
  <1>1. /\ pc'[e] \in {"idle", "list"} /\ pc[e] = "follow"
        /\ UNCHANGED <<late, disturbed>>
        /\ \A f \in Executors \ {e} : pc'[f] = pc[f] /\ job'[f] = job[f]
    BY JobsType DEF FollowUp, Goto
  <1>2. /\ DOMAIN nodes \subseteq DOMAIN nodes'
        /\ \A m \in DOMAIN nodes : nodes'[m] = nodes[m]
        /\ \A m \in DOMAIN nodes' \ DOMAIN nodes : nodes'[m].status = "pending"
    BY FollowUpAdds
  <1>3. \A d \in edges' : d \in edges \/ d[1] \notin DOMAIN nodes
    BY FollowUpGrows DEF GrowsFromNew
  <1>4. Frame({e})
    BY <1>1, <1>2, <1>3 DEF Frame, Running
  <1> QED
    BY <1>1, <1>4, StartFrame DEF SeenOK, RunningOK, Running

LEMMA StartStays == TypeOK /\ RefsOK /\ StartInv /\ [Next]_vars => StartInv'
  <1> SUFFICES ASSUME TypeOK, RefsOK, StartInv, [Next]_vars PROVE StartInv'
    OBVIOUS
  <1>1. CASE ~ \E e \in Executors : (\E left \in Batches : Begin(e, left)) \/ Step(e) \/ Die(e)
    BY <1>1, OperatorStarts DEF Next
  <1>2. ASSUME NEW e \in Executors,
               (\E left \in Batches : Begin(e, left)) \/ Step(e) \/ Die(e)
        PROVE  StartInv'
    BY <1>2, PickStarts, TakeItemStarts, RunStarts, OtherStarts, FollowUpStarts DEF Step
  <1> QED
    BY <1>1, <1>2

(* run-next and run-batch start no node before what it depends on is done,   *)
(* and what is done stays so: blocked and failed nodes hold up theirs, over  *)
(* any number of executors, repairs, commands and crashes.                   *)
THEOREM GraphStartsFollow == Spec => []StartsFollowDependencies
  <1>1. Init => StartInv
    BY DEF Init, StartInv, StartsFollowDependencies, SeenOK, RunningOK, Running
  <1>2. StartInv => StartsFollowDependencies
    BY DEF StartInv
  <1> QED
    BY <1>1, <1>2, StartStays, TypesHold, PTL DEF Spec
-----------------------------------------------------------------------------
(* Replans are those of the tasks run so far, each of its own; a replan that *)
(* is linked stays linked to its node, and only linked ones are repaired.    *)

Answered(r) ==
    \/ replans[r].task \in died
    \/ \E e \in Executors : pc[e] \in {"link", "follow"} /\ job[e].task = replans[r].task
    \/ \E n \in DOMAIN nodes : nodes[n].repairs = r

RepairOK(n) ==
    nodes[n].repairs # 0 =>
      /\ nodes[n].repairs \in DOMAIN replans /\ replans[nodes[n].repairs].node # 0
      /\ nodes[n].source = replans[nodes[n].repairs].node
      /\ <<n, nodes[n].source>> \in edges
      /\ \A m \in DOMAIN nodes : nodes[m].repairs = nodes[n].repairs => m = n

TaskOK(e) ==
    Running(e) =>
      /\ job[e].task <= used.runs
      /\ \A f \in Executors : Running(f) /\ job[f].task = job[e].task => f = e
      /\ \A r \in DOMAIN replans : replans[r].task = job[e].task =>
           /\ pc[e] \notin {"guard", "run"}
           /\ pc[e] = "follow" => replans[r].node # 0

RepairInv ==
    /\ \A r \in DOMAIN replans : Answered(r) /\ replans[r].task <= used.runs
    /\ \A n \in DOMAIN nodes : RepairOK(n)
    /\ \A e \in Executors : TaskOK(e)

(* The steps that add no repair, nor change or lose what there is.           *)
KeepsRepairs ==
    /\ DOMAIN nodes \subseteq DOMAIN nodes' /\ edges \subseteq edges'
    /\ \A n \in DOMAIN nodes : /\ nodes'[n].repairs = nodes[n].repairs
                               /\ nodes'[n].source = nodes[n].source
    /\ \A n \in DOMAIN nodes' \ DOMAIN nodes : nodes'[n].repairs = 0
    /\ \A r \in DOMAIN replans :
         /\ r \in DOMAIN replans' /\ replans'[r].task = replans[r].task
         /\ replans[r].node # 0 => replans'[r].node = replans[r].node

LEMMA RepairsStay ==
    ASSUME RepairInv, KeepsRepairs PROVE \A n \in DOMAIN nodes' : RepairOK(n)'
  BY DEF RepairInv, KeepsRepairs, RepairOK

(* The steps that add no replan and no task: what the executors of X may do. *)
LEMMA QuietRepairs ==
    ASSUME RepairInv, KeepsRepairs, UNCHANGED replans, used'.runs = used.runs,
           died \subseteq died', NEW X \in SUBSET Executors,
           \A f \in Executors \ X : pc'[f] = pc[f] /\ job'[f] = job[f],
           \A e \in X : Running(e)' =>
             /\ Running(e) /\ job'[e].task = job[e].task
             /\ pc'[e] = "follow" => pc[e] = "follow"
             /\ pc'[e] \in {"guard", "run"} => pc[e] \in {"guard", "run"},
           \A e \in X : pc[e] \in {"link", "follow"} => job[e].task \in died'
    PROVE  RepairInv'
  <1>1. \A n \in DOMAIN nodes' : RepairOK(n)'
    BY RepairsStay
  <1>2. ASSUME NEW r \in DOMAIN replans PROVE Answered(r)'
    BY DEF RepairInv, Answered, KeepsRepairs
  <1>3. ASSUME NEW e \in Executors PROVE TaskOK(e)'
    BY DEF RepairInv, TaskOK, Running
  <1> QED
    BY <1>1, <1>2, <1>3 DEF RepairInv

LEMMA StatusKeepsRepairs ==
    ASSUME TypeOK, NEW n \in DOMAIN nodes, NEW st, SetStatus(n, st), UNCHANGED <<edges, replans>>
    PROVE  KeepsRepairs
  <1>1. \A m \in DOMAIN nodes : nodes[m] \in Nodes
    BY NodesType
  <1>2. /\ DOMAIN nodes' = DOMAIN nodes
        /\ \A m \in DOMAIN nodes : nodes'[m].repairs = nodes[m].repairs
                                   /\ nodes'[m].source = nodes[m].source
    BY <1>1 DEF SetStatus, Nodes
  <1> QED
    BY <1>2 DEF KeepsRepairs

LEMMA OperatorRepairs ==
    ASSUME TypeOK, RefsOK, RepairInv,
           \/ \E deps : AddNode(deps)
           \/ \E o \in Operators :
                \/ \E n, m \in NodeIds : CheckDependency(o, n, m)
                \/ AddDependency(o)
           \/ \E n \in NodeIds, st \in Overrides : UpdateNode(n, st)
           \/ ListStale \/ \E n \in NodeIds : RecoverNode(n)
           \/ UNCHANGED vars
    PROVE  RepairInv'
  <1>1. UNCHANGED <<replans, pc, job, died>> /\ used'.runs = used.runs
    BY DEF AddNode, CheckDependency, AddDependency, UpdateNode, ListStale, RecoverNode, Budget,
           vars, TypeOK
  <1>2. KeepsRepairs
    <2>1. ASSUME NEW deps, AddNode(deps) PROVE KeepsRepairs
      <3> DEFINE r == [status |-> "pending", repairs |-> 0, source |-> 0]
      <3>1. r \in Nodes /\ r.repairs = 0 /\ nodes' = Append(nodes, r) /\ nodes \in Seq(Nodes)
        BY <2>1, GraphAssumption DEF Nodes, NodeStatuses, AddNode, TypeOK
      <3> HIDE DEF r
      <3>2. /\ DOMAIN nodes = 1..Len(nodes) /\ DOMAIN nodes' = 1..(Len(nodes) + 1)
            /\ Len(nodes) \in Nat /\ nodes'[Len(nodes) + 1] = r
            /\ \A m \in DOMAIN nodes : nodes'[m] = nodes[m]
        BY <3>1
      <3>3. \A m \in DOMAIN nodes' \ DOMAIN nodes : nodes'[m].repairs = 0
        BY <3>1, <3>2
      <3>4. edges \subseteq edges'
        BY <2>1 DEF AddNode
      <3> QED
        BY <1>1, <3>2, <3>3, <3>4 DEF KeepsRepairs
    <2>2. ASSUME NEW n, NEW st, n \in DOMAIN nodes, SetStatus(n, st), UNCHANGED edges
          PROVE  KeepsRepairs
      BY <1>1, <2>2, StatusKeepsRepairs
    <2>3. ASSUME UNCHANGED nodes, edges \subseteq edges' PROVE KeepsRepairs
      BY <1>1, <2>3 DEF KeepsRepairs
    <2> QED
      BY <2>1, <2>2, <2>3
      DEF CheckDependency, AddDependency, UpdateNode, ListStale, RecoverNode, RefsOK, vars
  <1>3. {} \in SUBSET Executors /\ died \subseteq died'
        /\ \A f \in Executors \ {} : pc'[f] = pc[f] /\ job'[f] = job[f]
    BY <1>1
  <1> QED
    BY <1>1, <1>2, <1>3, QuietRepairs

(* The steps of an executor that neither write nor begin a task.             *)
LEMMA MovesRepairs ==
    ASSUME TypeOK, RefsOK, RepairInv, NEW e \in Executors,
           \/ \E left \in Batches : Begin(e, left)
           \/ ListNodes(e) \/ (Pick(e) /\ Goto(e, "idle"))
           \/ Refuse(e) \/ Start(e) \/ Die(e)
    PROVE  RepairInv'
  <1>1. pc \in [Executors -> Labels] /\ job \in [Executors -> Jobs]
    BY JobsType
  <1>2. /\ UNCHANGED replans /\ died \subseteq died'
        /\ \A f \in Executors \ {e} : pc'[f] = pc[f] /\ job'[f] = job[f]
    BY <1>1 DEF Begin, ListNodes, Pick, Take, Refuse, Start, Die, Goto
  <1>3. KeepsRepairs
    <2>1. ASSUME UNCHANGED <<nodes, edges>> PROVE KeepsRepairs
      BY <1>2, <2>1 DEF KeepsRepairs
    <2>2. CASE Refuse(e) \/ Start(e)
      <3>1. job[e].node \in DOMAIN nodes
        BY <2>2 DEF Refuse, Start, RefsOK, ExecutorOK
      <3> QED
        BY <1>2, <2>2, <3>1, StatusKeepsRepairs DEF Refuse, Start
    <2> QED
      BY <2>1, <2>2 DEF Begin, ListNodes, Pick, Take, Die
  <1>4. used' = used
    BY <1>1 DEF Begin, ListNodes, Pick, Take, Refuse, Start, Die, Goto, Labels
  <1>5. /\ Running(e)' => Start(e) /\ pc'[e] = "run" /\ pc[e] = "guard" /\ job'[e] = job[e]
        /\ pc[e] \in {"link", "follow"} => job[e].task \in died'
    BY <1>1 DEF Begin, ListNodes, Pick, Take, Refuse, Start, Die, Goto, Running
  <1>6. Running(e)' =>
          /\ Running(e) /\ job'[e].task = job[e].task
          /\ pc'[e] = "follow" => pc[e] = "follow"
          /\ pc'[e] \in {"guard", "run"} => pc[e] \in {"guard", "run"}
    BY <1>5 DEF Running
  <1>7. {e} \in SUBSET Executors /\ used'.runs = used.runs /\ died \subseteq died'
        /\ \A f \in Executors \ {e} : pc'[f] = pc[f] /\ job'[f] = job[f]
    BY <1>2, <1>4
  <1>8. UNCHANGED replans
    BY <1>2
  <1>9. /\ \A f \in {e} : Running(f)' =>
             /\ Running(f) /\ job'[f].task = job[f].task
             /\ pc'[f] = "follow" => pc[f] = "follow"
             /\ pc'[f] \in {"guard", "run"} => pc[f] \in {"guard", "run"}
        /\ \A f \in {e} : pc[f] \in {"link", "follow"} => job[f].task \in died'
    BY <1>5, <1>6 DEF Running
  <1> QED
    BY <1>3, <1>7, <1>8, <1>9, QuietRepairs

LEMMA TakeRepairs ==
    ASSUME TypeOK, RefsOK, RepairInv, NEW e \in Executors, pc[e] \in {"idle", "depend"},
           NEW n, NEW left, NEW waits, Take(e, n, left, waits)
    PROVE  RepairInv'
  <1>1. pc \in [Executors -> Labels] /\ job \in [Executors -> Jobs] /\ used.runs \in Nat
        /\ used'.runs = used.runs + 1 /\ UNCHANGED <<nodes, edges, replans, died>>
    <2>1. used \in [runs : 0..MaxRuns, commands : 0..MaxCommands]
          /\ used' = [used EXCEPT !.runs = used.runs + 1]
      BY DEF TypeOK, Take, Budget
    <2>2. used.runs \in Nat /\ used'.runs = used.runs + 1
      BY <2>1, GraphAssumption
    <2>3. UNCHANGED <<nodes, edges, replans, died>>
      BY DEF Take
    <2> QED
      BY <2>2, <2>3, JobsType
  <1>2. /\ pc'[e] = "guard" /\ job'[e].task = used.runs + 1
        /\ \A f \in Executors \ {e} : pc'[f] = pc[f] /\ job'[f] = job[f]
    <2> DEFINE t == used.runs + 1
               j == [NoJob EXCEPT !.left = left, !.node = n, !.task = t]
    <2>1. job' = [job EXCEPT ![e] = j] /\ j.task = t
      BY DEF Take, NoJob
    <2> HIDE DEF j, t
    <2>2. pc'[e] = "guard" /\ job'[e].task = t
          /\ \A f \in Executors \ {e} : pc'[f] = pc[f] /\ job'[f] = job[f]
      BY <1>1, <2>1 DEF Take, Goto
    <2> QED
      BY <2>2 DEF t
  <1>3. \A f \in Executors : Running(f) => job[f].task \in Nat
    BY <1>1, GraphAssumption DEF Jobs
  <1>4. \A r \in DOMAIN replans : replans[r].task \in Nat
    BY NodesType, GraphAssumption DEF Replans
  <1>5. KeepsRepairs
    BY <1>1 DEF KeepsRepairs
  <1>6. ASSUME NEW r \in DOMAIN replans PROVE Answered(r)' /\ replans[r].task <= used'.runs
    BY <1>1, <1>2, <1>4 DEF RepairInv, Answered
  <1>7. ASSUME NEW f \in Executors PROVE TaskOK(f)'
    <2>1. CASE f = e
      BY <1>1, <1>2, <1>3, <1>4, <2>1 DEF RepairInv, TaskOK, Running
    <2>2. CASE f # e
      BY <1>1, <1>2, <1>3, <1>4, <2>2 DEF RepairInv, TaskOK, Running
    <2> QED
      BY <2>1, <2>2
  <1> QED
    BY <1>1, <1>5, <1>6, <1>7, RepairsStay DEF RepairInv

LEMMA PickRepairs ==
    ASSUME TypeOK, RefsOK, RepairInv, NEW e \in Executors,
           Pick(e) \/ \E n \in NodeIds : TakeItem(e, n)
    PROVE  RepairInv'
  <1>1. CASE Pick(e) /\ Goto(e, "idle")
    BY <1>1, MovesRepairs
  <1>2. ASSUME NEW n, NEW left, NEW waits, Take(e, n, left, waits), pc[e] \in {"idle", "depend"}
        PROVE  RepairInv'
    BY <1>2, TakeRepairs
  <1>3. CASE Pick(e)
    BY <1>1, <1>2, <1>3 DEF Pick
  <1> QED
    BY <1>2, <1>3 DEF TakeItem

LEMMA FinishRepairs ==
    ASSUME TypeOK, RefsOK, RepairInv, NEW e \in Executors, NEW ok \in BOOLEAN,
           NEW count \in 0..2, Finish(e, ok, count)
    PROVE  RepairInv'
  <1> DEFINE t == job[e].task
  <1>1. pc \in [Executors -> Labels] /\ job \in [Executors -> Jobs] /\ pc[e] = "run"
        /\ UNCHANGED <<edges, died, used>> /\ t \in 1..MaxRuns /\ TaskOK(e) /\ Running(e)
    BY JobsType DEF Finish, RefsOK, ExecutorOK, RepairInv, Running
  <1>2. /\ pc'[e] = "link" /\ job'[e].task = t
        /\ \A f \in Executors \ {e} : pc'[f] = pc[f] /\ job'[f] = job[f]
    BY <1>1 DEF Finish, Goto, Jobs
  <1>3. /\ DOMAIN replans \subseteq DOMAIN replans'
        /\ \A r \in DOMAIN replans : replans'[r] = replans[r]
        /\ \A r \in DOMAIN replans' \ DOMAIN replans : replans'[r].task = t
    <2> DEFINE new == [r \in 1..count |-> [task |-> t, node |-> 0]]
    <2>1. new \in Seq(Replans) /\ Len(new) = count /\ \A r \in 1..count : new[r].task = t
      BY <1>1, GraphAssumption DEF Replans
    <2>2. replans' = replans \o new /\ replans \in Seq(Replans) /\ Len(replans) \in Nat
      BY DEF Finish, TypeOK
    <2> HIDE DEF new
    <2>3. /\ DOMAIN replans = 1..Len(replans)
          /\ DOMAIN replans' = 1..(Len(replans) + count)
          /\ \A r \in 1..Len(replans) : replans'[r] = replans[r]
          /\ \A r \in 1..(Len(replans) + count) : r > Len(replans) =>
               r - Len(replans) \in 1..count /\ replans'[r] = new[r - Len(replans)]
      BY <2>1, <2>2, Concat
    <2>4. ASSUME NEW r \in DOMAIN replans' \ DOMAIN replans PROVE replans'[r].task = t
      <3>1. r \in 1..(Len(replans) + count) /\ r > Len(replans)
        BY <2>2, <2>3
      <3> QED
        BY <2>1, <2>3, <3>1
    <2> QED
      BY <2>2, <2>3, <2>4
  <1>4. KeepsRepairs
    <2>1. PICK st : SetStatus(job[e].node, st)
      BY DEF Finish
    <2>2. job[e].node \in DOMAIN nodes /\ \A m \in DOMAIN nodes : nodes[m] \in Nodes
      BY <1>1, NodesType DEF RefsOK, ExecutorOK
    <2>3. /\ DOMAIN nodes' = DOMAIN nodes
          /\ \A m \in DOMAIN nodes : nodes'[m].repairs = nodes[m].repairs
                                     /\ nodes'[m].source = nodes[m].source
      BY <2>1, <2>2 DEF SetStatus, Nodes
    <2> QED
      BY <1>1, <1>3, <2>3 DEF KeepsRepairs
  <1> HIDE DEF t
  <1>5. ASSUME NEW r \in DOMAIN replans' PROVE Answered(r)' /\ replans'[r].task <= used'.runs
    <2>1. CASE r \in DOMAIN replans
      <3>1. replans'[r].task = replans[r].task /\ Answered(r) /\ replans[r].task <= used.runs
        BY <1>3, <2>1 DEF RepairInv
      <3>2. \A f \in Executors : pc[f] \in {"link", "follow"} =>
              pc'[f] = pc[f] /\ job'[f] = job[f]
        BY <1>1, <1>2
      <3> QED
        BY <1>1, <1>4, <3>1, <3>2 DEF Answered, KeepsRepairs
    <2>2. CASE r \notin DOMAIN replans
      BY <1>1, <1>2, <1>3, <2>2 DEF Answered, TaskOK, t
    <2> QED
      BY <2>1, <2>2
  <1>6. ASSUME NEW f \in Executors PROVE TaskOK(f)'
    <2>1. CASE f = e
      BY <1>1, <1>2, <2>1 DEF TaskOK, Running, t
    <2>2. CASE f # e
      <3>1. SUFFICES ASSUME Running(f) PROVE TaskOK(f)'
        BY <1>2, <2>2 DEF TaskOK, Running
      <3>2. TaskOK(f) /\ job[f].task # t
        BY <1>1, <2>2, <3>1 DEF RepairInv, TaskOK, t
      <3>3. \A r \in DOMAIN replans' : replans'[r].task = job[f].task =>
              r \in DOMAIN replans /\ replans'[r] = replans[r]
        BY <1>3, <3>2
      <3> QED
        BY <1>1, <1>2, <2>2, <3>1, <3>2, <3>3 DEF TaskOK, Running, t
    <2> QED
      BY <2>1, <2>2
  <1> QED
    BY <1>4, <1>5, <1>6, RepairsStay DEF RepairInv

LEMMA LinkRepairs ==
    ASSUME TypeOK, RefsOK, RepairInv, NEW e \in Executors, LinkReplans(e) PROVE RepairInv'
  <1> DEFINE n == job[e].node
  <1>1. pc \in [Executors -> Labels] /\ pc[e] = "link" /\ n # 0
        /\ UNCHANGED <<nodes, edges, died, used, job>>
    BY JobsType, NodesType DEF LinkReplans, RefsOK, ExecutorOK
  <1>2. pc'[e] = "follow" /\ \A f \in Executors \ {e} : pc'[f] = pc[f]
    BY <1>1 DEF LinkReplans, Goto
  <1>3. /\ DOMAIN replans' = DOMAIN replans
        /\ \A r \in DOMAIN replans :
             /\ replans'[r].task = replans[r].task
             /\ replans[r].node # 0 => replans'[r].node = replans[r].node
             /\ replans[r].task = job[e].task => replans'[r].node # 0
    BY <1>1, NodesType DEF LinkReplans, Replans
  <1>4. KeepsRepairs
    BY <1>1, <1>3 DEF KeepsRepairs
  <1>5. ASSUME NEW r \in DOMAIN replans PROVE Answered(r)' /\ replans'[r].task <= used'.runs
    <2>1. \A f \in Executors : pc[f] \in {"link", "follow"} => pc'[f] \in {"link", "follow"}
      BY <1>1, <1>2
    <2> QED
      BY <1>1, <1>3, <2>1 DEF RepairInv, Answered
  <1>6. ASSUME NEW f \in Executors PROVE TaskOK(f)'
    BY <1>1, <1>2, <1>3 DEF RepairInv, TaskOK, Running
  <1> QED
    BY <1>3, <1>4, <1>5, <1>6, RepairsStay DEF RepairInv

LEMMA FollowUpRepairs ==
    ASSUME TypeOK, RefsOK, RepairInv, NEW e \in Executors, FollowUp(e) PROVE RepairInv'
  <1> DEFINE new == DOMAIN nodes' \ DOMAIN nodes
             rs == Unrepaired(job[e].task)
  <1>1. pc \in [Executors -> Labels] /\ pc[e] = "follow" /\ UNCHANGED <<replans, died, used>>
        /\ TaskOK(e) /\ Running(e) /\ job \in [Executors -> Jobs]
    BY JobsType DEF FollowUp, RepairInv, Running
  <1>2. /\ pc'[e] \in {"idle", "list"}
        /\ \A f \in Executors \ {e} : pc'[f] = pc[f] /\ job'[f] = job[f]
    BY <1>1 DEF FollowUp, Goto
  <1>3. /\ edges \subseteq edges' /\ DOMAIN nodes \subseteq DOMAIN nodes'
        /\ \A m \in DOMAIN nodes : nodes'[m] = nodes[m]
        /\ \A m \in new :
             /\ nodes'[m].repairs \in rs
             /\ nodes'[m].source = replans[nodes'[m].repairs].node
             /\ <<m, nodes'[m].source>> \in edges'
             /\ \A k \in new : nodes'[k].repairs = nodes'[m].repairs => k = m
        /\ \A r \in rs : \E m \in new : nodes'[m].repairs = r
    BY FollowUpAdds
  <1>4. \A r \in rs : /\ r \in DOMAIN replans /\ replans[r].node # 0
                      /\ \A m \in DOMAIN nodes : nodes[m].repairs # r
    BY DEF Unrepaired
  <1>5. ASSUME NEW n \in DOMAIN nodes' PROVE RepairOK(n)'
    <2>1. CASE n \in DOMAIN nodes
      <3>1. RepairOK(n) /\ nodes'[n] = nodes[n]
        BY <1>3, <2>1 DEF RepairInv
      <3>2. ASSUME nodes[n].repairs # 0, NEW m \in new PROVE nodes'[m].repairs # nodes[n].repairs
        BY <1>3, <1>4, <2>1
      <3> QED
        BY <1>1, <1>3, <3>1, <3>2 DEF RepairOK
    <2>2. CASE n \in new
      BY <1>1, <1>3, <1>4, <2>2 DEF RepairOK
    <2> QED
      BY <2>1, <2>2
  <1>6. ASSUME NEW r \in DOMAIN replans PROVE Answered(r)' /\ replans'[r].task <= used'.runs
    <2>1. CASE replans[r].task = job[e].task
      <3>1. r \in rs \/ \E m \in DOMAIN nodes : nodes[m].repairs = r
        BY <1>1, <2>1 DEF TaskOK, Unrepaired
      <3>2. \E m \in DOMAIN nodes' : nodes'[m].repairs = r
        BY <1>3, <3>1
      <3> QED
        BY <1>1, <3>2 DEF Answered, RepairInv
    <2>2. CASE replans[r].task # job[e].task
      BY <1>1, <1>2, <1>3, <2>2 DEF Answered, RepairInv
    <2> QED
      BY <2>1, <2>2
  <1>7. ASSUME NEW f \in Executors PROVE TaskOK(f)'
    BY <1>1, <1>2 DEF RepairInv, TaskOK, Running
  <1> QED
    BY <1>1, <1>5, <1>6, <1>7 DEF RepairInv

LEMMA RepairsStayRight == TypeOK /\ RefsOK /\ RepairInv /\ [Next]_vars => RepairInv'
  <1> SUFFICES ASSUME TypeOK, RefsOK, RepairInv, [Next]_vars PROVE RepairInv'
    OBVIOUS
  <1>1. CASE ~ \E e \in Executors : (\E left \in Batches : Begin(e, left)) \/ Step(e) \/ Die(e)
    BY <1>1, OperatorRepairs DEF Next
  <1>2. ASSUME NEW e \in Executors,
               (\E left \in Batches : Begin(e, left)) \/ Step(e) \/ Die(e)
        PROVE  RepairInv'
    BY <1>2, MovesRepairs, PickRepairs, FinishRepairs, LinkRepairs, FollowUpRepairs DEF Step
  <1> QED
    BY <1>1, <1>2

(* Every replan decision of a task that ended gets exactly one repair node,  *)
(* which waits for the node the task was run for, unless the executor died   *)
(* before it wrote it (create_replan_follow_up_nodes).                       *)
THEOREM GraphRepairsMatch == Spec => []RepairsMatchReplans
  <1>1. Init => RepairInv
    BY DEF Init, RepairInv, TaskOK, Running
  <1>2. RepairInv => RepairsMatchReplans
    BY DEF RepairInv, RepairsMatchReplans, Answered, RepairOK
  <1> QED
    BY <1>1, <1>2, RepairsStayRight, TypesHold, PTL DEF Spec
=============================================================================

-------------------------- MODULE PlanQueueProofs --------------------------
(***************************************************************************)
(* What is proved of the autopilot queue (PlanQueue), for any number of    *)
(* runners, syncs, items, worktrees and commands and for any plans.        *)
(*                                                                         *)
(*   LISTINGS        what Queue, Limit and FreeTrees return                *)
(*   TYPES           what a runner's variables mean at each label          *)
(*   WHAT EACH STEP DOES   one lemma per action, cited by all that follows *)
(*   TYPE CORRECTNESS      QueueTyped, and Frame: what no step undoes      *)
(*   then one inductive invariant per property, each preserved by the      *)
(*   runners' steps (Runner...) and by the operators' (Operator...).       *)
(*                                                                         *)
(* The invariants are conditional as the properties are: they speak of an  *)
(* item until something in `upset' has interfered with it.  As nothing     *)
(* leaves `upset', an item that is calm after a step was calm before it.   *)
(***************************************************************************)
EXTENDS PlanQueue, FiniteSetTheorems, SequenceTheorems, TLAPS

-----------------------------------------------------------------------------
(* LISTINGS *)

(* A finite set whose elements are told apart by what lies below them has an *)
(* element of every rank.                                                    *)
LEMMA RankExists ==
    ASSUME NEW S, IsFiniteSet(S), NEW below \in [S -> SUBSET S],
           \A x \in S : x \in below[x],
           \A x, y \in S : x # y => \/ below[x] \subseteq below[y] /\ y \notin below[x]
                                    \/ below[y] \subseteq below[x] /\ x \notin below[y]
    PROVE  \A k \in 1..Cardinality(S) : \E x \in S : Cardinality(below[x]) = k
  <1> DEFINE n == Cardinality(S)
             rank == [x \in S |-> Cardinality(below[x])]
  <1>1. n \in Nat /\ IsFiniteSet(1..n) /\ Cardinality(1..n) = n
    BY FS_CardinalityType, FS_Interval
  <1>2. ASSUME NEW x \in S
        PROVE  IsFiniteSet(below[x]) /\ rank[x] \in 1..n
    <2>1. IsFiniteSet(below[x]) /\ Cardinality(below[x]) <= n /\ Cardinality(below[x]) \in Nat
      BY <1>1, FS_Subset, FS_CardinalityType
    <2>2. below[x] # {}
      OBVIOUS
    <2>3. Cardinality(below[x]) # 0
      BY <2>1, <2>2, FS_EmptySet
    <2> QED
      BY <2>1, <2>3
  <1>3. ASSUME NEW x \in S, NEW y \in S, below[x] \subseteq below[y], y \notin below[x]
        PROVE  rank[x] # rank[y]
    <2>1. below[x] # below[y] /\ below[x] \in SUBSET below[y]
      BY <1>3
    <2>2. Cardinality(below[y]) # Cardinality(below[x])
      BY <1>2, <2>1, FS_Subset
    <2> QED
      BY <2>2
  <1>4. rank \in Injection(S, 1..n)
    <2>1. rank \in [S -> 1..n]
      BY <1>2
    <2>2. \A x, y \in S : rank[x] = rank[y] => x = y
      BY <1>3
    <2> HIDE DEF rank
    <2> QED
      BY <2>1, <2>2 DEF Injection, IsInjective
  <1>5. rank \in Surjection(S, 1..n)
    <2> HIDE DEF rank
    <2> QED
      BY <1>1, <1>4, FS_Injection
  <1>6. \A k \in 1..n : \E x \in S : rank[x] = k
    <2> HIDE DEF rank
    <2> QED
      BY <1>5 DEF Surjection
  <1> QED
    BY <1>6

LEMMA RankOfNumbers ==
    ASSUME NEW S \in SUBSET Nat, IsFiniteSet(S)
    PROVE  /\ \A k \in 1..Cardinality(S) : \E w \in S : Cardinality({x \in S : x <= w}) = k
           /\ Cardinality(S) \in Nat
  <1> DEFINE below == [w \in S |-> {x \in S : x <= w}]
  <1>1. /\ below \in [S -> SUBSET S] /\ \A x \in S : x \in below[x]
        /\ \A x, y \in S : x # y => \/ below[x] \subseteq below[y] /\ y \notin below[x]
                                    \/ below[y] \subseteq below[x] /\ x \notin below[y]
    <2>1. \A x, y \in S : x \in Nat /\ y \in Nat
      OBVIOUS
    <2>2. ASSUME NEW x \in S, NEW y \in S, x < y
          PROVE  below[x] \subseteq below[y] /\ y \notin below[x]
      <3>1. x \in Nat /\ y \in Nat /\ ~ (y <= x)
        BY <2>1, <2>2
      <3>2. ASSUME NEW z \in S, z <= x
            PROVE  z <= y
        BY <2>1, <2>2, <3>1, <3>2
      <3>3. below[x] = {z \in S : z <= x} /\ below[y] = {z \in S : z <= y}
        OBVIOUS
      <3> HIDE DEF below
      <3> QED
        BY <3>1, <3>2, <3>3
    <2>3. \A x, y \in S : x # y => x < y \/ y < x
      BY <2>1
    <2>4. below \in [S -> SUBSET S] /\ \A x \in S : x \in below[x]
      BY <2>1
    <2> HIDE DEF below
    <2> QED
      BY <2>2, <2>3, <2>4
  <1>2. \A k \in 1..Cardinality(S) : \E x \in S : Cardinality(below[x]) = k
    <2> HIDE DEF below
    <2> QED
      BY <1>1, RankExists
  <1> QED
    BY <1>2, FS_CardinalityType

(* The queue lists the created items, each of them once. *)
LEMMA QueueLists ==
    ASSUME TypeOK
    PROVE  /\ Queue \in Seq(Created) /\ Len(Queue) = Cardinality(Created)
           /\ \A k, l \in DOMAIN Queue : Queue[k] = Queue[l] => k = l
           /\ Created # {} => Len(Queue) > 0
  <1> DEFINE n == Cardinality(Created)
  <1>1. Created \subseteq 1..Len(items) /\ Len(items) \in Nat
    <2>1. items \in Seq(Rows)
      BY DEF TypeOK
    <2> QED
      BY <2>1 DEF Created
  <1>2. IsFiniteSet(Created) /\ n \in Nat
    <2>1. IsFiniteSet(1..Len(items))
      BY <1>1, FS_Interval
    <2>2. IsFiniteSet(Created)
      BY <1>1, <2>1, FS_Subset
    <2> QED
      BY <2>2, FS_CardinalityType
  <1> DEFINE below == [i \in Created |-> {j \in Created : Before(j, i)}]
  <1>3. \A i \in Created : items[i].line \in Nat /\ i \in Nat
    <2>1. items \in Seq(Rows)
      BY DEF TypeOK
    <2>2. \A i \in Created : items[i] \in Rows
      BY <2>1 DEF Created
    <2> QED
      BY <1>1, <2>2 DEF Rows
  <1>4. /\ below \in [Created -> SUBSET Created] /\ \A x \in Created : x \in below[x]
        /\ \A x, y \in Created : x # y => \/ below[x] \subseteq below[y] /\ y \notin below[x]
                                          \/ below[y] \subseteq below[x] /\ x \notin below[y]
    <2>1. ASSUME NEW x \in Created, NEW y \in Created, Before(x, y), x # y
          PROVE  below[x] \subseteq below[y] /\ y \notin below[x]
      BY <1>3, <2>1 DEF Before
    <2>2. \A x, y \in Created : x # y => Before(x, y) \/ Before(y, x)
      BY <1>3 DEF Before
    <2>3. below \in [Created -> SUBSET Created] /\ \A x \in Created : x \in below[x]
      BY <1>3 DEF Before
    <2> HIDE DEF below
    <2> QED
      BY <2>1, <2>2, <2>3
  <1>5. \A k \in 1..n : \E i \in Created : Cardinality({j \in Created : Before(j, i)}) = k
    <2>1. \A k \in 1..n : \E i \in Created : Cardinality(below[i]) = k
      <3> HIDE DEF below
      <3> QED
        BY <1>2, <1>4, RankExists
    <2> QED
      BY <2>1
  <1>6. \A k \in 1..n : Queue[k] \in Created
                        /\ Cardinality({j \in Created : Before(j, Queue[k])}) = k
    BY <1>5 DEF Queue
  <1>7. Queue \in [1..n -> Created]
    BY <1>6 DEF Queue
  <1>8. Queue \in Seq(Created) /\ Len(Queue) = n /\ DOMAIN Queue = 1..n
    BY <1>2, <1>7
  <1>9. \A k, l \in DOMAIN Queue : Queue[k] = Queue[l] => k = l
    <2> DEFINE rank == [i \in Created |-> Cardinality({j \in Created : Before(j, i)})]
    <2>1. \A k \in 1..n : rank[Queue[k]] = k
      BY <1>6
    <2> HIDE DEF rank
    <2> QED
      BY <1>8, <2>1
  <1>10. Created # {} => n > 0
    BY <1>2, FS_EmptySet
  <1> QED
    BY <1>8, <1>9, <1>10

LEMMA LimitCuts ==
    ASSUME NEW T, NEW s \in Seq(T), NEW n \in Nat
    PROVE  /\ Limit(s, n) \in Seq(T)
           /\ Len(Limit(s, n)) <= Len(s) /\ Len(Limit(s, n)) <= n
           /\ Len(Limit(s, n)) = Len(s) \/ Len(Limit(s, n)) = n
           /\ \A k \in DOMAIN Limit(s, n) : k \in DOMAIN s /\ Limit(s, n)[k] = s[k]
  <1> DEFINE m == IF n < Len(s) THEN n ELSE Len(s)
  <1>1. m \in 0..Len(s) /\ Len(s) \in Nat
    OBVIOUS
  <1>2. /\ Limit(s, n) = SubSeq(s, 1, m) /\ Len(SubSeq(s, 1, m)) = m
        /\ SubSeq(s, 1, m) \in Seq(T)
        /\ \A k \in 1..m : SubSeq(s, 1, m)[k] = s[k]
    BY <1>1 DEF Limit
  <1>3. DOMAIN SubSeq(s, 1, m) = 1..m
    BY <1>2
  <1> QED
    BY <1>1, <1>2, <1>3

(* The worktrees a batch is given are distinct and no item under way has one. *)
LEMMA FreeTreesAreFree ==
    ASSUME TypeOK, NEW n \in Nat
    PROVE  /\ FreeTrees(n) \in Seq(1..Worktrees) /\ Len(FreeTrees(n)) <= n
           /\ \A k, l \in DOMAIN FreeTrees(n) : FreeTrees(n)[k] = FreeTrees(n)[l] => k = l
           /\ \A k \in DOMAIN FreeTrees(n) : FreeTrees(n)[k] \notin Busy
  <1> DEFINE free == 1..Worktrees \ Busy
             all == [k \in 1..Cardinality(free) |->
                       CHOOSE w \in free : Cardinality({x \in free : x <= w}) = k]
  <1>1. free \in SUBSET Nat /\ IsFiniteSet(free)
    <2>1. IsFiniteSet(1..Worktrees) /\ 1..Worktrees \subseteq Nat
      BY QueueAssumption, FS_Interval
    <2> QED
      BY <2>1, FS_Difference
  <1>2. /\ \A k \in 1..Cardinality(free) : \E w \in free : Cardinality({x \in free : x <= w}) = k
        /\ Cardinality(free) \in Nat
    <2> HIDE DEF free
    <2> QED
      BY <1>1, RankOfNumbers
  <1>7. FreeTrees(n) = Limit(all, n)
    BY DEF FreeTrees
  <1>11. free \subseteq 1..Worktrees /\ \A w \in free : w \notin Busy
    OBVIOUS
  <1> HIDE DEF free
  <1> DEFINE rank == [w \in free |-> Cardinality({x \in free : x <= w})]
  <1>3. \A k \in 1..Cardinality(free) : all[k] \in free /\ rank[all[k]] = k
    BY <1>2
  <1>4. all \in [1..Cardinality(free) -> free]
    BY <1>3
  <1> HIDE DEF all, rank
  <1>5. all \in Seq(free) /\ DOMAIN all = 1..Cardinality(free)
    BY <1>2, <1>4
  <1>6. \A k, l \in DOMAIN all : all[k] = all[l] => k = l
    BY <1>3, <1>5
  <1>8. /\ Limit(all, n) \in Seq(free) /\ Len(Limit(all, n)) <= n
        /\ \A k \in DOMAIN Limit(all, n) : k \in DOMAIN all /\ Limit(all, n)[k] = all[k]
    BY <1>5, LimitCuts
  <1>9. Limit(all, n) \in Seq(1..Worktrees)
    BY <1>8, <1>11, SeqMonotonic
  <1>10. \A k \in DOMAIN Limit(all, n) : Limit(all, n)[k] \in free
    BY <1>8
  <1> QED
    BY <1>6, <1>7, <1>8, <1>11, <1>9, <1>10

-----------------------------------------------------------------------------
(* TYPES *)

Labels == {"idle", "select", "count", "pick", "guard", "mark_node", "run", "settle",
           "settle_node", "letters", "letter"}
Holding == {"guard", "mark_node", "run", "settle", "settle_node"}

(* What a runner at label l knows of its command j, of the items D there are *)
(* and of the tasks T there have been.                                       *)
JobOK(l, j, D, T) ==
    /\ l \in {"select", "count", "pick"} => j.item = 0
    /\ l \in Holding => j.item \in D
    /\ l \in {"select", "count", "pick", "guard", "mark_node", "run"} => j.task = 0
    /\ l \in {"settle", "settle_node"} /\ j.task # 0 =>
         j.task \in DOMAIN T /\ T[j.task].item = j.item
    /\ \A k \in DOMAIN j.ids : j.ids[k] \in D
    /\ l = "pick" /\ j.kind \in {"next", "item", "rotated"} => j.ids # << >>
    /\ l = "letter" => j.ids # << >>
    /\ l = "count" => j.kind = "loop"
    /\ j.kind = "rotated" /\ l \in Holding \union {"pick"} =>
         /\ \A k \in DOMAIN j.trees : j.trees[k] \in 1..Worktrees
         /\ j.trees # << >> /\ Len(j.trees) = Len(j.ids)

JobsOK == \A r \in Runners : JobOK(pc[r], job[r], DOMAIN items, tasks)

Typed == TypeOK /\ JobsOK

(* Rows are never deleted, and what became of a task is never rewritten. *)
Grown ==
    /\ DOMAIN items \subseteq DOMAIN items'
    /\ \A t \in DOMAIN tasks : t \in DOMAIN tasks' /\ tasks'[t] = tasks[t]

Causes == {"rival", "sweep", "operator", "death", "plan", "syncs", "overlap", "chosen"}
Uses == [begins : 0..MaxBegins, syncs : 0..MaxSyncs, commands : 0..MaxCommands]
TaskRows == [item : Ids, ok : BOOLEAN, tree : Trees]

LEMMA BudgetsKept ==
    ASSUME TypeOK,
           \/ UNCHANGED used \/ Budget("begins", MaxBegins) \/ Budget("syncs", MaxSyncs)
           \/ Budget("commands", MaxCommands)
    PROVE  used' \in Uses
  <1>1. used \in Uses /\ MaxBegins \in Nat /\ MaxSyncs \in Nat /\ MaxCommands \in Nat
    BY QueueAssumption DEF TypeOK, Uses
  <1>2. CASE Budget("begins", MaxBegins)
    BY <1>1, <1>2 DEF Budget, Uses
  <1>3. CASE Budget("syncs", MaxSyncs)
    BY <1>1, <1>3 DEF Budget, Uses
  <1>4. CASE Budget("commands", MaxCommands)
    BY <1>1, <1>4 DEF Budget, Uses
  <1> QED
    BY <1>1, <1>2, <1>3, <1>4

LEMMA TreesAre ==
    1..Worktrees \subseteq Trees /\ 0 \in Trees
  BY QueueAssumption DEF Trees

LEMMA JobStaysOK ==
    ASSUME NEW l, NEW j, NEW D, NEW E, NEW T, NEW U, JobOK(l, j, D, T), D \subseteq E,
           \A t \in DOMAIN T : t \in DOMAIN U /\ U[t] = T[t]
    PROVE  JobOK(l, j, E, U)
  BY DEF JobOK

LEMMA OneMoves ==
    ASSUME Typed, NEW r \in Runners, NEW l \in Labels, NEW j \in Jobs, Grown,
           Goto(r, l), job' = [job EXCEPT ![r] = j], JobOK(l, j, DOMAIN items', tasks')
    PROVE  /\ pc' \in [Runners -> Labels] /\ job' \in [Runners -> Jobs] /\ JobsOK'
           /\ pc'[r] = l /\ job'[r] = j
           /\ \A s \in Runners : s # r => pc'[s] = pc[s] /\ job'[s] = job[s]
  <1>1. pc \in [Runners -> Labels] /\ job \in [Runners -> Jobs] /\ JobsOK
    BY DEF Typed, TypeOK, Labels
  <1>2. /\ pc' \in [Runners -> Labels] /\ job' \in [Runners -> Jobs]
        /\ pc'[r] = l /\ job'[r] = j
        /\ \A s \in Runners : s # r => pc'[s] = pc[s] /\ job'[s] = job[s]
    BY <1>1 DEF Goto
  <1>3. \A s \in Runners : JobOK(pc'[s], job'[s], DOMAIN items', tasks')
    <2>1. ASSUME NEW s \in Runners, s # r
          PROVE  JobOK(pc[s], job[s], DOMAIN items', tasks')
      <3>1. JobOK(pc[s], job[s], DOMAIN items, tasks)
        BY <1>1 DEF JobsOK
      <3> QED
        BY <3>1, JobStaysOK DEF Grown
    <2> QED
      BY <1>2, <2>1
  <1> QED
    BY <1>2, <1>3 DEF JobsOK

LEMMA NoneMoves ==
    ASSUME Typed, Grown, UNCHANGED <<pc, job>>
    PROVE  /\ pc' \in [Runners -> Labels] /\ job' \in [Runners -> Jobs] /\ JobsOK'
           /\ \A s \in Runners : pc'[s] = pc[s] /\ job'[s] = job[s]
  <1>1. pc \in [Runners -> Labels] /\ job \in [Runners -> Jobs] /\ JobsOK
    BY DEF Typed, TypeOK, Labels
  <1>2. ASSUME NEW s \in Runners
        PROVE  JobOK(pc[s], job[s], DOMAIN items', tasks')
    <2>1. JobOK(pc[s], job[s], DOMAIN items, tasks)
      BY <1>1 DEF JobsOK
    <2> QED
      BY <2>1, JobStaysOK DEF Grown
  <1> QED
    BY <1>1, <1>2 DEF JobsOK

(* A runner ends its command, or a loop goes on to its dead letters. *)
LEMMA QuitIsOK ==
    ASSUME Typed, NEW r \in Runners, Quit(r), Grown
    PROVE  /\ pc' \in [Runners -> Labels] /\ job' \in [Runners -> Jobs] /\ JobsOK'
           /\ pc'[r] = "idle" /\ job'[r] = NoJob
           /\ \A s \in Runners : s # r => pc'[s] = pc[s] /\ job'[s] = job[s]
  <1>1. NoJob \in Jobs /\ "idle" \in Labels
    BY TreesAre, QueueAssumption DEF NoJob, Jobs, Kinds, Labels
  <1>2. JobOK("idle", NoJob, DOMAIN items', tasks')
    BY DEF JobOK, NoJob, Holding
  <1> QED
    BY <1>1, <1>2, OneMoves DEF Quit

LEMMA EndedIsOK ==
    ASSUME Typed, NEW r \in Runners, Ended(r), Grown
    PROVE  /\ pc' \in [Runners -> Labels] /\ job' \in [Runners -> Jobs] /\ JobsOK'
           /\ pc'[r] \in {"idle", "letters"}
           /\ \A s \in Runners : s # r => pc'[s] = pc[s] /\ job'[s] = job[s]
  <1>1. CASE Quit(r)
    BY <1>1, QuitIsOK
  <1>2. CASE /\ job[r].kind = "loop" /\ Goto(r, "letters")
             /\ job' = [job EXCEPT ![r] = [NoJob EXCEPT !.kind = "loop", !.ids = job[r].ids]]
    <2> DEFINE j == [NoJob EXCEPT !.kind = "loop", !.ids = job[r].ids]
    <2>1. NoJob \in Jobs /\ job[r] \in Jobs /\ "letters" \in Labels
      BY TreesAre, QueueAssumption DEF NoJob, Jobs, Kinds, Labels, Typed, TypeOK
    <2>2. JobOK(pc[r], job[r], DOMAIN items', tasks')
      <3>1. JobOK(pc[r], job[r], DOMAIN items, tasks)
        BY DEF Typed, JobsOK
      <3> QED
        BY <3>1, JobStaysOK DEF Grown
    <2>3. j \in Jobs /\ j.kind = "loop" /\ j.ids = job[r].ids /\ j.item = 0 /\ j.task = 0
      BY <2>1 DEF Jobs, Kinds, NoJob
    <2> HIDE DEF j
    <2>4. JobOK("letters", j, DOMAIN items', tasks')
      BY <1>2, <2>2, <2>3 DEF JobOK, Holding
    <2> QED
      BY <1>2, <2>1, <2>3, <2>4, OneMoves DEF j
  <1> QED
    BY <1>1, <1>2 DEF Ended

LEMMA WriteItem ==
    ASSUME TypeOK, NEW i \in DOMAIN items, NEW row \in Rows, items' = [items EXCEPT ![i] = row]
    PROVE  /\ items' \in Seq(Rows) /\ Len(items') = Len(items) /\ DOMAIN items' = DOMAIN items
           /\ items'[i] = row /\ \A j \in DOMAIN items : j # i => items'[j] = items[j]
  <1>1. items \in Seq(Rows)
    BY DEF TypeOK
  <1>2. DOMAIN items = 1..Len(items)
    BY <1>1, LenProperties
  <1> QED
    BY <1>1, <1>2, ExceptSeq

LEMMA ItemsAreIds ==
    ASSUME TypeOK
    PROVE  /\ DOMAIN items = 1..Len(items) /\ Len(items) \in 0..MaxRows
           /\ DOMAIN items \subseteq Ids /\ Ids \subseteq Nat
           /\ \A i \in DOMAIN items : items[i] \in Rows
  <1>1. items \in Seq(Rows) /\ Len(items) <= MaxRows /\ Len(items) \in Nat
    BY DEF TypeOK
  <1>2. DOMAIN items = 1..Len(items)
    BY <1>1, LenProperties
  <1>3. \A i \in DOMAIN items : items[i] \in Rows
    BY <1>1, <1>2, ElementOfSeq
  <1> QED
    BY <1>1, <1>2, <1>3, QueueAssumption DEF Ids
-----------------------------------------------------------------------------
(* WHAT EACH STEP DOES *)

Others(r) == \A s \in Runners : s # r => pc'[s] = pc[s] /\ job'[s] = job[s]

(* A step that writes neither an item nor a node nor a task. *)
Quiet == UNCHANGED <<plan, items, nodes, tasks, insert, moves, sweep>>

LEMMA QuietGrows ==
    ASSUME Quiet
    PROVE  Grown
  BY DEF Quiet, Grown

LEMMA QuietTyped ==
    ASSUME Typed, Quiet, pc' \in [Runners -> Labels], job' \in [Runners -> Jobs], JobsOK',
           UNCHANGED letters \/ (\E i \in Ids : letters' = [letters EXCEPT ![i] = @ + 1]),
           UNCHANGED upset
             \/ (\E S \in SUBSET Ids :
                   \E why \in {"rival", "death", "overlap"} : Upset(S, why)),
           UNCHANGED used \/ Budget("begins", MaxBegins) \/ Budget("commands", MaxCommands)
    PROVE  Typed'
  <1>1. letters' \in [Ids -> Nat]
    <2>1. letters \in [Ids -> Nat]
      BY DEF Typed, TypeOK
    <2>2. \A i \in Ids : letters[i] + 1 \in Nat
      BY <2>1
    <2> QED
      BY <2>1, <2>2
  <1>2. upset' \subseteq Ids \X Causes
    <2>1. upset \subseteq Ids \X Causes
      BY DEF Typed, TypeOK, Causes
    <2> QED
      BY <2>1 DEF Upset, Causes
  <1>3. used' \in Uses
    BY BudgetsKept DEF Typed
  <1> QED
    BY <1>1, <1>2, <1>3 DEF Typed, TypeOK, Quiet, Labels, Causes, Uses, TaskRows

LEMMA BeginDoes ==
    ASSUME Typed, NEW r \in Runners, NEW kind \in Kinds,
           NEW tree \in Trees, Begin(r, kind, tree)
    PROVE  Typed' /\ Quiet /\ UNCHANGED letters /\ Others(r) /\ pc'[r] = "select"
  <1>1. Quiet /\ Grown /\ UNCHANGED letters
    BY QuietGrows DEF Begin, Quiet
  <1> DEFINE j == [NoJob EXCEPT !.kind = kind, !.tree = tree]
  <1>2. j \in Jobs /\ j.item = 0 /\ j.task = 0 /\ j.ids = << >> /\ j.kind = kind
    <2>1. NoJob \in Jobs /\ NoJob.item = 0 /\ NoJob.task = 0 /\ NoJob.ids = << >>
      BY TreesAre, QueueAssumption DEF NoJob, Jobs, Kinds
    <2>2. tree \in Trees
      BY TreesAre
    <2> QED
      BY <2>1, <2>2 DEF Jobs
  <1>3. Goto(r, "select") /\ job' = [job EXCEPT ![r] = j] /\ "select" \in Labels
    BY DEF Begin, Labels
  <1> HIDE DEF j
  <1>4. JobOK("select", j, DOMAIN items', tasks')
    BY <1>2 DEF JobOK, Holding
  <1>5. /\ pc' \in [Runners -> Labels] /\ job' \in [Runners -> Jobs] /\ JobsOK'
        /\ pc'[r] = "select" /\ Others(r)
    BY <1>1, <1>2, <1>3, <1>4, OneMoves DEF Others
  <1>6. Typed'
    <2>1. UNCHANGED upset \/ Upset(Ids, "overlap")
      BY DEF Begin
    <2>2. Budget("begins", MaxBegins)
      BY DEF Begin
    <2> QED
      BY <1>1, <1>5, <2>1, <2>2, QuietTyped
  <1> QED
    BY <1>1, <1>5, <1>6

LEMMA ListFields ==
    ASSUME NEW f \in [Runners -> Jobs], NEW r \in Runners, NEW a, NEW b, NEW c
    PROVE  [f EXCEPT ![r].ids = a, ![r].links = b, ![r].trees = c]
             = [f EXCEPT ![r] = [f[r] EXCEPT !.ids = a, !.links = b, !.trees = c]]
  OBVIOUS

(* The lists a command works off. *)
LEMMA QueueIsIds ==
    ASSUME TypeOK, NEW n \in Nat
    PROVE  /\ Queue \in Seq(Ids) /\ Limit(Queue, n) \in Seq(Ids)
           /\ Len(Limit(Queue, n)) <= n /\ Len(Limit(Queue, n)) \in Nat
           /\ \A k \in DOMAIN Limit(Queue, n) : Limit(Queue, n)[k] \in Created
           /\ Created # {} => Queue[1] \in Created
           /\ Created \subseteq DOMAIN items /\ Created \subseteq Ids
  <1>1. Created \subseteq DOMAIN items /\ Created \subseteq Ids
    BY ItemsAreIds DEF Created
  <1>2. Queue \in Seq(Created) /\ (Created # {} => Len(Queue) > 0)
    BY QueueLists
  <1>3. Queue \in Seq(Ids)
    BY <1>1, <1>2, SeqMonotonic
  <1>4. /\ Limit(Queue, n) \in Seq(Created) /\ Len(Limit(Queue, n)) <= n
    BY <1>2, LimitCuts
  <1>5. Limit(Queue, n) \in Seq(Ids)
    BY <1>1, <1>4, SeqMonotonic
  <1>6. \A k \in DOMAIN Limit(Queue, n) : Limit(Queue, n)[k] \in Created
    BY <1>4, LenProperties, ElementOfSeq
  <1>7. Created # {} => Queue[1] \in Created
    <2>1. Len(Queue) \in Nat
      BY <1>2, LenProperties
    <2> QED
      BY <1>2, <2>1, ElementOfSeq
  <1> QED
    BY <1>1, <1>3, <1>4, <1>5, <1>6, <1>7, LenProperties

(* The links a command reads are those the items have. *)
LEMMA LinksRead ==
    ASSUME TypeOK, NEW r, NEW ids
    PROVE  /\ LinkedOf(r, ids) \in SUBSET Ids
           /\ Fixed(r) => \A k \in DOMAIN ids : ids[k] \in DOMAIN items =>
                (ids[k] \in LinkedOf(r, ids) <=> items[ids[k]].linked)
  <1>1. DOMAIN items \subseteq Ids /\ \A i \in DOMAIN items : items[i].linked \in BOOLEAN
    BY ItemsAreIds DEF Rows
  <1> QED
    BY <1>1 DEF LinkedOf

LEMMA SelectDoes ==
    ASSUME Typed, NEW r \in Runners, Select(r)
    PROVE  /\ Typed' /\ Quiet /\ UNCHANGED <<letters, upset>> /\ Others(r)
           /\ pc[r] = "select" /\ pc'[r] \in {"idle", "count", "pick"}
           /\ pc'[r] # "idle" =>
                \E n \in Nat :
                  /\ n > 0 /\ (job[r].kind = "next" => n = 1)
                  /\ job'[r].kind = job[r].kind /\ job'[r].ids = Limit(Queue, n)
                  /\ job'[r].links = LinkedOf(r, job'[r].ids) /\ job'[r].tree = job[r].tree
                  /\ job[r].kind = "rotated" =>
                       job'[r].trees = FreeTrees(Len(Limit(Queue, n)))
  <1>1. Quiet /\ Grown /\ UNCHANGED <<letters, upset, used>> /\ pc[r] = "select"
    BY QuietGrows DEF Select, Quiet
  <1> DEFINE kind == job[r].kind
  <1>2. PICK n \in Nat : n > 0 /\ n = (IF kind = "next" THEN 1 ELSE BatchSize)
    BY QueueAssumption
  <1> DEFINE ids == Limit(Queue, n)
             trees == FreeTrees(Len(ids))
  <1>3. \/ Quit(r)
        \/ /\ ids # << >> \/ kind = "loop"
           /\ ~ (kind = "rotated" /\ Len(trees) < Len(ids))
           /\ Goto(r, IF kind = "loop" THEN "count" ELSE "pick")
           /\ job' = [job EXCEPT ![r].ids = ids, ![r].links = LinkedOf(r, ids),
                        ![r].trees = IF kind = "rotated" THEN trees ELSE << >>]
    BY <1>2 DEF Select
  <1>4. TypeOK /\ JobsOK /\ job \in [Runners -> Jobs] /\ job[r] \in Jobs
    BY DEF Typed, TypeOK
  <1>5. CASE Quit(r)
    <2>1. /\ pc' \in [Runners -> Labels] /\ job' \in [Runners -> Jobs] /\ JobsOK'
          /\ pc'[r] = "idle" /\ Others(r)
      BY <1>1, <1>5, QuitIsOK DEF Others
    <2> QED
      BY <1>1, <2>1, QuietTyped
  <1>6. CASE /\ ids # << >> \/ kind = "loop"
             /\ ~ (kind = "rotated" /\ Len(trees) < Len(ids))
             /\ Goto(r, IF kind = "loop" THEN "count" ELSE "pick")
             /\ job' = [job EXCEPT ![r].ids = ids, ![r].links = LinkedOf(r, ids),
                          ![r].trees = IF kind = "rotated" THEN trees ELSE << >>]
    <2>1. /\ ids \in Seq(Ids) /\ Len(ids) \in Nat /\ Created \subseteq DOMAIN items
          /\ \A k \in DOMAIN ids : ids[k] \in DOMAIN items
      BY <1>4, QueueIsIds
    <2>2. /\ trees \in Seq(1..Worktrees) /\ Len(trees) <= Len(ids)
          /\ trees \in Seq(Nat) /\ Len(trees) \in Nat
          /\ \A k \in DOMAIN trees : trees[k] \in 1..Worktrees
      <3>1. trees \in Seq(1..Worktrees) /\ Len(trees) <= Len(ids)
        BY <1>4, <2>1, FreeTreesAreFree
      <3>2. 1..Worktrees \subseteq Nat
        BY QueueAssumption
      <3>3. trees \in Seq(Nat) /\ Len(trees) \in Nat
        <4> HIDE DEF trees
        <4> QED
          BY <3>1, <3>2, SeqMonotonic, LenProperties
      <3>4. \A k \in DOMAIN trees : trees[k] \in 1..Worktrees
        <4> HIDE DEF trees
        <4> QED
          BY <3>1, LenProperties, ElementOfSeq
      <3> QED
        BY <3>1, <3>3, <3>4
    <2> DEFINE b == IF kind = "rotated" THEN trees ELSE << >>
               links == LinkedOf(r, ids)
               j == [job[r] EXCEPT !.ids = ids, !.links = links, !.trees = b]
               l == IF kind = "loop" THEN "count" ELSE "pick"
    <2>3. b \in Seq(Nat) /\ (kind = "rotated" => b = trees)
      BY <2>2
    <2>4. job' = [job EXCEPT ![r].ids = ids, ![r].links = links, ![r].trees = b]
      BY <1>6
    <2>5. /\ Goto(r, l) /\ (ids # << >> \/ kind = "loop")
          /\ kind = "rotated" => ~ Len(trees) < Len(ids)
      BY <1>6
    <2>15. links \in SUBSET Ids
      BY <1>4, LinksRead
    <2> HIDE DEF b, links, ids, trees
    <2>6. job' = [job EXCEPT ![r] = j]
      <3>1. [job EXCEPT ![r].ids = ids, ![r].links = links, ![r].trees = b]
              = [job EXCEPT ![r] = [job[r] EXCEPT !.ids = ids, !.links = links, !.trees = b]]
        BY <1>4, ListFields
      <3> QED
        BY <2>4, <3>1, Zenon
    <2> HIDE DEF j
    <2>7. /\ j \in Jobs /\ j.ids = ids /\ j.links = links /\ j.trees = b /\ j.kind = kind
          /\ j.tree = job[r].tree /\ j.item = job[r].item /\ j.task = job[r].task
      <3>1. j = [job[r] EXCEPT !.ids = ids, !.links = links, !.trees = b]
        BY DEF j
      <3> QED
        BY <3>1, <1>4, <2>1, <2>3, <2>15 DEF Jobs
    <2>8. job[r].item = 0 /\ job[r].task = 0
      BY <1>1, <1>4 DEF JobsOK, JobOK
    <2>9. DOMAIN items' = DOMAIN items /\ l \in {"count", "pick"} /\ l \in Labels
      BY <1>1 DEF Quiet, Labels
    <2>12. l = "count" => kind = "loop"
      OBVIOUS
    <2>13. kind = "rotated" => /\ b # << >> /\ Len(b) = Len(ids)
                               /\ \A k \in DOMAIN b : b[k] \in 1..Worktrees
      <3>1. CASE kind = "rotated"
        <4>1. b = trees /\ Len(trees) = Len(ids)
          BY <2>1, <2>2, <2>3, <2>5, <3>1
        <4>2. Len(ids) # 0
          BY <2>1, <2>5, <3>1, EmptySeq
        <4>3. b # << >>
          BY <2>2, <4>1, <4>2, EmptySeq
        <4> QED
          BY <2>2, <4>1, <4>3
      <3> QED
        BY <3>1
    <2> HIDE DEF l
    <2>10. JobOK(l, j, DOMAIN items', tasks')
      BY <2>1, <2>5, <2>7, <2>8, <2>9, <2>12, <2>13 DEF JobOK, Holding
    <2>11. /\ pc' \in [Runners -> Labels] /\ job' \in [Runners -> Jobs] /\ JobsOK'
           /\ pc'[r] = l /\ job'[r] = j /\ Others(r)
      BY <1>1, <2>5, <2>6, <2>7, <2>9, <2>10, OneMoves DEF Others
    <2>14. Typed'
      BY <1>1, <2>11, QuietTyped
    <2> QED
      BY <1>1, <1>2, <2>3, <2>7, <2>9, <2>11, <2>14 DEF ids, links, trees
  <1> QED
    BY <1>3, <1>5, <1>6

LEMMA SelectItemDoes ==
    ASSUME Typed, NEW r \in Runners, NEW i \in Ids, SelectItem(r, i)
    PROVE  /\ Typed' /\ Quiet /\ UNCHANGED <<letters, upset>> /\ Others(r)
           /\ pc[r] = "select" /\ pc'[r] = "pick" /\ i \in Created
           /\ job'[r].ids = <<i>> /\ job'[r].kind = "item"
           /\ job'[r].links = LinkedOf(r, job'[r].ids)
  <1>1. /\ Quiet /\ Grown /\ UNCHANGED <<letters, upset, used>>
        /\ pc[r] = "select" /\ job[r].kind = "item" /\ i \in Created /\ i \in DOMAIN items
    BY QuietGrows DEF SelectItem, Quiet, Created
  <1>2. TypeOK /\ JobsOK /\ job \in [Runners -> Jobs] /\ job[r] \in Jobs
    BY DEF Typed, TypeOK
  <1> DEFINE links == LinkedOf(r, <<i>>)
             j == [job[r] EXCEPT !.ids = <<i>>, !.links = links]
  <1>3. job' = [job EXCEPT ![r] = j] /\ Goto(r, "pick") /\ "pick" \in Labels
    BY <1>2 DEF SelectItem, Labels
  <1>4. <<i>> \in Seq(Ids) /\ <<i>> # << >> /\ \A k \in DOMAIN <<i>> : <<i>>[k] \in DOMAIN items
    BY <1>1
  <1>10. links \in SUBSET Ids
    BY <1>2, LinksRead
  <1> HIDE DEF links
  <1>5. /\ j \in Jobs /\ j.ids = <<i>> /\ j.kind = "item" /\ j.links = links
        /\ j.item = job[r].item /\ j.task = job[r].task
    BY <1>1, <1>2, <1>4, <1>10 DEF Jobs
  <1>6. job[r].item = 0 /\ job[r].task = 0
    BY <1>1, <1>2 DEF JobsOK, JobOK
  <1> HIDE DEF j
  <1>7. JobOK("pick", j, DOMAIN items', tasks')
    BY <1>1, <1>4, <1>5, <1>6 DEF JobOK, Holding, Quiet
  <1>8. /\ pc' \in [Runners -> Labels] /\ job' \in [Runners -> Jobs] /\ JobsOK'
        /\ pc'[r] = "pick" /\ job'[r] = j /\ Others(r)
    BY <1>1, <1>3, <1>5, <1>7, OneMoves DEF Others
  <1>9. Typed'
    BY <1>1, <1>8, QuietTyped
  <1> QED
    BY <1>1, <1>5, <1>8, <1>9 DEF links

LEMMA StopLoopDoes ==
    ASSUME Typed, NEW r \in Runners, StopLoop(r)
    PROVE  /\ Typed' /\ Quiet /\ UNCHANGED <<letters, upset>> /\ Others(r)
           /\ pc[r] = "select" /\ pc'[r] = "idle"
  <1>1. Quiet /\ Grown /\ UNCHANGED <<letters, upset, used>> /\ pc[r] = "select" /\ Quit(r)
    BY QuietGrows DEF StopLoop, Quiet
  <1>2. /\ pc' \in [Runners -> Labels] /\ job' \in [Runners -> Jobs] /\ JobsOK'
        /\ pc'[r] = "idle" /\ Others(r)
    BY <1>1, QuitIsOK DEF Others
  <1> QED
    BY <1>1, <1>2, QuietTyped

LEMMA CountRoundsDoes ==
    ASSUME Typed, NEW r \in Runners, CountRounds(r)
    PROVE  /\ Typed' /\ Quiet /\ UNCHANGED <<letters, upset>> /\ Others(r)
           /\ pc[r] = "count" /\ pc'[r] \in {"letters", "pick"}
           /\ job'[r].kind = "loop" /\ job'[r].ids = job[r].ids
  <1>1. /\ Quiet /\ Grown /\ UNCHANGED <<letters, upset, used>> /\ pc[r] = "count"
    BY QuietGrows DEF CountRounds, Quiet
  <1>2. TypeOK /\ JobsOK /\ job \in [Runners -> Jobs] /\ job[r] \in Jobs
    BY DEF Typed, TypeOK
  <1>3. JobOK("count", job[r], DOMAIN items, tasks)
    BY <1>1, <1>2 DEF JobsOK
  <1>4. Limit(Queue, BatchSize) \in Seq(Nat)
    <2>1. Limit(Queue, BatchSize) \in Seq(Ids) /\ Ids \subseteq Nat
      BY <1>2, QueueIsIds, ItemsAreIds, QueueAssumption
    <2> QED
      BY <2>1, SeqMonotonic
  <1>5. PICK l \in {"letters", "pick"} : Goto(r, l)
    BY DEF CountRounds
  <1> DEFINE rounds == Limit(Queue, BatchSize)
             j == [job[r] EXCEPT !.trees = rounds]
  <1>6. job' = [job EXCEPT ![r] = j]
    BY <1>2 DEF CountRounds
  <1> HIDE DEF rounds
  <1>7. /\ j \in Jobs /\ j.ids = job[r].ids /\ j.kind = job[r].kind
        /\ j.item = job[r].item /\ j.task = job[r].task
    BY <1>2, <1>4 DEF Jobs, rounds
  <1> HIDE DEF j
  <1>8. JobOK(l, j, DOMAIN items', tasks') /\ l \in Labels
    BY <1>1, <1>3, <1>5, <1>7 DEF JobOK, Holding, Quiet, Labels
  <1>9. /\ pc' \in [Runners -> Labels] /\ job' \in [Runners -> Jobs] /\ JobsOK'
        /\ pc'[r] = l /\ job'[r] = j /\ Others(r)
    BY <1>1, <1>5, <1>6, <1>7, <1>8, OneMoves DEF Others
  <1>10. Typed'
    BY <1>1, <1>9, QuietTyped
  <1>11. job[r].kind = "loop"
    BY <1>3 DEF JobOK
  <1> QED
    BY <1>1, <1>5, <1>7, <1>9, <1>10, <1>11

(* Who has item i in hand. *)
Holds(r, i) == pc[r] \in Holding /\ job[r].item = i

LEMMA HeldIsHolding ==
    ASSUME Typed, NEW i \in Ids
    PROVE  Held(i) = {r \in Runners : Holds(r, i)}
  <1>1. ASSUME NEW r \in Runners
        PROVE  (pc[r] \notin {"idle", "letters", "letter"} /\ job[r].item = i) <=> Holds(r, i)
    <2>1. JobOK(pc[r], job[r], DOMAIN items, tasks) /\ pc[r] \in Labels
      BY DEF Typed, JobsOK, TypeOK, Labels
    <2>2. i # 0
      BY QueueAssumption DEF Ids
    <2> QED
      BY <2>1, <2>2 DEF JobOK, Holds, Holding, Labels
  <1> QED
    BY <1>1 DEF Held

(* Pick takes an item in hand: one that is created and in nobody else's      *)
(* hands, or a rival is noted.                                               *)
LEMMA PickDoes ==
    ASSUME Typed, NEW r \in Runners, Pick(r)
    PROVE  /\ Typed' /\ Quiet /\ UNCHANGED letters /\ Others(r) /\ pc[r] = "pick"
           /\ \/ pc'[r] \in {"idle", "letters"} /\ UNCHANGED upset
              \/ \E i \in DOMAIN items :
                   /\ i = IF Fixed(r) THEN Head(job[r].ids) ELSE Queue[1]
                   /\ pc'[r] = "guard" /\ job'[r].item = i
                   /\ ~ Fixed(r) => i \in Created
                   /\ job'[r].kind = job[r].kind /\ job'[r].trees = job[r].trees
                   /\ job'[r].ids = job[r].ids /\ job'[r].links = job[r].links
                   /\ job'[r].linked = IF Fixed(r) THEN i \in job[r].links
                                       ELSE items[i].linked
                   /\ \/ /\ UNCHANGED upset /\ items[i].status = "created"
                         /\ \A s \in Runners : ~ Holds(s, i)
                      \/ upset' = upset \union {<<i, "rival">>}
  <1>1. Quiet /\ Grown /\ UNCHANGED <<letters, used>> /\ pc[r] = "pick"
    BY QuietGrows DEF Pick, Quiet
  <1>2. TypeOK /\ JobsOK /\ job \in [Runners -> Jobs] /\ job[r] \in Jobs
    BY DEF Typed, TypeOK
  <1>3. JobOK("pick", job[r], DOMAIN items, tasks)
    BY <1>1, <1>2 DEF JobsOK
  <1>4. CASE ~ Fixed(r) /\ Created = {}
    <2>1. Ended(r) /\ UNCHANGED upset
      BY <1>4 DEF Pick
    <2>2. /\ pc' \in [Runners -> Labels] /\ job' \in [Runners -> Jobs] /\ JobsOK'
          /\ pc'[r] \in {"idle", "letters"} /\ Others(r)
      BY <1>1, <2>1, EndedIsOK DEF Others
    <2> QED
      BY <1>1, <2>1, <2>2, QuietTyped
  <1>5. CASE Fixed(r) \/ Created # {}
    <2> DEFINE head == IF Fixed(r) THEN Head(job[r].ids) ELSE Queue[1]
    <2>1. head \in DOMAIN items /\ (~ Fixed(r) => head \in Created)
      <3>1. CASE Fixed(r)
        <4>1. job[r].ids # << >> /\ job[r].ids \in Seq(Ids)
          BY <1>2, <1>3, <3>1 DEF JobOK, Fixed, Jobs
        <4>2. 1 \in DOMAIN job[r].ids /\ Head(job[r].ids) = job[r].ids[1]
          BY <4>1, EmptySeq, LenProperties
        <4> QED
          BY <1>3, <3>1, <4>2 DEF JobOK
      <3>2. CASE ~ Fixed(r)
        <4>1. Created # {} /\ 1 \in Nat
          BY <1>5, <3>2
        <4>2. Queue[1] \in Created /\ Created \subseteq DOMAIN items
          BY <1>2, <4>1, QueueIsIds
        <4> QED
          BY <3>2, <4>2
      <3> QED
        BY <3>1, <3>2
    <2>2. PICK i \in DOMAIN items : i = head /\ (~ Fixed(r) => i \in Created)
      BY <2>1
    <2>3. /\ Goto(r, "guard")
          /\ job' = [job EXCEPT ![r].item = i,
                       ![r].linked = IF Fixed(r) THEN i \in job[r].links
                                     ELSE items[i].linked]
          /\ IF Held(i) # {} \/ items[i].status # "created"
             THEN Upset({i}, "rival") ELSE UNCHANGED upset
      <3>1. ~ (~ Fixed(r) /\ Created = {})
        BY <1>5
      <3> QED
        BY <2>2, <3>1 DEF Pick
    <2>4. i \in Ids /\ i \in 0..MaxRows /\ items[i].linked \in BOOLEAN
      <3>1. i \in Ids /\ items[i] \in Rows
        BY <1>2, ItemsAreIds
      <3> QED
        BY <3>1, QueueAssumption DEF Ids, Rows
    <2> DEFINE link == IF Fixed(r) THEN i \in job[r].links ELSE items[i].linked
               j == [job[r] EXCEPT !.item = i, !.linked = link]
    <2>5. job' = [job EXCEPT ![r].item = i, ![r].linked = link]
      BY <2>3
    <2>6. link \in BOOLEAN
      <3>1. CASE Fixed(r)
        BY <3>1
      <3>2. CASE ~ Fixed(r)
        BY <2>4, <3>2
      <3> QED
        BY <3>1, <3>2
    <2> HIDE DEF link
    <2>7. job' = [job EXCEPT ![r] = j]
      BY <1>2, <2>5
    <2>8. /\ j \in Jobs /\ j.item = i /\ j.linked = link /\ j.ids = job[r].ids
          /\ j.links = job[r].links
          /\ j.trees = job[r].trees /\ j.kind = job[r].kind /\ j.task = job[r].task
      BY <1>2, <2>4, <2>6 DEF Jobs
    <2> HIDE DEF j
    <2>9. JobOK("guard", j, DOMAIN items', tasks') /\ "guard" \in Labels
      BY <1>1, <1>3, <2>8 DEF JobOK, Holding, Quiet, Labels
    <2>10. /\ pc' \in [Runners -> Labels] /\ job' \in [Runners -> Jobs] /\ JobsOK'
           /\ pc'[r] = "guard" /\ job'[r] = j /\ Others(r)
      BY <1>1, <2>3, <2>7, <2>8, <2>9, OneMoves DEF Others
    <2>11. UNCHANGED upset \/ Upset({i}, "rival")
      BY <2>3
    <2>12. Typed'
      BY <1>1, <2>4, <2>10, <2>11, QuietTyped
    <2>13. \/ UNCHANGED upset /\ items[i].status = "created" /\ Held(i) = {}
           \/ upset' = upset \union {<<i, "rival">>}
      BY <2>3 DEF Upset
    <2>14. Held(i) = {} => \A s \in Runners : ~ Holds(s, i)
      BY <2>4, HeldIsHolding
    <2> QED
      BY <1>1, <2>2, <2>8, <2>10, <2>12, <2>13, <2>14 DEF link
  <1> QED
    BY <1>4, <1>5

LEMMA RefuseDoes ==
    ASSUME Typed, NEW r \in Runners, Refuse(r)
    PROVE  /\ Typed' /\ Quiet /\ UNCHANGED <<letters, upset>> /\ Others(r)
           /\ pc[r] = "guard" /\ pc'[r] = "settle" /\ job' = job /\ job[r].task = 0
  <1>1. Quiet /\ Grown /\ UNCHANGED <<letters, upset, used>> /\ pc[r] = "guard"
    BY QuietGrows DEF Refuse, Quiet
  <1>2. TypeOK /\ JobsOK /\ job \in [Runners -> Jobs] /\ job[r] \in Jobs
    BY DEF Typed, TypeOK
  <1>3. JobOK("guard", job[r], DOMAIN items, tasks)
    BY <1>1, <1>2 DEF JobsOK
  <1>4. job[r].task = 0
    BY <1>3 DEF JobOK
  <1>5. /\ job' = [job EXCEPT ![r] = job[r]] /\ job' = job
        /\ Goto(r, "settle") /\ "settle" \in Labels
    <2>1. [job[r] EXCEPT !.task = 0] = job[r]
      BY <1>2, <1>4 DEF Jobs
    <2>2. job' = [job EXCEPT ![r] = [job[r] EXCEPT !.task = 0]]
      BY <1>2 DEF Refuse
    <2> QED
      BY <1>2, <2>1, <2>2 DEF Refuse, Labels
  <1>6. JobOK("settle", job[r], DOMAIN items', tasks')
    BY <1>1, <1>3 DEF JobOK, Holding, Quiet
  <1>7. /\ pc' \in [Runners -> Labels] /\ job' \in [Runners -> Jobs] /\ JobsOK'
        /\ pc'[r] = "settle" /\ Others(r)
    BY <1>1, <1>2, <1>5, <1>6, OneMoves DEF Others
  <1> QED
    BY <1>1, <1>4, <1>5, <1>7, QuietTyped

(* A row of which some columns are written. *)
LEMMA WriteStatusTree ==
    ASSUME NEW s, NEW i \in DOMAIN s, NEW a, NEW b
    PROVE  [s EXCEPT ![i].status = a, ![i].worktree = b]
             = [s EXCEPT ![i] = [s[i] EXCEPT !.status = a, !.worktree = b]]
  OBVIOUS

LEMMA WriteTree ==
    ASSUME NEW s, NEW i \in DOMAIN s, NEW a, NEW new
    PROVE  [s EXCEPT ![i].status = a, ![i].worktree = Keeping(@, new)]
             = [s EXCEPT ![i].status = a, ![i].worktree = Keeping(s[i].worktree, new)]
  BY DEF Keeping

LEMMA WriteStatusTaskTree ==
    ASSUME NEW s, NEW i \in DOMAIN s, NEW a, NEW b, NEW c
    PROVE  [s EXCEPT ![i].status = a, ![i].task = b, ![i].worktree = c]
             = [s EXCEPT ![i] = [s[i] EXCEPT !.status = a, !.task = b, !.worktree = c]]
  OBVIOUS

LEMMA WriteTaskTree ==
    ASSUME NEW s, NEW i \in DOMAIN s, NEW a, NEW b, NEW new
    PROVE  [s EXCEPT ![i].status = a, ![i].task = Keeping(@, b), ![i].worktree = Keeping(@, new)]
             = [s EXCEPT ![i].status = a, ![i].task = Keeping(s[i].task, b),
                         ![i].worktree = Keeping(s[i].worktree, new)]
  BY DEF Keeping

LEMMA NewRow ==
    ASSUME NEW row \in Rows, NEW a \in Statuses, NEW b \in 0..MaxTasks, NEW c \in Trees,
           NEW n, n = [row EXCEPT !.status = a, !.task = b, !.worktree = c]
    PROVE  /\ n \in Rows /\ n.status = a /\ n.task = b /\ n.worktree = c
           /\ n.line = row.line /\ n.text = row.text /\ n.linked = row.linked
  BY DEF Rows

(* Item i is written: its status, task and worktree become these. *)
Writes(i, status, task, tree) ==
    /\ DOMAIN items' = DOMAIN items /\ \A k \in DOMAIN items : k # i => items'[k] = items[k]
    /\ items'[i].status = status /\ items'[i].task = task /\ items'[i].worktree = tree
    /\ items'[i].line = items[i].line /\ items'[i].text = items[i].text
    /\ items'[i].linked = items[i].linked

LEMMA WritesOK ==
    ASSUME TypeOK, NEW i \in DOMAIN items,
           NEW a \in Statuses, NEW b \in 0..MaxTasks, NEW c \in Trees,
           items' = [items EXCEPT ![i] = [items[i] EXCEPT !.status = a, !.task = b,
                                                          !.worktree = c]]
    PROVE  Writes(i, a, b, c) /\ items' \in Seq(Rows) /\ Len(items') = Len(items)
  <1> DEFINE row == [items[i] EXCEPT !.status = a, !.task = b, !.worktree = c]
  <1>1. items[i] \in Rows
    BY ItemsAreIds
  <1>2. /\ row \in Rows /\ row.status = a /\ row.task = b /\ row.worktree = c
        /\ row.line = items[i].line /\ row.text = items[i].text /\ row.linked = items[i].linked
    BY <1>1 DEF Rows
  <1>3. items' = [items EXCEPT ![i] = row]
    OBVIOUS
  <1> HIDE DEF row
  <1> QED
    BY <1>2, <1>3, WriteItem DEF Writes

LEMMA TreeOfJob ==
    ASSUME Typed, NEW r \in Runners, pc[r] \in Holding
    PROVE  /\ job[r].item \in DOMAIN items /\ job[r].item \in Ids
           /\ items[job[r].item] \in Rows
           /\ job[r].kind = "rotated" =>
                /\ Tree(r) \in 1..Worktrees /\ Tree(r) = job[r].trees[1]
                /\ Recorded(r) = Tree(r) /\ 1 \in DOMAIN job[r].trees
           /\ Tree(r) \in Trees /\ Recorded(r) \in Trees
           /\ Keeping(items[job[r].item].worktree, Recorded(r)) \in Trees
  <1>1. JobOK(pc[r], job[r], DOMAIN items, tasks) /\ job[r] \in Jobs /\ TypeOK
    BY DEF Typed, JobsOK, TypeOK
  <1>2. job[r].item \in DOMAIN items
    BY <1>1 DEF JobOK
  <1>3. job[r].item \in Ids /\ items[job[r].item] \in Rows
    BY <1>1, <1>2, ItemsAreIds
  <1>4. ASSUME job[r].kind = "rotated"
        PROVE  /\ Tree(r) \in 1..Worktrees /\ Tree(r) = job[r].trees[1]
               /\ Recorded(r) = Tree(r) /\ 1 \in DOMAIN job[r].trees
    <2>1. /\ job[r].trees # << >> /\ job[r].trees \in Seq(Nat)
          /\ \A k \in DOMAIN job[r].trees : job[r].trees[k] \in 1..Worktrees
      BY <1>1, <1>4 DEF JobOK, Jobs
    <2>2. 1 \in DOMAIN job[r].trees /\ Head(job[r].trees) = job[r].trees[1]
      BY <2>1, EmptySeq, LenProperties
    <2> QED
      BY <1>4, <2>1, <2>2 DEF Tree, Recorded
  <1>5. Tree(r) \in Trees
    <2>1. CASE job[r].kind = "rotated"
      BY <1>4, <2>1, TreesAre
    <2>2. CASE job[r].kind # "rotated"
      BY <1>1, <2>2 DEF Tree, Jobs
    <2> QED
      BY <2>1, <2>2
  <1>6. Recorded(r) \in Trees
    BY <1>5, TreesAre DEF Recorded
  <1>7. Keeping(items[job[r].item].worktree, Recorded(r)) \in Trees
    BY <1>3, <1>6 DEF Keeping, Rows
  <1> QED
    BY <1>2, <1>3, <1>4, <1>5, <1>6, <1>7

LEMMA MarkItemDoes ==
    ASSUME Typed, NEW r \in Runners, MarkItem(r)
    PROVE  /\ Typed' /\ Grown
           /\ UNCHANGED <<nodes, tasks, letters, insert, moves, plan, sweep>>
           /\ Others(r) /\ pc[r] = "guard" /\ pc'[r] = "mark_node" /\ job' = job
           /\ job[r].item \in DOMAIN items
           /\ Writes(job[r].item, "in_progress", items[job[r].item].task,
                     Keeping(items[job[r].item].worktree, Recorded(r)))
           /\ upset \subseteq upset'
           /\ \A k \in Ids, why \in Causes \ {"chosen"} :
                <<k, why>> \in upset' => <<k, why>> \in upset
           /\ \/ job[r].kind = "rotated" \/ Recorded(r) = 0
              \/ ~ Taken(job[r].item, Recorded(r))
              \/ <<job[r].item, "chosen">> \in upset'
  <1>1. /\ pc[r] = "guard" /\ Goto(r, "mark_node")
        /\ UNCHANGED <<plan, nodes, tasks, letters, job, insert, moves, sweep, used>>
    BY DEF MarkItem
  <1>2. TypeOK /\ JobsOK /\ job \in [Runners -> Jobs] /\ job[r] \in Jobs
    BY DEF Typed, TypeOK
  <1>3. JobOK("guard", job[r], DOMAIN items, tasks)
    BY <1>1, <1>2 DEF JobsOK
  <1>4. PICK i \in DOMAIN items : i = job[r].item
    BY <1>1, TreeOfJob DEF Holding
  <1>5. PICK tree \in Trees : tree = Keeping(items[i].worktree, Recorded(r))
    BY <1>1, <1>4, TreeOfJob DEF Holding
  <1>6. items' = [items EXCEPT ![i].status = "in_progress", ![i].worktree = tree]
    BY <1>4, <1>5, WriteTree DEF MarkItem
  <1>7. items' = [items EXCEPT ![i] = [items[i] EXCEPT !.status = "in_progress",
                                                       !.worktree = tree]]
    BY <1>6, WriteStatusTree
  <1>8. items[i] \in Rows /\ items[i].task \in 0..MaxTasks
    BY <1>2, ItemsAreIds DEF Rows
  <1>9. [items[i] EXCEPT !.status = "in_progress", !.worktree = tree]
          = [items[i] EXCEPT !.status = "in_progress", !.task = items[i].task, !.worktree = tree]
    BY <1>8 DEF Rows
  <1>10. /\ Writes(i, "in_progress", items[i].task, tree)
         /\ items' \in Seq(Rows) /\ Len(items') = Len(items)
    BY <1>2, <1>7, <1>8, <1>9, WritesOK DEF Statuses
  <1>11. Grown
    BY <1>1, <1>10 DEF Grown, Writes
  <1>12. JobOK("mark_node", job[r], DOMAIN items', tasks')
    BY <1>1, <1>3, <1>10 DEF JobOK, Holding, Writes
  <1>13. /\ pc' \in [Runners -> Labels] /\ job' \in [Runners -> Jobs] /\ JobsOK'
         /\ pc'[r] = "mark_node" /\ Others(r)
    <2>1. job' = [job EXCEPT ![r] = job[r]] /\ "mark_node" \in Labels
      BY <1>1, <1>2 DEF Labels
    <2> QED
      BY <1>1, <1>2, <1>11, <1>12, <2>1, OneMoves DEF Others
  <1>15. /\ UNCHANGED upset \/ upset' = upset \union {<<i, "chosen">>}
         /\ \/ job[r].kind = "rotated" \/ Recorded(r) = 0
            \/ ~ Taken(job[r].item, Recorded(r))
            \/ <<job[r].item, "chosen">> \in upset'
    BY <1>4 DEF MarkItem, Upset
  <1>16. upset' \subseteq Ids \X Causes /\ i \in Ids
    BY <1>2, <1>15, ItemsAreIds DEF TypeOK, Causes
  <1>14. Typed'
    BY <1>1, <1>2, <1>10, <1>13, <1>16 DEF Typed, TypeOK, Labels, Causes
  <1> QED
    BY <1>1, <1>4, <1>5, <1>10, <1>11, <1>13, <1>14, <1>15

LEMMA SetNodeDoes ==
    ASSUME Typed, NEW r \in Runners, pc[r] \in Holding,
           NEW status \in {"in_progress", "done", "blocked"}, SetNode(r, status)
    PROVE  /\ nodes' \in [Ids -> {"pending", "in_progress", "done", "blocked"}]
           /\ job[r].linked => nodes'[job[r].item] = status
           /\ ~ job[r].linked => nodes' = nodes
           /\ \A i \in Ids : i # job[r].item => nodes'[i] = nodes[i]
  <1>1. job[r].item \in Ids
    BY TreeOfJob
  <1>2. nodes \in [Ids -> {"pending", "in_progress", "done", "blocked"}]
    BY DEF Typed, TypeOK
  <1> QED
    BY <1>1, <1>2 DEF SetNode

LEMMA MarkNodeDoes ==
    ASSUME Typed, NEW r \in Runners, MarkNode(r)
    PROVE  /\ Typed' /\ Grown /\ UNCHANGED <<items, tasks, letters, insert, moves, upset, plan>>
           /\ Others(r) /\ pc[r] = "mark_node" /\ pc'[r] = "run" /\ job' = job
           /\ job[r].linked => nodes'[job[r].item] = "in_progress"
           /\ ~ job[r].linked => nodes' = nodes
           /\ \A i \in Ids : i # job[r].item => nodes'[i] = nodes[i]
  <1>1. /\ pc[r] = "mark_node" /\ Goto(r, "run") /\ SetNode(r, "in_progress")
        /\ UNCHANGED <<plan, items, tasks, letters, job, insert, moves, sweep, upset, used>>
    BY DEF MarkNode
  <1>2. TypeOK /\ JobsOK /\ job \in [Runners -> Jobs] /\ job[r] \in Jobs
    BY DEF Typed, TypeOK
  <1>3. JobOK("mark_node", job[r], DOMAIN items, tasks)
    BY <1>1, <1>2 DEF JobsOK
  <1>4. Grown
    BY <1>1 DEF Grown
  <1>5. /\ pc' \in [Runners -> Labels] /\ job' \in [Runners -> Jobs] /\ JobsOK'
        /\ pc'[r] = "run" /\ Others(r)
    <2>1. job' = [job EXCEPT ![r] = job[r]] /\ "run" \in Labels
      BY <1>1, <1>2 DEF Labels
    <2>2. JobOK("run", job[r], DOMAIN items', tasks')
      BY <1>1, <1>3 DEF JobOK, Holding
    <2> QED
      BY <1>1, <1>2, <1>4, <2>1, <2>2, OneMoves DEF Others
  <1>6. /\ nodes' \in [Ids -> {"pending", "in_progress", "done", "blocked"}]
        /\ job[r].linked => nodes'[job[r].item] = "in_progress"
        /\ ~ job[r].linked => nodes' = nodes
        /\ \A i \in Ids : i # job[r].item => nodes'[i] = nodes[i]
    BY <1>1, SetNodeDoes DEF Holding
  <1>7. Typed'
    BY <1>1, <1>2, <1>5, <1>6 DEF Typed, TypeOK, Labels
  <1> QED
    BY <1>1, <1>4, <1>5, <1>6, <1>7

LEMMA RunTaskDoes ==
    ASSUME Typed, NEW r \in Runners, NEW ok \in BOOLEAN, RunTask(r, ok)
    PROVE  /\ Typed' /\ Grown /\ UNCHANGED <<items, nodes, letters, insert, moves, upset, plan>>
           /\ Others(r) /\ pc[r] = "run" /\ pc'[r] = "settle"
           /\ job'[r].item = job[r].item /\ job'[r].linked = job[r].linked
           /\ job'[r].kind = job[r].kind /\ job'[r].trees = job[r].trees
           /\ job'[r].ids = job[r].ids /\ job'[r].links = job[r].links
           /\ job'[r].tree = job[r].tree /\ Len(tasks) \in Nat /\ DOMAIN tasks = 1..Len(tasks)
           /\ DOMAIN tasks' = 1..(Len(tasks) + 1) /\ job'[r].task = Len(tasks) + 1
           /\ tasks'[Len(tasks) + 1].item = job[r].item /\ tasks'[Len(tasks) + 1].ok = ok
           /\ job[r].item \in DOMAIN items
  <1> DEFINE new == [item |-> job[r].item, ok |-> ok, tree |-> Tree(r)]
             n == Len(tasks) + 1
  <1>1. /\ pc[r] = "run" /\ Goto(r, "settle") /\ Len(tasks) < MaxTasks
        /\ tasks' = Append(tasks, new) /\ job' = [job EXCEPT ![r].task = n]
        /\ UNCHANGED <<plan, items, nodes, letters, insert, moves, sweep, upset, used>>
    BY DEF RunTask
  <1>2. TypeOK /\ JobsOK /\ job \in [Runners -> Jobs] /\ job[r] \in Jobs
    BY DEF Typed, TypeOK
  <1>3. JobOK("run", job[r], DOMAIN items, tasks)
    BY <1>1, <1>2 DEF JobsOK
  <1>4. job[r].item \in DOMAIN items /\ job[r].item \in Ids /\ Tree(r) \in Trees
    BY <1>1, TreeOfJob DEF Holding
  <1>5. tasks \in Seq(TaskRows) /\ Len(tasks) \in Nat
        /\ DOMAIN tasks = 1..Len(tasks)
    BY <1>2, LenProperties DEF TypeOK, TaskRows
  <1>6. new \in TaskRows
    BY <1>4 DEF TaskRows
  <1> HIDE DEF new
  <1>7. /\ tasks' \in Seq(TaskRows) /\ DOMAIN tasks' = 1..n
        /\ tasks'[n] = new /\ \A t \in 1..Len(tasks) : tasks'[t] = tasks[t]
    BY <1>1, <1>5, <1>6
  <1>8. n \in 0..MaxTasks /\ n # 0 /\ n \in DOMAIN tasks'
    BY <1>1, <1>5, <1>7, QueueAssumption
  <1>9. Grown
    BY <1>1, <1>5, <1>7, <1>8 DEF Grown
  <1> HIDE DEF n
  <1> DEFINE j == [job[r] EXCEPT !.task = n]
  <1>10. job' = [job EXCEPT ![r] = j]
    BY <1>1, <1>2
  <1>11. /\ j \in Jobs /\ j.task = n /\ j.item = job[r].item /\ j.ids = job[r].ids
         /\ j.trees = job[r].trees /\ j.kind = job[r].kind /\ j.linked = job[r].linked
         /\ j.links = job[r].links /\ j.tree = job[r].tree
    BY <1>2, <1>8 DEF Jobs
  <1>12. new.item = job[r].item /\ new.ok = ok
    BY DEF new
  <1> HIDE DEF j
  <1>13. JobOK("settle", j, DOMAIN items', tasks') /\ "settle" \in Labels
    BY <1>1, <1>3, <1>7, <1>8, <1>11, <1>12 DEF JobOK, Holding, Labels
  <1>14. /\ pc' \in [Runners -> Labels] /\ job' \in [Runners -> Jobs] /\ JobsOK'
         /\ pc'[r] = "settle" /\ job'[r] = j /\ Others(r)
    BY <1>1, <1>9, <1>10, <1>11, <1>13, OneMoves DEF Others
  <1>15. Typed'
    BY <1>1, <1>2, <1>7, <1>14 DEF Typed, TypeOK, Labels, TaskRows
  <1> QED
    BY <1>1, <1>4, <1>5, <1>7, <1>9, <1>11, <1>12, <1>14, <1>15 DEF n

LEMMA ResultIs ==
    ASSUME Typed, NEW r \in Runners, pc[r] \in {"settle", "settle_node"}
    PROVE  /\ Result(r) \in {"done", "blocked"}
           /\ Result(r) = "done" =>
                /\ job[r].task # 0 /\ job[r].task \in DOMAIN tasks
                /\ tasks[job[r].task].item = job[r].item /\ tasks[job[r].task].ok
           /\ \A t \in DOMAIN tasks :
                tasks[t].ok /\ job[r].task = t => Result(r) = "done"
  <1>1. /\ JobOK(pc[r], job[r], DOMAIN items, tasks) /\ job[r] \in Jobs
        /\ tasks \in Seq(TaskRows)
    BY DEF Typed, JobsOK, TypeOK, TaskRows
  <1>2. DOMAIN tasks = 1..Len(tasks) /\ Len(tasks) \in Nat
    BY <1>1, LenProperties
  <1>3. ASSUME Result(r) = "done"
        PROVE  /\ job[r].task # 0 /\ job[r].task \in DOMAIN tasks
               /\ tasks[job[r].task].item = job[r].item /\ tasks[job[r].task].ok
    <2>1. job[r].task # 0 /\ tasks[job[r].task].ok
      BY <1>3 DEF Result
    <2>2. job[r].task \in DOMAIN tasks /\ tasks[job[r].task].item = job[r].item
      BY <1>1, <2>1 DEF JobOK
    <2> QED
      BY <2>1, <2>2
  <1>4. \A t \in DOMAIN tasks : tasks[t].ok /\ job[r].task = t => Result(r) = "done"
    BY <1>2 DEF Result
  <1> QED
    BY <1>3, <1>4 DEF Result

LEMMA SettleItemDoes ==
    ASSUME Typed, NEW r \in Runners, SettleItem(r)
    PROVE  /\ Typed' /\ Grown /\ UNCHANGED <<nodes, tasks, letters, insert, moves, upset, plan>>
           /\ Others(r) /\ pc[r] = "settle" /\ pc'[r] = "settle_node" /\ job' = job
           /\ job[r].item \in DOMAIN items
           /\ Writes(job[r].item, Result(r),
                     Keeping(items[job[r].item].task, job[r].task),
                     Keeping(items[job[r].item].worktree, Recorded(r)))
  <1>1. /\ pc[r] = "settle" /\ Goto(r, "settle_node")
        /\ UNCHANGED <<plan, nodes, tasks, letters, job, insert, moves, sweep, upset, used>>
    BY DEF SettleItem
  <1>2. TypeOK /\ JobsOK /\ job \in [Runners -> Jobs] /\ job[r] \in Jobs
    BY DEF Typed, TypeOK
  <1>3. JobOK("settle", job[r], DOMAIN items, tasks)
    BY <1>1, <1>2 DEF JobsOK
  <1>4. PICK i \in DOMAIN items : i = job[r].item
    BY <1>1, TreeOfJob DEF Holding
  <1>5. PICK tree \in Trees : tree = Keeping(items[i].worktree, Recorded(r))
    BY <1>1, <1>4, TreeOfJob DEF Holding
  <1>6. items[i] \in Rows /\ items[i].task \in 0..MaxTasks
    BY <1>2, ItemsAreIds DEF Rows
  <1>7. PICK task \in 0..MaxTasks :
           task = Keeping(items[i].task, job[r].task)
    BY <1>2, <1>6 DEF Jobs, Keeping
  <1>8. PICK status \in Statuses : status = Result(r)
    BY <1>1, ResultIs DEF Statuses
  <1>9. items' = [items EXCEPT ![i].status = status, ![i].task = task, ![i].worktree = tree]
    BY <1>4, <1>5, <1>7, <1>8, WriteTaskTree DEF SettleItem
  <1>10. items' = [items EXCEPT ![i] = [items[i] EXCEPT !.status = status, !.task = task,
                                                        !.worktree = tree]]
    BY <1>9, WriteStatusTaskTree
  <1>11. /\ Writes(i, status, task, tree)
         /\ items' \in Seq(Rows) /\ Len(items') = Len(items)
    BY <1>2, <1>10, WritesOK
  <1>12. Grown
    BY <1>1, <1>11 DEF Grown, Writes
  <1>13. JobOK("settle_node", job[r], DOMAIN items', tasks')
    BY <1>1, <1>3, <1>11 DEF JobOK, Holding, Writes
  <1>14. /\ pc' \in [Runners -> Labels] /\ job' \in [Runners -> Jobs] /\ JobsOK'
         /\ pc'[r] = "settle_node" /\ Others(r)
    <2>1. job' = [job EXCEPT ![r] = job[r]] /\ "settle_node" \in Labels
      BY <1>1, <1>2 DEF Labels
    <2> QED
      BY <1>1, <1>2, <1>12, <1>13, <2>1, OneMoves DEF Others
  <1>15. Typed'
    BY <1>1, <1>2, <1>11, <1>14 DEF Typed, TypeOK, Labels
  <1> QED
    BY <1>1, <1>4, <1>5, <1>7, <1>8, <1>11, <1>12, <1>14, <1>15

LEMMA NonEmpty ==
    ASSUME NEW s, Len(s) > 0
    PROVE  s # << >>
  OBVIOUS

LEMMA TailCuts ==
    ASSUME NEW S, NEW s \in Seq(S), s # << >>
    PROVE  /\ Tail(s) \in Seq(S) /\ Len(Tail(s)) = Len(s) - 1 /\ Len(s) \in Nat /\ Len(s) > 0
           /\ \A k \in DOMAIN Tail(s) : k + 1 \in DOMAIN s /\ Tail(s)[k] = s[k + 1]
  <1>1. Len(s) \in Nat \ {0} /\ DOMAIN s = 1..Len(s)
    BY EmptySeq, LenProperties
  <1>2. Tail(s) \in Seq(S) /\ Len(Tail(s)) = Len(s) - 1
    BY <1>1
  <1>3. DOMAIN Tail(s) = 1..(Len(s) - 1)
    BY <1>2, LenProperties
  <1>4. \A k \in 1..(Len(s) - 1) : Tail(s)[k] = s[k + 1]
    BY <1>1
  <1> QED
    BY <1>1, <1>2, <1>3, <1>4

LEMMA SettleNodeDoes ==
    ASSUME Typed, NEW r \in Runners, SettleNode(r)
    PROVE  /\ Typed' /\ Grown /\ UNCHANGED <<items, tasks, letters, insert, moves, upset, plan>>
           /\ Others(r) /\ pc[r] = "settle_node" /\ pc'[r] \in {"pick", "idle", "letters"}
           /\ job[r].linked => nodes'[job[r].item] = Result(r)
           /\ ~ job[r].linked => nodes' = nodes
           /\ \A i \in Ids : i # job[r].item => nodes'[i] = nodes[i]
           /\ pc'[r] = "pick" =>
                /\ Result(r) = "done" /\ job'[r].kind = job[r].kind
                /\ job[r].kind # "loop" =>
                     job[r].ids # << >> /\ job'[r].ids = Tail(job[r].ids)
                /\ job'[r].links = job[r].links
                /\ job[r].kind = "rotated" => job'[r].trees = Tail(job[r].trees)
  <1>1. /\ pc[r] = "settle_node" /\ SetNode(r, Result(r))
        /\ UNCHANGED <<plan, items, tasks, letters, insert, moves, sweep, upset, used>>
    BY DEF SettleNode
  <1>2. TypeOK /\ JobsOK /\ job \in [Runners -> Jobs] /\ job[r] \in Jobs
    BY DEF Typed, TypeOK
  <1>3. JobOK("settle_node", job[r], DOMAIN items, tasks)
    BY <1>1, <1>2 DEF JobsOK
  <1>4. Grown
    BY <1>1 DEF Grown
  <1>5. /\ nodes' \in [Ids -> {"pending", "in_progress", "done", "blocked"}]
        /\ job[r].linked => nodes'[job[r].item] = Result(r)
        /\ ~ job[r].linked => nodes' = nodes
        /\ \A i \in Ids : i # job[r].item => nodes'[i] = nodes[i]
    BY <1>1, ResultIs, SetNodeDoes DEF Holding
  <1>6. CASE Ended(r)
    <2>1. /\ pc' \in [Runners -> Labels] /\ job' \in [Runners -> Jobs] /\ JobsOK'
          /\ pc'[r] \in {"idle", "letters"} /\ Others(r)
      BY <1>4, <1>6, EndedIsOK DEF Others
    <2>2. Typed'
      BY <1>1, <1>2, <1>5, <2>1 DEF Typed, TypeOK, Labels
    <2> QED
      BY <1>1, <1>4, <1>5, <2>1, <2>2
  <1>7. CASE /\ Result(r) = "done" /\ Len(Rounds(r)) > 1 /\ Goto(r, "pick")
             /\ job' = [job EXCEPT ![r].item = 0, ![r].task = 0, ![r].linked = FALSE,
                          ![r].ids = IF job[r].kind = "loop" THEN @ ELSE Tail(@),
                          ![r].trees = IF @ = << >> THEN @ ELSE Tail(@)]
    <2> DEFINE a == IF job[r].kind = "loop" THEN job[r].ids ELSE Tail(job[r].ids)
               b == IF job[r].trees = << >> THEN << >> ELSE Tail(job[r].trees)
    <2>1. job' = [job EXCEPT ![r].item = 0, ![r].task = 0, ![r].linked = FALSE, ![r].ids = a,
                             ![r].trees = b]
      BY <1>2, <1>7
    <2>2. job[r].ids \in Seq(Ids) /\ job[r].trees \in Seq(Nat)
          /\ Len(job[r].ids) \in Nat /\ Len(job[r].trees) \in Nat
      BY <1>2, LenProperties DEF Jobs
    <2>3. job[r].kind # "loop" => Len(job[r].ids) > 1 /\ job[r].ids # << >>
      <3>1. CASE job[r].kind # "loop"
        <4>1. Len(job[r].ids) > 1
          BY <1>7, <3>1 DEF Rounds
        <4> QED
          BY <2>2, <4>1, EmptySeq
      <3> QED
        BY <3>1
    <2>4. /\ a \in Seq(Ids) /\ \A k \in DOMAIN a : a[k] \in DOMAIN items
          /\ job[r].kind # "loop" => a # << >> /\ Len(a) = Len(job[r].ids) - 1
      <3>1. \A k \in DOMAIN job[r].ids : job[r].ids[k] \in DOMAIN items
        BY <1>3 DEF JobOK
      <3>2. CASE job[r].kind = "loop"
        BY <2>2, <3>1, <3>2
      <3>3. CASE job[r].kind # "loop"
        <4>1. a = Tail(job[r].ids)
          BY <3>3
        <4>2. /\ a \in Seq(Ids) /\ Len(a) = Len(job[r].ids) - 1
              /\ \A k \in DOMAIN a : k + 1 \in DOMAIN job[r].ids /\ a[k] = job[r].ids[k + 1]
          BY <2>2, <2>3, <3>3, <4>1, TailCuts
        <4>3. Len(a) > 0
          BY <2>2, <2>3, <3>3, <4>2
        <4>4. a # << >>
          BY <4>3, NonEmpty
        <4> QED
          BY <3>1, <4>2, <4>4
      <3> QED
        BY <3>2, <3>3
    <2>5. /\ b \in Seq(Nat)
          /\ job[r].kind = "rotated" =>
               /\ b = Tail(job[r].trees) /\ b # << >> /\ Len(b) = Len(a)
               /\ \A k \in DOMAIN b : b[k] \in 1..Worktrees
      <3>1. b \in Seq(Nat)
        <4>1. CASE job[r].trees = << >>
          BY <4>1, EmptySeq
        <4>2. CASE job[r].trees # << >>
          BY <2>2, <4>2, TailCuts
        <4> QED
          BY <4>1, <4>2
      <3>2. ASSUME job[r].kind = "rotated"
            PROVE  /\ b = Tail(job[r].trees) /\ b # << >> /\ Len(b) = Len(a)
                   /\ \A k \in DOMAIN b : b[k] \in 1..Worktrees
        <4>1. /\ \A k \in DOMAIN job[r].trees : job[r].trees[k] \in 1..Worktrees
              /\ job[r].trees # << >> /\ Len(job[r].trees) = Len(job[r].ids)
          BY <1>3, <3>2 DEF JobOK, Holding
        <4>2. b = Tail(job[r].trees)
          BY <4>1
        <4>3. /\ Len(b) = Len(job[r].trees) - 1
              /\ \A k \in DOMAIN b : k + 1 \in DOMAIN job[r].trees /\ b[k] = job[r].trees[k + 1]
          BY <2>2, <4>1, <4>2, TailCuts
        <4>4. Len(b) = Len(a)
          BY <2>4, <3>2, <4>1, <4>3
        <4>5. Len(b) > 0
          BY <2>2, <2>3, <3>2, <4>1, <4>3
        <4>6. b # << >>
          BY <4>5, NonEmpty
        <4> QED
          BY <4>1, <4>2, <4>3, <4>4, <4>6
      <3> QED
        BY <3>1, <3>2
    <2>6. job[r].kind # "loop" => a = Tail(job[r].ids)
      OBVIOUS
    <2> HIDE DEF a, b
    <2>7. PICK j \in Jobs :
             /\ j.item = 0 /\ j.task = 0 /\ j.ids = a /\ j.trees = b /\ j.kind = job[r].kind
             /\ j.links = job[r].links
             /\ job' = [job EXCEPT ![r] = j]
      <3> DEFINE g == [job[r] EXCEPT !.item = 0, !.task = 0, !.linked = FALSE]
                 j == [g EXCEPT !.ids = a, !.trees = b]
      <3>1. g \in Jobs /\ g.item = 0 /\ g.task = 0 /\ g.kind = job[r].kind
            /\ g.links = job[r].links
        <4>1. 0 \in 0..MaxRows /\ 0 \in 0..MaxTasks
          BY QueueAssumption
        <4> QED
          BY <1>2, <4>1 DEF Jobs
      <3>2. job' = [job EXCEPT ![r] = j]
        BY <1>2, <2>1
      <3> HIDE DEF g
      <3>3. /\ j \in Jobs /\ j.ids = a /\ j.trees = b /\ j.item = 0 /\ j.task = 0
            /\ j.kind = job[r].kind /\ j.links = job[r].links
        BY <2>4, <2>5, <3>1 DEF Jobs
      <3> QED
        BY <3>2, <3>3
    <2>10. JobOK("pick", j, DOMAIN items', tasks') /\ "pick" \in Labels
      BY <1>1, <2>4, <2>5, <2>7 DEF JobOK, Holding, Labels
    <2>11. /\ pc' \in [Runners -> Labels] /\ job' \in [Runners -> Jobs] /\ JobsOK'
           /\ pc'[r] = "pick" /\ job'[r] = j /\ Others(r)
      BY <1>4, <1>7, <2>7, <2>10, OneMoves DEF Others
    <2>12. Typed'
      BY <1>1, <1>2, <1>5, <2>11 DEF Typed, TypeOK, Labels
    <2> QED
      BY <1>1, <1>4, <1>5, <1>7, <2>3, <2>5, <2>6, <2>7, <2>11, <2>12
  <1> QED
    BY <1>6, <1>7 DEF SettleNode

LEMMA NextLetter ==
    ASSUME Typed, NEW r \in Runners, pc[r] \in {"letters", "letter"}, job[r].ids # << >>,
           job' = [job EXCEPT ![r].ids = Tail(@)], pc' = [pc EXCEPT ![r] = "letters"], Grown
    PROVE  /\ pc' \in [Runners -> Labels] /\ job' \in [Runners -> Jobs] /\ JobsOK'
           /\ pc'[r] = "letters" /\ Others(r)
  <1>1. TypeOK /\ JobsOK /\ job \in [Runners -> Jobs] /\ job[r] \in Jobs
    BY DEF Typed, TypeOK
  <1>2. JobOK(pc[r], job[r], DOMAIN items, tasks)
    BY <1>1 DEF JobsOK
  <1> DEFINE a == Tail(job[r].ids)
             j == [job[r] EXCEPT !.ids = a]
  <1>3. job' = [job EXCEPT ![r] = j]
    BY <1>1
  <1>4. a \in Seq(Ids) /\ \A k \in DOMAIN a : a[k] \in DOMAIN items
    <2>1. job[r].ids \in Seq(Ids) /\ \A k \in DOMAIN job[r].ids : job[r].ids[k] \in DOMAIN items
      BY <1>1, <1>2 DEF JobOK, Jobs
    <2>2. a \in Seq(Ids) /\ \A k \in DOMAIN a : k + 1 \in DOMAIN job[r].ids
                                                /\ a[k] = job[r].ids[k + 1]
      BY <2>1, TailCuts
    <2> QED
      BY <2>1, <2>2
  <1> HIDE DEF a
  <1>5. j \in Jobs /\ j.ids = a
    BY <1>1, <1>4 DEF Jobs
  <1> HIDE DEF j
  <1>6. JobOK("letters", j, DOMAIN items', tasks') /\ "letters" \in Labels
    BY <1>4, <1>5 DEF JobOK, Holding, Labels, Grown
  <1> QED
    BY <1>3, <1>5, <1>6, OneMoves DEF Others, Goto

LEMMA CheckLetterDoes ==
    ASSUME Typed, NEW r \in Runners, CheckLetter(r)
    PROVE  /\ Typed' /\ Quiet /\ UNCHANGED <<letters, upset>> /\ Others(r)
           /\ pc[r] = "letters" /\ pc'[r] \in {"idle", "letters", "letter"}
           /\ pc'[r] = "letter" =>
                /\ job'[r].ids = job[r].ids /\ Head(job[r].ids) \in DOMAIN items
                /\ items[Head(job[r].ids)].status = "blocked"
                /\ letters[Head(job[r].ids)] = 0
  <1>1. Quiet /\ Grown /\ UNCHANGED <<letters, upset, used>> /\ pc[r] = "letters"
    BY QuietGrows DEF CheckLetter, Quiet
  <1>2. TypeOK /\ JobsOK /\ job \in [Runners -> Jobs] /\ job[r] \in Jobs
        /\ pc \in [Runners -> Labels]
    BY DEF Typed, TypeOK, Labels
  <1>3. JobOK("letters", job[r], DOMAIN items, tasks)
    BY <1>1, <1>2 DEF JobsOK
  <1>4. CASE job[r].ids = << >>
    <2>1. Quit(r)
      BY <1>4 DEF CheckLetter
    <2>2. /\ pc' \in [Runners -> Labels] /\ job' \in [Runners -> Jobs] /\ JobsOK'
          /\ pc'[r] = "idle" /\ Others(r)
      BY <1>1, <2>1, QuitIsOK DEF Others
    <2> QED
      BY <1>1, <2>2, QuietTyped
  <1>5. CASE job[r].ids # << >>
    <2>1. Head(job[r].ids) \in DOMAIN items
      <3>1. job[r].ids \in Seq(Ids)
        BY <1>2 DEF Jobs
      <3>2. 1 \in DOMAIN job[r].ids /\ Head(job[r].ids) = job[r].ids[1]
        BY <1>5, <3>1, EmptySeq, LenProperties
      <3> QED
        BY <1>3, <3>2 DEF JobOK
    <2>2. CASE items[Head(job[r].ids)].status = "blocked" /\ letters[Head(job[r].ids)] = 0
      <3>1. Goto(r, "letter") /\ job' = job
        BY <1>5, <2>2 DEF CheckLetter
      <3>2. job' = [job EXCEPT ![r] = job[r]] /\ "letter" \in Labels
        BY <1>2, <3>1 DEF Labels
      <3>3. JobOK("letter", job[r], DOMAIN items', tasks')
        BY <1>1, <1>3, <1>5 DEF JobOK, Holding, Quiet
      <3>4. /\ pc' \in [Runners -> Labels] /\ job' \in [Runners -> Jobs] /\ JobsOK'
            /\ pc'[r] = "letter" /\ Others(r)
        BY <1>1, <1>2, <3>1, <3>2, <3>3, OneMoves DEF Others
      <3>5. Typed'
        BY <1>1, <3>4, QuietTyped
      <3> QED
        BY <1>1, <2>1, <2>2, <3>1, <3>4, <3>5
    <2>3. CASE ~ (items[Head(job[r].ids)].status = "blocked" /\ letters[Head(job[r].ids)] = 0)
      <3>1. job' = [job EXCEPT ![r].ids = Tail(@)] /\ UNCHANGED pc
        BY <1>5, <2>3 DEF CheckLetter
      <3>2. pc' = [pc EXCEPT ![r] = "letters"]
        BY <1>1, <1>2, <3>1
      <3>3. /\ pc' \in [Runners -> Labels] /\ job' \in [Runners -> Jobs] /\ JobsOK'
            /\ pc'[r] = "letters" /\ Others(r)
        BY <1>1, <1>5, <3>1, <3>2, NextLetter
      <3> QED
        BY <1>1, <3>3, QuietTyped
    <2> QED
      BY <2>2, <2>3
  <1> QED
    BY <1>4, <1>5

LEMMA AddLetterDoes ==
    ASSUME Typed, NEW r \in Runners, AddLetter(r)
    PROVE  /\ Typed' /\ Quiet /\ Others(r) /\ pc[r] = "letter" /\ pc'[r] = "letters"
           /\ \E i \in DOMAIN items :
                /\ i = Head(job[r].ids) /\ letters'[i] = letters[i] + 1
                /\ \A k \in Ids : k # i => letters'[k] = letters[k]
                /\ \/ /\ UNCHANGED upset
                      /\ \A s \in Runners : s # r /\ pc[s] = "letter" => Head(job[s].ids) # i
                   \/ upset' = upset \union {<<i, "rival">>}
  <1> DEFINE i == Head(job[r].ids)
  <1>1. /\ Quiet /\ Grown /\ UNCHANGED used /\ pc[r] = "letter" /\ Goto(r, "letters")
        /\ letters' = [letters EXCEPT ![i] = @ + 1] /\ job' = [job EXCEPT ![r].ids = Tail(@)]
        /\ IF \E s \in Runners \ {r} : pc[s] = "letter" /\ Head(job[s].ids) = i
           THEN Upset({i}, "rival") ELSE UNCHANGED upset
    BY QuietGrows DEF AddLetter, Quiet
  <1>2. TypeOK /\ JobsOK /\ job \in [Runners -> Jobs] /\ job[r] \in Jobs
        /\ letters \in [Ids -> Nat]
    BY DEF Typed, TypeOK
  <1>3. JobOK("letter", job[r], DOMAIN items, tasks)
    BY <1>1, <1>2 DEF JobsOK
  <1>4. job[r].ids # << >> /\ i \in DOMAIN items /\ i \in Ids
    <2>1. job[r].ids \in Seq(Ids) /\ job[r].ids # << >>
      BY <1>2, <1>3 DEF Jobs, JobOK
    <2>2. 1 \in DOMAIN job[r].ids /\ Head(job[r].ids) = job[r].ids[1]
      BY <2>1, EmptySeq, LenProperties
    <2>3. i \in DOMAIN items
      BY <1>3, <2>2 DEF JobOK
    <2> QED
      BY <1>2, <2>1, <2>3, ItemsAreIds
  <1>5. /\ pc' \in [Runners -> Labels] /\ job' \in [Runners -> Jobs] /\ JobsOK'
        /\ pc'[r] = "letters" /\ Others(r)
    BY <1>1, <1>4, NextLetter DEF Goto
  <1>6. PICK k \in DOMAIN items : k = i
    BY <1>4
  <1>7. k \in Ids
    BY <1>4, <1>6
  <1>8. UNCHANGED upset \/ Upset({k}, "rival")
    BY <1>1, <1>6
  <1>9. letters' = [letters EXCEPT ![k] = @ + 1]
    BY <1>1, <1>6
  <1>10. Typed'
    BY <1>1, <1>5, <1>7, <1>8, <1>9, QuietTyped
  <1>11. /\ letters'[k] = letters[k] + 1 /\ \A m \in Ids : m # k => letters'[m] = letters[m]
    BY <1>2, <1>7, <1>9
  <1>12. \/ /\ UNCHANGED upset
            /\ \A s \in Runners : s # r /\ pc[s] = "letter" => Head(job[s].ids) # k
         \/ upset' = upset \union {<<k, "rival">>}
    BY <1>1, <1>6 DEF Upset
  <1> QED
    BY <1>1, <1>5, <1>6, <1>10, <1>11, <1>12

LEMMA DieDoes ==
    ASSUME Typed, NEW r \in Runners, Die(r)
    PROVE  /\ Typed' /\ Quiet /\ UNCHANGED letters /\ Others(r)
           /\ pc[r] # "idle" /\ pc'[r] = "idle"
           /\ upset \subseteq upset'
           /\ pc[r] \in Holding => <<job[r].item, "death">> \in upset'
           /\ \A i \in Ids, why \in Causes \ {"death"} :
                <<i, why>> \in upset' => <<i, why>> \in upset
  <1>1. /\ Quiet /\ Grown /\ UNCHANGED letters /\ pc[r] # "idle" /\ Quit(r)
        /\ Upset({job[r].item} \ {0}, "death") /\ Budget("commands", MaxCommands)
    BY QuietGrows DEF Die, Quiet
  <1>2. /\ pc' \in [Runners -> Labels] /\ job' \in [Runners -> Jobs] /\ JobsOK'
        /\ pc'[r] = "idle" /\ Others(r)
    BY <1>1, QuitIsOK DEF Others
  <1>3. {job[r].item} \ {0} \subseteq Ids
    <2>1. job[r] \in Jobs
      BY DEF Typed, TypeOK
    <2>2. job[r].item \in 0..MaxRows
      BY <2>1 DEF Jobs
    <2> QED
      BY <2>2, QueueAssumption DEF Ids
  <1>4. Typed'
    BY <1>1, <1>2, <1>3, QuietTyped
  <1>5. pc[r] \in Holding => job[r].item # 0
    <2>1. CASE pc[r] \in Holding
      <3>1. job[r].item \in Ids
        BY <2>1, TreeOfJob
      <3> QED
        BY <3>1, QueueAssumption DEF Ids
    <2> QED
      BY <2>1
  <1> QED
    BY <1>1, <1>2, <1>4, <1>5 DEF Upset

LEMMA OperatorTyped ==
    ASSUME Typed, Grown, UNCHANGED <<nodes, tasks, letters, pc, job>>,
           plan' \in Plans, items' \in Seq(Rows), Len(items') <= MaxRows,
           insert' \in [Syncers -> Seq(Nat \X Texts)], moves' \subseteq Ids \X Nat,
           sweep' \in [ids : SUBSET Ids, to : {"skipped", "blocked"}],
           UNCHANGED upset
             \/ (\E S \in SUBSET Ids : \E why \in Causes : Upset(S, why)),
           \/ UNCHANGED used \/ Budget("syncs", MaxSyncs)
           \/ Budget("commands", MaxCommands)
    PROVE  Typed'
  <1>1. upset' \subseteq Ids \X Causes
    <2>1. upset \subseteq Ids \X Causes
      BY DEF Typed, TypeOK, Causes
    <2> QED
      BY <2>1 DEF Upset, Causes
  <1>2. used' \in Uses
    BY BudgetsKept DEF Typed
  <1>3. pc' \in [Runners -> Labels] /\ job' \in [Runners -> Jobs] /\ JobsOK'
    BY NoneMoves
  <1>4. /\ nodes' \in [Ids -> {"pending", "in_progress", "done", "blocked"}]
        /\ tasks' \in Seq(TaskRows) /\ letters' \in [Ids -> Nat]
    BY DEF Typed, TypeOK, TaskRows
  <1> QED
    BY <1>1, <1>2, <1>3, <1>4 DEF Typed, TypeOK, Labels, Causes, Uses, TaskRows

LEMMA StateTyped ==
    ASSUME Typed
    PROVE  /\ plan \in Plans /\ items \in Seq(Rows) /\ Len(items) <= MaxRows
           /\ insert \in [Syncers -> Seq(Nat \X Texts)] /\ moves \subseteq Ids \X Nat
           /\ sweep \in [ids : SUBSET Ids, to : {"skipped", "blocked"}]
           /\ plan \in Seq(Texts) /\ DOMAIN plan = 1..Len(plan) /\ Len(plan) \in Nat
           /\ \A l \in DOMAIN plan : plan[l] \in Texts
  <1>1. /\ plan \in Plans /\ items \in Seq(Rows) /\ Len(items) <= MaxRows
        /\ insert \in [Syncers -> Seq(Nat \X Texts)] /\ moves \subseteq Ids \X Nat
        /\ sweep \in [ids : SUBSET Ids, to : {"skipped", "blocked"}]
    BY DEF Typed, TypeOK
  <1>2. plan \in Seq(Texts)
    BY <1>1, QueueAssumption
  <1> QED
    BY <1>1, <1>2, LenProperties, ElementOfSeq

LEMMA EditPlanDoes ==
    ASSUME Typed, NEW p \in Plans, EditPlan(p)
    PROVE  /\ Typed' /\ Grown
           /\ UNCHANGED <<items, nodes, tasks, letters, pc, job, insert, moves, sweep>>
           /\ upset' = upset \union (Ids \X {"plan"})
  <1>1. /\ plan' = p /\ upset' = upset \union (Ids \X {"plan"}) /\ Grown
        /\ Upset(Ids, "plan") /\ Budget("commands", MaxCommands)
        /\ UNCHANGED <<items, nodes, tasks, letters, pc, job, insert, moves, sweep>>
    BY DEF EditPlan, Upset, Grown
  <1>2. plan' \in Plans /\ "plan" \in Causes
    BY <1>1 DEF Causes
  <1> QED
    BY <1>1, <1>2, StateTyped, OperatorTyped DEF Causes

LEMMA CompareWithPlanDoes ==
    ASSUME Typed, NEW s \in Syncers, CompareWithPlan(s)
    PROVE  /\ Typed' /\ Grown
           /\ UNCHANGED <<items, nodes, tasks, letters, pc, job, plan, moves, sweep>>
           /\ \/ UNCHANGED upset /\ \A t \in Syncers : insert[t] = << >>
              \/ upset' = upset \union (Ids \X {"syncs"})
           /\ \A t \in Syncers : t # s => insert'[t] = insert[t]
           /\ insert'[s] \in Seq(Nat \X Texts)
           /\ \A k \in DOMAIN insert'[s] :
                /\ insert'[s][k][1] \in DOMAIN plan /\ Missing(insert'[s][k][1])
                /\ insert'[s][k][2] = plan[insert'[s][k][1]]
                /\ \A m \in DOMAIN insert'[s] : insert'[s][m][1] = insert'[s][k][1] => m = k
  <1> DEFINE lines == {l \in DOMAIN plan : Missing(l)}
             nth(k) == CHOOSE l \in lines : Cardinality({m \in lines : m <= l}) = k
             found == [k \in 1..Cardinality(lines) |-> <<nth(k), plan[nth(k)]>>]
  <1>1. /\ Grown /\ Budget("syncs", MaxSyncs)
        /\ UNCHANGED <<items, nodes, tasks, letters, pc, job, plan, moves, sweep>>
        /\ insert' = [insert EXCEPT ![s] = found]
        /\ \/ UNCHANGED upset /\ \A t \in Syncers : insert[t] = << >>
           \/ upset' = upset \union (Ids \X {"syncs"}) /\ Upset(Ids, "syncs")
    BY DEF CompareWithPlan, Grown, Upset
  <1>2. /\ lines \subseteq 1..Len(plan) /\ Len(plan) \in Nat
        /\ \A l \in lines : plan[l] \in Texts /\ l \in DOMAIN plan /\ Missing(l)
    BY StateTyped
  <1>3. lines \in SUBSET Nat /\ IsFiniteSet(lines)
    <2> HIDE DEF lines
    <2>1. IsFiniteSet(1..Len(plan))
      BY <1>2, FS_Interval
    <2>2. IsFiniteSet(lines)
      BY <1>2, <2>1, FS_Subset
    <2> QED
      BY <1>2, <2>2
  <1> HIDE DEF lines
  <1>4. /\ \A k \in 1..Cardinality(lines) :
             nth(k) \in lines /\ Cardinality({m \in lines : m <= nth(k)}) = k
        /\ Cardinality(lines) \in Nat
    <2>1. /\ \A k \in 1..Cardinality(lines) :
               \E l \in lines : Cardinality({m \in lines : m <= l}) = k
          /\ Cardinality(lines) \in Nat
      BY <1>3, RankOfNumbers
    <2> QED
      BY <2>1
  <1> HIDE DEF nth
  <1>5. \A k, m \in 1..Cardinality(lines) : nth(k) = nth(m) => m = k
    BY <1>4
  <1>6. \A k \in 1..Cardinality(lines) : nth(k) \in Nat /\ plan[nth(k)] \in Texts
    BY <1>2, <1>3, <1>4
  <1>7. /\ found \in Seq(Nat \X Texts) /\ DOMAIN found = 1..Cardinality(lines)
        /\ \A k \in 1..Cardinality(lines) : found[k] = <<nth(k), plan[nth(k)]>>
    <2>1. found \in [1..Cardinality(lines) -> Nat \X Texts]
      BY <1>6
    <2> QED
      BY <1>4, <2>1, SeqDef
  <1>8. /\ \A k \in DOMAIN found :
             /\ found[k][1] \in DOMAIN plan /\ Missing(found[k][1])
             /\ found[k][2] = plan[found[k][1]]
             /\ \A m \in DOMAIN found : found[m][1] = found[k][1] => m = k
    BY <1>2, <1>4, <1>5, <1>7
  <1> HIDE DEF found
  <1>9. insert \in [Syncers -> Seq(Nat \X Texts)]
    BY StateTyped
  <1>10. /\ insert' \in [Syncers -> Seq(Nat \X Texts)] /\ insert'[s] = found
         /\ \A t \in Syncers : t # s => insert'[t] = insert[t]
    BY <1>1, <1>7, <1>9
  <1>11. Typed'
    <2>1. "syncs" \in Causes
      BY DEF Causes
    <2> QED
      BY <1>1, <1>10, <2>1, StateTyped, OperatorTyped DEF Causes
  <1> QED
    BY <1>1, <1>7, <1>8, <1>10, <1>11

LEMMA StopSyncDoes ==
    ASSUME Typed, NEW s \in Syncers, StopSync(s)
    PROVE  /\ Typed' /\ Grown
           /\ UNCHANGED <<items, nodes, tasks, letters, pc, job, plan, moves, sweep, upset>>
           /\ insert'[s] = << >> /\ \A t \in Syncers : t # s => insert'[t] = insert[t]
  <1>1. /\ Grown /\ Budget("commands", MaxCommands) /\ insert' = [insert EXCEPT ![s] = << >>]
        /\ UNCHANGED <<items, nodes, tasks, letters, pc, job, plan, moves, sweep, upset>>
    BY DEF StopSync, Grown
  <1>2. insert \in [Syncers -> Seq(Nat \X Texts)] /\ << >> \in Seq(Nat \X Texts)
    BY StateTyped, EmptySeq
  <1>3. /\ insert' \in [Syncers -> Seq(Nat \X Texts)] /\ insert'[s] = << >>
        /\ \A t \in Syncers : t # s => insert'[t] = insert[t]
    BY <1>1, <1>2
  <1>4. Typed'
    BY <1>1, <1>3, StateTyped, OperatorTyped DEF Causes
  <1> QED
    BY <1>1, <1>3, <1>4

(* What a sync reads, and one that stops, leaves the tables as they are.     *)
LEMMA SyncLeavesTables ==
    ASSUME Typed, NEW s \in Syncers, CompareWithPlan(s) \/ StopSync(s)
    PROVE  /\ Typed' /\ Grown /\ upset \subseteq upset'
           /\ UNCHANGED <<items, nodes, tasks, letters, pc, job, plan, moves, sweep>>
  BY CompareWithPlanDoes, StopSyncDoes

LEMMA RecordItemDoes ==
    ASSUME Typed, NEW s \in Syncers, RecordItem(s)
    PROVE  /\ Typed' /\ Grown
           /\ UNCHANGED <<nodes, tasks, letters, pc, job, upset, plan, moves, sweep>>
           /\ insert[s] # << >> /\ insert[s] \in Seq(Nat \X Texts)
           /\ insert'[s] = Tail(insert[s])
           /\ \A t \in Syncers : t # s => insert'[t] = insert[t]
           /\ \E n \in Ids :
                /\ n \notin DOMAIN items /\ DOMAIN items' = DOMAIN items \union {n}
                /\ \A k \in DOMAIN items : items'[k] = items[k]
                /\ items'[n].status = "created" /\ items'[n].task = 0
                /\ items'[n].worktree = 0 /\ items'[n].linked = FALSE
                /\ items'[n].line = insert[s][1][1] /\ items'[n].text = insert[s][1][2]
  <1> DEFINE new == Head(insert[s])
             row == Row(new[1], new[2])
             n == Len(items) + 1
  <1>1. /\ insert[s] # << >> /\ Len(items) < MaxRows
        /\ items' = Append(items, row) /\ insert' = [insert EXCEPT ![s] = Tail(@)]
        /\ UNCHANGED <<plan, nodes, tasks, letters, pc, job, moves, sweep, upset, used>>
    BY DEF RecordItem
  <1>2. /\ items \in Seq(Rows) /\ insert \in [Syncers -> Seq(Nat \X Texts)]
        /\ DOMAIN items = 1..Len(items) /\ Len(items) \in Nat
        /\ insert[s] \in Seq(Nat \X Texts)
    BY StateTyped, LenProperties
  <1>3. /\ new \in Nat \X Texts /\ Tail(insert[s]) \in Seq(Nat \X Texts)
        /\ new = insert[s][1]
    BY <1>1, <1>2, TailCuts
  <1>4. row \in Rows /\ row.status = "created" /\ row.task = 0 /\ row.worktree = 0
        /\ row.linked = FALSE /\ row.line = new[1] /\ row.text = new[2]
    <2>1. 0 \in 0..MaxTasks /\ 0 \in Trees
      BY TreesAre, QueueAssumption
    <2> QED
      BY <1>3, <2>1 DEF Row, Rows, Statuses
  <1>9. /\ insert' \in [Syncers -> Seq(Nat \X Texts)] /\ insert'[s] = Tail(insert[s])
        /\ \A t \in Syncers : t # s => insert'[t] = insert[t]
    BY <1>1, <1>2, <1>3
  <1> HIDE DEF row, new
  <1>5. /\ items' \in Seq(Rows) /\ Len(items') = n /\ items'[n] = row
        /\ DOMAIN items' = 1..n /\ \A k \in 1..Len(items) : items'[k] = items[k]
    BY <1>1, <1>2, <1>4
  <1>6. n \in Ids /\ n \notin DOMAIN items /\ DOMAIN items' = DOMAIN items \union {n}
        /\ n <= MaxRows
    BY <1>1, <1>2, <1>5, QueueAssumption DEF Ids
  <1>7. Grown
    BY <1>1, <1>6 DEF Grown
  <1>8. Typed'
    BY <1>1, <1>5, <1>6, <1>7, <1>9, StateTyped, OperatorTyped DEF Causes
  <1> HIDE DEF n
  <1>10. \A k \in DOMAIN items : items'[k] = items[k]
    BY <1>2, <1>5
  <1>11. /\ items'[n].status = "created" /\ items'[n].task = 0
         /\ items'[n].worktree = 0 /\ items'[n].linked = FALSE
         /\ items'[n].line = insert[s][1][1] /\ items'[n].text = insert[s][1][2]
    BY <1>3, <1>4, <1>5
  <1>12. \E m \in Ids :
           /\ m \notin DOMAIN items /\ DOMAIN items' = DOMAIN items \union {m}
           /\ \A k \in DOMAIN items : items'[k] = items[k]
           /\ items'[m].status = "created" /\ items'[m].task = 0
           /\ items'[m].worktree = 0 /\ items'[m].linked = FALSE
           /\ items'[m].line = insert[s][1][1] /\ items'[m].text = insert[s][1][2]
    BY <1>6, <1>10, <1>11
  <1> QED
    BY <1>1, <1>2, <1>7, <1>8, <1>9, <1>12

LEMMA ListMovesDoes ==
    ASSUME Typed, ListMoves
    PROVE  /\ Typed' /\ Grown
           /\ UNCHANGED <<items, nodes, tasks, letters, pc, job, upset, plan, insert, sweep>>
           /\ \A m \in moves' : m[1] \in DOMAIN items
           /\ \E i \in DOMAIN items, l \in DOMAIN plan : Moved(i, l)
  <1>1. /\ Budget("commands", MaxCommands) /\ Grown
        /\ UNCHANGED <<items, nodes, tasks, letters, pc, job, upset, plan, insert, sweep>>
        /\ moves' = {m \in (DOMAIN items) \X (DOMAIN plan) : Moved(m[1], m[2])}
        /\ moves' # {}
    BY DEF ListMoves, Grown
  <1>2. DOMAIN items \subseteq Ids /\ DOMAIN plan \subseteq Nat
    BY StateTyped, ItemsAreIds DEF Typed
  <1>3. moves' \subseteq Ids \X Nat /\ \A m \in moves' : m[1] \in DOMAIN items
    BY <1>1, <1>2
  <1>4. \E i \in DOMAIN items, l \in DOMAIN plan : Moved(i, l)
    BY <1>1
  <1> QED
    BY <1>1, <1>3, <1>4, StateTyped, OperatorTyped DEF Causes

LEMMA RefreshRefDoes ==
    ASSUME Typed, NEW i \in Ids, NEW line \in 1..MaxRows, RefreshRef(i, line), i \in DOMAIN items
    PROVE  /\ Typed' /\ Grown
           /\ UNCHANGED <<nodes, tasks, letters, pc, job, upset, plan, insert, sweep>>
           /\ moves # {} /\ moves' \subseteq moves
           /\ DOMAIN items' = DOMAIN items
           /\ \A k \in DOMAIN items :
                /\ items'[k].status = items[k].status /\ items'[k].task = items[k].task
                /\ items'[k].worktree = items[k].worktree /\ items'[k].linked = items[k].linked
                /\ items'[k].text = items[k].text
  <1> DEFINE to == IF items[i].status = "created" THEN line ELSE items[i].line
  <1>1. /\ items' = [items EXCEPT ![i].line = to] /\ <<i, line>> \in moves
        /\ moves' = moves \ {<<i, line>>}
        /\ UNCHANGED <<plan, nodes, tasks, letters, pc, job, insert, sweep, upset, used>>
    BY DEF RefreshRef
  <1>2. TypeOK /\ items[i] \in Rows
    BY ItemsAreIds DEF Typed
  <1> DEFINE row == [items[i] EXCEPT !.line = to]
  <1>3. /\ row \in Rows /\ row.status = items[i].status /\ row.task = items[i].task
        /\ row.worktree = items[i].worktree /\ row.linked = items[i].linked
        /\ row.text = items[i].text
    <2>1. to \in Nat
      BY <1>2, QueueAssumption DEF Rows
    <2> HIDE DEF to
    <2> QED
      BY <1>2, <2>1 DEF Rows
  <1>4. items' = [items EXCEPT ![i] = row]
    BY <1>1
  <1> HIDE DEF row
  <1>5. /\ items' \in Seq(Rows) /\ Len(items') = Len(items) /\ DOMAIN items' = DOMAIN items
        /\ items'[i] = row /\ \A k \in DOMAIN items : k # i => items'[k] = items[k]
    BY <1>1, <1>2, <1>3, <1>4, WriteItem
  <1>6. Grown
    BY <1>1, <1>5 DEF Grown
  <1>7. Typed'
    BY <1>1, <1>5, <1>6, StateTyped, OperatorTyped DEF Causes
  <1>8. \A k \in DOMAIN items :
                /\ items'[k].status = items[k].status /\ items'[k].task = items[k].task
                /\ items'[k].worktree = items[k].worktree /\ items'[k].linked = items[k].linked
                /\ items'[k].text = items[k].text
    BY <1>1, <1>3, <1>5
  <1> QED
    BY <1>1, <1>5, <1>6, <1>7, <1>8

LEMMA ListSweepDoes ==
    ASSUME Typed, NEW to \in {"skipped", "blocked"}, NEW ids \in SUBSET Ids, ListSweep(to, ids)
    PROVE  /\ Typed' /\ Grown
           /\ UNCHANGED <<items, nodes, tasks, letters, pc, job, upset, plan, insert, moves>>
  <1>1. /\ sweep' = [ids |-> ids, to |-> to] /\ Budget("commands", MaxCommands) /\ Grown
        /\ UNCHANGED <<items, nodes, tasks, letters, pc, job, upset, plan, insert, moves>>
    BY DEF ListSweep, Grown
  <1>2. sweep' \in [ids : SUBSET Ids, to : {"skipped", "blocked"}]
    BY <1>1
  <1> QED
    BY <1>1, <1>2, StateTyped, OperatorTyped DEF Causes

LEMMA RowIs ==
    ASSUME TypeOK, NEW i \in DOMAIN items
    PROVE  /\ items[i] \in Rows /\ items[i].task \in 0..MaxTasks
           /\ items[i].worktree \in Trees /\ items[i].status \in Statuses
           /\ items[i].linked \in BOOLEAN
           /\ \A s : [items[i] EXCEPT !.status = s]
                       = [items[i] EXCEPT !.status = s, !.task = items[i].task,
                                          !.worktree = items[i].worktree]
  <1>1. items[i] \in Rows
    BY ItemsAreIds
  <1> QED
    BY <1>1 DEF Rows

LEMMA SweepItemDoes ==
    ASSUME Typed, NEW i \in Ids, SweepItem(i), i \in DOMAIN items
    PROVE  /\ Typed' /\ Grown /\ UNCHANGED <<nodes, tasks, letters, pc, job, plan, insert, moves>>
           /\ upset' = upset \union {<<i, "sweep">>}
           /\ \E to \in {"skipped", "blocked"} :
                Writes(i, to, items[i].task, items[i].worktree)
  <1>1. /\ items' = [items EXCEPT ![i].status = sweep.to]
        /\ sweep' = (IF sweep.ids = {i} THEN NoSweep ELSE [sweep EXCEPT !.ids = @ \ {i}])
        /\ Upset({i}, "sweep")
        /\ UNCHANGED <<plan, nodes, tasks, letters, pc, job, insert, moves, used>>
    BY DEF SweepItem
  <1>2. TypeOK /\ sweep \in [ids : SUBSET Ids, to : {"skipped", "blocked"}]
    BY DEF Typed, TypeOK
  <1>3. PICK to \in {"skipped", "blocked"} : to = sweep.to
    BY <1>2
  <1>4. items' = [items EXCEPT ![i] = [items[i] EXCEPT !.status = to, !.task = items[i].task,
                                                       !.worktree = items[i].worktree]]
    <2>1. items' = [items EXCEPT ![i] = [items[i] EXCEPT !.status = to]]
      BY <1>1, <1>3
    <2> QED
      BY <1>2, <2>1, RowIs
  <1>5. /\ Writes(i, to, items[i].task, items[i].worktree) /\ items' \in Seq(Rows)
        /\ Len(items') = Len(items)
    <2>1. /\ items[i].task \in 0..MaxTasks /\ items[i].worktree \in Trees
          /\ to \in Statuses
      BY <1>2, RowIs DEF Statuses
    <2> QED
      BY <1>2, <1>4, <2>1, WritesOK
  <1>6. Grown
    BY <1>1, <1>5 DEF Grown, Writes
  <1>7. sweep' \in [ids : SUBSET Ids, to : {"skipped", "blocked"}]
    BY <1>1, <1>2 DEF NoSweep
  <1>8. Typed'
    BY <1>1, <1>5, <1>6, <1>7, StateTyped, OperatorTyped DEF Causes
  <1> QED
    BY <1>1, <1>5, <1>6, <1>8 DEF Upset

LEMMA RequeueDoes ==
    ASSUME Typed, NEW i \in Ids, Requeue(i)
    PROVE  /\ Typed' /\ Grown /\ UNCHANGED <<nodes, tasks, letters, pc, job, plan, insert, moves>>
           /\ upset' = upset \union {<<i, "operator">>}
           /\ i \in DOMAIN items /\ items[i].status = "blocked" /\ Writes(i, "created", 0, 0)
  <1>1. /\ i \in DOMAIN items /\ items[i].status = "blocked" /\ Budget("commands", MaxCommands)
        /\ items' = [items EXCEPT ![i].status = "created", ![i].task = 0, ![i].worktree = 0]
        /\ Upset({i}, "operator")
        /\ UNCHANGED <<plan, nodes, tasks, letters, pc, job, insert, moves, sweep>>
    BY DEF Requeue
  <1>2. TypeOK /\ 0 \in 0..MaxTasks /\ 0 \in Trees
    BY TreesAre, QueueAssumption DEF Typed
  <1>3. items' = [items EXCEPT ![i] = [items[i] EXCEPT !.status = "created", !.task = 0,
                                                       !.worktree = 0]]
    BY <1>1, WriteStatusTaskTree
  <1>4. /\ Writes(i, "created", 0, 0) /\ items' \in Seq(Rows) /\ Len(items') = Len(items)
    <2>1. PICK a \in Statuses, b \in 0..MaxTasks, c \in Trees :
             a = "created" /\ b = 0 /\ c = 0
      BY <1>2 DEF Statuses
    <2>2. items' = [items EXCEPT ![i] = [items[i] EXCEPT !.status = a, !.task = b,
                                                         !.worktree = c]]
      BY <1>3, <2>1
    <2>3. Writes(i, a, b, c) /\ items' \in Seq(Rows) /\ Len(items') = Len(items)
      <3>1. i \in DOMAIN items
        BY <1>1
      <3> QED
        BY <1>2, <2>2, <3>1, WritesOK
    <2> QED
      BY <2>1, <2>3
  <1>5. Grown
    BY <1>1, <1>4 DEF Grown, Writes
  <1>6. Typed'
    BY <1>1, <1>4, <1>5, StateTyped, OperatorTyped DEF Causes
  <1> QED
    BY <1>1, <1>4, <1>5, <1>6 DEF Upset

LEMMA SkipDoes ==
    ASSUME Typed, NEW i \in Ids, Skip(i)
    PROVE  /\ Typed' /\ Grown /\ UNCHANGED <<nodes, tasks, letters, pc, job, plan, insert, moves>>
           /\ i \in DOMAIN items /\ items[i].status \in {"created", "blocked"}
           /\ Writes(i, "skipped", items[i].task, items[i].worktree)
           /\ \/ UNCHANGED upset /\ \A s \in Runners : ~ Holds(s, i)
              \/ upset' = upset \union {<<i, "operator">>}
  <1>1. /\ i \in DOMAIN items /\ items[i].status \in {"created", "blocked"}
        /\ Budget("commands", MaxCommands)
        /\ items' = [items EXCEPT ![i].status = "skipped"]
        /\ IF Held(i) # {} THEN Upset({i}, "operator") ELSE UNCHANGED upset
        /\ UNCHANGED <<plan, nodes, tasks, letters, pc, job, insert, moves, sweep>>
    BY DEF Skip
  <1>2. TypeOK
    BY DEF Typed
  <1>3. items' = [items EXCEPT ![i] = [items[i] EXCEPT !.status = "skipped",
                                           !.task = items[i].task,
                                           !.worktree = items[i].worktree]]
    <2>1. items' = [items EXCEPT ![i] = [items[i] EXCEPT !.status = "skipped"]]
      BY <1>1
    <2> QED
      BY <1>1, <1>2, <2>1, RowIs
  <1>4. /\ Writes(i, "skipped", items[i].task, items[i].worktree)
        /\ items' \in Seq(Rows) /\ Len(items') = Len(items)
    <2>1. items[i].task \in 0..MaxTasks /\ items[i].worktree \in Trees
      BY <1>1, <1>2, RowIs
    <2>2. PICK a \in Statuses : a = "skipped"
      BY DEF Statuses
    <2>3. items' = [items EXCEPT ![i] = [items[i] EXCEPT !.status = a, !.task = items[i].task,
                                                         !.worktree = items[i].worktree]]
      BY <1>3, <2>2
    <2>4. /\ Writes(i, a, items[i].task, items[i].worktree) /\ items' \in Seq(Rows)
          /\ Len(items') = Len(items)
      <3>1. i \in DOMAIN items
        BY <1>1
      <3> QED
        BY <1>2, <2>1, <2>3, <3>1, WritesOK
    <2> QED
      BY <2>2, <2>4
  <1>5. Grown
    BY <1>1, <1>4 DEF Grown, Writes
  <1>6. Typed'
    BY <1>1, <1>4, <1>5, StateTyped, OperatorTyped DEF Causes
  <1>7. \/ UNCHANGED upset /\ \A s \in Runners : ~ Holds(s, i)
        \/ upset' = upset \union {<<i, "operator">>}
    <2>1. Held(i) = {} => \A s \in Runners : ~ Holds(s, i)
      BY HeldIsHolding
    <2> QED
      BY <1>1, <2>1 DEF Upset
  <1> QED
    BY <1>1, <1>4, <1>5, <1>6, <1>7

LEMMA LinkPlanGraphDoes ==
    ASSUME Typed, NEW i \in Ids, LinkPlanGraph(i)
    PROVE  /\ Typed' /\ Grown /\ UNCHANGED <<nodes, tasks, letters, pc, job, plan, insert, moves>>
           /\ i \in DOMAIN items /\ ~ items[i].linked /\ items'[i].linked
           /\ DOMAIN items' = DOMAIN items
           /\ \A k \in DOMAIN items :
                /\ items'[k].status = items[k].status /\ items'[k].task = items[k].task
                /\ items'[k].worktree = items[k].worktree
                /\ items'[k].line = items[k].line /\ items'[k].text = items[k].text
                /\ k # i => items'[k] = items[k]
           /\ \/ /\ UNCHANGED upset /\ items[i].status = "created" /\ Read(i) = {}
                 /\ \A s \in Runners : ~ Holds(s, i)
              \/ upset' = upset \union {<<i, "operator">>}
  <1>1. /\ i \in DOMAIN items /\ ~ items[i].linked /\ Budget("commands", MaxCommands)
        /\ items' = [items EXCEPT ![i].linked = TRUE]
        /\ IF Held(i) # {} \/ Read(i) # {} \/ items[i].status # "created"
           THEN Upset({i}, "operator") ELSE UNCHANGED upset
        /\ UNCHANGED <<plan, nodes, tasks, letters, pc, job, insert, moves, sweep>>
    BY DEF LinkPlanGraph
  <1>2. TypeOK /\ items[i] \in Rows
    BY <1>1, ItemsAreIds DEF Typed
  <1> DEFINE row == [items[i] EXCEPT !.linked = TRUE]
  <1>3. /\ row \in Rows /\ row.status = items[i].status /\ row.task = items[i].task
        /\ row.worktree = items[i].worktree /\ row.linked = TRUE
        /\ row.line = items[i].line /\ row.text = items[i].text
    BY <1>2 DEF Rows
  <1>4. items' = [items EXCEPT ![i] = row]
    BY <1>1
  <1> HIDE DEF row
  <1>5. /\ items' \in Seq(Rows) /\ Len(items') = Len(items) /\ DOMAIN items' = DOMAIN items
        /\ items'[i] = row /\ \A k \in DOMAIN items : k # i => items'[k] = items[k]
    BY <1>1, <1>2, <1>3, <1>4, WriteItem
  <1>6. Grown
    BY <1>1, <1>5 DEF Grown
  <1>7. UNCHANGED upset \/ Upset({i}, "operator")
    BY <1>1
  <1>8. Typed'
    BY <1>1, <1>5, <1>6, <1>7, StateTyped, OperatorTyped DEF Causes
  <1>9. \A k \in DOMAIN items :
                /\ items'[k].status = items[k].status /\ items'[k].task = items[k].task
                /\ items'[k].worktree = items[k].worktree
                /\ items'[k].line = items[k].line /\ items'[k].text = items[k].text
                /\ k # i => items'[k] = items[k]
    BY <1>1, <1>3, <1>5
  <1>10. \/ /\ UNCHANGED upset /\ items[i].status = "created" /\ Read(i) = {}
            /\ \A s \in Runners : ~ Holds(s, i)
         \/ upset' = upset \union {<<i, "operator">>}
    <2>1. Held(i) = {} => \A s \in Runners : ~ Holds(s, i)
      BY HeldIsHolding
    <2> QED
      BY <1>1, <2>1 DEF Upset
  <1> QED
    BY <1>1, <1>3, <1>5, <1>6, <1>8, <1>9, <1>10
-----------------------------------------------------------------------------
(* TYPE CORRECTNESS *)

(* What an operator's command has listed are rows there are. *)
ListedOK == sweep.ids \subseteq DOMAIN items /\ \A m \in moves : m[1] \in DOMAIN items

QueueTyped == Typed /\ ListedOK

LEMMA InitTyped ==
    ASSUME Init
    PROVE  QueueTyped /\ DOMAIN items = {} /\ DOMAIN tasks = {}
  <1>1. NoJob \in Jobs
    BY TreesAre, QueueAssumption DEF NoJob, Jobs, Kinds
  <1>2. /\ plan \in Plans /\ items = << >> /\ tasks = << >> /\ moves = {} /\ upset = {}
        /\ insert = [s \in Syncers |-> << >>]
        /\ nodes = [i \in Ids |-> "pending"] /\ letters = [i \in Ids |-> 0]
        /\ pc = [r \in Runners |-> "idle"] /\ job = [r \in Runners |-> NoJob]
        /\ sweep = [ids |-> {}, to |-> "skipped"]
        /\ used = [begins |-> 0, syncs |-> 0, commands |-> 0]
    BY DEF Init, NoSweep
  <1>3. DOMAIN items = {} /\ DOMAIN tasks = {}
    BY <1>2
  <1>4. /\ used \in Uses /\ letters \in [Ids -> Nat]
        /\ sweep \in [ids : SUBSET Ids, to : {"skipped", "blocked"}]
        /\ nodes \in [Ids -> {"pending", "in_progress", "done", "blocked"}]
    BY <1>2, QueueAssumption DEF Uses
  <1>5. /\ items \in Seq(Rows) /\ Len(items) <= MaxRows /\ tasks \in Seq(TaskRows)
        /\ insert \in [Syncers -> Seq(Nat \X Texts)]
    <2>1. Len(items) = 0
      BY <1>2
    <2>2. << >> \in Seq(Nat \X Texts) /\ items \in Seq(Rows) /\ tasks \in Seq(TaskRows)
      BY <1>2, EmptySeq
    <2> QED
      BY <1>2, <2>1, <2>2, QueueAssumption
  <1>6. TypeOK
    <2>1. pc \in [Runners -> Labels] /\ job \in [Runners -> Jobs]
      BY <1>1, <1>2 DEF Labels
    <2> QED
      BY <1>2, <1>4, <1>5, <2>1 DEF TypeOK, Labels, TaskRows, Uses
  <1>7. JobsOK
    <2>1. JobOK("idle", NoJob, DOMAIN items, tasks)
      BY DEF JobOK, NoJob, Holding
    <2> QED
      BY <1>2, <2>1 DEF JobsOK
  <1>8. ListedOK
    BY <1>2 DEF ListedOK
  <1> QED
    BY <1>3, <1>6, <1>7, <1>8 DEF QueueTyped, Typed

LEMMA ListsStayOK ==
    ASSUME ListedOK, Grown,
           sweep'.ids \subseteq DOMAIN items' \/ sweep'.ids \subseteq sweep.ids,
           moves' \subseteq moves \/ \A m \in moves' : m[1] \in DOMAIN items'
    PROVE  ListedOK'
  BY DEF ListedOK, Grown

LEMMA RefreshesRow ==
    ASSUME QueueTyped, NEW i \in Ids, NEW line \in 1..MaxRows, RefreshRef(i, line)
    PROVE  i \in DOMAIN items
  BY DEF RefreshRef, ListedOK, QueueTyped

(* What every step leaves true: what happened is not forgotten, and an item  *)
(* comes into a runner's hands only when the runner picks it.                *)
Frame ==
    /\ QueueTyped' /\ Grown /\ upset \subseteq upset'
    /\ \A r \in Runners, i \in Ids : Holds(r, i)' /\ ~ Holds(r, i) =>
         /\ Pick(r) /\ Others(r) /\ UNCHANGED <<items, tasks, nodes>>
         /\ pc'[r] = "guard" /\ i \in DOMAIN items
         /\ \/ <<i, "rival">> \in upset'
            \/ items[i].status = "created" /\ \A s \in Runners : ~ Holds(s, i)

LEMMA NoHolderMoves ==
    ASSUME UNCHANGED <<pc, job>>
    PROVE  \A r, i : Holds(r, i)' => Holds(r, i)
  BY DEF Holds

LEMMA NoNewHolder ==
    ASSUME NEW r \in Runners, Others(r),
           \/ pc'[r] \notin Holding
           \/ pc[r] \in Holding /\ job'[r].item = job[r].item
    PROVE  \A s \in Runners, i \in Ids : Holds(s, i)' => Holds(s, i)
  BY DEF Holds, Others

LEMMA FramedBy ==
    ASSUME ListedOK, Typed', Grown, UNCHANGED <<sweep, moves>>, upset \subseteq upset',
           \A s \in Runners, i \in Ids : Holds(s, i)' => Holds(s, i)
    PROVE  Frame
  <1>1. QueueTyped'
    BY ListsStayOK DEF ListedOK, QueueTyped
  <1> QED
    BY <1>1 DEF Frame

LEMMA PickFrames ==
    ASSUME QueueTyped, NEW r \in Runners, Pick(r)
    PROVE  Frame
  <1>1. /\ Typed' /\ Quiet /\ UNCHANGED letters /\ Others(r) /\ pc[r] = "pick"
        /\ \/ pc'[r] \in {"idle", "letters"} /\ UNCHANGED upset
           \/ \E i \in DOMAIN items :
                /\ i = IF Fixed(r) THEN Head(job[r].ids) ELSE Queue[1]
                /\ pc'[r] = "guard" /\ job'[r].item = i
                /\ ~ Fixed(r) => i \in Created
                /\ \/ /\ UNCHANGED upset /\ items[i].status = "created"
                      /\ \A s \in Runners : ~ Holds(s, i)
                   \/ upset' = upset \union {<<i, "rival">>}
    BY PickDoes DEF QueueTyped
  <1>2. Grown /\ UNCHANGED <<sweep, moves, items, tasks, nodes>>
    BY <1>1, QuietGrows DEF Quiet
  <1>3. CASE pc'[r] \in {"idle", "letters"} /\ UNCHANGED upset
    <2>1. pc'[r] \notin Holding
      BY <1>3 DEF Holding
    <2> QED
      BY <1>1, <1>2, <1>3, <2>1, NoNewHolder, FramedBy DEF QueueTyped
  <1>4. ASSUME NEW i \in DOMAIN items,
                pc'[r] = "guard" /\ job'[r].item = i,
                \/ /\ UNCHANGED upset /\ items[i].status = "created"
                   /\ \A s \in Runners : ~ Holds(s, i)
                \/ upset' = upset \union {<<i, "rival">>}
        PROVE  Frame
    <2>1. QueueTyped' /\ upset \subseteq upset'
      BY <1>1, <1>2, <1>4, ListsStayOK DEF ListedOK, QueueTyped
    <2>2. ASSUME NEW s \in Runners, NEW k \in Ids, Holds(s, k)', ~ Holds(s, k)
          PROVE  s = r /\ k = i
      BY <1>1, <1>4, <2>2 DEF Holds, Others
    <2>3. \/ <<i, "rival">> \in upset'
          \/ items[i].status = "created" /\ \A s \in Runners : ~ Holds(s, i)
      BY <1>4
    <2> QED
      BY <1>1, <1>2, <1>4, <2>1, <2>2, <2>3 DEF Frame
  <1> QED
    BY <1>1, <1>3, <1>4

Begins(r) == \E kind \in Kinds, tree \in Trees : Begin(r, kind, tree)

LEMMA RunnerFrames ==
    ASSUME QueueTyped, NEW r \in Runners, Step(r) \/ Die(r) \/ Begins(r)
    PROVE  Frame
  <1> USE DEF QueueTyped
  <1>1. ASSUME NEW kind \in Kinds, NEW tree \in Trees, Begin(r, kind, tree)
        PROVE  Frame
    <2>1. Typed' /\ Quiet /\ UNCHANGED letters /\ Others(r) /\ pc'[r] = "select"
      BY <1>1, BeginDoes
    <2>2. upset \subseteq upset'
      BY <1>1 DEF Begin, Upset
    <2>3. pc'[r] \notin Holding
      BY <2>1 DEF Holding
    <2> QED
      BY <2>1, <2>2, <2>3, QuietGrows, NoNewHolder, FramedBy DEF Quiet
  <1>2. CASE Select(r)
    <2>1. /\ Typed' /\ Quiet /\ UNCHANGED <<letters, upset>> /\ Others(r)
          /\ pc'[r] \notin Holding
      BY <1>2, SelectDoes DEF Holding
    <2> QED
      BY <2>1, QuietGrows, NoNewHolder, FramedBy DEF Quiet
  <1>3. ASSUME NEW i \in Ids, SelectItem(r, i) PROVE Frame
    <2>1. /\ Typed' /\ Quiet /\ UNCHANGED <<letters, upset>> /\ Others(r)
          /\ pc'[r] \notin Holding
      BY <1>3, SelectItemDoes DEF Holding
    <2> QED
      BY <2>1, QuietGrows, NoNewHolder, FramedBy DEF Quiet
  <1>4. CASE StopLoop(r)
    <2>1. /\ Typed' /\ Quiet /\ UNCHANGED <<letters, upset>> /\ Others(r)
          /\ pc'[r] \notin Holding
      BY <1>4, StopLoopDoes DEF Holding
    <2> QED
      BY <2>1, QuietGrows, NoNewHolder, FramedBy DEF Quiet
  <1>5. CASE CountRounds(r)
    <2>1. /\ Typed' /\ Quiet /\ UNCHANGED <<letters, upset>> /\ Others(r)
          /\ pc'[r] \notin Holding
      BY <1>5, CountRoundsDoes DEF Holding
    <2> QED
      BY <2>1, QuietGrows, NoNewHolder, FramedBy DEF Quiet
  <1>6. CASE Refuse(r)
    <2>1. /\ Typed' /\ Quiet /\ UNCHANGED <<letters, upset>> /\ Others(r)
          /\ pc[r] \in Holding /\ job' = job
      BY <1>6, RefuseDoes DEF Holding
    <2> QED
      BY <2>1, QuietGrows, NoNewHolder, FramedBy DEF Quiet
  <1>7. CASE MarkItem(r)
    <2>1. /\ Typed' /\ Grown /\ UNCHANGED <<sweep, moves>> /\ upset \subseteq upset'
          /\ Others(r) /\ pc[r] \in Holding /\ job' = job
      BY <1>7, MarkItemDoes DEF Holding, MarkItem
    <2> QED
      BY <2>1, NoNewHolder, FramedBy
  <1>8. CASE MarkNode(r)
    <2>1. /\ Typed' /\ Grown /\ UNCHANGED <<upset, sweep, moves>> /\ Others(r)
          /\ pc[r] \in Holding /\ job' = job
      BY <1>8, MarkNodeDoes DEF Holding, MarkNode
    <2> QED
      BY <2>1, NoNewHolder, FramedBy
  <1>9. ASSUME NEW ok \in BOOLEAN, RunTask(r, ok) PROVE Frame
    <2>1. /\ Typed' /\ Grown /\ UNCHANGED <<upset, sweep, moves>> /\ Others(r)
          /\ pc[r] \in Holding /\ job'[r].item = job[r].item
      BY <1>9, RunTaskDoes DEF Holding, RunTask
    <2> QED
      BY <2>1, NoNewHolder, FramedBy
  <1>10. CASE SettleItem(r)
    <2>1. /\ Typed' /\ Grown /\ UNCHANGED <<upset, sweep, moves>> /\ Others(r)
          /\ pc[r] \in Holding /\ job' = job
      BY <1>10, SettleItemDoes DEF Holding, SettleItem
    <2> QED
      BY <2>1, NoNewHolder, FramedBy
  <1>11. CASE SettleNode(r)
    <2>1. /\ Typed' /\ Grown /\ UNCHANGED <<upset, sweep, moves>> /\ Others(r)
          /\ pc'[r] \notin Holding
      BY <1>11, SettleNodeDoes DEF Holding, SettleNode
    <2> QED
      BY <2>1, NoNewHolder, FramedBy
  <1>12. CASE CheckLetter(r)
    <2>1. /\ Typed' /\ Quiet /\ UNCHANGED <<letters, upset>> /\ Others(r)
          /\ pc'[r] \notin Holding
      BY <1>12, CheckLetterDoes DEF Holding
    <2> QED
      BY <2>1, QuietGrows, NoNewHolder, FramedBy DEF Quiet
  <1>13. CASE AddLetter(r)
    <2>1. /\ Typed' /\ Quiet /\ upset \subseteq upset' /\ Others(r)
          /\ pc'[r] \notin Holding
      BY <1>13, AddLetterDoes DEF Holding
    <2> QED
      BY <2>1, QuietGrows, NoNewHolder, FramedBy DEF Quiet
  <1>14. CASE Die(r)
    <2>1. /\ Typed' /\ Quiet /\ upset \subseteq upset' /\ Others(r)
          /\ pc'[r] \notin Holding
      BY <1>14, DieDoes DEF Holding
    <2> QED
      BY <2>1, QuietGrows, NoNewHolder, FramedBy DEF Quiet
  <1> QED
    BY <1>1, <1>2, <1>3, <1>4, <1>5, <1>6, <1>7, <1>8, <1>9, <1>10, <1>11, <1>12, <1>13,
       <1>14, PickFrames DEF Step, Begins

(* A step of an operator. *)
Operates(i) ==
    \/ \E line \in 1..MaxRows : RefreshRef(i, line)
    \/ SweepItem(i) \/ Requeue(i) \/ Skip(i) \/ LinkPlanGraph(i)

LEMMA OperatorFrames ==
    ASSUME QueueTyped,
           \/ \E p \in Plans : EditPlan(p)
           \/ \E s \in Syncers : CompareWithPlan(s) \/ RecordItem(s) \/ StopSync(s)
           \/ ListMoves
           \/ \E i \in Ids : Operates(i)
           \/ \E to \in {"skipped", "blocked"}, ids \in SUBSET Ids : ListSweep(to, ids)
    PROVE  Frame
  <1> USE DEF QueueTyped
  <1>1. ASSUME NEW p \in Plans, EditPlan(p) PROVE Frame
    <2>1. Typed' /\ Grown /\ UNCHANGED <<pc, job, sweep, moves>> /\ upset \subseteq upset'
      BY <1>1, EditPlanDoes DEF EditPlan
    <2> QED
      BY <2>1, NoHolderMoves, FramedBy
  <1>2. ASSUME NEW s \in Syncers, CompareWithPlan(s) \/ StopSync(s) PROVE Frame
    <2>1. Typed' /\ Grown /\ UNCHANGED <<pc, job, sweep, moves>> /\ upset \subseteq upset'
      BY <1>2, SyncLeavesTables
    <2> QED
      BY <2>1, NoHolderMoves, FramedBy
  <1>3. ASSUME NEW s \in Syncers, RecordItem(s) PROVE Frame
    <2>1. Typed' /\ Grown /\ UNCHANGED <<pc, job, sweep, moves>> /\ upset \subseteq upset'
      BY <1>3, RecordItemDoes
    <2> QED
      BY <2>1, NoHolderMoves, FramedBy
  <1>10. CASE ListMoves
    <2>1. /\ Typed' /\ Grown /\ UNCHANGED <<pc, job, sweep, upset, items>>
          /\ \A m \in moves' : m[1] \in DOMAIN items
      BY <1>10, ListMovesDoes
    <2>2. ListedOK'
      BY <2>1, ListsStayOK DEF ListedOK
    <2> QED
      BY <2>1, <2>2, NoHolderMoves DEF Frame
  <1>4. ASSUME NEW i \in Ids, NEW line \in 1..MaxRows, RefreshRef(i, line) PROVE Frame
    <2>1. i \in DOMAIN items
      BY <1>4 DEF RefreshRef, ListedOK
    <2>2. /\ Typed' /\ Grown /\ UNCHANGED <<pc, job, sweep, upset>> /\ moves' \subseteq moves
      BY <1>4, <2>1, RefreshRefDoes
    <2>3. ListedOK'
      BY <2>2, ListsStayOK DEF ListedOK
    <2> QED
      BY <2>2, <2>3, NoHolderMoves DEF Frame
  <1>5. ASSUME NEW i \in Ids, SweepItem(i) PROVE Frame
    <2>1. /\ i \in DOMAIN items
          /\ sweep' = NoSweep \/ sweep' = [sweep EXCEPT !.ids = @ \ {i}]
          /\ sweep \in [ids : SUBSET Ids, to : {"skipped", "blocked"}]
      BY <1>5 DEF SweepItem, ListedOK, Typed, TypeOK
    <2>2. sweep'.ids \subseteq sweep.ids
      BY <2>1 DEF NoSweep
    <2>3. Typed' /\ Grown /\ UNCHANGED <<pc, job>> /\ upset \subseteq upset'
      BY <1>5, <2>1, SweepItemDoes
    <2>4. ListedOK'
      BY <1>5, <2>2, <2>3, SweepItemDoes, <2>1, ListsStayOK
    <2> QED
      BY <2>3, <2>4, NoHolderMoves DEF Frame
  <1>6. ASSUME NEW i \in Ids, Requeue(i) PROVE Frame
    <2>1. Typed' /\ Grown /\ UNCHANGED <<pc, job, sweep, moves>> /\ upset \subseteq upset'
      BY <1>6, RequeueDoes DEF Requeue
    <2> QED
      BY <2>1, NoHolderMoves, FramedBy
  <1>7. ASSUME NEW i \in Ids, Skip(i) PROVE Frame
    <2>1. Typed' /\ Grown /\ UNCHANGED <<pc, job, sweep, moves>> /\ upset \subseteq upset'
      BY <1>7, SkipDoes DEF Skip
    <2> QED
      BY <2>1, NoHolderMoves, FramedBy
  <1>8. ASSUME NEW i \in Ids, LinkPlanGraph(i) PROVE Frame
    <2>1. Typed' /\ Grown /\ UNCHANGED <<pc, job, sweep, moves>> /\ upset \subseteq upset'
      BY <1>8, LinkPlanGraphDoes DEF LinkPlanGraph
    <2> QED
      BY <2>1, NoHolderMoves, FramedBy
  <1>9. ASSUME NEW to \in {"skipped", "blocked"}, NEW ids \in SUBSET Ids, ListSweep(to, ids)
        PROVE Frame
    <2>1. Typed' /\ Grown /\ UNCHANGED <<pc, job, upset, items, moves>>
      BY <1>9, ListSweepDoes
    <2>2. sweep'.ids \subseteq DOMAIN items'
      BY <1>9, <2>1 DEF ListSweep
    <2>3. ListedOK'
      BY <2>1, <2>2, ListsStayOK
    <2> QED
      BY <2>1, <2>3, NoHolderMoves DEF Frame
  <1> QED
    BY <1>1, <1>2, <1>3, <1>4, <1>5, <1>6, <1>7, <1>8, <1>9, <1>10 DEF Operates

LEMMA NextFrames ==
    ASSUME QueueTyped, [Next]_vars
    PROVE  Frame
  <1>1. ASSUME NEW r \in Runners, Step(r) \/ Die(r) \/ Begins(r)
        PROVE  Frame
    BY <1>1, RunnerFrames
  <1>2. CASE \/ \E p \in Plans : EditPlan(p)
             \/ \E s \in Syncers : CompareWithPlan(s) \/ RecordItem(s) \/ StopSync(s)
             \/ ListMoves
             \/ \E i \in Ids : Operates(i)
             \/ \E to \in {"skipped", "blocked"}, ids \in SUBSET Ids : ListSweep(to, ids)
    BY <1>2, OperatorFrames
  <1>3. CASE UNCHANGED vars
    <2>1. UNCHANGED <<pc, job, sweep, moves, items, tasks, upset>>
      BY <1>3 DEF vars
    <2>2. Grown
      BY <2>1 DEF Grown
    <2>3. Typed'
      <3>1. TypeOK'
        BY <1>3 DEF QueueTyped, Typed, TypeOK, vars
      <3>2. JobsOK'
        BY <2>1 DEF QueueTyped, Typed, JobsOK
      <3> QED
        BY <3>1, <3>2 DEF Typed
    <2> QED
      BY <2>1, <2>2, <2>3, NoHolderMoves, FramedBy DEF QueueTyped
  <1> QED
    BY <1>1, <1>2, <1>3 DEF Next, Operates, Begins

(* The queue, its runners and its operators keep to their types: every item  *)
(* a runner has in hand, lists or sweeps is a row of the table, every task   *)
(* it settles with is one it ran for that item, and a rotated batch has a    *)
(* worktree for each of its items.                                           *)
THEOREM QueueTypes == Spec => []TypeOK
  <1>1. Init => QueueTyped
    BY InitTyped
  <1>2. QueueTyped /\ [Next]_vars => QueueTyped'
    BY NextFrames DEF Frame
  <1>3. QueueTyped => TypeOK
    BY DEF QueueTyped, Typed
  <1> QED
    BY <1>1, <1>2, <1>3, PTL DEF Spec
-----------------------------------------------------------------------------
(* WHO HOLDS AN ITEM *)

(* Two runners have an item in hand only where a rival was noted.            *)
HeldOnce ==
    \A i \in Ids : \A r, s \in Runners :
      Holds(r, i) /\ Holds(s, i) /\ Calm(i, {"rival"}) => r = s

LEMMA HeldOnceStays ==
    ASSUME HeldOnce, Frame
    PROVE  HeldOnce'
  <1> SUFFICES ASSUME NEW i \in Ids, NEW r \in Runners, NEW s \in Runners,
                      Holds(r, i)', Holds(s, i)', Calm(i, {"rival"})'
               PROVE  r = s
    BY DEF HeldOnce
  <1>1. <<i, "rival">> \notin upset' /\ <<i, "rival">> \notin upset
    BY DEF Calm, Frame
  <1>2. ASSUME NEW u \in Runners, NEW v \in Runners, Holds(u, i)', Holds(v, i)', ~ Holds(u, i)
        PROVE  u = v
    <2>1. Others(u) /\ \A w \in Runners : ~ Holds(w, i)
      BY <1>1, <1>2 DEF Frame
    <2> QED
      BY <1>2, <2>1 DEF Others, Holds
  <1>3. CASE Holds(r, i) /\ Holds(s, i)
    BY <1>1, <1>3 DEF HeldOnce, Calm
  <1> QED
    BY <1>2, <1>3
-----------------------------------------------------------------------------
(* DONE IS ACCOUNTED FOR *)

Calm3(i) == Calm(i, {"rival", "sweep", "death"})

DoneHasTask ==
    \A i \in DOMAIN items : items[i].status = "done" =>
      /\ items[i].task \in DOMAIN tasks
      /\ tasks[items[i].task].item = i /\ tasks[items[i].task].ok

OkIsDone ==
    \A t \in DOMAIN tasks, i \in Ids : tasks[t].item = i =>
      /\ i \in DOMAIN items
      /\ tasks[t].ok /\ Calm3(i) =>
           \/ items[i].status = "done" /\ items[i].task = t
           \/ \E r \in Runners : pc[r] = "settle" /\ job[r].task = t

(* A runner never has an item in hand that a task was already done for.      *)
HeldIsFresh ==
    \A r \in Runners, i \in Ids : Holds(r, i) /\ Calm3(i) =>
      \A t \in DOMAIN tasks : tasks[t].item = i /\ tasks[t].ok =>
        pc[r] \in {"settle", "settle_node"} /\ job[r].task = t

Account == DoneHasTask /\ OkIsDone /\ HeldIsFresh

LEMMA AccountIsProperty ==
    ASSUME QueueTyped, Account
    PROVE  DoneIsAccountedFor
  <1>1. tasks \in Seq(TaskRows)
    BY DEF QueueTyped, Typed, TypeOK, TaskRows
  <1>2. DOMAIN tasks = 1..Len(tasks) /\ Len(tasks) \in Nat
    BY <1>1, LenProperties
  <1>3. \A t \in DOMAIN tasks : t # 0 /\ tasks[t].item \in Ids
    <2>1. \A t \in 1..Len(tasks) : tasks[t] \in TaskRows
      BY <1>1, ElementOfSeq
    <2> QED
      BY <1>2, <2>1 DEF TaskRows
  <1>4. \A i \in DOMAIN items : items[i].status = "done" =>
          items[i].task # 0 /\ tasks[items[i].task].item = i /\ tasks[items[i].task].ok
    BY <1>3 DEF Account, DoneHasTask
  <1>5. \A t \in DOMAIN tasks :
          tasks[t].ok /\ Calm3(tasks[t].item) =>
            \/ items[tasks[t].item].status = "done" /\ items[tasks[t].item].task = t
            \/ \E r \in Runners : pc[r] = "settle" /\ job[r].task = t
    BY <1>3 DEF Account, OkIsDone
  <1> QED
    BY <1>4, <1>5 DEF DoneIsAccountedFor, Calm3

LEMMA CalmBefore ==
    ASSUME upset \subseteq upset'
    PROVE  \A i, S : Calm(i, S)' => Calm(i, S)
  BY DEF Calm

LEMMA SettlerHolds ==
    ASSUME QueueTyped, NEW r \in Runners, pc[r] = "settle",
           NEW t \in DOMAIN tasks, job[r].task = t
    PROVE  job[r].item = tasks[t].item /\ Holds(r, tasks[t].item) /\ tasks[t].item \in Ids
  <1>1. /\ JobOK(pc[r], job[r], DOMAIN items, tasks)
        /\ tasks \in Seq(TaskRows)
    BY DEF QueueTyped, Typed, JobsOK, TypeOK, TaskRows
  <1>2. DOMAIN tasks = 1..Len(tasks) /\ Len(tasks) \in Nat
    BY <1>1, LenProperties
  <1>3. t # 0 /\ tasks[t] \in TaskRows
    <2>1. \A u \in 1..Len(tasks) : tasks[u] \in TaskRows
      BY <1>1, ElementOfSeq
    <2> QED
      BY <1>2, <2>1
  <1> QED
    BY <1>1, <1>3 DEF JobOK, Holds, Holding, TaskRows

(* What a step may do to the rows and the runners.                           *)
LEMMA AccountStep ==
    ASSUME QueueTyped, Account, Frame, UNCHANGED tasks,
           \A i \in DOMAIN items' : items'[i].status = "done" =>
             \/ /\ i \in DOMAIN items /\ items[i].status = "done"
                /\ items'[i].task = items[i].task
             \/ /\ items'[i].task \in DOMAIN tasks
                /\ tasks[items'[i].task].item = i /\ tasks[items'[i].task].ok,
           \A i \in DOMAIN items : items[i].status = "done" /\ Calm3(i)' =>
             items'[i].status = "done" /\ items'[i].task = items[i].task,
           \A r \in Runners, i \in Ids : pc[r] = "settle" /\ job[r].item = i =>
             \/ pc'[r] = "settle" /\ job'[r].task = job[r].task
             \/ ~ Calm3(i)'
             \/ \A t \in DOMAIN tasks : job[r].task = t /\ tasks[t].ok =>
                  items'[i].status = "done" /\ items'[i].task = t,
           \A r \in Runners :
             pc[r] \in {"settle", "settle_node"} /\ pc'[r] \in Holding =>
               pc'[r] \in {"settle", "settle_node"} /\ job'[r].task = job[r].task
    PROVE  Account'
  <1>1. upset \subseteq upset' /\ DOMAIN items \subseteq DOMAIN items'
    BY DEF Frame, Grown
  <1>2. \A i : Calm3(i)' => Calm3(i)
    BY <1>1, CalmBefore DEF Calm3
  <1>3. DoneHasTask'
    BY DEF Account, DoneHasTask
  <1>4. OkIsDone'
    <2> SUFFICES ASSUME NEW t \in DOMAIN tasks, NEW i \in Ids, tasks[t].item = i
                 PROVE  /\ i \in DOMAIN items'
                        /\ tasks[t].ok /\ Calm3(i)' =>
                             \/ items'[i].status = "done" /\ items'[i].task = t
                             \/ \E r \in Runners : pc'[r] = "settle" /\ job'[r].task = t
      BY DEF OkIsDone
    <2>1. /\ i \in DOMAIN items
          /\ tasks[t].ok /\ Calm3(i) =>
               \/ items[i].status = "done" /\ items[i].task = t
               \/ \E r \in Runners : pc[r] = "settle" /\ job[r].task = t
      BY DEF Account, OkIsDone
    <2>2. ASSUME tasks[t].ok, Calm3(i)'
          PROVE  \/ items'[i].status = "done" /\ items'[i].task = t
                 \/ \E r \in Runners : pc'[r] = "settle" /\ job'[r].task = t
      <3>1. CASE items[i].status = "done" /\ items[i].task = t
        BY <2>1, <2>2, <3>1
      <3>2. ASSUME NEW r \in Runners, pc[r] = "settle", job[r].task = t
            PROVE  \/ items'[i].status = "done" /\ items'[i].task = t
                   \/ \E s \in Runners : pc'[s] = "settle" /\ job'[s].task = t
        <4>1. job[r].item = i
          BY <3>2, SettlerHolds
        <4> QED
          BY <2>2, <3>2, <4>1
      <3> QED
        BY <1>2, <2>1, <2>2, <3>1, <3>2
    <2> QED
      BY <1>1, <2>1, <2>2
  <1>5. HeldIsFresh'
    <2> SUFFICES ASSUME NEW r \in Runners, NEW i \in Ids, Holds(r, i)', Calm3(i)',
                        NEW t \in DOMAIN tasks, tasks[t].item = i, tasks[t].ok
                 PROVE  pc'[r] \in {"settle", "settle_node"} /\ job'[r].task = t
      BY DEF HeldIsFresh
    <2>1. CASE Holds(r, i)
      <3>1. pc[r] \in {"settle", "settle_node"} /\ job[r].task = t
        BY <1>2, <2>1 DEF Account, HeldIsFresh
      <3>2. pc'[r] \in Holding
        BY DEF Holds
      <3> QED
        BY <3>1, <3>2
    <2>2. CASE ~ Holds(r, i)
      <3>1. items[i].status = "created" /\ \A s \in Runners : ~ Holds(s, i)
        BY <2>2 DEF Frame, Calm3, Calm
      <3>2. PICK s \in Runners : pc[s] = "settle" /\ job[s].task = t
        BY <1>2, <3>1 DEF Account, OkIsDone
      <3>3. Holds(s, i)
        BY <3>2, SettlerHolds
      <3> QED
        BY <3>1, <3>3
    <2> QED
      BY <2>1, <2>2
  <1> QED
    BY <1>3, <1>4, <1>5 DEF Account

(* Steps that leave the rows and the tasks alone.                            *)
LEMMA AccountAside ==
    ASSUME QueueTyped, Account, Frame, UNCHANGED <<items, tasks>>, NEW r \in Runners, Others(r),
           pc[r] = "settle" =>
             pc'[r] \notin Holding /\ \A i \in Ids : job[r].item = i => ~ Calm3(i)',
           pc[r] = "settle_node" => pc'[r] \notin Holding
    PROVE  Account'
  <1>1. \A i \in DOMAIN items' : items'[i].status = "done" =>
             \/ /\ i \in DOMAIN items /\ items[i].status = "done"
                /\ items'[i].task = items[i].task
             \/ /\ items'[i].task \in DOMAIN tasks
                /\ tasks[items'[i].task].item = i /\ tasks[items'[i].task].ok
    OBVIOUS
  <1>2. \A s \in Runners : s # r => pc'[s] = pc[s] /\ job'[s] = job[s]
    BY DEF Others
  <1> QED
    BY <1>1, <1>2, AccountStep

LEMMA AccountOperator ==
    ASSUME QueueTyped, Account, Frame, UNCHANGED <<tasks, pc, job>>,
           \A i \in DOMAIN items' : items'[i].status = "done" =>
             /\ i \in DOMAIN items /\ items[i].status = "done"
             /\ items'[i].task = items[i].task,
           \A i \in DOMAIN items : items[i].status = "done" /\ Calm3(i)' =>
             items'[i].status = "done" /\ items'[i].task = items[i].task
    PROVE  Account'
  <1>1. \A i \in DOMAIN items' : items'[i].status = "done" =>
             \/ /\ i \in DOMAIN items /\ items[i].status = "done"
                /\ items'[i].task = items[i].task
             \/ /\ items'[i].task \in DOMAIN tasks
                /\ tasks[items'[i].task].item = i /\ tasks[items'[i].task].ok
    OBVIOUS
  <1> QED
    BY <1>1, AccountStep

LEMMA RunTaskAccounts ==
    ASSUME QueueTyped, Account, HeldOnce, Frame, NEW r \in Runners, NEW ok \in BOOLEAN,
           RunTask(r, ok)
    PROVE  Account'
  <1>1. /\ UNCHANGED <<items, upset>> /\ Others(r) /\ pc[r] = "run" /\ pc'[r] = "settle"
        /\ job'[r].item = job[r].item
        /\ Len(tasks) \in Nat /\ DOMAIN tasks = 1..Len(tasks)
        /\ DOMAIN tasks' = 1..(Len(tasks) + 1) /\ job'[r].task = Len(tasks) + 1
        /\ tasks'[Len(tasks) + 1].item = job[r].item /\ tasks'[Len(tasks) + 1].ok = ok
        /\ job[r].item \in DOMAIN items
    BY RunTaskDoes DEF QueueTyped
  <1>2. PICK n : n = Len(tasks) + 1 /\ n \notin DOMAIN tasks /\ DOMAIN tasks' = DOMAIN tasks \union {n}
    BY <1>1
  <1>3. PICK i \in Ids : i = job[r].item
    BY <1>1, TreeOfJob DEF QueueTyped, Holding
  <1>4. \A t \in DOMAIN tasks : t \in DOMAIN tasks' /\ tasks'[t] = tasks[t]
    BY DEF Frame, Grown
  <1>5. \A k : Calm3(k)' <=> Calm3(k)
    BY <1>1 DEF Calm3, Calm
  <1>6. Holds(r, i) /\ \A s \in Runners : Calm3(i) /\ Holds(s, i) => s = r
    BY <1>1, <1>3 DEF Holds, Holding, HeldOnce, Calm3, Calm
  <1>7. Calm3(i) => \A t \in DOMAIN tasks : ~ (tasks[t].item = i /\ tasks[t].ok)
    BY <1>1, <1>6 DEF Account, HeldIsFresh
  <1>8. DoneHasTask'
    BY <1>1, <1>4 DEF Account, DoneHasTask
  <1>9. OkIsDone'
    <2> SUFFICES ASSUME NEW t \in DOMAIN tasks', NEW k \in Ids, tasks'[t].item = k
                 PROVE  /\ k \in DOMAIN items'
                        /\ tasks'[t].ok /\ Calm3(k)' =>
                             \/ items'[k].status = "done" /\ items'[k].task = t
                             \/ \E s \in Runners : pc'[s] = "settle" /\ job'[s].task = t
      BY DEF OkIsDone
    <2>1. CASE t = n
      <3>1. tasks'[t].item = i /\ pc'[r] = "settle" /\ job'[r].task = t
        BY <1>1, <1>2, <1>3, <2>1
      <3> QED
        BY <1>1, <1>3, <3>1
    <2>2. CASE t \in DOMAIN tasks
      <3>1. tasks'[t] = tasks[t]
        BY <1>4, <2>2
      <3>2. ASSUME NEW s \in Runners, pc[s] = "settle", job[s].task = t
            PROVE  pc'[s] = "settle" /\ job'[s].task = t
        BY <1>1, <3>2 DEF Others
      <3>3. /\ k \in DOMAIN items
            /\ tasks[t].ok /\ Calm3(k) =>
                 \/ items[k].status = "done" /\ items[k].task = t
                 \/ \E s \in Runners : pc[s] = "settle" /\ job[s].task = t
        BY <2>2, <3>1 DEF Account, OkIsDone
      <3> QED
        BY <1>1, <1>5, <3>1, <3>2, <3>3
    <2> QED
      BY <1>2, <2>1, <2>2
  <1>10. HeldIsFresh'
    <2> SUFFICES ASSUME NEW s \in Runners, NEW k \in Ids, Holds(s, k)', Calm3(k)',
                        NEW t \in DOMAIN tasks', tasks'[t].item = k, tasks'[t].ok
                 PROVE  pc'[s] \in {"settle", "settle_node"} /\ job'[s].task = t
      BY DEF HeldIsFresh
    <2>1. Holds(s, k)
      BY <1>1 DEF Holds, Others, Holding
    <2>2. CASE t = n
      <3>1. k = i
        BY <1>1, <1>2, <1>3, <2>2
      <3>2. s = r
        BY <1>5, <1>6, <2>1, <3>1
      <3> QED
        BY <1>1, <1>2, <2>2, <3>2
    <2>3. CASE t \in DOMAIN tasks
      <3>1. tasks[t].item = k /\ tasks[t].ok
        BY <1>4, <2>3
      <3>2. pc[s] \in {"settle", "settle_node"} /\ job[s].task = t
        BY <1>5, <2>1, <2>3, <3>1 DEF Account, HeldIsFresh
      <3>3. s # r
        BY <1>1, <3>2
      <3> QED
        BY <1>1, <3>2, <3>3 DEF Others
    <2> QED
      BY <1>2, <2>2, <2>3
  <1> QED
    BY <1>8, <1>9, <1>10 DEF Account

LEMMA MarkItemAccounts ==
    ASSUME QueueTyped, Account, Frame, NEW r \in Runners, MarkItem(r)
    PROVE  Account'
  <1>1. /\ UNCHANGED tasks /\ Others(r) /\ pc[r] = "guard" /\ pc'[r] = "mark_node"
        /\ job' = job /\ job[r].item \in DOMAIN items
        /\ Writes(job[r].item, "in_progress", items[job[r].item].task,
                  Keeping(items[job[r].item].worktree, Recorded(r)))
    BY MarkItemDoes DEF QueueTyped
  <1>2. PICK i \in DOMAIN items : i = job[r].item /\ i \in Ids
    BY <1>1, TreeOfJob DEF QueueTyped, Holding
  <1>3. /\ DOMAIN items' = DOMAIN items /\ \A k \in DOMAIN items : k # i => items'[k] = items[k]
        /\ items'[i].status = "in_progress"
    BY <1>1, <1>2 DEF Writes
  <1>4. \A k \in DOMAIN items : items[k].status = "done" /\ Calm3(k)' =>
             items'[k].status = "done" /\ items'[k].task = items[k].task
    <2>1. ASSUME items[i].status = "done", Calm3(i)'
          PROVE  FALSE
      <3>1. Calm3(i) /\ Holds(r, i)
        BY <1>1, <1>2, <2>1, CalmBefore DEF Calm3, Holds, Holding, Frame
      <3>2. PICK t \in DOMAIN tasks : tasks[t].item = i /\ tasks[t].ok
        BY <2>1 DEF Account, DoneHasTask
      <3>3. tasks[t].item = i /\ tasks[t].ok
        BY <3>2
      <3>4. pc[r] \in {"settle", "settle_node"}
        BY <1>2, <3>1, <3>3 DEF Account, HeldIsFresh
      <3> QED
        BY <1>1, <3>4
    <2> QED
      BY <1>3, <2>1
  <1>5. \A k \in DOMAIN items' : items'[k].status = "done" =>
             \/ /\ k \in DOMAIN items /\ items[k].status = "done"
                /\ items'[k].task = items[k].task
             \/ /\ items'[k].task \in DOMAIN tasks
                /\ tasks[items'[k].task].item = k /\ tasks[items'[k].task].ok
    BY <1>3
  <1>6. \A s \in Runners : pc[s] \in {"settle", "settle_node"} =>
          pc'[s] = pc[s] /\ job'[s] = job[s]
    BY <1>1 DEF Others
  <1>7. /\ \A s \in Runners, k \in Ids : pc[s] = "settle" /\ job[s].item = k =>
             \/ pc'[s] = "settle" /\ job'[s].task = job[s].task
             \/ ~ Calm3(k)'
             \/ \A t \in DOMAIN tasks : job[s].task = t /\ tasks[t].ok =>
                  items'[k].status = "done" /\ items'[k].task = t
        /\ \A s \in Runners :
             pc[s] \in {"settle", "settle_node"} /\ pc'[s] \in Holding =>
               pc'[s] \in {"settle", "settle_node"} /\ job'[s].task = job[s].task
    BY <1>6
  <1> QED
    BY <1>1, <1>4, <1>5, <1>7, AccountStep

LEMMA SettleItemAccounts ==
    ASSUME QueueTyped, Account, Frame, NEW r \in Runners, SettleItem(r)
    PROVE  Account'
  <1>1. /\ UNCHANGED <<tasks, upset>> /\ Others(r) /\ pc[r] = "settle"
        /\ pc'[r] = "settle_node" /\ job' = job /\ job[r].item \in DOMAIN items
        /\ Writes(job[r].item, Result(r),
                  Keeping(items[job[r].item].task, job[r].task),
                  Keeping(items[job[r].item].worktree, Recorded(r)))
    BY SettleItemDoes DEF QueueTyped
  <1>2. PICK i \in DOMAIN items : i = job[r].item /\ i \in Ids
    BY <1>1, TreeOfJob DEF QueueTyped, Holding
  <1>3. /\ DOMAIN items' = DOMAIN items /\ \A k \in DOMAIN items : k # i => items'[k] = items[k]
        /\ items'[i].status = Result(r) /\ (job[r].task # 0 => items'[i].task = job[r].task)
    BY <1>1, <1>2 DEF Writes, Keeping
  <1>4. /\ Result(r) = "done" =>
             /\ job[r].task # 0 /\ job[r].task \in DOMAIN tasks
             /\ tasks[job[r].task].item = i /\ tasks[job[r].task].ok
        /\ \A t \in DOMAIN tasks : tasks[t].ok /\ job[r].task = t => Result(r) = "done"
    BY <1>1, <1>2, ResultIs DEF QueueTyped
  <1>5. \A k \in DOMAIN items : items[k].status = "done" /\ Calm3(k)' =>
             items'[k].status = "done" /\ items'[k].task = items[k].task
    <2>1. ASSUME items[i].status = "done", Calm3(i)'
          PROVE  items'[i].status = "done" /\ items'[i].task = items[i].task
      <3>1. Calm3(i) /\ Holds(r, i)
        BY <1>1, <1>2, <2>1 DEF Calm3, Calm, Holds, Holding
      <3>2. PICK t \in DOMAIN tasks : t = items[i].task /\ tasks[t].item = i /\ tasks[t].ok
        BY <2>1 DEF Account, DoneHasTask
      <3>3. tasks[t].item = i /\ tasks[t].ok
        BY <3>2
      <3>4. job[r].task = t
        BY <1>2, <3>1, <3>3 DEF Account, HeldIsFresh
      <3> QED
        BY <1>3, <1>4, <3>2, <3>3, <3>4
    <2> QED
      BY <1>3, <2>1
  <1>6. \A k \in DOMAIN items' : items'[k].status = "done" =>
             \/ /\ k \in DOMAIN items /\ items[k].status = "done"
                /\ items'[k].task = items[k].task
             \/ /\ items'[k].task \in DOMAIN tasks
                /\ tasks[items'[k].task].item = k /\ tasks[items'[k].task].ok
    BY <1>3, <1>4
  <1>7. \A s \in Runners, k \in Ids : pc[s] = "settle" /\ job[s].item = k =>
             \/ pc'[s] = "settle" /\ job'[s].task = job[s].task
             \/ ~ Calm3(k)'
             \/ \A t \in DOMAIN tasks : job[s].task = t /\ tasks[t].ok =>
                  items'[k].status = "done" /\ items'[k].task = t
    <2>1. \A s \in Runners : s # r => pc'[s] = pc[s] /\ job'[s] = job[s]
      BY <1>1 DEF Others
    <2>2. \A t \in DOMAIN tasks : job[r].task = t /\ tasks[t].ok =>
            items'[i].status = "done" /\ items'[i].task = t
      BY <1>3, <1>4
    <2> QED
      BY <1>2, <2>1, <2>2
  <1>8. \A s \in Runners :
             pc[s] \in {"settle", "settle_node"} /\ pc'[s] \in Holding =>
               pc'[s] \in {"settle", "settle_node"} /\ job'[s].task = job[s].task
    <2>1. \A s \in Runners : s # r => pc'[s] = pc[s]
      BY <1>1 DEF Others
    <2> QED
      BY <1>1, <2>1
  <1> QED
    BY <1>1, <1>5, <1>6, <1>7, <1>8, AccountStep

LEMMA RunnerAccounts ==
    ASSUME QueueTyped, Account, HeldOnce, Frame, NEW r \in Runners,
           Step(r) \/ Die(r) \/ Begins(r)
    PROVE  Account'
  <1> USE DEF QueueTyped
  <1>1. ASSUME NEW kind \in Kinds, NEW tree \in Trees, Begin(r, kind, tree)
        PROVE Account'
    <2>1. pc[r] = "idle" /\ UNCHANGED <<items, tasks>> /\ Others(r)
      BY <1>1, BeginDoes DEF Begin
    <2> QED
      BY <2>1, AccountAside
  <1>2. CASE Select(r)
    <2>1. pc[r] = "select" /\ UNCHANGED <<items, tasks>> /\ Others(r)
      BY <1>2, SelectDoes DEF Quiet
    <2> QED
      BY <2>1, AccountAside
  <1>3. ASSUME NEW i \in Ids, SelectItem(r, i) PROVE Account'
    <2>1. pc[r] = "select" /\ UNCHANGED <<items, tasks>> /\ Others(r)
      BY <1>3, SelectItemDoes DEF Quiet
    <2> QED
      BY <2>1, AccountAside
  <1>4. CASE StopLoop(r)
    <2>1. pc[r] = "select" /\ UNCHANGED <<items, tasks>> /\ Others(r)
      BY <1>4, StopLoopDoes DEF Quiet
    <2> QED
      BY <2>1, AccountAside
  <1>5. CASE CountRounds(r)
    <2>1. pc[r] = "count" /\ UNCHANGED <<items, tasks>> /\ Others(r)
      BY <1>5, CountRoundsDoes DEF Quiet
    <2> QED
      BY <2>1, AccountAside
  <1>6. CASE Pick(r)
    <2>1. pc[r] = "pick" /\ UNCHANGED <<items, tasks>> /\ Others(r)
      BY <1>6, PickDoes DEF Quiet
    <2> QED
      BY <2>1, AccountAside
  <1>7. CASE Refuse(r)
    <2>1. pc[r] = "guard" /\ UNCHANGED <<items, tasks>> /\ Others(r)
      BY <1>7, RefuseDoes DEF Quiet
    <2> QED
      BY <2>1, AccountAside
  <1>8. CASE MarkNode(r)
    <2>1. pc[r] = "mark_node" /\ UNCHANGED <<items, tasks>> /\ Others(r)
      BY <1>8, MarkNodeDoes
    <2> QED
      BY <2>1, AccountAside
  <1>9. CASE SettleNode(r)
    <2>1. /\ pc[r] = "settle_node" /\ UNCHANGED <<items, tasks>> /\ Others(r)
          /\ pc'[r] \notin Holding
      BY <1>9, SettleNodeDoes DEF Holding
    <2> QED
      BY <2>1, AccountAside
  <1>10. CASE CheckLetter(r)
    <2>1. pc[r] = "letters" /\ UNCHANGED <<items, tasks>> /\ Others(r)
      BY <1>10, CheckLetterDoes DEF Quiet
    <2> QED
      BY <2>1, AccountAside
  <1>11. CASE AddLetter(r)
    <2>1. pc[r] = "letter" /\ UNCHANGED <<items, tasks>> /\ Others(r)
      BY <1>11, AddLetterDoes DEF Quiet
    <2> QED
      BY <2>1, AccountAside
  <1>12. CASE Die(r)
    <2>1. /\ UNCHANGED <<items, tasks>> /\ Others(r) /\ pc'[r] \notin Holding
          /\ pc[r] \in Holding => <<job[r].item, "death">> \in upset'
      BY <1>12, DieDoes DEF Quiet, Holding
    <2>2. pc[r] = "settle" =>
            pc'[r] \notin Holding /\ \A i \in Ids : job[r].item = i => ~ Calm3(i)'
      BY <2>1 DEF Holding, Calm3, Calm
    <2> QED
      BY <2>1, <2>2, AccountAside
  <1> QED
    BY <1>1, <1>2, <1>3, <1>4, <1>5, <1>6, <1>7, <1>8, <1>9, <1>10, <1>11, <1>12,
       RunTaskAccounts, MarkItemAccounts, SettleItemAccounts DEF Step, Begins

LEMMA OperatorAccounts ==
    ASSUME QueueTyped, Account, Frame,
           \/ \E p \in Plans : EditPlan(p)
           \/ \E s \in Syncers : CompareWithPlan(s) \/ RecordItem(s) \/ StopSync(s)
           \/ ListMoves
           \/ \E i \in Ids : Operates(i)
           \/ \E to \in {"skipped", "blocked"}, ids \in SUBSET Ids : ListSweep(to, ids)
    PROVE  Account'
  <1> USE DEF QueueTyped
  <1>1. ASSUME UNCHANGED <<tasks, pc, job, items>> PROVE Account'
    BY <1>1, AccountOperator
  <1>2. ASSUME NEW p \in Plans, EditPlan(p) PROVE Account'
    BY <1>1, <1>2, EditPlanDoes
  <1>3. ASSUME NEW s \in Syncers, CompareWithPlan(s) \/ StopSync(s) PROVE Account'
    BY <1>1, <1>3, SyncLeavesTables
  <1>4. ASSUME NEW s \in Syncers, RecordItem(s) PROVE Account'
    <2>1. UNCHANGED <<tasks, pc, job>>
      BY <1>4, RecordItemDoes
    <2>2. PICK n \in Ids :
            /\ n \notin DOMAIN items /\ DOMAIN items' = DOMAIN items \union {n}
            /\ \A k \in DOMAIN items : items'[k] = items[k]
            /\ items'[n].status = "created"
      BY <1>4, RecordItemDoes
    <2> QED
      BY <2>1, <2>2, AccountOperator
  <1>5. ASSUME NEW i \in Ids, NEW line \in 1..MaxRows, RefreshRef(i, line) PROVE Account'
    <2>1. /\ UNCHANGED <<tasks, pc, job>> /\ DOMAIN items' = DOMAIN items
          /\ \A k \in DOMAIN items :
               items'[k].status = items[k].status /\ items'[k].task = items[k].task
      BY <1>5, RefreshesRow, RefreshRefDoes
    <2> QED
      BY <2>1, AccountOperator
  <1>6. ASSUME NEW i \in Ids, SweepItem(i) PROVE Account'
    <2>1. i \in DOMAIN items
      BY <1>6 DEF SweepItem, ListedOK
    <2>2. PICK to \in {"skipped", "blocked"} : Writes(i, to, items[i].task, items[i].worktree)
      BY <1>6, <2>1, SweepItemDoes
    <2>3. /\ UNCHANGED <<tasks, pc, job>> /\ upset' = upset \union {<<i, "sweep">>}
      BY <1>6, <2>1, SweepItemDoes
    <2>4. ~ Calm3(i)'
      BY <2>3 DEF Calm3, Calm
    <2>5. /\ DOMAIN items' = DOMAIN items /\ items'[i].status # "done"
          /\ \A k \in DOMAIN items : k # i => items'[k] = items[k]
      BY <2>2 DEF Writes
    <2> QED
      BY <2>3, <2>4, <2>5, AccountOperator
  <1>7. ASSUME NEW i \in Ids, Requeue(i) PROVE Account'
    <2>1. /\ UNCHANGED <<tasks, pc, job>> /\ DOMAIN items' = DOMAIN items
          /\ items[i].status = "blocked" /\ items'[i].status = "created"
          /\ \A k \in DOMAIN items : k # i => items'[k] = items[k]
      BY <1>7, RequeueDoes DEF Writes
    <2> QED
      BY <2>1, AccountOperator
  <1>8. ASSUME NEW i \in Ids, Skip(i) PROVE Account'
    <2>1. /\ UNCHANGED <<tasks, pc, job>> /\ DOMAIN items' = DOMAIN items
          /\ items[i].status # "done" /\ items'[i].status = "skipped"
          /\ \A k \in DOMAIN items : k # i => items'[k] = items[k]
      BY <1>8, SkipDoes DEF Writes
    <2> QED
      BY <2>1, AccountOperator
  <1>9. ASSUME NEW i \in Ids, LinkPlanGraph(i) PROVE Account'
    <2>1. /\ UNCHANGED <<tasks, pc, job>> /\ DOMAIN items' = DOMAIN items
          /\ \A k \in DOMAIN items :
               items'[k].status = items[k].status /\ items'[k].task = items[k].task
      BY <1>9, LinkPlanGraphDoes
    <2> QED
      BY <2>1, AccountOperator
  <1>10. ASSUME NEW to \in {"skipped", "blocked"}, NEW ids \in SUBSET Ids, ListSweep(to, ids)
         PROVE Account'
    BY <1>1, <1>10, ListSweepDoes
  <1>11. CASE ListMoves
    BY <1>1, <1>11, ListMovesDoes
  <1> QED
    BY <1>2, <1>3, <1>4, <1>5, <1>6, <1>7, <1>8, <1>9, <1>10, <1>11 DEF Operates

LEMMA AccountInvariant ==
    ASSUME QueueTyped, HeldOnce, Account, [Next]_vars
    PROVE  Account'
  <1>1. Frame
    BY NextFrames
  <1>2. CASE UNCHANGED vars
    <2>1. UNCHANGED <<tasks, pc, job, items>>
      BY <1>2 DEF vars
    <2> QED
      BY <1>1, <2>1, AccountOperator
  <1> QED
    BY <1>1, <1>2, RunnerAccounts, OperatorAccounts DEF Next, Operates, Begins

LEMMA InitHeld ==
    ASSUME Init
    PROVE  QueueTyped /\ HeldOnce /\ Account
  <1>1. /\ QueueTyped /\ DOMAIN items = {} /\ DOMAIN tasks = {}
        /\ \A r \in Runners : pc[r] = "idle"
    BY InitTyped DEF Init
  <1>2. \A r \in Runners, i \in Ids : ~ Holds(r, i)
    BY <1>1 DEF Holds, Holding
  <1> QED
    BY <1>1, <1>2 DEF HeldOnce, Account, DoneHasTask, OkIsDone, HeldIsFresh

(* Whatever sweeps, operators, deaths and rival runners do in between, an    *)
(* item is done only with a task of its own that ended done, and unless one  *)
(* of them interfered with the item such a task leaves it done for good      *)
(* (_run_autopilot_queue_batch, update_plan_item_status).                    *)
THEOREM QueueAccountsForDone == Spec => []DoneIsAccountedFor
  <1>1. Init => QueueTyped /\ HeldOnce /\ Account
    BY InitHeld
  <1>2. QueueTyped /\ HeldOnce /\ Account /\ [Next]_vars
          => QueueTyped' /\ HeldOnce' /\ Account'
    BY NextFrames, HeldOnceStays, AccountInvariant DEF Frame
  <1>3. QueueTyped /\ HeldOnce /\ Account => DoneIsAccountedFor
    BY AccountIsProperty
  <1> QED
    BY <1>1, <1>2, <1>3, PTL DEF Spec
-----------------------------------------------------------------------------
(* WHERE A HELD ITEM STANDS *)

CalmS(i) == Calm(i, {"rival", "sweep", "operator"})

(* An item in a runner's hands is where the runner left it.                  *)
Stage ==
    \A r \in Runners, i \in Ids : Holds(r, i) /\ CalmS(i) =>
      /\ pc[r] = "guard" => items[i].status = "created"
      /\ pc[r] \in {"mark_node", "run"} => items[i].status = "in_progress"
      /\ pc[r] = "settle" => items[i].status \in {"created", "in_progress"}
      /\ pc[r] = "settle_node" => items[i].status = Result(r)

LEMMA HeldIsRow ==
    ASSUME QueueTyped, NEW r \in Runners, NEW i \in Ids, Holds(r, i)
    PROVE  i \in DOMAIN items
  <1>1. JobOK(pc[r], job[r], DOMAIN items, tasks)
    BY DEF QueueTyped, Typed, JobsOK
  <1> QED
    BY <1>1 DEF JobOK, Holds

LEMMA ResultStays ==
    ASSUME QueueTyped, Grown, NEW r \in Runners, pc[r] \in {"settle", "settle_node"},
           job'[r].task = job[r].task
    PROVE  Result(r)' = Result(r)
  <1>1. JobOK(pc[r], job[r], DOMAIN items, tasks)
    BY DEF QueueTyped, Typed, JobsOK
  <1>2. job[r].task # 0 => job[r].task \in DOMAIN tasks
    BY <1>1 DEF JobOK
  <1>3. job[r].task # 0 => tasks'[job[r].task] = tasks[job[r].task]
    BY <1>2 DEF Grown
  <1> QED
    BY <1>3 DEF Result

LEMMA StageOfRunner ==
    ASSUME QueueTyped, Stage, HeldOnce, Frame, NEW r \in Runners, Others(r),
           \A k \in DOMAIN items : ~ Holds(r, k) => items'[k].status = items[k].status,
           \A i \in Ids : Holds(r, i)' /\ Holds(r, i) /\ CalmS(i)' =>
             /\ pc'[r] = "guard" => items'[i].status = "created"
             /\ pc'[r] \in {"mark_node", "run"} => items'[i].status = "in_progress"
             /\ pc'[r] = "settle" => items'[i].status \in {"created", "in_progress"}
             /\ pc'[r] = "settle_node" => items'[i].status = Result(r)'
    PROVE  Stage'
  <1> SUFFICES ASSUME NEW s \in Runners, NEW i \in Ids, Holds(s, i)', CalmS(i)'
               PROVE  /\ pc'[s] = "guard" => items'[i].status = "created"
                      /\ pc'[s] \in {"mark_node", "run"} => items'[i].status = "in_progress"
                      /\ pc'[s] = "settle" => items'[i].status \in {"created", "in_progress"}
                      /\ pc'[s] = "settle_node" => items'[i].status = Result(s)'
    BY DEF Stage
  <1>1. CalmS(i) /\ Grown
    BY DEF Frame, CalmS, Calm
  <1>2. CASE s = r /\ Holds(r, i)
    BY <1>2
  <1>3. CASE ~ Holds(s, i)
    <2>1. items[i].status = "created" /\ pc'[s] = "guard" /\ UNCHANGED items
      BY <1>3 DEF Frame, CalmS, Calm
    <2> QED
      BY <2>1
  <1>4. CASE s # r /\ Holds(s, i)
    <2>1. ~ Holds(r, i)
      BY <1>1, <1>4 DEF HeldOnce, CalmS, Calm
    <2>2. i \in DOMAIN items
      BY <1>4, HeldIsRow
    <2>3. items'[i].status = items[i].status /\ pc'[s] = pc[s] /\ job'[s] = job[s]
      BY <1>4, <2>1, <2>2 DEF Others
    <2>4. pc[s] = "settle_node" => Result(s)' = Result(s)
      BY <1>1, <2>3, ResultStays
    <2> QED
      BY <1>1, <1>4, <2>3, <2>4 DEF Stage
  <1> QED
    BY <1>2, <1>3, <1>4

(* Steps that leave the rows alone.                                          *)
LEMMA StageAside ==
    ASSUME QueueTyped, Stage, HeldOnce, Frame, NEW r \in Runners, Others(r), UNCHANGED items,
           pc'[r] \notin Holding \/ pc[r] \notin Holding
             \/ (pc[r] = "guard" /\ pc'[r] = "settle")
             \/ (pc[r] = "mark_node" /\ pc'[r] = "run")
             \/ (pc[r] = "run" /\ pc'[r] = "settle")
    PROVE  Stage'
  <1>1. ASSUME NEW i \in Ids, Holds(r, i)', Holds(r, i), CalmS(i)'
        PROVE  /\ pc'[r] = "guard" => items'[i].status = "created"
               /\ pc'[r] \in {"mark_node", "run"} => items'[i].status = "in_progress"
               /\ pc'[r] = "settle" => items'[i].status \in {"created", "in_progress"}
               /\ pc'[r] = "settle_node" => items'[i].status = Result(r)'
    <2>1. CalmS(i)
      BY <1>1 DEF Frame, CalmS, Calm
    <2> QED
      BY <1>1, <2>1 DEF Stage, Holds
  <1> QED
    BY <1>1, StageOfRunner

LEMMA StageOfOperator ==
    ASSUME QueueTyped, Stage, Frame, UNCHANGED <<pc, job>>,
           \A k \in DOMAIN items :
             \/ items'[k].status = items[k].status \/ ~ CalmS(k)'
             \/ \A s \in Runners : ~ Holds(s, k)
    PROVE  Stage'
  <1> SUFFICES ASSUME NEW s \in Runners, NEW i \in Ids, Holds(s, i)', CalmS(i)'
               PROVE  /\ pc'[s] = "guard" => items'[i].status = "created"
                      /\ pc'[s] \in {"mark_node", "run"} => items'[i].status = "in_progress"
                      /\ pc'[s] = "settle" => items'[i].status \in {"created", "in_progress"}
                      /\ pc'[s] = "settle_node" => items'[i].status = Result(s)'
    BY DEF Stage
  <1>1. CalmS(i) /\ Grown
    BY DEF Frame, CalmS, Calm
  <1>2. Holds(s, i) /\ i \in DOMAIN items
    BY HeldIsRow DEF Holds
  <1>3. items'[i].status = items[i].status
    BY <1>2
  <1>4. pc[s] = "settle_node" => Result(s)' = Result(s)
    BY <1>1, ResultStays
  <1> QED
    BY <1>1, <1>2, <1>3, <1>4 DEF Stage

LEMMA RunnerStages ==
    ASSUME QueueTyped, Stage, HeldOnce, Frame, NEW r \in Runners,
           Step(r) \/ Die(r) \/ Begins(r)
    PROVE  Stage'
  <1> USE DEF QueueTyped
  <1>1. ASSUME NEW kind \in Kinds, NEW tree \in Trees, Begin(r, kind, tree)
        PROVE Stage'
    <2>1. pc[r] \notin Holding /\ UNCHANGED items /\ Others(r)
      BY <1>1, BeginDoes DEF Begin, Holding
    <2> QED
      BY <2>1, StageAside
  <1>2. CASE Select(r)
    <2>1. pc[r] \notin Holding /\ UNCHANGED items /\ Others(r)
      BY <1>2, SelectDoes DEF Quiet, Holding
    <2> QED
      BY <2>1, StageAside
  <1>3. ASSUME NEW i \in Ids, SelectItem(r, i) PROVE Stage'
    <2>1. pc[r] \notin Holding /\ UNCHANGED items /\ Others(r)
      BY <1>3, SelectItemDoes DEF Quiet, Holding
    <2> QED
      BY <2>1, StageAside
  <1>4. CASE StopLoop(r)
    <2>1. pc[r] \notin Holding /\ UNCHANGED items /\ Others(r)
      BY <1>4, StopLoopDoes DEF Quiet, Holding
    <2> QED
      BY <2>1, StageAside
  <1>5. CASE CountRounds(r)
    <2>1. pc[r] \notin Holding /\ UNCHANGED items /\ Others(r)
      BY <1>5, CountRoundsDoes DEF Quiet, Holding
    <2> QED
      BY <2>1, StageAside
  <1>6. CASE Pick(r)
    <2>1. pc[r] \notin Holding /\ UNCHANGED items /\ Others(r)
      BY <1>6, PickDoes DEF Quiet, Holding
    <2> QED
      BY <2>1, StageAside
  <1>7. CASE Refuse(r)
    <2>1. pc[r] = "guard" /\ pc'[r] = "settle" /\ UNCHANGED items /\ Others(r)
      BY <1>7, RefuseDoes DEF Quiet
    <2> QED
      BY <2>1, StageAside
  <1>8. CASE MarkItem(r)
    <2>1. /\ Others(r) /\ pc'[r] = "mark_node"
          /\ items'[job[r].item].status = "in_progress"
          /\ \A k \in DOMAIN items : k # job[r].item => items'[k] = items[k]
          /\ pc[r] = "guard"
      BY <1>8, MarkItemDoes DEF Writes
    <2> QED
      BY <2>1, StageOfRunner DEF Holds, Holding
  <1>9. CASE MarkNode(r)
    <2>1. pc[r] = "mark_node" /\ pc'[r] = "run" /\ UNCHANGED items /\ Others(r)
      BY <1>9, MarkNodeDoes
    <2> QED
      BY <2>1, StageAside
  <1>10. ASSUME NEW ok \in BOOLEAN, RunTask(r, ok) PROVE Stage'
    <2>1. pc[r] = "run" /\ pc'[r] = "settle" /\ UNCHANGED items /\ Others(r)
      BY <1>10, RunTaskDoes
    <2> QED
      BY <2>1, StageAside
  <1>11. CASE SettleItem(r)
    <2>1. /\ Others(r) /\ pc[r] = "settle" /\ pc'[r] = "settle_node" /\ job' = job
          /\ items'[job[r].item].status = Result(r) /\ UNCHANGED tasks
          /\ \A k \in DOMAIN items : k # job[r].item => items'[k] = items[k]
      BY <1>11, SettleItemDoes DEF Writes
    <2>2. Result(r)' = Result(r)
      BY <2>1, ResultStays DEF Frame
    <2>3. \A i \in Ids : Holds(r, i) => i = job[r].item
      BY DEF Holds
    <2>4. \A k \in DOMAIN items : ~ Holds(r, k) => items'[k].status = items[k].status
      BY <2>1 DEF Holds, Holding
    <2> QED
      BY <2>1, <2>2, <2>3, <2>4, StageOfRunner
  <1>12. CASE SettleNode(r)
    <2>1. pc'[r] \notin Holding /\ UNCHANGED items /\ Others(r)
      BY <1>12, SettleNodeDoes DEF Holding
    <2> QED
      BY <2>1, StageAside
  <1>13. CASE CheckLetter(r)
    <2>1. pc[r] \notin Holding /\ UNCHANGED items /\ Others(r)
      BY <1>13, CheckLetterDoes DEF Quiet, Holding
    <2> QED
      BY <2>1, StageAside
  <1>14. CASE AddLetter(r)
    <2>1. pc[r] \notin Holding /\ UNCHANGED items /\ Others(r)
      BY <1>14, AddLetterDoes DEF Quiet, Holding
    <2> QED
      BY <2>1, StageAside
  <1>15. CASE Die(r)
    <2>1. pc'[r] \notin Holding /\ UNCHANGED items /\ Others(r)
      BY <1>15, DieDoes DEF Quiet, Holding
    <2> QED
      BY <2>1, StageAside
  <1> QED
    BY <1>1, <1>2, <1>3, <1>4, <1>5, <1>6, <1>7, <1>8, <1>9, <1>10, <1>11, <1>12, <1>13,
       <1>14, <1>15 DEF Step, Begins

LEMMA OperatorStages ==
    ASSUME QueueTyped, Stage, Frame,
           \/ \E p \in Plans : EditPlan(p)
           \/ \E s \in Syncers : CompareWithPlan(s) \/ RecordItem(s) \/ StopSync(s)
           \/ ListMoves
           \/ \E i \in Ids : Operates(i)
           \/ \E to \in {"skipped", "blocked"}, ids \in SUBSET Ids : ListSweep(to, ids)
    PROVE  Stage'
  <1> USE DEF QueueTyped
  <1>1. ASSUME UNCHANGED <<pc, job, items>> PROVE Stage'
    BY <1>1, StageOfOperator
  <1>2. ASSUME NEW p \in Plans, EditPlan(p) PROVE Stage'
    BY <1>1, <1>2, EditPlanDoes
  <1>3. ASSUME NEW s \in Syncers, CompareWithPlan(s) \/ StopSync(s) PROVE Stage'
    BY <1>1, <1>3, SyncLeavesTables
  <1>4. ASSUME NEW s \in Syncers, RecordItem(s) PROVE Stage'
    <2>1. UNCHANGED <<pc, job>> /\ \A k \in DOMAIN items : items'[k] = items[k]
      BY <1>4, RecordItemDoes
    <2> QED
      BY <2>1, StageOfOperator
  <1>5. ASSUME NEW i \in Ids, NEW line \in 1..MaxRows, RefreshRef(i, line) PROVE Stage'
    <2>1. UNCHANGED <<pc, job>> /\ \A k \in DOMAIN items : items'[k].status = items[k].status
      BY <1>5, RefreshesRow, RefreshRefDoes
    <2> QED
      BY <2>1, StageOfOperator
  <1>6. ASSUME NEW i \in Ids, SweepItem(i) PROVE Stage'
    <2>1. i \in DOMAIN items
      BY <1>6 DEF SweepItem, ListedOK
    <2>2. /\ UNCHANGED <<pc, job>> /\ upset' = upset \union {<<i, "sweep">>}
          /\ \A k \in DOMAIN items : k # i => items'[k] = items[k]
      BY <1>6, <2>1, SweepItemDoes DEF Writes
    <2>3. ~ CalmS(i)'
      BY <2>2 DEF CalmS, Calm
    <2> QED
      BY <2>2, <2>3, StageOfOperator
  <1>7. ASSUME NEW i \in Ids, Requeue(i) PROVE Stage'
    <2>1. /\ UNCHANGED <<pc, job>> /\ upset' = upset \union {<<i, "operator">>}
          /\ \A k \in DOMAIN items : k # i => items'[k] = items[k]
      BY <1>7, RequeueDoes DEF Writes
    <2>2. ~ CalmS(i)'
      BY <2>1 DEF CalmS, Calm
    <2> QED
      BY <2>1, <2>2, StageOfOperator
  <1>8. ASSUME NEW i \in Ids, Skip(i) PROVE Stage'
    <2>1. /\ UNCHANGED <<pc, job>>
          /\ \A k \in DOMAIN items : k # i => items'[k] = items[k]
          /\ (\A s \in Runners : ~ Holds(s, i)) \/ upset' = upset \union {<<i, "operator">>}
      BY <1>8, SkipDoes DEF Writes
    <2>2. (\A s \in Runners : ~ Holds(s, i)) \/ ~ CalmS(i)'
      BY <2>1 DEF CalmS, Calm
    <2> QED
      BY <2>1, <2>2, StageOfOperator
  <1>9. ASSUME NEW i \in Ids, LinkPlanGraph(i) PROVE Stage'
    <2>1. UNCHANGED <<pc, job>> /\ \A k \in DOMAIN items : items'[k].status = items[k].status
      BY <1>9, LinkPlanGraphDoes
    <2> QED
      BY <2>1, StageOfOperator
  <1>10. ASSUME NEW to \in {"skipped", "blocked"}, NEW ids \in SUBSET Ids, ListSweep(to, ids)
         PROVE Stage'
    BY <1>1, <1>10, ListSweepDoes
  <1>11. CASE ListMoves
    BY <1>1, <1>11, ListMovesDoes
  <1> QED
    BY <1>2, <1>3, <1>4, <1>5, <1>6, <1>7, <1>8, <1>9, <1>10, <1>11 DEF Operates

-----------------------------------------------------------------------------
(* WHAT A COMMAND HAS READ *)

(* A command that fixed its items at selection knows the links they had      *)
(* then; an operator was noted where one was made since.                     *)
Reader(r) == Fixed(r) /\ pc[r] \in Holding \union {"pick"}

Reads ==
    \A r \in Runners : Reader(r) =>
      \A k \in DOMAIN job[r].ids :
        LET i == job[r].ids[k]
        IN  /\ i \in job[r].links => items[i].linked
            /\ items[i].linked => i \in job[r].links \/ <<i, "operator">> \in upset

LEMMA ReadsStep ==
    ASSUME QueueTyped, Reads, Frame,
           \A i \in DOMAIN items :
             /\ items[i].linked => items'[i].linked
             /\ items'[i].linked =>
                  items[i].linked \/ <<i, "operator">> \in upset' \/ Read(i) = {},
           \A r \in Runners : Reader(r)' =>
             \/ /\ Reader(r) /\ job'[r].links = job[r].links
                /\ \A k \in DOMAIN job'[r].ids :
                     \E l \in DOMAIN job[r].ids : job'[r].ids[k] = job[r].ids[l]
             \/ UNCHANGED items /\ Fixed(r) /\ job'[r].links = LinkedOf(r, job'[r].ids)
    PROVE  Reads'
  <1> SUFFICES ASSUME NEW r \in Runners, Reader(r)', NEW k \in DOMAIN job'[r].ids
               PROVE  LET i == job'[r].ids[k]
                      IN  /\ i \in job'[r].links => items'[i].linked
                          /\ items'[i].linked =>
                               i \in job'[r].links \/ <<i, "operator">> \in upset'
    BY DEF Reads
  <1> DEFINE i == job'[r].ids[k]
  <1>1. CASE /\ Reader(r) /\ job'[r].links = job[r].links
             /\ \E l \in DOMAIN job[r].ids : i = job[r].ids[l]
    <2>1. PICK l \in DOMAIN job[r].ids : i = job[r].ids[l]
      BY <1>1
    <2>2. i \in DOMAIN items
      BY <2>1 DEF QueueTyped, Typed, JobsOK, JobOK
    <2>3. /\ i \in job[r].links => items[i].linked
          /\ items[i].linked => i \in job[r].links \/ <<i, "operator">> \in upset
      BY <1>1, <2>1 DEF Reads
    <2>4. Read(i) # {}
      BY <1>1, <2>1 DEF Read, Reader
    <2>5. upset \subseteq upset'
      BY DEF Frame
    <2> QED
      BY <1>1, <2>2, <2>3, <2>4, <2>5
  <1>2. CASE UNCHANGED items /\ Fixed(r) /\ job'[r].links = LinkedOf(r, job'[r].ids)
    <2>1. i \in DOMAIN items
      BY <1>2 DEF Frame, QueueTyped, Typed, JobsOK, JobOK
    <2>2. i \in LinkedOf(r, job'[r].ids) <=> items[i].linked
      BY <1>2, <2>1, LinksRead DEF QueueTyped, Typed
    <2> QED
      BY <1>2, <2>2
  <1> QED
    BY <1>1, <1>2

(* A runner's step.                                                          *)
LEMMA ReadsOfRunner ==
    ASSUME QueueTyped, Reads, Frame, NEW r \in Runners, Others(r),
           DOMAIN items' = DOMAIN items,
           \A i \in DOMAIN items : items'[i].linked = items[i].linked,
           Reader(r)' =>
             \/ /\ Reader(r) /\ job'[r].links = job[r].links
                /\ \A k \in DOMAIN job'[r].ids :
                     \E l \in DOMAIN job[r].ids : job'[r].ids[k] = job[r].ids[l]
             \/ UNCHANGED items /\ Fixed(r) /\ job'[r].links = LinkedOf(r, job'[r].ids)
    PROVE  Reads'
  <1>1. \A s \in Runners : s # r /\ Reader(s)' =>
          /\ Reader(s) /\ job'[s].links = job[s].links
          /\ \A k \in DOMAIN job'[s].ids :
               \E l \in DOMAIN job[s].ids : job'[s].ids[k] = job[s].ids[l]
    BY DEF Others, Reader, Fixed
  <1> QED
    BY <1>1, ReadsStep

(* An operator's step.                                                       *)
LEMMA ReadsOfOperator ==
    ASSUME QueueTyped, Reads, Frame, UNCHANGED <<pc, job>>,
           \A i \in DOMAIN items :
             /\ items[i].linked => items'[i].linked
             /\ items'[i].linked =>
                  items[i].linked \/ <<i, "operator">> \in upset' \/ Read(i) = {}
    PROVE  Reads'
  <1>1. \A s \in Runners : Reader(s)' =>
          /\ Reader(s) /\ job'[s].links = job[s].links
          /\ \A k \in DOMAIN job'[s].ids :
               \E l \in DOMAIN job[s].ids : job'[s].ids[k] = job[s].ids[l]
    BY DEF Reader, Fixed
  <1> QED
    BY <1>1, ReadsStep

LEMMA RunnerReads ==
    ASSUME QueueTyped, Reads, Frame, NEW r \in Runners,
           Step(r) \/ Die(r) \/ Begins(r)
    PROVE  Reads'
  <1> USE DEF QueueTyped
  <1>1. ASSUME Others(r), UNCHANGED items, pc'[r] \notin Holding \union {"pick"}
        PROVE  Reads'
    BY <1>1, ReadsOfRunner DEF Reader
  <1>2. ASSUME Others(r), job' = job, pc[r] \in Holding, DOMAIN items' = DOMAIN items,
               \A i \in DOMAIN items : items'[i].linked = items[i].linked
        PROVE  Reads'
    BY <1>2, ReadsOfRunner DEF Reader, Fixed
  <1>3. ASSUME NEW kind \in Kinds, NEW tree \in Trees, Begin(r, kind, tree)
        PROVE  Reads'
    BY <1>1, <1>3, BeginDoes DEF Quiet, Holding
  <1>4. CASE Select(r)
    <2>1. /\ UNCHANGED items /\ Others(r)
          /\ \/ pc'[r] \notin Holding \union {"pick"}
             \/ job'[r].kind = job[r].kind /\ job'[r].links = LinkedOf(r, job'[r].ids)
      BY <1>4, SelectDoes DEF Quiet, Holding
    <2>2. Reader(r)' => Fixed(r) /\ job'[r].links = LinkedOf(r, job'[r].ids)
      BY <2>1 DEF Reader, Fixed
    <2> QED
      BY <2>1, <2>2, ReadsOfRunner
  <1>5. ASSUME NEW i \in Ids, SelectItem(r, i) PROVE Reads'
    <2>1. UNCHANGED items /\ Others(r) /\ job'[r].links = LinkedOf(r, job'[r].ids)
      BY <1>5, SelectItemDoes DEF Quiet
    <2>2. Fixed(r)
      BY <1>5 DEF SelectItem, Fixed
    <2> QED
      BY <2>1, <2>2, ReadsOfRunner
  <1>6. CASE StopLoop(r)
    BY <1>1, <1>6, StopLoopDoes DEF Quiet, Holding
  <1>7. CASE CountRounds(r)
    <2>1. UNCHANGED items /\ Others(r) /\ job'[r].kind = "loop"
      BY <1>7, CountRoundsDoes DEF Quiet
    <2>2. ~ Reader(r)'
      BY <2>1 DEF Reader, Fixed
    <2> QED
      BY <2>1, <2>2, ReadsOfRunner
  <1>8. CASE Pick(r)
    <2>1. UNCHANGED items /\ Others(r) /\ pc[r] = "pick"
      BY <1>8, PickDoes DEF Quiet
    <2>2. \/ pc'[r] \notin Holding \union {"pick"}
          \/ /\ job'[r].kind = job[r].kind /\ job'[r].ids = job[r].ids
             /\ job'[r].links = job[r].links
      BY <1>8, PickDoes DEF Holding
    <2>3. CASE /\ job'[r].kind = job[r].kind /\ job'[r].ids = job[r].ids
               /\ job'[r].links = job[r].links
      BY <2>1, <2>3, ReadsOfRunner DEF Reader, Fixed
    <2> QED
      BY <1>1, <2>1, <2>2, <2>3
  <1>9. CASE Refuse(r)
    BY <1>2, <1>9, RefuseDoes DEF Quiet, Holding
  <1>10. CASE MarkItem(r)
    <2>1. /\ Others(r) /\ pc[r] \in Holding /\ job' = job /\ DOMAIN items' = DOMAIN items
          /\ \A i \in DOMAIN items : items'[i].linked = items[i].linked
      BY <1>10, MarkItemDoes DEF Writes, Holding
    <2> QED
      BY <1>2, <2>1
  <1>11. CASE MarkNode(r)
    BY <1>2, <1>11, MarkNodeDoes DEF Holding
  <1>12. ASSUME NEW ok \in BOOLEAN, RunTask(r, ok) PROVE Reads'
    <2>1. /\ UNCHANGED items /\ Others(r) /\ pc[r] \in Holding /\ job'[r].ids = job[r].ids
          /\ job'[r].kind = job[r].kind /\ job'[r].links = job[r].links
      BY <1>12, RunTaskDoes DEF Holding
    <2> QED
      BY <2>1, ReadsOfRunner DEF Reader, Fixed
  <1>13. CASE SettleItem(r)
    <2>1. /\ Others(r) /\ pc[r] \in Holding /\ job' = job /\ DOMAIN items' = DOMAIN items
          /\ \A i \in DOMAIN items : items'[i].linked = items[i].linked
      BY <1>13, SettleItemDoes DEF Writes, Holding
    <2> QED
      BY <1>2, <2>1
  <1>14. CASE SettleNode(r)
    <2>1. /\ UNCHANGED items /\ Others(r) /\ pc[r] \in Holding
          /\ pc'[r] \in {"pick", "idle", "letters"}
      BY <1>14, SettleNodeDoes DEF Holding
    <2>2. CASE pc'[r] = "pick" /\ job[r].kind # "loop"
      <3>1. /\ job'[r].kind = job[r].kind /\ job'[r].links = job[r].links
            /\ job[r].ids # << >> /\ job'[r].ids = Tail(job[r].ids)
        BY <1>14, <2>2, SettleNodeDoes
      <3>2. job[r].ids \in Seq(Ids)
        BY DEF Typed, TypeOK, Jobs
      <3>3. \A k \in DOMAIN job'[r].ids :
              \E l \in DOMAIN job[r].ids : job'[r].ids[k] = job[r].ids[l]
        BY <3>1, <3>2, TailCuts
      <3> QED
        BY <2>1, <3>1, <3>3, ReadsOfRunner DEF Reader, Fixed
    <2>3. CASE pc'[r] = "pick" /\ job[r].kind = "loop"
      <3>1. job'[r].kind = "loop"
        BY <1>14, <2>3, SettleNodeDoes
      <3>2. ~ Reader(r)'
        BY <3>1 DEF Reader, Fixed
      <3> QED
        BY <2>1, <3>2, ReadsOfRunner
    <2>4. CASE pc'[r] \in {"idle", "letters"}
      BY <1>1, <2>1, <2>4 DEF Holding
    <2> QED
      BY <2>1, <2>2, <2>3, <2>4
  <1>15. CASE CheckLetter(r)
    BY <1>1, <1>15, CheckLetterDoes DEF Quiet, Holding
  <1>16. CASE AddLetter(r)
    BY <1>1, <1>16, AddLetterDoes DEF Quiet, Holding
  <1>17. CASE Die(r)
    BY <1>1, <1>17, DieDoes DEF Quiet, Holding
  <1> QED
    BY <1>3, <1>4, <1>5, <1>6, <1>7, <1>8, <1>9, <1>10, <1>11, <1>12, <1>13, <1>14, <1>15,
       <1>16, <1>17 DEF Step, Begins

LEMMA OperatorReads ==
    ASSUME QueueTyped, Reads, Frame,
           \/ \E p \in Plans : EditPlan(p)
           \/ \E s \in Syncers : CompareWithPlan(s) \/ RecordItem(s) \/ StopSync(s)
           \/ ListMoves
           \/ \E i \in Ids : Operates(i)
           \/ \E to \in {"skipped", "blocked"}, ids \in SUBSET Ids : ListSweep(to, ids)
    PROVE  Reads'
  <1> USE DEF QueueTyped
  <1>1. ASSUME UNCHANGED <<pc, job>>,
               \A k \in DOMAIN items : items'[k].linked = items[k].linked
        PROVE  Reads'
    BY <1>1, ReadsOfOperator
  <1>2. ASSUME NEW p \in Plans, EditPlan(p) PROVE Reads'
    BY <1>1, <1>2, EditPlanDoes
  <1>3. ASSUME NEW s \in Syncers, CompareWithPlan(s) \/ StopSync(s) PROVE Reads'
    BY <1>1, <1>3, SyncLeavesTables
  <1>4. ASSUME NEW s \in Syncers, RecordItem(s) PROVE Reads'
    <2>1. UNCHANGED <<pc, job>> /\ \A k \in DOMAIN items : items'[k] = items[k]
      BY <1>4, RecordItemDoes
    <2> QED
      BY <1>1, <2>1
  <1>5. CASE ListMoves
    BY <1>1, <1>5, ListMovesDoes
  <1>6. ASSUME NEW i \in Ids, NEW line \in 1..MaxRows, RefreshRef(i, line) PROVE Reads'
    BY <1>1, <1>6, RefreshesRow, RefreshRefDoes
  <1>7. ASSUME NEW i \in Ids, SweepItem(i) PROVE Reads'
    <2>1. i \in DOMAIN items
      BY <1>7 DEF SweepItem, ListedOK
    <2>2. UNCHANGED <<pc, job>> /\ \A k \in DOMAIN items : items'[k].linked = items[k].linked
      BY <1>7, <2>1, SweepItemDoes DEF Writes
    <2> QED
      BY <1>1, <2>2
  <1>8. ASSUME NEW i \in Ids, Requeue(i) PROVE Reads'
    <2>1. UNCHANGED <<pc, job>> /\ \A k \in DOMAIN items : items'[k].linked = items[k].linked
      BY <1>8, RequeueDoes DEF Writes
    <2> QED
      BY <1>1, <2>1
  <1>9. ASSUME NEW i \in Ids, Skip(i) PROVE Reads'
    <2>1. UNCHANGED <<pc, job>> /\ \A k \in DOMAIN items : items'[k].linked = items[k].linked
      BY <1>9, SkipDoes DEF Writes
    <2> QED
      BY <1>1, <2>1
  <1>10. ASSUME NEW i \in Ids, LinkPlanGraph(i) PROVE Reads'
    <2>1. /\ UNCHANGED <<pc, job>> /\ items'[i].linked
          /\ \A k \in DOMAIN items : k # i => items'[k] = items[k]
          /\ Read(i) = {} \/ upset' = upset \union {<<i, "operator">>}
      BY <1>10, LinkPlanGraphDoes
    <2> QED
      BY <2>1, ReadsOfOperator
  <1>11. ASSUME NEW to \in {"skipped", "blocked"}, NEW ids \in SUBSET Ids, ListSweep(to, ids)
         PROVE Reads'
    BY <1>1, <1>11, ListSweepDoes
  <1> QED
    BY <1>2, <1>3, <1>4, <1>5, <1>6, <1>7, <1>8, <1>9, <1>10, <1>11 DEF Operates

(* What Pick passes on of the link.                                          *)
LEMMA PickKnows ==
    ASSUME QueueTyped, Reads, NEW r \in Runners, NEW i \in Ids, Pick(r), Holds(r, i)'
    PROVE  /\ job'[r].linked => items[i].linked
           /\ items[i].linked => job'[r].linked \/ <<i, "operator">> \in upset
  <1>1. /\ pc[r] = "pick" /\ pc'[r] \in Holding /\ job'[r].item = i
        /\ i = IF Fixed(r) THEN Head(job[r].ids) ELSE Queue[1]
        /\ job'[r].linked = IF Fixed(r) THEN i \in job[r].links ELSE items[i].linked
    BY PickDoes DEF QueueTyped, Holds, Holding
  <1>2. CASE Fixed(r)
    <2>1. job[r].ids \in Seq(Ids) /\ job[r].ids # << >>
      BY <1>1, <1>2 DEF QueueTyped, Typed, TypeOK, Jobs, JobsOK, JobOK, Fixed
    <2>2. 1 \in DOMAIN job[r].ids /\ i = job[r].ids[1]
      BY <1>1, <1>2, <2>1, EmptySeq, LenProperties
    <2> QED
      BY <1>1, <1>2, <2>2 DEF Reads, Reader
  <1> QED
    BY <1>1, <1>2

-----------------------------------------------------------------------------
(* What the invariants of nodes and letters rest on. *)
Grounds == QueueTyped /\ HeldOnce /\ Stage /\ Reads

LEMMA InitGrounds ==
    ASSUME Init
    PROVE  Grounds
  <1>1. \A r \in Runners, i \in Ids : ~ Holds(r, i)
    BY DEF Init, Holds, Holding
  <1>2. Reads
    BY DEF Init, Reads, Reader, Holding
  <1> QED
    BY <1>1, <1>2, InitHeld DEF Grounds, Stage

LEMMA GroundsStay ==
    ASSUME Grounds, [Next]_vars
    PROVE  Grounds' /\ Frame
  <1>1. Frame
    BY NextFrames DEF Grounds
  <1>2. Stage'
    <2>1. CASE UNCHANGED vars
      <3>1. UNCHANGED <<pc, job, items>>
        BY <2>1 DEF vars
      <3> QED
        BY <1>1, <3>1, StageOfOperator DEF Grounds
    <2> QED
      BY <1>1, <2>1, RunnerStages, OperatorStages DEF Grounds, Next, Operates, Begins
  <1>3. Reads'
    <2>1. CASE UNCHANGED vars
      <3>1. UNCHANGED <<pc, job, items>>
        BY <2>1 DEF vars
      <3> QED
        BY <1>1, <3>1, ReadsOfOperator DEF Grounds
    <2> QED
      BY <1>1, <2>1, RunnerReads, OperatorReads DEF Grounds, Next, Operates, Begins
  <1> QED
    BY <1>1, <1>2, <1>3, HeldOnceStays DEF Grounds, Frame
-----------------------------------------------------------------------------
(* NODES FOLLOW ITEMS *)

CalmN(i) == Calm(i, {"rival", "sweep", "death", "operator"})

NodeOK(status, node) ==
    CASE status = "created" -> node = "pending"
      [] status = "skipped" -> node \in {"pending", "blocked"}
      [] OTHER -> node = status

Carried(i) == \E r \in Runners : Holds(r, i) /\ pc[r] \in {"mark_node", "settle_node"}

NodesOK ==
    \A i \in Ids : i \in DOMAIN items /\ items[i].linked /\ CalmN(i) /\ ~ Carried(i) =>
      NodeOK(items[i].status, nodes[i])

(* The node of an item nothing is linked to has not been touched. *)
Untouched ==
    \A i \in Ids : (i \in DOMAIN items => ~ items[i].linked) => nodes[i] = "pending"

(* A runner knows the link of the item it has in hand. *)
LinkKnown ==
    \A r \in Runners, i \in Ids : Holds(r, i) =>
      /\ job[r].linked => items[i].linked
      /\ Calm(i, {"operator", "rival"}) /\ items[i].linked => job[r].linked

Linked == NodesOK /\ Untouched /\ LinkKnown

LEMMA LinkedIsProperty ==
    ASSUME Grounds, Linked
    PROVE  NodesFollowItems
  <1> SUFFICES ASSUME NEW i \in DOMAIN items, items[i].linked,
                      Calm(i, {"rival", "sweep", "death", "operator"}),
                      Held(i) \intersect {r \in Runners : pc[r] \in {"mark_node", "settle_node"}}
                        = {}
               PROVE  CASE items[i].status = "created" -> nodes[i] = "pending"
                        [] items[i].status = "skipped" -> nodes[i] \in {"pending", "blocked"}
                        [] OTHER -> nodes[i] = items[i].status
    BY DEF NodesFollowItems
  <1>1. i \in Ids
    BY ItemsAreIds DEF Grounds, QueueTyped, Typed
  <1>2. ~ Carried(i)
    BY <1>1, HeldIsHolding DEF Carried, Grounds, QueueTyped
  <1> QED
    BY <1>1, <1>2 DEF Linked, NodesOK, NodeOK, CalmN

LEMMA LinkedStep ==
    ASSUME Grounds, Linked, Frame, UNCHANGED nodes \/ UNCHANGED items,
           \A r \in Runners, i \in Ids : Holds(r, i)' /\ Holds(r, i) =>
             job'[r].linked = job[r].linked,
           \A i \in DOMAIN items : items[i].linked => items'[i].linked,
           \A i \in DOMAIN items : items'[i].linked =>
             \/ items[i].linked
             \/ ~ Calm(i, {"operator"})'
             \/ items[i].status = "created" /\ items'[i].status = "created"
                  /\ \A r \in Runners : ~ Holds(r, i),
           \A i \in DOMAIN items' \ DOMAIN items : ~ items'[i].linked,
           \A i \in Ids : nodes'[i] # nodes[i] => i \in DOMAIN items /\ items[i].linked,
           \A i \in Ids : i \in DOMAIN items /\ items[i].linked /\ CalmN(i)' /\ ~ Carried(i)' =>
             \/ /\ ~ Carried(i) /\ nodes'[i] = nodes[i]
                /\ items'[i].status = items[i].status
             \/ NodeOK(items'[i].status, nodes'[i])
    PROVE  Linked'
  <1>1. upset \subseteq upset' /\ DOMAIN items \subseteq DOMAIN items'
    BY DEF Frame, Grown
  <1>2. NodesOK'
    <2> SUFFICES ASSUME NEW i \in Ids, i \in DOMAIN items', items'[i].linked, CalmN(i)',
                        ~ Carried(i)'
                 PROVE  NodeOK(items'[i].status, nodes'[i])
      BY DEF NodesOK
    <2>1. CalmN(i) /\ i \in DOMAIN items
      BY <1>1 DEF CalmN, Calm
    <2>2. CASE items[i].linked
      BY <2>1, <2>2 DEF Linked, NodesOK
    <2>3. CASE ~ items[i].linked
      <3>1. items'[i].status = "created"
        BY <2>1, <2>3 DEF CalmN, Calm
      <3>2. nodes'[i] = "pending"
        BY <2>3 DEF Linked, Untouched
      <3> QED
        BY <3>1, <3>2 DEF NodeOK
    <2> QED
      BY <2>2, <2>3
  <1>3. Untouched'
    <2> SUFFICES ASSUME NEW i \in Ids, i \in DOMAIN items' => ~ items'[i].linked
                 PROVE  nodes'[i] = "pending"
      BY DEF Untouched
    <2>1. i \in DOMAIN items => ~ items[i].linked
      BY <1>1
    <2> QED
      BY <2>1 DEF Linked, Untouched
  <1>4. LinkKnown'
    <2> SUFFICES ASSUME NEW r \in Runners, NEW i \in Ids, Holds(r, i)'
                 PROVE  /\ job'[r].linked => items'[i].linked
                        /\ Calm(i, {"operator", "rival"})' /\ items'[i].linked
                             => job'[r].linked
      BY DEF LinkKnown
    <2>1. CASE Holds(r, i)
      <3>1. i \in DOMAIN items /\ job'[r].linked = job[r].linked
        BY <2>1, HeldIsRow DEF Grounds
      <3>2. /\ job[r].linked => items[i].linked
            /\ Calm(i, {"operator", "rival"}) /\ items[i].linked => job[r].linked
        BY <2>1 DEF Linked, LinkKnown
      <3>3. Calm(i, {"operator", "rival"})' => Calm(i, {"operator", "rival"})
        BY <1>1 DEF Calm
      <3>4. Calm(i, {"operator", "rival"})' /\ items'[i].linked => items[i].linked
        BY <2>1, <3>1 DEF Calm
      <3> QED
        BY <3>1, <3>2, <3>3, <3>4
    <2>2. CASE ~ Holds(r, i)
      <3>1. Pick(r) /\ items' = items
        BY <2>2 DEF Frame
      <3>2. /\ job'[r].linked => items[i].linked
            /\ items[i].linked => job'[r].linked \/ <<i, "operator">> \in upset
        BY <3>1, PickKnows DEF Grounds
      <3>3. Calm(i, {"operator", "rival"})' => <<i, "operator">> \notin upset
        BY <1>1 DEF Calm
      <3> QED
        BY <3>1, <3>2, <3>3
    <2> QED
      BY <2>1, <2>2
  <1> QED
    BY <1>2, <1>3, <1>4 DEF Linked

(* Steps of a runner that touch neither rows nor nodes. *)
LEMMA LinkedAside ==
    ASSUME Grounds, Linked, Frame, UNCHANGED <<items, nodes>>, NEW r \in Runners, Others(r),
           pc'[r] \in Holding /\ pc[r] \in Holding => job'[r].linked = job[r].linked,
           pc[r] \in {"mark_node", "settle_node"} => \A i \in Ids : job[r].item = i => ~ CalmN(i)'
    PROVE  Linked'
  <1>1. \A s \in Runners : s # r => pc'[s] = pc[s] /\ job'[s] = job[s]
    BY DEF Others
  <1>2. ASSUME NEW i \in Ids, CalmN(i)', Carried(i)
        PROVE  Carried(i)'
    <2>1. PICK s \in Runners : Holds(s, i) /\ pc[s] \in {"mark_node", "settle_node"}
      BY <1>2 DEF Carried
    <2>2. s # r
      BY <1>2, <2>1 DEF Holds
    <2> QED
      BY <1>1, <2>1, <2>2 DEF Carried, Holds
  <1>3. \A s \in Runners, i \in Ids : Holds(s, i)' /\ Holds(s, i) =>
          job'[s].linked = job[s].linked
    BY <1>1 DEF Holds
  <1> QED
    BY <1>2, <1>3, LinkedStep

(* A runner writes the node of its item.                                     *)
LEMMA NodeWritten ==
    ASSUME Grounds, Linked, Frame, UNCHANGED items, NEW r \in Runners, Others(r),
           NEW i \in Ids, Holds(r, i),
           pc'[r] \in Holding => job' = job,
           job[r].linked => NodeOK(items[i].status, nodes'[i]) \/ ~ CalmN(i)',
           ~ job[r].linked => nodes' = nodes,
           \A k \in Ids : k # i => nodes'[k] = nodes[k]
    PROVE  Linked'
  <1>1. i \in DOMAIN items
    BY HeldIsRow DEF Grounds
  <1>2. \A s \in Runners : s # r => pc'[s] = pc[s] /\ job'[s] = job[s]
    BY DEF Others
  <1>3. \A s \in Runners, k \in Ids : Holds(s, k)' /\ Holds(s, k) =>
          job'[s].linked = job[s].linked
    BY <1>2 DEF Holds
  <1>4. \A k \in Ids : nodes'[k] # nodes[k] => k \in DOMAIN items /\ items[k].linked
    BY <1>1 DEF Linked, LinkKnown
  <1>5. ASSUME NEW k \in Ids, k # i, Carried(k)
        PROVE  Carried(k)'
    <2>1. PICK s \in Runners : Holds(s, k) /\ pc[s] \in {"mark_node", "settle_node"}
      BY <1>5 DEF Carried
    <2>2. s # r
      BY <1>5, <2>1 DEF Holds
    <2> QED
      BY <1>2, <2>1, <2>2 DEF Carried, Holds
  <1>6. ASSUME items[i].linked, CalmN(i)'
        PROVE  NodeOK(items[i].status, nodes'[i])
    <2>1. Calm(i, {"operator", "rival"})
      BY <1>6 DEF Frame, CalmN, Calm
    <2>2. job[r].linked
      BY <1>6, <2>1 DEF Linked, LinkKnown
    <2> QED
      BY <1>6, <2>2
  <1>7. \A k \in Ids : k \in DOMAIN items /\ items[k].linked /\ CalmN(k)' /\ ~ Carried(k)' =>
             \/ /\ ~ Carried(k) /\ nodes'[k] = nodes[k]
                /\ items'[k].status = items[k].status
             \/ NodeOK(items'[k].status, nodes'[k])
    BY <1>5, <1>6
  <1> QED
    BY <1>3, <1>4, <1>7, LinkedStep

(* A runner writes the row of its item and is about to write the node.       *)
LEMMA RowWritten ==
    ASSUME Grounds, Linked, Frame, UNCHANGED nodes, NEW r \in Runners, Others(r),
           NEW i \in Ids, Holds(r, i), i \in DOMAIN items, job' = job,
           pc'[r] \in {"mark_node", "settle_node"}, pc[r] \notin {"mark_node", "settle_node"},
           DOMAIN items' = DOMAIN items, items'[i].linked = items[i].linked,
           \A k \in DOMAIN items : k # i => items'[k] = items[k]
    PROVE  Linked'
  <1>1. \A s \in Runners : s # r => pc'[s] = pc[s]
    BY DEF Others
  <1>2. Carried(i)'
    BY DEF Carried, Holds, Holding
  <1>3. ASSUME NEW k \in Ids, k # i, Carried(k)
        PROVE  Carried(k)'
    BY <1>1, <1>3 DEF Carried, Holds
  <1>4. \A k \in Ids : k \in DOMAIN items /\ items[k].linked /\ CalmN(k)' /\ ~ Carried(k)' =>
             \/ /\ ~ Carried(k) /\ nodes'[k] = nodes[k]
                /\ items'[k].status = items[k].status
             \/ NodeOK(items'[k].status, nodes'[k])
    BY <1>2, <1>3
  <1>5. /\ \A k \in DOMAIN items : items[k].linked => items'[k].linked
        /\ \A k \in DOMAIN items : items'[k].linked => items[k].linked
    OBVIOUS
  <1> QED
    BY <1>4, <1>5, LinkedStep

(* An operator's step. *)
LEMMA LinkedOperator ==
    ASSUME Grounds, Linked, Frame, UNCHANGED <<nodes, pc, job>>,
           \A i \in DOMAIN items :
             /\ items[i].linked => items'[i].linked
             /\ items'[i].linked =>
                  \/ items[i].linked
                  \/ ~ Calm(i, {"operator"})'
                  \/ items[i].status = "created" /\ items'[i].status = "created"
                       /\ \A r \in Runners : ~ Holds(r, i)
             /\ \/ items'[i].status = items[i].status \/ ~ CalmN(i)'
                \/ items[i].status \in {"created", "blocked"} /\ items'[i].status = "skipped",
           \A i \in DOMAIN items' \ DOMAIN items : ~ items'[i].linked
    PROVE  Linked'
  <1>1. \A i \in Ids : Carried(i)' <=> Carried(i)
    BY DEF Carried, Holds
  <1>2. ASSUME NEW i \in Ids, i \in DOMAIN items, items[i].linked, CalmN(i)', ~ Carried(i)'
        PROVE  \/ /\ ~ Carried(i) /\ nodes'[i] = nodes[i]
                  /\ items'[i].status = items[i].status
               \/ NodeOK(items'[i].status, nodes'[i])
    <2>1. CASE items'[i].status = items[i].status
      BY <1>1, <1>2, <2>1
    <2>2. CASE items[i].status \in {"created", "blocked"} /\ items'[i].status = "skipped"
      <3>1. CalmN(i)
        BY <1>2 DEF Frame, CalmN, Calm
      <3>2. NodeOK(items[i].status, nodes[i])
        BY <1>1, <1>2, <3>1 DEF Linked, NodesOK
      <3> QED
        BY <2>2, <3>2 DEF NodeOK
    <2> QED
      BY <1>2, <2>1, <2>2
  <1>3. \A r \in Runners, i \in Ids : Holds(r, i)' /\ Holds(r, i) =>
          job'[r].linked = job[r].linked
    OBVIOUS
  <1> QED
    BY <1>2, <1>3, LinkedStep

LEMMA RunnerLinks ==
    ASSUME Grounds, Linked, Frame, NEW r \in Runners,
           Step(r) \/ Die(r) \/ Begins(r)
    PROVE  Linked'
  <1> USE DEF QueueTyped, Grounds
  <1>1. ASSUME NEW kind \in Kinds, NEW tree \in Trees, Begin(r, kind, tree)
        PROVE Linked'
    <2>1. pc[r] = "idle" /\ UNCHANGED <<items, nodes>> /\ Others(r)
      BY <1>1, BeginDoes DEF Begin
    <2> QED
      BY <2>1, LinkedAside DEF Holding
  <1>2. CASE Select(r)
    <2>1. pc[r] = "select" /\ UNCHANGED <<items, nodes>> /\ Others(r)
      BY <1>2, SelectDoes DEF Quiet
    <2> QED
      BY <2>1, LinkedAside DEF Holding
  <1>3. ASSUME NEW i \in Ids, SelectItem(r, i) PROVE Linked'
    <2>1. pc[r] = "select" /\ UNCHANGED <<items, nodes>> /\ Others(r)
      BY <1>3, SelectItemDoes DEF Quiet
    <2> QED
      BY <2>1, LinkedAside DEF Holding
  <1>4. CASE StopLoop(r)
    <2>1. pc[r] = "select" /\ UNCHANGED <<items, nodes>> /\ Others(r)
      BY <1>4, StopLoopDoes DEF Quiet
    <2> QED
      BY <2>1, LinkedAside DEF Holding
  <1>5. CASE CountRounds(r)
    <2>1. pc[r] = "count" /\ UNCHANGED <<items, nodes>> /\ Others(r)
      BY <1>5, CountRoundsDoes DEF Quiet
    <2> QED
      BY <2>1, LinkedAside DEF Holding
  <1>6. CASE Pick(r)
    <2>1. pc[r] = "pick" /\ UNCHANGED <<items, nodes>> /\ Others(r)
      BY <1>6, PickDoes DEF Quiet
    <2> QED
      BY <2>1, LinkedAside DEF Holding
  <1>7. CASE Refuse(r)
    <2>1. pc[r] = "guard" /\ UNCHANGED <<items, nodes, job>> /\ Others(r)
      BY <1>7, RefuseDoes DEF Quiet
    <2> QED
      BY <2>1, LinkedAside
  <1>8. CASE MarkItem(r)
    <2>1. /\ Others(r) /\ pc[r] = "guard" /\ pc'[r] = "mark_node" /\ job' = job
          /\ UNCHANGED nodes /\ job[r].item \in DOMAIN items /\ job[r].item \in Ids
          /\ DOMAIN items' = DOMAIN items
          /\ items'[job[r].item].linked = items[job[r].item].linked
          /\ \A k \in DOMAIN items : k # job[r].item => items'[k] = items[k]
      BY <1>8, MarkItemDoes, ItemsAreIds DEF Writes, Typed
    <2>2. PICK i \in Ids : i = job[r].item
      BY <2>1
    <2>3. Holds(r, i)
      BY <2>1, <2>2 DEF Holds, Holding
    <2> QED
      BY <2>1, <2>2, <2>3, RowWritten
  <1>9. CASE MarkNode(r)
    <2>1. /\ Others(r) /\ pc[r] = "mark_node" /\ pc'[r] = "run" /\ job' = job
          /\ UNCHANGED items /\ job[r].item \in Ids
          /\ job[r].linked => nodes'[job[r].item] = "in_progress"
          /\ ~ job[r].linked => nodes' = nodes
          /\ \A k \in Ids : k # job[r].item => nodes'[k] = nodes[k]
      BY <1>9, MarkNodeDoes, TreeOfJob DEF Holding
    <2>2. PICK i \in Ids : i = job[r].item
      BY <2>1
    <2>3. Holds(r, i)
      BY <2>1, <2>2 DEF Holds, Holding
    <2>4. CalmN(i)' => items[i].status = "in_progress"
      BY <2>1, <2>3 DEF Stage, Frame, CalmN, CalmS, Calm
    <2>5. job[r].linked => NodeOK(items[i].status, nodes'[i]) \/ ~ CalmN(i)'
      BY <2>1, <2>2, <2>4 DEF NodeOK
    <2> QED
      BY <2>1, <2>2, <2>3, <2>5, NodeWritten
  <1>10. ASSUME NEW ok \in BOOLEAN, RunTask(r, ok) PROVE Linked'
    <2>1. /\ pc[r] = "run" /\ UNCHANGED <<items, nodes>> /\ Others(r)
          /\ job'[r].linked = job[r].linked
      BY <1>10, RunTaskDoes
    <2> QED
      BY <2>1, LinkedAside
  <1>11. CASE SettleItem(r)
    <2>1. /\ Others(r) /\ pc[r] = "settle" /\ pc'[r] = "settle_node" /\ job' = job
          /\ UNCHANGED nodes /\ job[r].item \in DOMAIN items /\ job[r].item \in Ids
          /\ DOMAIN items' = DOMAIN items
          /\ items'[job[r].item].linked = items[job[r].item].linked
          /\ \A k \in DOMAIN items : k # job[r].item => items'[k] = items[k]
      BY <1>11, SettleItemDoes, ItemsAreIds DEF Writes, Typed
    <2>2. PICK i \in Ids : i = job[r].item
      BY <2>1
    <2>3. Holds(r, i)
      BY <2>1, <2>2 DEF Holds, Holding
    <2> QED
      BY <2>1, <2>2, <2>3, RowWritten
  <1>12. CASE SettleNode(r)
    <2>1. /\ Others(r) /\ pc[r] = "settle_node" /\ pc'[r] \notin Holding
          /\ UNCHANGED items /\ job[r].item \in Ids
          /\ job[r].linked => nodes'[job[r].item] = Result(r)
          /\ ~ job[r].linked => nodes' = nodes
          /\ \A k \in Ids : k # job[r].item => nodes'[k] = nodes[k]
      BY <1>12, SettleNodeDoes, TreeOfJob DEF Holding
    <2>2. PICK i \in Ids : i = job[r].item
      BY <2>1
    <2>3. Holds(r, i)
      BY <2>1, <2>2 DEF Holds, Holding
    <2>4. CalmN(i)' => items[i].status = Result(r)
      BY <2>1, <2>3 DEF Stage, Frame, CalmN, CalmS, Calm
    <2>5. Result(r) \in {"done", "blocked"}
      BY <2>1, ResultIs
    <2>6. job[r].linked => NodeOK(items[i].status, nodes'[i]) \/ ~ CalmN(i)'
      BY <2>1, <2>2, <2>4, <2>5 DEF NodeOK
    <2> QED
      BY <2>1, <2>2, <2>3, <2>6, NodeWritten
  <1>13. CASE CheckLetter(r)
    <2>1. pc[r] = "letters" /\ UNCHANGED <<items, nodes>> /\ Others(r)
      BY <1>13, CheckLetterDoes DEF Quiet
    <2> QED
      BY <2>1, LinkedAside DEF Holding
  <1>14. CASE AddLetter(r)
    <2>1. pc[r] = "letter" /\ UNCHANGED <<items, nodes>> /\ Others(r)
      BY <1>14, AddLetterDoes DEF Quiet
    <2> QED
      BY <2>1, LinkedAside DEF Holding
  <1>15. CASE Die(r)
    <2>1. /\ UNCHANGED <<items, nodes>> /\ Others(r) /\ pc'[r] \notin Holding
          /\ pc[r] \in Holding => <<job[r].item, "death">> \in upset'
      BY <1>15, DieDoes DEF Quiet, Holding
    <2>2. pc[r] \in {"mark_node", "settle_node"}
            => \A i \in Ids : job[r].item = i => ~ CalmN(i)'
      BY <2>1 DEF Holding, CalmN, Calm
    <2> QED
      BY <2>1, <2>2, LinkedAside
  <1> QED
    BY <1>1, <1>2, <1>3, <1>4, <1>5, <1>6, <1>7, <1>8, <1>9, <1>10, <1>11, <1>12, <1>13,
       <1>14, <1>15 DEF Step, Begins

LEMMA OperatorLinks ==
    ASSUME Grounds, Linked, Frame,
           \/ \E p \in Plans : EditPlan(p)
           \/ \E s \in Syncers : CompareWithPlan(s) \/ RecordItem(s) \/ StopSync(s)
           \/ ListMoves
           \/ \E i \in Ids : Operates(i)
           \/ \E to \in {"skipped", "blocked"}, ids \in SUBSET Ids : ListSweep(to, ids)
    PROVE  Linked'
  <1> USE DEF QueueTyped, Grounds
  <1>1. ASSUME UNCHANGED <<nodes, pc, job, items>> PROVE Linked'
    BY <1>1, LinkedOperator
  <1>2. ASSUME NEW p \in Plans, EditPlan(p) PROVE Linked'
    BY <1>1, <1>2, EditPlanDoes
  <1>3. ASSUME NEW s \in Syncers, CompareWithPlan(s) \/ StopSync(s) PROVE Linked'
    BY <1>1, <1>3, SyncLeavesTables
  <1>4. ASSUME NEW s \in Syncers, RecordItem(s) PROVE Linked'
    <2>1. PICK n \in Ids :
            /\ n \notin DOMAIN items /\ DOMAIN items' = DOMAIN items \union {n}
            /\ \A k \in DOMAIN items : items'[k] = items[k]
            /\ items'[n].linked = FALSE
      BY <1>4, RecordItemDoes
    <2>2. UNCHANGED <<nodes, pc, job>>
      BY <1>4, RecordItemDoes
    <2> QED
      BY <2>1, <2>2, LinkedOperator
  <1>5. ASSUME NEW i \in Ids, NEW line \in 1..MaxRows, RefreshRef(i, line) PROVE Linked'
    <2>1. /\ UNCHANGED <<nodes, pc, job>> /\ DOMAIN items' = DOMAIN items
          /\ \A k \in DOMAIN items :
               items'[k].status = items[k].status /\ items'[k].linked = items[k].linked
      BY <1>5, RefreshesRow, RefreshRefDoes
    <2> QED
      BY <2>1, LinkedOperator
  <1>6. ASSUME NEW i \in Ids, SweepItem(i) PROVE Linked'
    <2>1. i \in DOMAIN items
      BY <1>6 DEF SweepItem, ListedOK
    <2>2. /\ UNCHANGED <<nodes, pc, job>> /\ upset' = upset \union {<<i, "sweep">>}
          /\ DOMAIN items' = DOMAIN items /\ items'[i].linked = items[i].linked
          /\ \A k \in DOMAIN items : k # i => items'[k] = items[k]
      BY <1>6, <2>1, SweepItemDoes DEF Writes
    <2>3. ~ CalmN(i)'
      BY <2>2 DEF CalmN, Calm
    <2> QED
      BY <2>2, <2>3, LinkedOperator
  <1>7. ASSUME NEW i \in Ids, Requeue(i) PROVE Linked'
    <2>1. /\ UNCHANGED <<nodes, pc, job>> /\ upset' = upset \union {<<i, "operator">>}
          /\ DOMAIN items' = DOMAIN items /\ items'[i].linked = items[i].linked
          /\ \A k \in DOMAIN items : k # i => items'[k] = items[k]
      BY <1>7, RequeueDoes DEF Writes
    <2>2. ~ CalmN(i)'
      BY <2>1 DEF CalmN, Calm
    <2> QED
      BY <2>1, <2>2, LinkedOperator
  <1>8. ASSUME NEW i \in Ids, Skip(i) PROVE Linked'
    <2>1. /\ UNCHANGED <<nodes, pc, job>>
          /\ DOMAIN items' = DOMAIN items /\ items'[i].linked = items[i].linked
          /\ items[i].status \in {"created", "blocked"} /\ items'[i].status = "skipped"
          /\ \A k \in DOMAIN items : k # i => items'[k] = items[k]
      BY <1>8, SkipDoes DEF Writes
    <2> QED
      BY <2>1, LinkedOperator
  <1>9. ASSUME NEW i \in Ids, LinkPlanGraph(i) PROVE Linked'
    <2>1. /\ UNCHANGED <<nodes, pc, job>> /\ DOMAIN items' = DOMAIN items
          /\ items'[i].linked /\ \A k \in DOMAIN items : items'[k].status = items[k].status
          /\ \A k \in DOMAIN items : k # i => items'[k] = items[k]
          /\ \/ items[i].status = "created" /\ \A s \in Runners : ~ Holds(s, i)
             \/ upset' = upset \union {<<i, "operator">>}
      BY <1>9, LinkPlanGraphDoes
    <2>2. \/ items[i].status = "created" /\ \A s \in Runners : ~ Holds(s, i)
          \/ ~ Calm(i, {"operator"})'
      BY <2>1 DEF Calm
    <2> QED
      BY <2>1, <2>2, LinkedOperator
  <1>10. ASSUME NEW to \in {"skipped", "blocked"}, NEW ids \in SUBSET Ids, ListSweep(to, ids)
         PROVE Linked'
    BY <1>1, <1>10, ListSweepDoes
  <1>11. CASE ListMoves
    BY <1>1, <1>11, ListMovesDoes
  <1> QED
    BY <1>2, <1>3, <1>4, <1>5, <1>6, <1>7, <1>8, <1>9, <1>10, <1>11 DEF Operates

(* The root node of a linked item follows the item through every run, and    *)
(* through skips, unless a rival, a sweep, an operator or a death came in    *)
(* between (_finish_plan_graph_node_for_queue_result).                       *)
THEOREM QueueNodesFollow == Spec => []NodesFollowItems
  <1>1. Init => Grounds /\ Linked
    <2> SUFFICES ASSUME Init PROVE Grounds /\ Linked
      OBVIOUS
    <2>1. /\ Grounds /\ \A r \in Runners, i \in Ids : ~ Holds(r, i)
          /\ \A i \in Ids : nodes[i] = "pending"
      BY InitGrounds DEF Init, Holds, Holding
    <2>2. \A i \in DOMAIN items : items[i].status = "created" /\ ~ items[i].linked
      BY InitTyped
    <2> QED
      BY <2>1, <2>2 DEF Linked, NodesOK, Untouched, LinkKnown
  <1>2. Grounds /\ Linked /\ [Next]_vars => Grounds' /\ Linked'
    <2> SUFFICES ASSUME Grounds, Linked, [Next]_vars PROVE Grounds' /\ Linked'
      OBVIOUS
    <2>1. Grounds' /\ Frame
      BY GroundsStay
    <2>2. CASE UNCHANGED vars
      <3>1. UNCHANGED <<nodes, pc, job, items>>
        BY <2>2 DEF vars
      <3> QED
        BY <2>1, <3>1, LinkedOperator
    <2> QED
      BY <2>1, <2>2, RunnerLinks, OperatorLinks DEF Next, Operates, Begins
  <1>3. Grounds /\ Linked => NodesFollowItems
    BY LinkedIsProperty
  <1> QED
    BY <1>1, <1>2, <1>3, PTL DEF Spec
-----------------------------------------------------------------------------
(* DEAD LETTERS *)

Dead(i) == items[i].status \in {"blocked", "skipped"}

LettersOK ==
    \A i \in Ids : letters[i] > 0 =>
      /\ i \in DOMAIN items
      /\ letters[i] = 1 \/ ~ Calm(i, {"rival"})
      /\ Dead(i) \/ ~ CalmS(i)

(* A loop that is about to write a letter for an item has found none.        *)
WritersOK ==
    \A r \in Runners, i \in Ids : pc[r] = "letter" /\ Head(job[r].ids) = i =>
      /\ letters[i] = 0 \/ ~ Calm(i, {"rival"})
      /\ Dead(i) \/ ~ CalmS(i)

Lettered == LettersOK /\ WritersOK

LEMMA LetteredIsProperty ==
    ASSUME Grounds, Lettered
    PROVE  DeadLettersAreDead
  <1>1. DOMAIN items \subseteq Ids
    BY ItemsAreIds DEF Grounds, QueueTyped, Typed
  <1> QED
    BY <1>1 DEF Lettered, LettersOK, DeadLettersAreDead, Dead, CalmS, Calm

(* Who is about to write a letter names a row. *)
LEMMA WriterNamesRow ==
    ASSUME Grounds, NEW r \in Runners, pc[r] = "letter"
    PROVE  Head(job[r].ids) \in DOMAIN items /\ Head(job[r].ids) \in Ids
  <1>1. JobOK(pc[r], job[r], DOMAIN items, tasks) /\ job[r] \in Jobs /\ TypeOK
    BY DEF Grounds, QueueTyped, Typed, JobsOK, TypeOK
  <1>2. job[r].ids \in Seq(Ids) /\ job[r].ids # << >>
    BY <1>1 DEF Jobs, JobOK
  <1>3. 1 \in DOMAIN job[r].ids /\ Head(job[r].ids) = job[r].ids[1]
    BY <1>2, EmptySeq, LenProperties
  <1>4. Head(job[r].ids) \in DOMAIN items
    BY <1>1, <1>3 DEF JobOK
  <1> QED
    BY <1>1, <1>4, ItemsAreIds

(* A step that writes no letter and leaves dead items dead.                  *)
LEMMA LetteredStep ==
    ASSUME Grounds, Lettered, Frame, UNCHANGED letters,
           \A i \in DOMAIN items : Dead(i) => items'[i].status \in {"blocked", "skipped"}
                                              \/ ~ CalmS(i)',
           \A r \in Runners : pc'[r] = "letter" =>
             \/ pc[r] = "letter" /\ job'[r] = job[r]
             \/ /\ Head(job'[r].ids) \in DOMAIN items /\ UNCHANGED items
                /\ letters[Head(job'[r].ids)] = 0 /\ Dead(Head(job'[r].ids))
    PROVE  Lettered'
  <1>1. upset \subseteq upset' /\ DOMAIN items \subseteq DOMAIN items'
    BY DEF Frame, Grown
  <1>2. \A i \in Ids : /\ ~ CalmS(i) => ~ CalmS(i)'
                       /\ ~ Calm(i, {"rival"}) => ~ Calm(i, {"rival"})'
    BY <1>1 DEF CalmS, Calm
  <1>3. ASSUME NEW i \in Ids, i \in DOMAIN items, Dead(i) \/ ~ CalmS(i)
        PROVE  Dead(i)' \/ ~ CalmS(i)'
    BY <1>2, <1>3 DEF Dead
  <1>4. LettersOK'
    <2> SUFFICES ASSUME NEW i \in Ids, letters'[i] > 0
                 PROVE  /\ i \in DOMAIN items'
                        /\ letters'[i] = 1 \/ ~ Calm(i, {"rival"})'
                        /\ Dead(i)' \/ ~ CalmS(i)'
      BY DEF LettersOK
    <2>1. i \in DOMAIN items
      BY DEF Lettered, LettersOK
    <2>2. i \in DOMAIN items /\ (Dead(i) \/ ~ CalmS(i))
      BY DEF Lettered, LettersOK
    <2>3. letters[i] = 1 \/ ~ Calm(i, {"rival"})
      BY DEF Lettered, LettersOK
    <2> QED
      BY <1>1, <1>2, <1>3, <2>2, <2>3
  <1>5. WritersOK'
    <2> SUFFICES ASSUME NEW r \in Runners, NEW i \in Ids, pc'[r] = "letter",
                        Head(job'[r].ids) = i
                 PROVE  /\ letters'[i] = 0 \/ ~ Calm(i, {"rival"})'
                        /\ Dead(i)' \/ ~ CalmS(i)'
      BY DEF WritersOK
    <2>1. CASE pc[r] = "letter" /\ job'[r] = job[r]
      <3>1. i \in DOMAIN items
        BY <2>1, WriterNamesRow
      <3>2. letters[i] = 0 \/ ~ Calm(i, {"rival"})
        BY <2>1 DEF Lettered, WritersOK
      <3>3. Dead(i) \/ ~ CalmS(i)
        BY <2>1 DEF Lettered, WritersOK
      <3> QED
        BY <1>2, <1>3, <3>1, <3>2, <3>3
    <2>2. CASE /\ i \in DOMAIN items /\ UNCHANGED items
               /\ letters[i] = 0 /\ Dead(i)
      BY <2>2 DEF Dead
    <2> QED
      BY <2>1, <2>2
  <1> QED
    BY <1>4, <1>5 DEF Lettered

LEMMA LetteredAside ==
    ASSUME Grounds, Lettered, Frame, UNCHANGED <<letters, items>>, NEW r \in Runners,
           Others(r), pc'[r] # "letter"
    PROVE  Lettered'
  <1>1. \A s \in Runners : pc'[s] = "letter" => pc[s] = "letter" /\ job'[s] = job[s]
    BY DEF Others
  <1>2. \A i \in DOMAIN items : Dead(i) => items'[i].status \in {"blocked", "skipped"}
                                           \/ ~ CalmS(i)'
    BY DEF Dead
  <1> QED
    BY <1>1, <1>2, LetteredStep

(* A runner writes the row of an item that is not dead.                      *)
LEMMA LetteredWrite ==
    ASSUME Grounds, Lettered, Frame, UNCHANGED letters, NEW r \in Runners, Others(r),
           pc'[r] # "letter", NEW i \in Ids, Holds(r, i), pc[r] \in {"guard", "settle"},
           \A k \in DOMAIN items : k # i => items'[k] = items[k]
    PROVE  Lettered'
  <1>1. \A s \in Runners : pc'[s] = "letter" => pc[s] = "letter" /\ job'[s] = job[s]
    BY DEF Others
  <1>2. Dead(i) => ~ CalmS(i)'
    <2>1. CalmS(i)' => CalmS(i)
      BY DEF Frame, CalmS, Calm
    <2>2. CalmS(i) => items[i].status \in {"created", "in_progress"}
      BY DEF Grounds, Stage
    <2> QED
      BY <2>1, <2>2 DEF Dead
  <1>3. \A k \in DOMAIN items : Dead(k) => items'[k].status \in {"blocked", "skipped"}
                                           \/ ~ CalmS(k)'
    BY <1>2 DEF Dead
  <1> QED
    BY <1>1, <1>3, LetteredStep

LEMMA LetteredOperator ==
    ASSUME Grounds, Lettered, Frame, UNCHANGED <<letters, pc, job>>,
           \A i \in DOMAIN items :
             \/ items'[i].status = items[i].status \/ ~ CalmS(i)'
             \/ items'[i].status = "skipped"
    PROVE  Lettered'
  <1>1. \A i \in DOMAIN items : Dead(i) => items'[i].status \in {"blocked", "skipped"}
                                           \/ ~ CalmS(i)'
    BY DEF Dead
  <1> QED
    BY <1>1, LetteredStep

LEMMA AddLetterLetters ==
    ASSUME Grounds, Lettered, Frame, NEW r \in Runners, AddLetter(r)
    PROVE  Lettered'
  <1>1. /\ UNCHANGED items /\ Others(r) /\ pc[r] = "letter" /\ pc'[r] = "letters"
    BY AddLetterDoes DEF Grounds, QueueTyped, Quiet
  <1>2. PICK i \in DOMAIN items :
           /\ i = Head(job[r].ids) /\ letters'[i] = letters[i] + 1
           /\ \A k \in Ids : k # i => letters'[k] = letters[k]
           /\ \/ /\ UNCHANGED upset
                 /\ \A s \in Runners : s # r /\ pc[s] = "letter" => Head(job[s].ids) # i
              \/ upset' = upset \union {<<i, "rival">>}
    BY AddLetterDoes DEF Grounds, QueueTyped
  <1>3. i \in Ids
    BY <1>1, <1>2, WriterNamesRow
  <1>4. letters[i] = 0 \/ ~ Calm(i, {"rival"})
    BY <1>1, <1>2, <1>3 DEF Lettered, WritersOK
  <1>5. Dead(i) \/ ~ CalmS(i)
    BY <1>1, <1>2, <1>3 DEF Lettered, WritersOK
  <1>6. \A k \in Ids : /\ ~ CalmS(k) => ~ CalmS(k)'
                       /\ ~ Calm(k, {"rival"}) => ~ Calm(k, {"rival"})'
                       /\ Dead(k)' <=> Dead(k)
    BY <1>1 DEF Frame, CalmS, Calm, Dead
  <1>7. LettersOK'
    <2> SUFFICES ASSUME NEW k \in Ids, letters'[k] > 0
                 PROVE  /\ k \in DOMAIN items'
                        /\ letters'[k] = 1 \/ ~ Calm(k, {"rival"})'
                        /\ Dead(k)' \/ ~ CalmS(k)'
      BY DEF LettersOK
    <2>1. CASE k = i
      <3>1. letters'[i] = 1 \/ ~ Calm(i, {"rival"})
        BY <1>2, <1>4
      <3> QED
        BY <1>1, <1>5, <1>6, <2>1, <3>1
    <2>2. CASE k # i
      <3>1. letters[k] > 0 /\ letters'[k] = letters[k]
        BY <1>2, <2>2
      <3>2. /\ k \in DOMAIN items
            /\ letters[k] = 1 \/ ~ Calm(k, {"rival"})
            /\ Dead(k) \/ ~ CalmS(k)
        BY <3>1 DEF Lettered, LettersOK
      <3> QED
        BY <1>1, <1>6, <3>1, <3>2
    <2> QED
      BY <2>1, <2>2
  <1>8. WritersOK'
    <2> SUFFICES ASSUME NEW s \in Runners, NEW k \in Ids, pc'[s] = "letter",
                        Head(job'[s].ids) = k
                 PROVE  /\ letters'[k] = 0 \/ ~ Calm(k, {"rival"})'
                        /\ Dead(k)' \/ ~ CalmS(k)'
      BY DEF WritersOK
    <2>1. s # r /\ pc[s] = "letter" /\ Head(job[s].ids) = k
      BY <1>1 DEF Others
    <2>2. /\ letters[k] = 0 \/ ~ Calm(k, {"rival"})
          /\ Dead(k) \/ ~ CalmS(k)
      BY <2>1 DEF Lettered, WritersOK
    <2>3. k = i => ~ Calm(k, {"rival"})'
      BY <1>2, <2>1 DEF Calm
    <2>4. k # i => letters'[k] = letters[k]
      BY <1>2
    <2> QED
      BY <1>6, <2>2, <2>3, <2>4
  <1> QED
    BY <1>7, <1>8 DEF Lettered

LEMMA RunnerLetters ==
    ASSUME Grounds, Lettered, Frame, NEW r \in Runners,
           Step(r) \/ Die(r) \/ Begins(r)
    PROVE  Lettered'
  <1> USE DEF QueueTyped, Grounds
  <1>1. ASSUME NEW kind \in Kinds, NEW tree \in Trees, Begin(r, kind, tree)
        PROVE Lettered'
    <2>1. pc'[r] = "select" /\ UNCHANGED <<items, letters>> /\ Others(r)
      BY <1>1, BeginDoes DEF Begin
    <2> QED
      BY <2>1, LetteredAside
  <1>2. CASE Select(r)
    <2>1. pc'[r] # "letter" /\ UNCHANGED <<items, letters>> /\ Others(r)
      BY <1>2, SelectDoes DEF Quiet
    <2> QED
      BY <2>1, LetteredAside
  <1>3. ASSUME NEW i \in Ids, SelectItem(r, i) PROVE Lettered'
    <2>1. pc'[r] # "letter" /\ UNCHANGED <<items, letters>> /\ Others(r)
      BY <1>3, SelectItemDoes DEF Quiet
    <2> QED
      BY <2>1, LetteredAside
  <1>4. CASE StopLoop(r)
    <2>1. pc'[r] # "letter" /\ UNCHANGED <<items, letters>> /\ Others(r)
      BY <1>4, StopLoopDoes DEF Quiet
    <2> QED
      BY <2>1, LetteredAside
  <1>5. CASE CountRounds(r)
    <2>1. pc'[r] # "letter" /\ UNCHANGED <<items, letters>> /\ Others(r)
      BY <1>5, CountRoundsDoes DEF Quiet
    <2> QED
      BY <2>1, LetteredAside
  <1>6. CASE Pick(r)
    <2>1. pc'[r] # "letter" /\ UNCHANGED <<items, letters>> /\ Others(r)
      BY <1>6, PickDoes DEF Quiet
    <2> QED
      BY <2>1, LetteredAside
  <1>7. CASE Refuse(r)
    <2>1. pc'[r] # "letter" /\ UNCHANGED <<items, letters>> /\ Others(r)
      BY <1>7, RefuseDoes DEF Quiet
    <2> QED
      BY <2>1, LetteredAside
  <1>8. CASE MarkItem(r)
    <2>1. /\ Others(r) /\ pc[r] = "guard" /\ pc'[r] = "mark_node" /\ UNCHANGED letters
          /\ job[r].item \in Ids
          /\ \A k \in DOMAIN items : k # job[r].item => items'[k] = items[k]
      BY <1>8, MarkItemDoes, ItemsAreIds DEF Writes, Typed
    <2>2. PICK i \in Ids : i = job[r].item
      BY <2>1
    <2>3. Holds(r, i)
      BY <2>1, <2>2 DEF Holds, Holding
    <2> QED
      BY <2>1, <2>2, <2>3, LetteredWrite
  <1>9. CASE MarkNode(r)
    <2>1. pc'[r] # "letter" /\ UNCHANGED <<items, letters>> /\ Others(r)
      BY <1>9, MarkNodeDoes
    <2> QED
      BY <2>1, LetteredAside
  <1>10. ASSUME NEW ok \in BOOLEAN, RunTask(r, ok) PROVE Lettered'
    <2>1. pc'[r] # "letter" /\ UNCHANGED <<items, letters>> /\ Others(r)
      BY <1>10, RunTaskDoes
    <2> QED
      BY <2>1, LetteredAside
  <1>11. CASE SettleItem(r)
    <2>1. /\ Others(r) /\ pc[r] = "settle" /\ pc'[r] = "settle_node" /\ UNCHANGED letters
          /\ job[r].item \in Ids
          /\ \A k \in DOMAIN items : k # job[r].item => items'[k] = items[k]
      BY <1>11, SettleItemDoes, ItemsAreIds DEF Writes, Typed
    <2>2. PICK i \in Ids : i = job[r].item
      BY <2>1
    <2>3. Holds(r, i)
      BY <2>1, <2>2 DEF Holds, Holding
    <2> QED
      BY <2>1, <2>2, <2>3, LetteredWrite
  <1>12. CASE SettleNode(r)
    <2>1. pc'[r] # "letter" /\ UNCHANGED <<items, letters>> /\ Others(r)
      BY <1>12, SettleNodeDoes
    <2> QED
      BY <2>1, LetteredAside
  <1>13. CASE CheckLetter(r)
    <2>1. /\ UNCHANGED <<items, letters>> /\ Others(r)
          /\ pc'[r] = "letter" =>
               /\ job'[r].ids = job[r].ids /\ Head(job[r].ids) \in DOMAIN items
               /\ items[Head(job[r].ids)].status = "blocked"
               /\ letters[Head(job[r].ids)] = 0
      BY <1>13, CheckLetterDoes DEF Quiet
    <2>2. \A s \in Runners : pc'[s] = "letter" =>
            \/ pc[s] = "letter" /\ job'[s] = job[s]
            \/ /\ Head(job'[s].ids) \in DOMAIN items /\ UNCHANGED items
               /\ letters[Head(job'[s].ids)] = 0 /\ Dead(Head(job'[s].ids))
      BY <2>1 DEF Others, Dead
    <2>3. \A i \in DOMAIN items : Dead(i) => items'[i].status \in {"blocked", "skipped"}
                                             \/ ~ CalmS(i)'
      BY <2>1 DEF Dead
    <2> QED
      BY <2>1, <2>2, <2>3, LetteredStep
  <1>14. CASE Die(r)
    <2>1. pc'[r] # "letter" /\ UNCHANGED <<items, letters>> /\ Others(r)
      BY <1>14, DieDoes DEF Quiet
    <2> QED
      BY <2>1, LetteredAside
  <1> QED
    BY <1>1, <1>2, <1>3, <1>4, <1>5, <1>6, <1>7, <1>8, <1>9, <1>10, <1>11, <1>12, <1>13,
       <1>14, AddLetterLetters DEF Step, Begins

LEMMA OperatorLetters ==
    ASSUME Grounds, Lettered, Frame,
           \/ \E p \in Plans : EditPlan(p)
           \/ \E s \in Syncers : CompareWithPlan(s) \/ RecordItem(s) \/ StopSync(s)
           \/ ListMoves
           \/ \E i \in Ids : Operates(i)
           \/ \E to \in {"skipped", "blocked"}, ids \in SUBSET Ids : ListSweep(to, ids)
    PROVE  Lettered'
  <1> USE DEF QueueTyped, Grounds
  <1>1. ASSUME UNCHANGED <<letters, pc, job, items>> PROVE Lettered'
    BY <1>1, LetteredOperator
  <1>2. ASSUME NEW p \in Plans, EditPlan(p) PROVE Lettered'
    BY <1>1, <1>2, EditPlanDoes
  <1>3. ASSUME NEW s \in Syncers, CompareWithPlan(s) \/ StopSync(s) PROVE Lettered'
    BY <1>1, <1>3, SyncLeavesTables
  <1>4. ASSUME NEW s \in Syncers, RecordItem(s) PROVE Lettered'
    <2>1. UNCHANGED <<letters, pc, job>> /\ \A k \in DOMAIN items : items'[k] = items[k]
      BY <1>4, RecordItemDoes
    <2> QED
      BY <2>1, LetteredOperator
  <1>5. ASSUME NEW i \in Ids, NEW line \in 1..MaxRows, RefreshRef(i, line) PROVE Lettered'
    <2>1. /\ UNCHANGED <<letters, pc, job>>
          /\ \A k \in DOMAIN items : items'[k].status = items[k].status
      BY <1>5, RefreshesRow, RefreshRefDoes
    <2> QED
      BY <2>1, LetteredOperator
  <1>6. ASSUME NEW i \in Ids, SweepItem(i) PROVE Lettered'
    <2>1. i \in DOMAIN items
      BY <1>6 DEF SweepItem, ListedOK
    <2>2. /\ UNCHANGED <<letters, pc, job>> /\ upset' = upset \union {<<i, "sweep">>}
          /\ \A k \in DOMAIN items : k # i => items'[k] = items[k]
      BY <1>6, <2>1, SweepItemDoes DEF Writes
    <2>3. ~ CalmS(i)'
      BY <2>2 DEF CalmS, Calm
    <2> QED
      BY <2>2, <2>3, LetteredOperator
  <1>7. ASSUME NEW i \in Ids, Requeue(i) PROVE Lettered'
    <2>1. /\ UNCHANGED <<letters, pc, job>> /\ upset' = upset \union {<<i, "operator">>}
          /\ \A k \in DOMAIN items : k # i => items'[k] = items[k]
      BY <1>7, RequeueDoes DEF Writes
    <2>2. ~ CalmS(i)'
      BY <2>1 DEF CalmS, Calm
    <2> QED
      BY <2>1, <2>2, LetteredOperator
  <1>8. ASSUME NEW i \in Ids, Skip(i) PROVE Lettered'
    <2>1. /\ UNCHANGED <<letters, pc, job>> /\ items'[i].status = "skipped"
          /\ \A k \in DOMAIN items : k # i => items'[k] = items[k]
      BY <1>8, SkipDoes DEF Writes
    <2> QED
      BY <2>1, LetteredOperator
  <1>9. ASSUME NEW i \in Ids, LinkPlanGraph(i) PROVE Lettered'
    <2>1. /\ UNCHANGED <<letters, pc, job>>
          /\ \A k \in DOMAIN items : items'[k].status = items[k].status
      BY <1>9, LinkPlanGraphDoes
    <2> QED
      BY <2>1, LetteredOperator
  <1>10. ASSUME NEW to \in {"skipped", "blocked"}, NEW ids \in SUBSET Ids, ListSweep(to, ids)
         PROVE Lettered'
    BY <1>1, <1>10, ListSweepDoes
  <1>11. CASE ListMoves
    BY <1>1, <1>11, ListMovesDoes
  <1> QED
    BY <1>2, <1>3, <1>4, <1>5, <1>6, <1>7, <1>8, <1>9, <1>10, <1>11 DEF Operates

(* A loop writes one dead letter for an item, however many loops a process   *)
(* runs one after the other, and an item with a letter stays blocked or      *)
(* skipped until an operator, a sweep or a rival takes it up again           *)
(* (_record_loop_dead_letters, add_dead_letter_item).                        *)
THEOREM QueueBuriesTheDead == Spec => []DeadLettersAreDead
  <1>1. Init => Grounds /\ Lettered
    <2> SUFFICES ASSUME Init PROVE Grounds /\ Lettered
      OBVIOUS
    <2>1. /\ Grounds /\ \A r \in Runners : pc[r] = "idle"
          /\ \A i \in Ids : letters[i] = 0
      BY InitGrounds DEF Init
    <2> QED
      BY <2>1 DEF Lettered, LettersOK, WritersOK
  <1>2. Grounds /\ Lettered /\ [Next]_vars => Grounds' /\ Lettered'
    <2> SUFFICES ASSUME Grounds, Lettered, [Next]_vars PROVE Grounds' /\ Lettered'
      OBVIOUS
    <2>1. Grounds' /\ Frame
      BY GroundsStay
    <2>2. CASE UNCHANGED vars
      <3>1. UNCHANGED <<letters, pc, job, items>>
        BY <2>2 DEF vars
      <3> QED
        BY <2>1, <3>1, LetteredOperator
    <2> QED
      BY <2>1, <2>2, RunnerLetters, OperatorLetters DEF Next, Operates, Begins
  <1>3. Grounds /\ Lettered => DeadLettersAreDead
    BY LetteredIsProperty
  <1> QED
    BY <1>1, <1>2, <1>3, PTL DEF Spec
-----------------------------------------------------------------------------
(* WHO HAS WHICH WORKTREE *)

(* No command began while another was at work. *)
Serial == \E i \in Ids : Calm(i, {"overlap"})
Alone == \A r, s \in Runners : pc[r] # "idle" /\ pc[s] # "idle" => r = s

UnderWay(i) == items[i].status = "in_progress"
Fresh == \A i \in DOMAIN items : items[i].status = "created" => items[i].worktree = 0
Exclusive ==
    \A i, j \in DOMAIN items :
      /\ i # j /\ UnderWay(i) /\ UnderWay(j) /\ items[i].worktree # 0
      /\ Calm(i, {"chosen"}) /\ Calm(j, {"chosen"})
      => items[i].worktree # items[j].worktree

(* A runner that does not rotate is about to mark an item that has no        *)
(* worktree yet; a rotated batch has distinct worktrees left, and nothing    *)
(* under way is in one of them but the item it runs itself.                  *)
Reserved(r) ==
    /\ job[r].kind \in {"next", "item"} /\ pc[r] \in Holding \union {"pick"} =>
         Len(job[r].ids) <= 1
    /\ job[r].kind \in {"next", "item"} /\ pc[r] = "pick" =>
         items[Head(job[r].ids)].worktree = 0
    /\ job[r].kind # "rotated" /\ pc[r] = "guard" => items[job[r].item].worktree = 0
    /\ job[r].kind = "rotated" /\ pc[r] \in Holding \union {"pick"} =>
         /\ \A k, l \in DOMAIN job[r].trees : job[r].trees[k] = job[r].trees[l] => k = l
         /\ \A i \in DOMAIN items : UnderWay(i) =>
              \/ \A k \in DOMAIN job[r].trees : job[r].trees[k] # items[i].worktree
              \/ pc[r] \in {"mark_node", "run", "settle"} /\ i = job[r].item

Housed == Fresh /\ (Serial => Alone /\ Exclusive /\ \A r \in Runners : Reserved(r))

(* A write that starts nothing. *)
StartsNothing ==
    \A k \in DOMAIN items' : UnderWay(k)' =>
      k \in DOMAIN items /\ UnderWay(k) /\ items'[k].worktree = items[k].worktree

LEMMA ExclusiveStays ==
    ASSUME Exclusive, StartsNothing, upset \subseteq upset'
    PROVE  Exclusive'
  BY CalmBefore DEF Exclusive, StartsNothing

LEMMA SerialBefore ==
    ASSUME upset \subseteq upset', Serial'
    PROVE  Serial
  BY DEF Serial, Calm

LEMMA IdleReserves ==
    ASSUME NEW s \in Runners, pc[s] = "idle"
    PROVE  Reserved(s)
  BY DEF Reserved, Holding

(* The runner at work is the only one, so only its own reserve is at stake.  *)
LEMMA HousedByRunner ==
    ASSUME Housed, Frame, NEW r \in Runners, Others(r), pc[r] # "idle", Fresh',
           Serial /\ Alone /\ Exclusive /\ Reserved(r) => Exclusive' /\ Reserved(r)'
    PROVE  Housed'
  <1> SUFFICES ASSUME Serial' PROVE Alone' /\ Exclusive' /\ \A s \in Runners : Reserved(s)'
    BY DEF Housed
  <1>1. Serial /\ Alone /\ Exclusive /\ Reserved(r)
    BY SerialBefore DEF Frame, Housed
  <1>2. \A s \in Runners : s # r => pc[s] = "idle" /\ pc'[s] = "idle"
    BY <1>1 DEF Alone, Others
  <1>3. \A s \in Runners : s # r => Reserved(s)'
    BY <1>2 DEF Reserved, Holding
  <1> QED
    BY <1>1, <1>2, <1>3 DEF Alone

LEMMA HousedAside ==
    ASSUME Housed, Frame, NEW r \in Runners, Others(r), pc[r] # "idle", UNCHANGED items,
           Serial /\ Reserved(r) => Reserved(r)'
    PROVE  Housed'
  <1>1. Fresh' /\ StartsNothing
    BY DEF Housed, Fresh, StartsNothing, UnderWay
  <1> QED
    BY <1>1, ExclusiveStays, HousedByRunner DEF Frame

(* A runner that goes on with its item, or lets go of it. *)
LEMMA ReserveCarries ==
    ASSUME NEW r \in Runners, UNCHANGED items, Reserved(r),
           \/ pc'[r] \notin Holding \union {"pick"}
           \/ /\ job'[r].kind = job[r].kind /\ job'[r].trees = job[r].trees
              /\ job'[r].ids = job[r].ids /\ job'[r].item = job[r].item
              /\ \/ pc[r] = "guard" /\ pc'[r] = "settle"
                 \/ pc[r] = "mark_node" /\ pc'[r] = "run"
                 \/ pc[r] = "run" /\ pc'[r] = "settle"
    PROVE  Reserved(r)'
  BY DEF Reserved, Holding, UnderWay

(* Nothing that is not under way yet loses its place, whatever else is       *)
(* written: what an operator's commands do.                                  *)
LEMMA HousedByOperator ==
    ASSUME QueueTyped, Housed, Frame, UNCHANGED <<pc, job>>, Fresh', StartsNothing,
           \A k \in DOMAIN items : items[k].worktree = 0 => items'[k].worktree = 0
    PROVE  Housed'
  <1> SUFFICES ASSUME Serial' PROVE Alone' /\ Exclusive' /\ \A r \in Runners : Reserved(r)'
    BY DEF Housed
  <1>1. Serial /\ Alone /\ Exclusive /\ \A r \in Runners : Reserved(r)
    BY SerialBefore DEF Frame, Housed
  <1>2. Alone' /\ Exclusive'
    BY <1>1, ExclusiveStays DEF Alone, Frame
  <1>3. ASSUME NEW r \in Runners
        PROVE  Reserved(r)'
    <2>1. JobOK(pc[r], job[r], DOMAIN items, tasks) /\ Reserved(r)
      BY <1>1 DEF QueueTyped, Typed, JobsOK
    <2>2. /\ pc'[r] = pc[r] /\ job'[r] = job[r]
      OBVIOUS
    <2>3. pc[r] \in Holding => job[r].item \in DOMAIN items
      BY <2>1 DEF JobOK
    <2>4. pc[r] = "pick" /\ job[r].kind \in {"next", "item"} => Head(job[r].ids) \in DOMAIN items
      <3>1. job[r].ids \in Seq(Ids)
        BY DEF QueueTyped, Typed, TypeOK, Jobs
      <3>2. job[r].ids # << >> => 1 \in DOMAIN job[r].ids /\ Head(job[r].ids) = job[r].ids[1]
        BY <3>1, EmptySeq, LenProperties
      <3> QED
        BY <2>1, <3>2 DEF JobOK
    <2>5. \A i \in DOMAIN items' : UnderWay(i)' =>
            i \in DOMAIN items /\ UnderWay(i) /\ items'[i].worktree = items[i].worktree
      BY DEF StartsNothing
    <2> QED
      BY <2>1, <2>2, <2>3, <2>4, <2>5 DEF Reserved, Holding
  <1> QED
    BY <1>2, <1>3

LEMMA BeginHouses ==
    ASSUME Housed, Frame, NEW r \in Runners, NEW kind \in Kinds,
           NEW tree \in Trees, Begin(r, kind, tree)
    PROVE  Housed'
  <1>1. /\ pc[r] = "idle" /\ UNCHANGED items /\ pc' = [pc EXCEPT ![r] = "select"]
        /\ \/ \A s \in Runners : pc[s] = "idle"
           \/ upset' = upset \union (Ids \X {"overlap"})
    BY DEF Begin, Goto, Upset
  <1>2. Fresh' /\ (Exclusive => Exclusive')
    <2>1. Fresh' /\ StartsNothing
      BY <1>1 DEF Housed, Fresh, StartsNothing, UnderWay
    <2> QED
      BY <2>1, ExclusiveStays DEF Frame
  <1>3. ASSUME Serial'
        PROVE  Alone' /\ Exclusive' /\ \A s \in Runners : Reserved(s)'
    <2>1. Serial /\ Alone /\ Exclusive
      BY <1>3, SerialBefore DEF Frame, Housed
    <2>2. \A s \in Runners : pc[s] = "idle"
      BY <1>1, <1>3 DEF Serial, Calm
    <2>3. \A s \in Runners : pc'[s] \in {"idle", "select"} /\ (pc'[s] # "idle" => s = r)
      <3>1. \A s \in Runners : s # r => pc'[s] = pc[s]
        BY <1>1
      <3>2. QueueTyped'
        BY DEF Frame
      <3>3. r \in DOMAIN pc
        BY <1>1, <3>2 DEF QueueTyped, Typed, TypeOK
      <3> QED
        BY <1>1, <2>2, <3>1, <3>3
    <2>4. \A s \in Runners : Reserved(s)'
      BY <2>3 DEF Reserved, Holding
    <2> QED
      BY <1>2, <2>1, <2>3, <2>4 DEF Alone
  <1> QED
    BY <1>2, <1>3 DEF Housed

LEMMA SelectHouses ==
    ASSUME QueueTyped, Housed, Frame, NEW r \in Runners, Select(r)
    PROVE  Housed'
  <1>1. /\ Quiet /\ UNCHANGED <<letters, upset>> /\ Others(r)
        /\ pc[r] = "select" /\ pc'[r] \in {"idle", "count", "pick"}
        /\ pc'[r] # "idle" =>
             \E n \in Nat :
               /\ n > 0 /\ (job[r].kind = "next" => n = 1)
               /\ job'[r].kind = job[r].kind /\ job'[r].ids = Limit(Queue, n)
               /\ job[r].kind = "rotated" => job'[r].trees = FreeTrees(Len(Limit(Queue, n)))
    BY SelectDoes DEF QueueTyped
  <1>2. UNCHANGED items /\ TypeOK
    BY <1>1 DEF Quiet, QueueTyped, Typed
  <1>3. ASSUME pc'[r] = "pick"
        PROVE  Reserved(r)'
    <2>1. PICK n \in Nat :
            /\ n > 0 /\ (job[r].kind = "next" => n = 1)
            /\ job'[r].kind = job[r].kind /\ job'[r].ids = Limit(Queue, n)
            /\ job[r].kind = "rotated" => job'[r].trees = FreeTrees(Len(Limit(Queue, n)))
      BY <1>1, <1>3
    <2> DEFINE ids == Limit(Queue, n)
    <2>2. /\ ids \in Seq(Ids) /\ Len(ids) <= n /\ Len(ids) \in Nat
          /\ \A k \in DOMAIN ids : ids[k] \in Created
      BY <1>2, QueueIsIds
    <2>3. job[r].kind # "item"
      BY <1>1 DEF Select
    <2> HIDE DEF ids
    <2>4. job'[r].ids = ids
      BY <2>1 DEF ids
    <2>5. job'[r].kind \in {"next", "item"} => Len(job'[r].ids) <= 1
      BY <2>1, <2>2, <2>3, <2>4
    <2>6. job'[r].kind \in {"next", "item"} => items'[Head(job'[r].ids)].worktree = 0
      <3>1. ASSUME job'[r].kind \in {"next", "item"}
            PROVE  ids # << >>
        <4>1. JobOK(pc'[r], job'[r], DOMAIN items', tasks')
          BY DEF Frame, QueueTyped, Typed, JobsOK
        <4> QED
          BY <1>3, <2>4, <3>1, <4>1 DEF JobOK
      <3>2. ids # << >> => 1 \in DOMAIN ids /\ Head(ids) = ids[1]
        BY <2>2, EmptySeq, LenProperties
      <3>3. \A i \in Created : items[i].worktree = 0
        BY DEF Created, Housed, Fresh
      <3> QED
        BY <1>2, <2>2, <2>4, <3>1, <3>2, <3>3
    <2>7. CASE job[r].kind = "rotated"
      <3>1. PICK m \in Nat : m = Len(ids)
        BY <2>2
      <3>2. /\ job'[r].trees = FreeTrees(m)
            /\ \A k, l \in DOMAIN FreeTrees(m) : FreeTrees(m)[k] = FreeTrees(m)[l] => k = l
            /\ \A k \in DOMAIN FreeTrees(m) : FreeTrees(m)[k] \notin Busy
            /\ FreeTrees(m) \in Seq(1..Worktrees)
        BY <1>2, <2>1, <2>7, <3>1, FreeTreesAreFree DEF ids
      <3>3. \A i \in DOMAIN items :
              UnderWay(i) => items[i].worktree = 0 \/ items[i].worktree \in Busy
        BY DEF UnderWay, Busy, TreeOf
      <3>5. \A k \in DOMAIN FreeTrees(m) : FreeTrees(m)[k] # 0
        <4>1. \A k \in DOMAIN FreeTrees(m) : FreeTrees(m)[k] \in 1..Worktrees
          BY <3>2, LenProperties, ElementOfSeq
        <4> QED
          BY <4>1, QueueAssumption
      <3>4. \A i \in DOMAIN items' : UnderWay(i)' =>
              \A k \in DOMAIN job'[r].trees : job'[r].trees[k] # items'[i].worktree
        BY <1>2, <3>2, <3>3, <3>5 DEF UnderWay
      <3> QED
        BY <1>3, <2>1, <2>7, <3>2, <3>4 DEF Reserved
    <2> QED
      BY <1>3, <2>1, <2>5, <2>6, <2>7 DEF Reserved
  <1>4. pc'[r] # "pick" => Reserved(r)'
    BY <1>1 DEF Reserved, Holding
  <1> QED
    BY <1>1, <1>2, <1>3, <1>4, HousedAside

LEMMA PickHouses ==
    ASSUME QueueTyped, Housed, Frame, NEW r \in Runners, Pick(r)
    PROVE  Housed'
  <1>1. /\ Quiet /\ Others(r) /\ pc[r] = "pick"
        /\ \/ pc'[r] \in {"idle", "letters"}
           \/ \E i \in DOMAIN items :
                /\ i = IF Fixed(r) THEN Head(job[r].ids) ELSE Queue[1]
                /\ pc'[r] = "guard" /\ job'[r].item = i
                /\ ~ Fixed(r) => i \in Created
                /\ job'[r].kind = job[r].kind /\ job'[r].trees = job[r].trees
                /\ job'[r].ids = job[r].ids
    BY PickDoes DEF QueueTyped
  <1>2. UNCHANGED items
    BY <1>1 DEF Quiet
  <1>3. CASE pc'[r] \in {"idle", "letters"}
    <2>1. Reserved(r)'
      BY <1>3 DEF Reserved, Holding
    <2> QED
      BY <1>1, <1>2, <2>1, HousedAside
  <1>4. ASSUME NEW i \in DOMAIN items,
               i = IF Fixed(r) THEN Head(job[r].ids) ELSE Queue[1],
               pc'[r] = "guard" /\ job'[r].item = i, ~ Fixed(r) => i \in Created,
               job'[r].kind = job[r].kind /\ job'[r].trees = job[r].trees,
               job'[r].ids = job[r].ids, Reserved(r)
        PROVE  Reserved(r)'
    <2>1. ~ Fixed(r) => items[i].worktree = 0
      BY <1>4 DEF Created, Housed, Fresh
    <2>2. job[r].kind # "rotated" => items[i].worktree = 0
      BY <1>1, <1>4, <2>1 DEF Reserved, Fixed
    <2> QED
      BY <1>1, <1>2, <1>4, <2>2 DEF Reserved, Holding, UnderWay
  <1> QED
    BY <1>1, <1>2, <1>3, <1>4, HousedAside

(* Only here does an item get under way, in the worktree it was given.       *)
LEMMA MarkItemHouses ==
    ASSUME QueueTyped, Housed, Frame, NEW r \in Runners, MarkItem(r)
    PROVE  Housed'
  <1>1. PICK i \in DOMAIN items, tree \in Trees :
          i = job[r].item /\ tree = Keeping(items[i].worktree, Recorded(r))
    <2>1. pc[r] \in Holding
      BY DEF MarkItem, Holding
    <2> QED
      BY <2>1, TreeOfJob DEF QueueTyped
  <1>2. /\ Others(r) /\ pc[r] = "guard" /\ pc'[r] = "mark_node" /\ job' = job
        /\ Writes(i, "in_progress", items[i].task, tree)
    BY <1>1, MarkItemDoes DEF QueueTyped
  <1>6. /\ upset \subseteq upset'
        /\ \/ job[r].kind = "rotated" \/ Recorded(r) = 0 \/ ~ Taken(i, Recorded(r))
           \/ <<i, "chosen">> \in upset'
    BY <1>1, MarkItemDoes DEF QueueTyped
  <1>7. \A k : Calm(k, {"chosen"})' => Calm(k, {"chosen"})
    BY <1>6, CalmBefore
  <1>3. /\ DOMAIN items' = DOMAIN items /\ \A k \in DOMAIN items : k # i => items'[k] = items[k]
        /\ items'[i].status = "in_progress" /\ items'[i].worktree = tree
    BY <1>2 DEF Writes
  <1>4. Fresh'
    BY <1>3 DEF Housed, Fresh
  <1>5. ASSUME Exclusive, Reserved(r)
        PROVE  Exclusive' /\ Reserved(r)'
    <2>1. CASE job[r].kind = "rotated"
      <3>1. /\ \A k, l \in DOMAIN job[r].trees : job[r].trees[k] = job[r].trees[l] => k = l
            /\ \A j \in DOMAIN items : UnderWay(j) =>
                 \A k \in DOMAIN job[r].trees : job[r].trees[k] # items[j].worktree
        BY <1>2, <1>5, <2>1 DEF Reserved, Holding
      <3>2. 1 \in DOMAIN job[r].trees /\ tree = job[r].trees[1]
        <4>1. /\ 1 \in DOMAIN job[r].trees /\ Recorded(r) = job[r].trees[1]
              /\ Recorded(r) \in 1..Worktrees
          BY <1>2, <2>1, TreeOfJob DEF QueueTyped, Holding
        <4>2. Recorded(r) # 0
          BY <4>1, QueueAssumption
        <4> QED
          BY <1>1, <4>1, <4>2 DEF Keeping
      <3>3. \A j \in DOMAIN items : UnderWay(j) => tree # items[j].worktree
        BY <3>1, <3>2
      <3>4. Exclusive'
        BY <1>3, <1>5, <1>7, <3>3 DEF Exclusive, UnderWay
      <3>5. \A j \in DOMAIN items' : UnderWay(j)' =>
              \/ \A k \in DOMAIN job'[r].trees : job'[r].trees[k] # items'[j].worktree
              \/ pc'[r] \in {"mark_node", "run", "settle"} /\ j = job'[r].item
        BY <1>1, <1>2, <1>3, <3>1 DEF UnderWay
      <3> QED
        BY <1>2, <2>1, <3>1, <3>4, <3>5 DEF Reserved
    <2>2. CASE job[r].kind # "rotated"
      <3>1. tree = Recorded(r)
        BY <1>1, <1>2, <1>5, <2>2 DEF Reserved, Keeping
      <3>2. ASSUME tree # 0, Calm(i, {"chosen"})'
            PROVE  \A j \in DOMAIN items : j # i /\ UnderWay(j) => tree # items[j].worktree
        BY <1>6, <2>2, <3>1, <3>2 DEF Calm, Taken, UnderWay
      <3>3. Exclusive'
        BY <1>3, <1>5, <1>7, <3>2 DEF Exclusive, UnderWay
      <3> QED
        BY <1>2, <1>5, <2>2, <3>3 DEF Reserved, Holding
    <2> QED
      BY <2>1, <2>2
  <1> QED
    BY <1>2, <1>4, <1>5, HousedByRunner

LEMMA SettleItemHouses ==
    ASSUME QueueTyped, Housed, Frame, NEW r \in Runners, SettleItem(r)
    PROVE  Housed'
  <1>1. /\ Others(r) /\ pc[r] = "settle" /\ pc'[r] = "settle_node" /\ job' = job
        /\ job[r].item \in DOMAIN items /\ Result(r) \in {"done", "blocked"}
    BY SettleItemDoes, ResultIs DEF QueueTyped, SettleItem
  <1>2. PICK i \in DOMAIN items : i = job[r].item
    BY <1>1
  <1>3. /\ DOMAIN items' = DOMAIN items /\ \A k \in DOMAIN items : k # i => items'[k] = items[k]
        /\ items'[i].status \in {"done", "blocked"}
    BY <1>1, <1>2, SettleItemDoes DEF Writes, QueueTyped
  <1>4. Fresh' /\ StartsNothing
    BY <1>3 DEF Housed, Fresh, StartsNothing, UnderWay
  <1>5. ASSUME Reserved(r)
        PROVE  Reserved(r)'
    <2>1. \A j \in DOMAIN items' : UnderWay(j)' => UnderWay(j) /\ j # i
                                                   /\ items'[j].worktree = items[j].worktree
      BY <1>3 DEF UnderWay
    <2> QED
      BY <1>1, <1>2, <1>3, <1>5, <2>1 DEF Reserved, Holding
  <1> QED
    BY <1>1, <1>4, <1>5, ExclusiveStays, HousedByRunner DEF Frame

LEMMA SettleNodeHouses ==
    ASSUME QueueTyped, Housed, Frame, NEW r \in Runners, SettleNode(r)
    PROVE  Housed'
  <1>1. /\ UNCHANGED items /\ Others(r) /\ pc[r] = "settle_node"
        /\ pc'[r] \in {"pick", "idle", "letters"}
        /\ pc'[r] = "pick" =>
             /\ job'[r].kind = job[r].kind
             /\ job[r].kind # "loop" => job[r].ids # << >> /\ job'[r].ids = Tail(job[r].ids)
             /\ job[r].kind = "rotated" => job'[r].trees = Tail(job[r].trees)
    BY SettleNodeDoes DEF QueueTyped
  <1>2. ASSUME pc'[r] = "pick", Reserved(r)
        PROVE  Reserved(r)'
    <2>1. job[r].kind \notin {"next", "item"}
      <3> SUFFICES ASSUME job[r].kind \in {"next", "item"} PROVE FALSE
        OBVIOUS
      <3>1. Len(job[r].ids) <= 1 /\ job[r].ids # << >> /\ job'[r].ids = Tail(job[r].ids)
        BY <1>1, <1>2 DEF Reserved, Holding
      <3>2. PICK ids \in Seq(Ids) : ids = job[r].ids
        BY DEF QueueTyped, Typed, TypeOK, Jobs
      <3>3. /\ Tail(ids) \in Seq(Ids) /\ Len(Tail(ids)) = Len(ids) - 1
            /\ Len(ids) \in Nat /\ Len(ids) > 0
        BY <3>1, <3>2, TailCuts
      <3>4. Len(Tail(ids)) = 0
        <4>1. \A n \in Nat : n > 0 /\ n <= 1 => n - 1 = 0
          OBVIOUS
        <4>2. Len(ids) <= 1
          BY <3>1, <3>2
        <4> QED
          BY <3>3, <4>1, <4>2, Zenon
      <3>5. Tail(job[r].ids) = << >>
        BY <3>2, <3>3, <3>4, EmptySeq
      <3>6. JobOK(pc'[r], job'[r], DOMAIN items', tasks')
        BY DEF Frame, QueueTyped, Typed, JobsOK
      <3> QED
        BY <1>1, <1>2, <3>1, <3>5, <3>6 DEF JobOK
    <2>2. CASE job[r].kind = "rotated"
      <3>1. /\ \A k, l \in DOMAIN job[r].trees : job[r].trees[k] = job[r].trees[l] => k = l
            /\ \A j \in DOMAIN items : UnderWay(j) =>
                 \A k \in DOMAIN job[r].trees : job[r].trees[k] # items[j].worktree
        BY <1>1, <1>2, <2>2 DEF Reserved, Holding
      <3>2. job[r].trees \in Seq(Nat) /\ job[r].trees # << >>
        <4>1. JobOK(pc[r], job[r], DOMAIN items, tasks)
          BY DEF QueueTyped, Typed, JobsOK
        <4> QED
          BY <1>1, <2>2, <4>1 DEF JobOK, Holding, QueueTyped, Typed, TypeOK, Jobs
      <3>3. /\ job'[r].trees = Tail(job[r].trees) /\ Tail(job[r].trees) \in Seq(Nat)
            /\ \A k \in DOMAIN Tail(job[r].trees) :
                 k + 1 \in DOMAIN job[r].trees /\ Tail(job[r].trees)[k] = job[r].trees[k + 1]
        BY <1>1, <1>2, <2>2, <3>2, TailCuts
      <3>4. DOMAIN Tail(job[r].trees) \subseteq Nat
        BY <3>3, LenProperties
      <3>5. \A k, l \in DOMAIN job'[r].trees : job'[r].trees[k] = job'[r].trees[l] => k = l
        <4> SUFFICES ASSUME NEW k \in DOMAIN job'[r].trees, NEW l \in DOMAIN job'[r].trees,
                            job'[r].trees[k] = job'[r].trees[l]
                     PROVE  k = l
          OBVIOUS
        <4>1. k + 1 = l + 1
          BY <3>1, <3>3
        <4>2. k \in Nat /\ l \in Nat
          BY <3>3, <3>4
        <4> QED
          BY <4>1, <4>2
      <3>6. \A j \in DOMAIN items' : UnderWay(j)' =>
              \A k \in DOMAIN job'[r].trees : job'[r].trees[k] # items'[j].worktree
        BY <1>1, <3>1, <3>3 DEF UnderWay
      <3> QED
        BY <1>1, <1>2, <2>2, <3>5, <3>6 DEF Reserved
    <2> QED
      BY <1>1, <1>2, <2>1, <2>2 DEF Reserved
  <1>3. pc'[r] # "pick" => Reserved(r)'
    BY <1>1 DEF Reserved, Holding
  <1> QED
    BY <1>1, <1>2, <1>3, HousedAside

LEMMA RunnerHouses ==
    ASSUME QueueTyped, Housed, Frame, NEW r \in Runners,
           Step(r) \/ Die(r) \/ Begins(r)
    PROVE  Housed'
  <1> USE DEF QueueTyped
  <1>a. ASSUME UNCHANGED items, Others(r), pc[r] # "idle",
               \/ pc'[r] \notin Holding \union {"pick"}
               \/ /\ job'[r].kind = job[r].kind /\ job'[r].trees = job[r].trees
                  /\ job'[r].ids = job[r].ids /\ job'[r].item = job[r].item
                  /\ \/ pc[r] = "guard" /\ pc'[r] = "settle"
                     \/ pc[r] = "mark_node" /\ pc'[r] = "run"
                     \/ pc[r] = "run" /\ pc'[r] = "settle"
        PROVE  Housed'
    BY <1>a, ReserveCarries, HousedAside
  <1>1. ASSUME NEW i \in Ids, SelectItem(r, i) PROVE Housed'
    <2>1. /\ Others(r) /\ pc[r] = "select" /\ pc'[r] = "pick" /\ i \in Created
          /\ job'[r].ids = <<i>> /\ job'[r].kind = "item" /\ UNCHANGED items
      BY <1>1, SelectItemDoes DEF Quiet
    <2>2. items[i].worktree = 0
      BY <2>1 DEF Created, Housed, Fresh
    <2>3. Reserved(r)'
      BY <2>1, <2>2 DEF Reserved, Holding
    <2> QED
      BY <2>1, <2>3, HousedAside
  <1>2. CASE StopLoop(r)
    BY <1>2, <1>a, StopLoopDoes DEF Quiet, Holding
  <1>3. CASE CountRounds(r)
    <2>1. /\ Others(r) /\ pc[r] = "count" /\ pc'[r] \in {"letters", "pick"}
          /\ job'[r].kind = "loop" /\ UNCHANGED items
      BY <1>3, CountRoundsDoes DEF Quiet
    <2>2. Reserved(r)'
      BY <2>1 DEF Reserved, Holding
    <2> QED
      BY <2>1, <2>2, HousedAside
  <1>4. CASE Refuse(r)
    BY <1>4, <1>a, RefuseDoes DEF Quiet
  <1>5. CASE MarkNode(r)
    BY <1>5, <1>a, MarkNodeDoes
  <1>6. ASSUME NEW ok \in BOOLEAN, RunTask(r, ok) PROVE Housed'
    BY <1>6, <1>a, RunTaskDoes
  <1>7. CASE CheckLetter(r)
    BY <1>7, <1>a, CheckLetterDoes DEF Quiet, Holding
  <1>8. CASE AddLetter(r)
    BY <1>8, <1>a, AddLetterDoes DEF Quiet, Holding
  <1>9. CASE Die(r)
    BY <1>9, <1>a, DieDoes DEF Quiet, Holding
  <1> QED
    BY <1>1, <1>2, <1>3, <1>4, <1>5, <1>6, <1>7, <1>8, <1>9, BeginHouses, SelectHouses,
       PickHouses, MarkItemHouses, SettleItemHouses, SettleNodeHouses DEF Step, Begins

LEMMA OperatorHouses ==
    ASSUME QueueTyped, Housed, Frame,
           \/ \E p \in Plans : EditPlan(p)
           \/ \E s \in Syncers : CompareWithPlan(s) \/ RecordItem(s) \/ StopSync(s)
           \/ ListMoves
           \/ \E i \in Ids : Operates(i)
           \/ \E to \in {"skipped", "blocked"}, ids \in SUBSET Ids : ListSweep(to, ids)
    PROVE  Housed'
  <1> USE DEF QueueTyped
  <1>1. ASSUME UNCHANGED <<pc, job>>, DOMAIN items' = DOMAIN items,
               \A k \in DOMAIN items : items'[k].status = items[k].status
                                       /\ items'[k].worktree = items[k].worktree
        PROVE  Housed'
    <2>1. Fresh' /\ StartsNothing
      BY <1>1 DEF Housed, Fresh, StartsNothing, UnderWay
    <2> QED
      BY <1>1, <2>1, HousedByOperator
  <1>2. ASSUME NEW i \in DOMAIN items, UNCHANGED <<pc, job>>, DOMAIN items' = DOMAIN items,
               \A k \in DOMAIN items : k # i => items'[k] = items[k],
               \/ /\ items'[i].status \in {"skipped", "blocked"}
                  /\ items'[i].worktree = items[i].worktree
               \/ items'[i].status = "created" /\ items'[i].worktree = 0
        PROVE  Housed'
    <2>1. Fresh' /\ StartsNothing
      BY <1>2 DEF Housed, Fresh, StartsNothing, UnderWay
    <2>2. \A k \in DOMAIN items : items[k].worktree = 0 => items'[k].worktree = 0
      BY <1>2
    <2> QED
      BY <1>2, <2>1, <2>2, HousedByOperator
  <1>3. ASSUME NEW p \in Plans, EditPlan(p) PROVE Housed'
    BY <1>1, <1>3, EditPlanDoes
  <1>4. ASSUME NEW s \in Syncers, CompareWithPlan(s) \/ StopSync(s) PROVE Housed'
    BY <1>1, <1>4, SyncLeavesTables
  <1>5. ASSUME NEW s \in Syncers, RecordItem(s) PROVE Housed'
    <2>1. UNCHANGED <<pc, job>>
      BY <1>5, RecordItemDoes
    <2>2. PICK n \in Ids :
            /\ n \notin DOMAIN items /\ DOMAIN items' = DOMAIN items \union {n}
            /\ \A k \in DOMAIN items : items'[k] = items[k]
            /\ items'[n].status = "created" /\ items'[n].worktree = 0
      BY <1>5, RecordItemDoes
    <2>3. Fresh' /\ StartsNothing
      BY <2>2 DEF Housed, Fresh, StartsNothing, UnderWay
    <2> QED
      BY <2>1, <2>2, <2>3, HousedByOperator
  <1>6. ASSUME NEW i \in Ids, NEW line \in 1..MaxRows, RefreshRef(i, line) PROVE Housed'
    BY <1>1, <1>6, RefreshesRow, RefreshRefDoes
  <1>7. ASSUME NEW i \in Ids, SweepItem(i) PROVE Housed'
    <2>1. i \in DOMAIN items
      BY <1>7 DEF SweepItem, ListedOK
    <2> QED
      BY <1>2, <1>7, <2>1, SweepItemDoes DEF Writes
  <1>8. ASSUME NEW i \in Ids, Requeue(i) PROVE Housed'
    BY <1>2, <1>8, RequeueDoes DEF Writes
  <1>9. ASSUME NEW i \in Ids, Skip(i) PROVE Housed'
    BY <1>2, <1>9, SkipDoes DEF Writes
  <1>10. ASSUME NEW i \in Ids, LinkPlanGraph(i) PROVE Housed'
    BY <1>1, <1>10, LinkPlanGraphDoes
  <1>11. ASSUME NEW to \in {"skipped", "blocked"}, NEW ids \in SUBSET Ids, ListSweep(to, ids)
         PROVE Housed'
    BY <1>1, <1>11, ListSweepDoes
  <1>12. CASE ListMoves
    BY <1>1, <1>12, ListMovesDoes
  <1> QED
    BY <1>3, <1>4, <1>5, <1>6, <1>7, <1>8, <1>9, <1>10, <1>11, <1>12 DEF Operates

(* No two items under way have one worktree recorded, the items dead runners *)
(* left under way included, as long as no command begins while another is at *)
(* work and none was sent with --worktree into a tree in use                 *)
(* (_select_rotated_worktrees, _busy_rotated_worktrees).                     *)
THEOREM QueueWorktreesExclusive == Spec => []WorktreesAreExclusive
  <1>1. Init => QueueTyped /\ Housed
    <2> SUFFICES ASSUME Init PROVE QueueTyped /\ Housed
      OBVIOUS
    <2>1. QueueTyped /\ DOMAIN items = {} /\ \A r \in Runners : pc[r] = "idle"
      BY InitTyped DEF Init
    <2> QED
      BY <2>1, IdleReserves DEF Housed, Fresh, Alone, Exclusive
  <1>2. QueueTyped /\ Housed /\ [Next]_vars => QueueTyped' /\ Housed'
    <2> SUFFICES ASSUME QueueTyped, Housed, [Next]_vars PROVE QueueTyped' /\ Housed'
      OBVIOUS
    <2>1. QueueTyped' /\ Frame
      BY NextFrames DEF Frame
    <2>2. CASE UNCHANGED vars
      <3>1. UNCHANGED <<pc, job, items>>
        BY <2>2 DEF vars
      <3>2. Fresh' /\ StartsNothing
        BY <3>1 DEF Housed, Fresh, StartsNothing, UnderWay
      <3> QED
        BY <2>1, <3>1, <3>2, HousedByOperator
    <2> QED
      BY <2>1, <2>2, RunnerHouses, OperatorHouses DEF Next, Operates, Begins
  <1>3. QueueTyped /\ Housed => WorktreesAreExclusive
    <2> SUFFICES ASSUME QueueTyped, Housed PROVE WorktreesAreExclusive
      OBVIOUS
    <2>1. DOMAIN items \subseteq Ids
      BY ItemsAreIds DEF QueueTyped, Typed
    <2>2. \A i \in DOMAIN items : Calm(i, {"overlap", "chosen"}) =>
            Exclusive /\ Calm(i, {"chosen"})
      BY <2>1 DEF Housed, Serial, Calm
    <2> QED
      BY <2>2 DEF WorktreesAreExclusive, Exclusive, UnderWay
  <1> QED
    BY <1>1, <1>2, <1>3, PTL DEF Spec
-----------------------------------------------------------------------------
(* EACH TASK ONCE *)

(* The plan is the one that was synced first, by one sync at a time. *)
SamePlan == \E i \in Ids : Calm(i, {"plan", "syncs"})

(* No two items stand for one line, and each has the task of its line. *)
ItemsOfPlan ==
    /\ \A i \in DOMAIN items :
         items[i].line \in DOMAIN plan /\ items[i].text = plan[items[i].line]
    /\ \A i, j \in DOMAIN items : items[i].line = items[j].line => i = j

(* A sync has still to insert lines that no item stands for, each once.      *)
InsertsOfPlan ==
    /\ \A s \in Syncers : \A k \in DOMAIN insert[s] :
         /\ insert[s][k][1] \in DOMAIN plan /\ insert[s][k][2] = plan[insert[s][k][1]]
         /\ \A i \in DOMAIN items : items[i].line # insert[s][k][1]
         /\ \A m \in DOMAIN insert[s] : insert[s][m][1] = insert[s][k][1] => m = k
    /\ \A s, t \in Syncers : insert[s] # << >> /\ insert[t] # << >> => s = t

AsPlanned == ItemsOfPlan /\ InsertsOfPlan /\ moves = {}

Mirrored == SamePlan => AsPlanned

LEMMA SamePlanBefore ==
    ASSUME Frame, SamePlan'
    PROVE  SamePlan
  BY DEF SamePlan, Calm, Frame

LEMMA MirrorStays ==
    ASSUME Mirrored, Frame, UNCHANGED <<insert, plan, moves>>, DOMAIN items' = DOMAIN items,
           \A k \in DOMAIN items : items'[k].line = items[k].line
                                   /\ items'[k].text = items[k].text
    PROVE  Mirrored'
  <1> SUFFICES ASSUME AsPlanned PROVE AsPlanned'
    BY SamePlanBefore DEF Mirrored
  <1>1. ItemsOfPlan'
    BY DEF AsPlanned, ItemsOfPlan
  <1>2. InsertsOfPlan'
    BY DEF AsPlanned, InsertsOfPlan
  <1> QED
    BY <1>1, <1>2 DEF AsPlanned

(* What a sync finds missing has no item yet. *)
LEMMA MissingIsNew ==
    ASSUME QueueTyped, ItemsOfPlan, NEW i \in DOMAIN items
    PROVE  ~ Missing(items[i].line)
  <1> DEFINE l == items[i].line
  <1>1. {k \in DOMAIN items : items[k].line = l} = {i}
    BY DEF ItemsOfPlan
  <1>2. i \in Nat /\ i # 0
    BY ItemsAreIds, QueueAssumption DEF QueueTyped, Typed, Ids
  <1>3. Latest(l) = CHOOSE k \in {i} : \A j \in {i} : j <= k
    BY <1>1 DEF Latest
  <1>4. Latest(l) = i
    BY <1>2, <1>3
  <1> QED
    BY <1>2, <1>4 DEF Missing, ItemsOfPlan

(* No task is found on another line. *)
LEMMA NoneMoved ==
    ASSUME ItemsOfPlan, NEW i \in DOMAIN items, NEW l \in DOMAIN plan
    PROVE  ~ Moved(i, l)
  BY DEF ItemsOfPlan, Moved

LEMMA RunnerMirrors ==
    ASSUME QueueTyped, Mirrored, Frame, NEW r \in Runners,
           Step(r) \/ Die(r) \/ Begins(r)
    PROVE  Mirrored'
  <1> USE DEF QueueTyped
  <1>1. CASE UNCHANGED <<insert, plan, moves, items>>
    BY <1>1, MirrorStays
  <1>2. CASE MarkItem(r) \/ SettleItem(r)
    <2>1. /\ UNCHANGED <<insert, plan, moves>> /\ DOMAIN items' = DOMAIN items
          /\ items'[job[r].item].line = items[job[r].item].line
          /\ items'[job[r].item].text = items[job[r].item].text
          /\ \A k \in DOMAIN items : k # job[r].item => items'[k] = items[k]
      BY <1>2, MarkItemDoes, SettleItemDoes DEF Writes, MarkItem, SettleItem
    <2>2. \A k \in DOMAIN items : items'[k].line = items[k].line
                                  /\ items'[k].text = items[k].text
      BY <2>1
    <2> QED
      BY <2>1, <2>2, MirrorStays
  <1>3. (Begins(r)) \/ Die(r)
          => UNCHANGED <<insert, plan, moves, items>>
    BY DEF Begin, Die, Begins
  <1>4. Step(r) => MarkItem(r) \/ SettleItem(r) \/ UNCHANGED <<insert, plan, moves, items>>
    BY DEF Step, Select, SelectItem, StopLoop, CountRounds, Pick, Refuse, MarkNode, RunTask,
           SettleNode, CheckLetter, AddLetter
  <1> QED
    BY <1>1, <1>2, <1>3, <1>4

(* A sync that begins while no other is under way lists lines that no item   *)
(* stands for, each once.                                                    *)
LEMMA CompareMirrors ==
    ASSUME QueueTyped, Mirrored, Frame, NEW s \in Syncers, CompareWithPlan(s)
    PROVE  Mirrored'
  <1> SUFFICES ASSUME SamePlan', AsPlanned PROVE AsPlanned'
    BY SamePlanBefore DEF Mirrored
  <1>1. /\ UNCHANGED <<items, plan, moves>>
        /\ \/ UNCHANGED upset /\ \A t \in Syncers : insert[t] = << >>
           \/ upset' = upset \union (Ids \X {"syncs"})
        /\ \A t \in Syncers : t # s => insert'[t] = insert[t]
        /\ \A k \in DOMAIN insert'[s] :
             /\ insert'[s][k][1] \in DOMAIN plan /\ Missing(insert'[s][k][1])
             /\ insert'[s][k][2] = plan[insert'[s][k][1]]
             /\ \A m \in DOMAIN insert'[s] : insert'[s][m][1] = insert'[s][k][1] => m = k
    BY CompareWithPlanDoes DEF QueueTyped
  <1>2. \A t \in Syncers : t # s => insert'[t] = << >>
    <2>1. ~ (upset' = upset \union (Ids \X {"syncs"}))
      BY DEF SamePlan, Calm
    <2> QED
      BY <1>1, <2>1
  <1>3. \A i \in DOMAIN items : ~ Missing(items[i].line)
    BY MissingIsNew DEF AsPlanned
  <1>4. ItemsOfPlan'
    BY <1>1 DEF AsPlanned, ItemsOfPlan
  <1>5. ASSUME NEW t \in Syncers, NEW k \in DOMAIN insert'[t]
        PROVE  /\ insert'[t][k][1] \in DOMAIN plan /\ insert'[t][k][2] = plan[insert'[t][k][1]]
               /\ \A i \in DOMAIN items : items[i].line # insert'[t][k][1]
               /\ \A m \in DOMAIN insert'[t] : insert'[t][m][1] = insert'[t][k][1] => m = k
    <2>1. t = s
      BY <1>2, <1>5
    <2> QED
      BY <1>1, <1>3, <1>5, <2>1
  <1>6. InsertsOfPlan'
    BY <1>1, <1>2, <1>5 DEF InsertsOfPlan
  <1> QED
    BY <1>1, <1>4, <1>6 DEF AsPlanned

LEMMA RecordMirrors ==
    ASSUME QueueTyped, Mirrored, Frame, NEW s \in Syncers, RecordItem(s)
    PROVE  Mirrored'
  <1> SUFFICES ASSUME AsPlanned PROVE AsPlanned'
    BY SamePlanBefore DEF Mirrored
  <1>1. /\ UNCHANGED <<plan, moves>>
        /\ insert[s] # << >> /\ insert[s] \in Seq(Nat \X Texts)
        /\ insert'[s] = Tail(insert[s])
        /\ \A t \in Syncers : t # s => insert'[t] = insert[t]
    BY RecordItemDoes DEF QueueTyped
  <1>2. PICK n \in Ids :
          /\ n \notin DOMAIN items /\ DOMAIN items' = DOMAIN items \union {n}
          /\ \A k \in DOMAIN items : items'[k] = items[k]
          /\ items'[n].line = insert[s][1][1] /\ items'[n].text = insert[s][1][2]
    BY RecordItemDoes DEF QueueTyped
  <1>3. /\ 1 \in DOMAIN insert[s] /\ DOMAIN Tail(insert[s]) \subseteq Nat \ {0}
        /\ \A k \in DOMAIN Tail(insert[s]) :
             k + 1 \in DOMAIN insert[s] /\ Tail(insert[s])[k] = insert[s][k + 1]
    <2>1. /\ Tail(insert[s]) \in Seq(Nat \X Texts)
          /\ Len(insert[s]) \in Nat /\ Len(insert[s]) > 0
          /\ \A k \in DOMAIN Tail(insert[s]) :
               k + 1 \in DOMAIN insert[s] /\ Tail(insert[s])[k] = insert[s][k + 1]
      BY <1>1, TailCuts
    <2>2. /\ DOMAIN insert[s] = 1..Len(insert[s])
          /\ DOMAIN Tail(insert[s]) = 1..Len(Tail(insert[s]))
      BY <1>1, <2>1, LenProperties
    <2> QED
      BY <2>1, <2>2
  <1>4. /\ items'[n].line \in DOMAIN plan /\ items'[n].text = plan[items'[n].line]
        /\ \A i \in DOMAIN items : items[i].line # items'[n].line
    BY <1>2, <1>3 DEF AsPlanned, InsertsOfPlan
  <1>5. ItemsOfPlan'
    <2>1. \A i \in DOMAIN items' :
            items'[i].line \in DOMAIN plan /\ items'[i].text = plan[items'[i].line]
      BY <1>2, <1>4 DEF AsPlanned, ItemsOfPlan
    <2>2. \A i, j \in DOMAIN items' : items'[i].line = items'[j].line => i = j
      BY <1>2, <1>4 DEF AsPlanned, ItemsOfPlan
    <2> QED
      BY <1>1, <2>1, <2>2 DEF ItemsOfPlan
  <1>6. \A t \in Syncers : t # s => insert'[t] = << >>
    BY <1>1 DEF AsPlanned, InsertsOfPlan
  <1>7. ASSUME NEW k \in DOMAIN insert'[s]
        PROVE  /\ insert'[s][k][1] \in DOMAIN plan /\ insert'[s][k][2] = plan[insert'[s][k][1]]
               /\ \A i \in DOMAIN items' : items'[i].line # insert'[s][k][1]
               /\ \A m \in DOMAIN insert'[s] : insert'[s][m][1] = insert'[s][k][1] => m = k
    <2>1. /\ k \in Nat \ {0} /\ k + 1 \in DOMAIN insert[s] /\ insert'[s][k] = insert[s][k + 1]
      BY <1>1, <1>3, <1>7
    <2>2. /\ insert'[s][k][1] \in DOMAIN plan /\ insert'[s][k][2] = plan[insert'[s][k][1]]
          /\ \A i \in DOMAIN items : items[i].line # insert'[s][k][1]
          /\ \A m \in DOMAIN insert[s] : insert[s][m][1] = insert'[s][k][1] => m = k + 1
      BY <2>1 DEF AsPlanned, InsertsOfPlan
    <2>3. insert[s][1][1] # insert'[s][k][1]
      BY <1>3, <2>1, <2>2
    <2>4. \A i \in DOMAIN items' : items'[i].line # insert'[s][k][1]
      BY <1>2, <2>2, <2>3
    <2>5. ASSUME NEW m \in DOMAIN insert'[s], insert'[s][m][1] = insert'[s][k][1]
          PROVE  m = k
      <3>1. /\ m \in Nat /\ m + 1 \in DOMAIN insert[s] /\ insert'[s][m] = insert[s][m + 1]
        BY <1>1, <1>3, <2>5
      <3>2. m + 1 = k + 1
        BY <2>2, <2>5, <3>1
      <3> QED
        BY <2>1, <3>1, <3>2
    <2> QED
      BY <2>2, <2>4, <2>5
  <1>8. InsertsOfPlan'
    <2>1. ASSUME NEW t \in Syncers, NEW k \in DOMAIN insert'[t] PROVE t = s
      BY <1>6, <2>1
    <2>2. \A t, v \in Syncers : insert'[t] # << >> /\ insert'[v] # << >> => t = v
      BY <1>6
    <2>3. ASSUME NEW t \in Syncers, NEW k \in DOMAIN insert'[t]
          PROVE  /\ insert'[t][k][1] \in DOMAIN plan
                 /\ insert'[t][k][2] = plan[insert'[t][k][1]]
                 /\ \A i \in DOMAIN items' : items'[i].line # insert'[t][k][1]
                 /\ \A m \in DOMAIN insert'[t] : insert'[t][m][1] = insert'[t][k][1] => m = k
      <3>1. t = s /\ k \in DOMAIN insert'[s]
        BY <2>1, <2>3
      <3> QED
        BY <1>7, <3>1
    <2> QED
      BY <1>1, <2>2, <2>3 DEF InsertsOfPlan
  <1> QED
    BY <1>1, <1>5, <1>8 DEF AsPlanned

LEMMA OperatorMirrors ==
    ASSUME QueueTyped, Mirrored, Frame,
           \/ \E p \in Plans : EditPlan(p)
           \/ \E s \in Syncers : CompareWithPlan(s) \/ RecordItem(s) \/ StopSync(s)
           \/ ListMoves
           \/ \E i \in Ids : Operates(i)
           \/ \E to \in {"skipped", "blocked"}, ids \in SUBSET Ids : ListSweep(to, ids)
    PROVE  Mirrored'
  <1> USE DEF QueueTyped
  <1>1. ASSUME NEW i \in DOMAIN items, UNCHANGED <<insert, plan, moves>>,
               DOMAIN items' = DOMAIN items,
               items'[i].line = items[i].line, items'[i].text = items[i].text,
               \A k \in DOMAIN items : k # i => items'[k] = items[k]
        PROVE  Mirrored'
    <2>1. \A k \in DOMAIN items : items'[k].line = items[k].line
                                  /\ items'[k].text = items[k].text
      BY <1>1
    <2> QED
      BY <1>1, <2>1, MirrorStays
  <1>2. ASSUME NEW p \in Plans, EditPlan(p) PROVE Mirrored'
    <2>1. upset' = upset \union (Ids \X {"plan"})
      BY <1>2, EditPlanDoes
    <2> QED
      BY <2>1 DEF Mirrored, SamePlan, Calm
  <1>3. ASSUME NEW s \in Syncers, StopSync(s) PROVE Mirrored'
    <2> SUFFICES ASSUME AsPlanned PROVE AsPlanned'
      BY SamePlanBefore DEF Mirrored
    <2>1. /\ UNCHANGED <<items, plan, moves>> /\ insert'[s] = << >>
          /\ \A t \in Syncers : t # s => insert'[t] = insert[t]
      BY <1>3, StopSyncDoes
    <2>2. ItemsOfPlan'
      BY <2>1 DEF AsPlanned, ItemsOfPlan
    <2>3. InsertsOfPlan'
      <3>1. \A t \in Syncers : insert'[t] = << >> \/ insert'[t] = insert[t]
        BY <2>1
      <3> QED
        BY <2>1, <3>1 DEF AsPlanned, InsertsOfPlan
    <2> QED
      BY <2>1, <2>2, <2>3 DEF AsPlanned
  <1>4. CASE ListMoves
    <2>1. /\ UNCHANGED <<items, plan, insert>>
          /\ \E i \in DOMAIN items, l \in DOMAIN plan : Moved(i, l)
      BY <1>4, ListMovesDoes
    <2>2. ~ AsPlanned
      BY <2>1, NoneMoved DEF AsPlanned
    <2> QED
      BY <2>2, SamePlanBefore DEF Mirrored
  <1>5. ASSUME NEW i \in Ids, NEW line \in 1..MaxRows, RefreshRef(i, line) PROVE Mirrored'
    <2>1. moves # {}
      BY <1>5, RefreshesRow, RefreshRefDoes
    <2> QED
      BY <2>1, SamePlanBefore DEF Mirrored, AsPlanned
  <1>6. ASSUME NEW i \in Ids, SweepItem(i) PROVE Mirrored'
    <2>1. i \in DOMAIN items
      BY <1>6 DEF SweepItem, ListedOK
    <2> QED
      BY <1>1, <1>6, <2>1, SweepItemDoes DEF Writes
  <1>7. ASSUME NEW i \in Ids, Requeue(i) PROVE Mirrored'
    BY <1>1, <1>7, RequeueDoes DEF Writes, Requeue
  <1>8. ASSUME NEW i \in Ids, Skip(i) PROVE Mirrored'
    BY <1>1, <1>8, SkipDoes DEF Writes, Skip
  <1>9. ASSUME NEW i \in Ids, LinkPlanGraph(i) PROVE Mirrored'
    BY <1>1, <1>9, LinkPlanGraphDoes DEF LinkPlanGraph
  <1>10. ASSUME NEW to \in {"skipped", "blocked"}, NEW ids \in SUBSET Ids, ListSweep(to, ids)
         PROVE Mirrored'
    BY <1>10, ListSweepDoes, MirrorStays
  <1> QED
    BY <1>2, <1>3, <1>4, <1>5, <1>6, <1>7, <1>8, <1>9, <1>10, CompareMirrors, RecordMirrors
    DEF Operates

(* From the first sync of a plan on, however often it is synced again, by    *)
(* one sync at a time, and wherever a sync was stopped, a task that no plan  *)
(* lists twice is queued once, whatever became of its item, until the plan   *)
(* file is edited (sync_plan_items, _latest_plan_items_by_line,              *)
(* _same_plan_task).                                                         *)
THEOREM QueueHoldsEachTaskOnce ==
    ASSUME \A p \in Plans : \A k, l \in DOMAIN p : p[k] = p[l] => k = l
    PROVE  Spec => []QueuedOncePerPlan
  <1>1. Init => QueueTyped /\ Mirrored
    <2> SUFFICES ASSUME Init PROVE QueueTyped /\ Mirrored
      OBVIOUS
    <2>1. DOMAIN items = {} /\ QueueTyped
      BY InitTyped
    <2>2. moves = {} /\ \A s \in Syncers : insert[s] = << >>
      BY DEF Init
    <2> QED
      BY <2>1, <2>2 DEF Mirrored, AsPlanned, ItemsOfPlan, InsertsOfPlan
  <1>2. QueueTyped /\ Mirrored /\ [Next]_vars => QueueTyped' /\ Mirrored'
    <2> SUFFICES ASSUME QueueTyped, Mirrored, [Next]_vars PROVE QueueTyped' /\ Mirrored'
      OBVIOUS
    <2>1. QueueTyped' /\ Frame
      BY NextFrames DEF Frame
    <2>2. CASE UNCHANGED vars
      BY <2>1, <2>2, MirrorStays DEF vars
    <2> QED
      BY <2>1, <2>2, RunnerMirrors, OperatorMirrors DEF Next, Operates, Begins
  <1>3. QueueTyped /\ Mirrored => QueuedOncePerPlan
    <2> SUFFICES ASSUME QueueTyped, Mirrored, NEW i \in DOMAIN items, NEW j \in DOMAIN items,
                        Calm(i, {"plan", "syncs"}), items[i].text = items[j].text
                 PROVE  i = j
      BY DEF QueuedOncePerPlan
    <2>1. i \in Ids
      BY ItemsAreIds DEF QueueTyped, Typed
    <2>2. ItemsOfPlan
      BY <2>1 DEF Mirrored, SamePlan, AsPlanned
    <2>3. plan \in Plans
      BY StateTyped DEF QueueTyped
    <2> QED
      BY <2>2, <2>3 DEF ItemsOfPlan
  <1> QED
    BY <1>1, <1>2, <1>3, PTL DEF Spec
=============================================================================

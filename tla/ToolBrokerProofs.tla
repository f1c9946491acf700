-------------------------- MODULE ToolBrokerProofs --------------------------
(***************************************************************************)
(* Proofs about ToolBroker, for any number of brokers, calls, requests,    *)
(* retries, decisions and edits of the policy.                             *)
(***************************************************************************)
EXTENDS ToolBroker, TLAPS

(* An operator approved request i, and it is a request of w.                 *)
Known(i, w) == i \in approved /\ i \in DOMAIN requests /\ requests[i].work = w

(* What a broker knows of the call it works on, from step to step.           *)
BrokerOK(b) ==
    /\ pc[b] # "idle" => job[b].key \in Keys
    /\ job[b].result # "started"
    /\ pc[b] = "find" => Known(job[b].id, job[b].key.work)
    /\ pc[b] \notin {"idle", "find"} /\ IsRetry(job[b].key) =>
         job[b].id = Approval(job[b].key) /\ Known(job[b].id, job[b].key.work)
    /\ pc[b] \in {"deny", "count"} => IsRetry(job[b].key)
    /\ pc[b] \in {"request", "link"} => ~ IsRetry(job[b].key)
    /\ pc[b] = "record" =>
         /\ class[job[b].key.work] = "dangerous" => job[b].verdict = "deny"
         /\ IsRetry(job[b].key) \/ class[job[b].key.work] # "command"
    /\ pc[b] = "execute" =>
         /\ class[job[b].key.work] # "dangerous"
         /\ IsRetry(job[b].key) \/ class[job[b].key.work] = "read"
         /\ <<job[b].key, "started">> \in log

(* Authorised is not inductive alone: that an approval is there when the     *)
(* executor runs was established two writes and one policy check before.     *)
BrokerInv ==
    /\ TypeOK /\ Authorised
    /\ approved \subseteq DOMAIN requests
    /\ \A i \in DOMAIN requests : requests[i].status = "approved" => i \in approved
    /\ \A b \in Brokers : BrokerOK(b)

(* What no step takes back.                                                  *)
Grows ==
    /\ class' = class /\ approved \subseteq approved' /\ log \subseteq log'
    /\ DOMAIN requests \subseteq DOMAIN requests'
    /\ \A i \in DOMAIN requests : requests'[i].work = requests[i].work

LEMMA KnownStays ==
    ASSUME Grows, NEW i, NEW w, Known(i, w) PROVE Known(i, w)'
  BY DEF Grows, Known

LEMMA OthersStay ==
    ASSUME Grows, NEW b \in Brokers, BrokerOK(b), pc'[b] = pc[b], job'[b] = job[b]
    PROVE  BrokerOK(b)'
  BY KnownStays DEF BrokerOK, Grows, Known, IsRetry, Approval

LEMMA AuthorisedStays ==
    ASSUME BrokerInv, Grows, UNCHANGED effects PROVE Authorised'
  BY DEF BrokerInv, Authorised, Grows, IsRetry, Approval

LEMMA InvByParts ==
    ASSUME BrokerInv, Grows, TypeOK', UNCHANGED effects, approved' \subseteq DOMAIN requests',
           \A i \in DOMAIN requests' : requests'[i].status = "approved" => i \in approved',
           NEW b \in Brokers, BrokerOK(b)',
           \A c \in Brokers \ {b} : pc'[c] = pc[c] /\ job'[c] = job[c]
    PROVE  BrokerInv'
  BY OthersStay, AuthorisedStays DEF BrokerInv

LEMMA Paths ==
    /\ \A k \in Keys : k.work \in Works /\ k.path \in Seq(Ids) /\ Len(k.path) <= MaxDepth
    /\ \A k \in Keys : IsRetry(k) => Approval(k) \in Ids
    /\ \A w \in Works : Key(w, << >>) \in Keys /\ ~ IsRetry(Key(w, << >>))
    /\ \A w \in Works, k \in Keys, i \in Ids :
         Len(k.path) < MaxDepth =>
           /\ Key(w, Append(k.path, i)) \in Keys
           /\ IsRetry(Key(w, Append(k.path, i))) /\ Approval(Key(w, Append(k.path, i))) = i
    /\ \A w \in Works, i \in Ids :
         0 < MaxDepth => /\ Key(w, Append(<< >>, i)) \in Keys
                         /\ IsRetry(Key(w, Append(<< >>, i)))
                         /\ Approval(Key(w, Append(<< >>, i))) = i
  <1> USE BrokerAssumption
  <1>1. ASSUME NEW k \in Keys
        PROVE  k.work \in Works /\ k.path \in Seq(Ids) /\ Len(k.path) <= MaxDepth
    <2>1. PICK n \in 0..MaxDepth : k.path \in [1..n -> Ids]
      BY DEF Keys
    <2> QED
      BY <2>1 DEF Keys
  <1>2. ASSUME NEW s \in Seq(Ids), Len(s) <= MaxDepth, NEW w \in Works
        PROVE  Key(w, s) \in Keys
    <2>1. s \in [1..Len(s) -> Ids] /\ Len(s) \in 0..MaxDepth
      BY <1>2
    <2> QED
      BY <2>1 DEF Key, Keys
  <1>3. ASSUME NEW s \in Seq(Ids), NEW i \in Ids, NEW w \in Works, Len(s) < MaxDepth
        PROVE  /\ Key(w, Append(s, i)) \in Keys
               /\ IsRetry(Key(w, Append(s, i))) /\ Approval(Key(w, Append(s, i))) = i
    <2>1. Append(s, i) \in Seq(Ids) /\ Len(Append(s, i)) = Len(s) + 1
          /\ Append(s, i)[Len(s) + 1] = i
      OBVIOUS
    <2>2. Append(s, i) # << >>
      BY <2>1
    <2> QED
      BY <1>2, <1>3, <2>1, <2>2, SMTT(30) DEF Key, IsRetry, Approval
  <1>4. ASSUME NEW k \in Keys, IsRetry(k) PROVE Approval(k) \in Ids
    <2>1. Len(k.path) \in 1..Len(k.path)
      BY <1>1, <1>4 DEF IsRetry
    <2> QED
      BY <1>1, <2>1 DEF Approval
  <1>5. << >> \in Seq(Ids) /\ Len(<< >>) = 0
    OBVIOUS
  <1>6. ASSUME NEW w \in Works
        PROVE  Key(w, << >>) \in Keys /\ ~ IsRetry(Key(w, << >>))
    <2>1. Len(<< >>) <= MaxDepth
      BY <1>5
    <2>2. Key(w, << >>) \in Keys
      BY <1>2, <1>5, <2>1
    <2> QED
      BY <2>2 DEF Key, IsRetry
  <1>7. ASSUME NEW w \in Works, NEW k \in Keys, NEW i \in Ids, Len(k.path) < MaxDepth
        PROVE  /\ Key(w, Append(k.path, i)) \in Keys
               /\ IsRetry(Key(w, Append(k.path, i))) /\ Approval(Key(w, Append(k.path, i))) = i
    BY <1>1, <1>3, <1>7
  <1>8. ASSUME NEW w \in Works, NEW i \in Ids, 0 < MaxDepth
        PROVE  /\ Key(w, Append(<< >>, i)) \in Keys
               /\ IsRetry(Key(w, Append(<< >>, i))) /\ Approval(Key(w, Append(<< >>, i))) = i
    <2>1. Len(<< >>) < MaxDepth
      BY <1>5, <1>8
    <2> QED
      BY <1>3, <1>5, <2>1
  <1> HIDE BrokerAssumption
  <1> QED
    BY <1>1, <1>4, <1>6, <1>7, <1>8

LEMMA RequestsType ==
    ASSUME TypeOK
    PROVE  /\ Len(requests) \in Nat /\ DOMAIN requests = 1..Len(requests)
           /\ DOMAIN requests \subseteq Ids
           /\ \A i \in DOMAIN requests : requests[i] \in Requests
  BY BrokerAssumption DEF TypeOK, Ids

LEMMA InvByOperator ==
    ASSUME BrokerInv, Grows, TypeOK', UNCHANGED <<effects, pc, job>>,
           approved' \subseteq DOMAIN requests',
           \A i \in DOMAIN requests' : requests'[i].status = "approved" => i \in approved'
    PROVE  BrokerInv'
  BY OthersStay, AuthorisedStays DEF BrokerInv

(* Len(requests) + 1 is the id of the request appended.                      *)
LEMMA NewRequestGrows ==
    ASSUME BrokerInv, NEW w \in Works, NewRequest(w),
           UNCHANGED <<class, approved, log>>
    PROVE  /\ Grows /\ Len(requests) + 1 \in Ids
           /\ requests' \in Seq(Requests) /\ Len(requests') <= MaxRequests
           /\ approved' \subseteq DOMAIN requests'
           /\ \A i \in DOMAIN requests' : requests'[i].status = "approved" => i \in approved'
  <1> DEFINE r == [work |-> w, status |-> "pending", retries |-> 0, last |-> "none"]
  <1>1. r \in Requests /\ r.status # "approved"
    BY DEF Requests
  <1>2. requests \in Seq(Requests) /\ Len(requests) < MaxRequests /\ requests' = Append(requests, r)
    BY DEF BrokerInv, TypeOK, NewRequest
  <1> HIDE DEF r
  <1>3. /\ Len(requests') = Len(requests) + 1 /\ Len(requests) \in Nat
        /\ requests'[Len(requests) + 1] = r
        /\ \A i \in 1..Len(requests) : requests'[i] = requests[i]
        /\ DOMAIN requests = 1..Len(requests) /\ DOMAIN requests' = 1..Len(requests')
        /\ requests' \in Seq(Requests)
    BY <1>1, <1>2
  <1>4. Grows
    BY <1>3 DEF Grows
  <1>5. \A i \in DOMAIN requests' : requests'[i].status = "approved" => i \in approved'
    BY <1>1, <1>3 DEF BrokerInv
  <1>6. Len(requests) + 1 \in Ids /\ Len(requests') <= MaxRequests
    BY <1>2, <1>3, BrokerAssumption DEF Ids
  <1> QED
    BY <1>3, <1>4, <1>5, <1>6 DEF BrokerInv

LEMMA InitInv == ASSUME Init PROVE BrokerInv
  <1>1. /\ rows \in [Keys -> Rows \union {Absent}]
        /\ recovery \subseteq Keys /\ log \subseteq Keys \X Suffixes
        /\ effects \in [Keys -> Nat]
    BY DEF Init
  <1>2. requests \in Seq(Requests) /\ Len(requests) <= MaxRequests /\ DOMAIN requests = {}
    BY BrokerAssumption DEF Init
  <1>3. job \in [Brokers -> Jobs]
    BY BrokerAssumption DEF Init, NoJob, Jobs, Verdicts, Statuses
  <1>4. class \in [Works -> {"read", "risky", "dangerous", "command"}] /\ policy \in [Works -> Verdicts]
    BY WorkAssumption DEF Init, Verdicts
  <1>5. used \in [calls : 0..MaxCalls, edits : 0..MaxEdits,
                  decisions : 0..MaxDecisions, sweeps : 0..MaxSweeps]
    BY BrokerAssumption DEF Init
  <1>6. TypeOK
    BY <1>1, <1>2, <1>3, <1>4, <1>5 DEF Init, TypeOK
  <1>7. Authorised
    BY DEF Init, Authorised
  <1>8. \A b \in Brokers : BrokerOK(b)
    BY DEF Init, BrokerOK, NoJob
  <1> QED
    BY <1>2, <1>6, <1>7, <1>8 DEF Init, BrokerInv

(* The bounds are kept, whichever of them a step counts.                     *)
LEMMA BudgetType ==
    ASSUME TypeOK,
           \/ Budget("calls", MaxCalls) \/ Budget("edits", MaxEdits)
           \/ Budget("decisions", MaxDecisions) \/ Budget("sweeps", MaxSweeps)
    PROVE  used' \in [calls : 0..MaxCalls, edits : 0..MaxEdits,
                      decisions : 0..MaxDecisions, sweeps : 0..MaxSweeps]
  <1> USE BrokerAssumption
  <1>1. used \in [calls : 0..MaxCalls, edits : 0..MaxEdits,
                  decisions : 0..MaxDecisions, sweeps : 0..MaxSweeps]
    BY DEF TypeOK
  <1>2. CASE Budget("calls", MaxCalls)
    BY <1>1, <1>2 DEF Budget
  <1>3. CASE Budget("edits", MaxEdits)
    BY <1>1, <1>3 DEF Budget
  <1>4. CASE Budget("decisions", MaxDecisions)
    BY <1>1, <1>4 DEF Budget
  <1>5. CASE Budget("sweeps", MaxSweeps)
    BY <1>1, <1>5 DEF Budget
  <1> QED
    BY <1>2, <1>3, <1>4, <1>5

LEMMA KeyFields == \A w, p : Key(w, p).work = w /\ Key(w, p).path = p
  BY DEF Key

(* The values of the control state.                                          *)
Labels == {"idle", "find", "record", "request", "link", "execute", "complete", "deny", "count"}

LEMMA LabelsType == TypeOK => pc \in [Brokers -> Labels]
  BY DEF TypeOK, Labels

LEMMA JobType ==
    ASSUME TypeOK, NEW b \in Brokers, NEW j \in Jobs, job' = [job EXCEPT ![b] = j]
    PROVE  job' \in [Brokers -> Jobs] /\ job'[b] = j /\ \A c \in Brokers \ {b} : job'[c] = job[c]
  BY DEF TypeOK

LEMMA VerdictType == \A w \in Works : TypeOK => Verdict(w) \in Verdicts
  BY DEF TypeOK, Verdict, Verdicts
-----------------------------------------------------------------------------
(* One lemma per action. *)

LEMMA CallInv ==
    ASSUME BrokerInv, NEW b \in Brokers, NEW w \in Works, Call(b, w) PROVE BrokerInv'
  <1>1. Grows
    BY DEF Call, Grows
  <1>2. job'[b] = [key |-> Key(w, << >>), id |-> 0, verdict |-> Verdict(w), result |-> "failed"]
        /\ pc'[b] = "record" /\ \A c \in Brokers \ {b} : pc'[c] = pc[c] /\ job'[c] = job[c]
    BY DEF BrokerInv, TypeOK, Call, Enter, Goto
  <1>3. BrokerOK(b)'
    <2>1. job'[b].key = Key(w, << >>) /\ job'[b].verdict = Verdict(w) /\ job'[b].result = "failed"
      BY <1>2
    <2>2. /\ Key(w, << >>) \in Keys /\ Key(w, << >>).work = w /\ ~ IsRetry(Key(w, << >>))
          /\ class'[w] = "dangerous" => Verdict(w) = "deny"
          /\ class'[w] # "command"
      BY Paths, KeyFields DEF Call, Verdict
    <2> QED
      BY <1>2, <2>1, <2>2 DEF BrokerOK
  <1>4. TypeOK'
    <2>1. job' \in [Brokers -> Jobs]
      <3>1. [key |-> Key(w, << >>), id |-> 0, verdict |-> Verdict(w), result |-> "failed"] \in Jobs
        BY Paths, VerdictType, BrokerAssumption DEF BrokerInv, Jobs, Statuses
      <3> QED
        BY <3>1, JobType DEF Call, Enter, BrokerInv
    <2>2. upset' \subseteq Works \X {"death", "rival", "recovery"}
      BY DEF Call, Enter, BrokerInv, TypeOK, Upset, Key
    <2>3. pc' \in [Brokers -> {"idle", "find", "record", "request", "link", "execute",
                               "complete", "deny", "count"}]
      BY DEF Call, Enter, Goto, BrokerInv, TypeOK
    <2> QED
      BY <2>1, <2>2, <2>3, BudgetType DEF Call, Enter, BrokerInv, TypeOK
  <1> QED
    BY <1>1, <1>2, <1>3, <1>4, InvByParts DEF Call, BrokerInv

LEMMA RetryInv ==
    ASSUME BrokerInv, NEW b \in Brokers, NEW i \in Ids, Retry(b, i) PROVE BrokerInv'
  <1> DEFINE k == Key(requests[i].work, << >>)
  <1>1. Grows
    BY DEF Retry, Grows
  <1>2. job'[b] = [key |-> k, id |-> i, verdict |-> "allow", result |-> "failed"]
        /\ pc'[b] = "find" /\ \A c \in Brokers \ {b} : pc'[c] = pc[c] /\ job'[c] = job[c]
    BY DEF BrokerInv, TypeOK, Retry, Enter, Goto
  <1>3. requests[i].work \in Works
    BY RequestsType DEF BrokerInv, Retry, Requests
  <1>4. Known(i, requests[i].work)'
    BY DEF Known, BrokerInv, Retry
  <1>5. k \in Keys /\ k.work = requests[i].work
    BY <1>3, Paths DEF Key
  <1>6. BrokerOK(b)'
    <2>1. job'[b].key = k /\ job'[b].id = i /\ job'[b].result = "failed"
      BY <1>2
    <2>2. /\ job'[b].id \in approved' /\ job'[b].id \in DOMAIN requests'
          /\ requests'[job'[b].id].work = job'[b].key.work
      BY <1>4, <1>5, <2>1 DEF Retry, Known
    <2> HIDE DEF k
    <2> QED
      BY <1>2, <1>5, <2>1, <2>2 DEF BrokerOK, Known
  <1>7. TypeOK'
    <2>1. job' \in [Brokers -> Jobs]
      BY <1>2, <1>5, BrokerAssumption
      DEF Retry, Enter, BrokerInv, TypeOK, Jobs, Statuses, Verdicts, Ids
    <2>2. upset' \subseteq Works \X {"death", "rival", "recovery"}
      BY <1>3, <1>5 DEF Retry, Enter, BrokerInv, TypeOK, Upset
    <2>3. pc' \in [Brokers -> {"idle", "find", "record", "request", "link", "execute",
                               "complete", "deny", "count"}]
      BY DEF Retry, Enter, Goto, BrokerInv, TypeOK
    <2> QED
      BY <2>1, <2>2, <2>3, BudgetType DEF Retry, Enter, BrokerInv, TypeOK
  <1> QED
    BY <1>1, <1>2, <1>6, <1>7, InvByParts DEF Retry, BrokerInv

LEMMA FindInv ==
    ASSUME BrokerInv, NEW b \in Brokers, Find(b) PROVE BrokerInv'
  <1>1. Grows
    BY DEF Find, Grows
  <1>2. PICK i \in Ids, w \in Works : i = job[b].id /\ w = job[b].key.work /\ Known(i, w)
    BY Paths, RequestsType DEF BrokerInv, BrokerOK, Find, Known
  <1>3. CASE RetriedPath(w, i) = {} /\ Goto(b, "idle") /\ UNCHANGED job
    <2>1. TypeOK'
      BY <1>3 DEF Find, Goto, BrokerInv, TypeOK
    <2>2. BrokerOK(b)' /\ \A c \in Brokers \ {b} : pc'[c] = pc[c] /\ job'[c] = job[c]
      BY <1>3 DEF BrokerInv, BrokerOK, TypeOK, Goto
    <2> QED
      BY <1>1, <2>1, <2>2, InvByParts DEF Find, BrokerInv
  <1>4. ASSUME NEW path \in RetriedPath(w, i),
               job' = [job EXCEPT ![b].key = Key(w, Append(path, i)), ![b].verdict = Verdict(w)],
               Goto(b, "record")
        PROVE  BrokerInv'
    <2> DEFINE k == Key(w, Append(path, i))
    <2>1. Len(path) < MaxDepth
      BY <1>2, <1>4 DEF Find
    <2>2. k \in Keys /\ IsRetry(k) /\ Approval(k) = i
      <3>1. CASE class[w] = "command"
        <4>1. path = << >> /\ 0 < MaxDepth
          BY <2>1, <3>1, <1>4 DEF RetriedPath
        <4> QED
          BY <1>2, <4>1, Paths
      <3>2. CASE class[w] # "command"
        <4>1. PICK m \in Keys : path = m.path
          BY <3>2, <1>4 DEF RetriedPath, LinkedTo
        <4> QED
          BY <1>2, <2>1, <4>1, Paths
      <3> QED
        BY <3>1, <3>2
    <2>3. k.work = w
      BY KeyFields
    <2>4. job'[b].key = k /\ job'[b].id = i /\ job'[b].verdict = Verdict(w)
          /\ job'[b].result = job[b].result /\ job' \in [Brokers -> Jobs]
          /\ pc'[b] = "record" /\ \A c \in Brokers \ {b} : pc'[c] = pc[c] /\ job'[c] = job[c]
      <3> HIDE DEF k
      <3>1. job[b] \in Jobs /\ job \in [Brokers -> Jobs] /\ pc \in [Brokers -> {"idle", "find",
               "record", "request", "link", "execute", "complete", "deny", "count"}]
        BY DEF BrokerInv, TypeOK
      <3>2. k \in Keys /\ Verdict(w) \in Verdicts
        BY <1>2, <2>2, VerdictType DEF BrokerInv
      <3>3. job' = [job EXCEPT ![b] = [job[b] EXCEPT !.key = k, !.verdict = Verdict(w)]]
        BY <1>4 DEF k
      <3>4. [job[b] EXCEPT !.key = k, !.verdict = Verdict(w)] \in Jobs
        BY <3>1, <3>2 DEF Jobs
      <3>5. job' \in [Brokers -> Jobs] /\ job'[b] = [job[b] EXCEPT !.key = k, !.verdict = Verdict(w)]
            /\ \A c \in Brokers \ {b} : job'[c] = job[c]
        BY <3>3, <3>4, JobType DEF BrokerInv
      <3>6. pc'[b] = "record" /\ \A c \in Brokers \ {b} : pc'[c] = pc[c]
        BY <1>4, <3>1 DEF Goto
      <3>7. job[b].result = job'[b].result /\ job'[b].key = k /\ job'[b].id = i
            /\ job'[b].verdict = Verdict(w)
        BY <1>2, <3>1, <3>5 DEF Jobs
      <3> QED
        BY <3>5, <3>6, <3>7
    <2>5. Known(i, w)' /\ (class[w] = "dangerous" => Verdict(w) = "deny")
      BY <1>1, <1>2, KnownStays DEF Verdict
    <2>6. BrokerOK(b)'
      <3> HIDE DEF k
      <3>1. job[b].result # "started"
        BY DEF BrokerInv, BrokerOK
      <3> QED
        BY <1>1, <2>2, <2>3, <2>4, <2>5, <3>1 DEF BrokerOK, Grows, Known
    <2>7. TypeOK'
      <3>1. job' \in [Brokers -> Jobs]
        BY <2>4
      <3>2. pc' \in [Brokers -> {"idle", "find", "record", "request", "link", "execute",
                                 "complete", "deny", "count"}]
        BY <1>4 DEF Goto, BrokerInv, TypeOK
      <3> QED
        BY <3>1, <3>2 DEF Find, BrokerInv, TypeOK
    <2> QED
      BY <1>1, <2>4, <2>6, <2>7, InvByParts DEF Find, BrokerInv
  <1> QED
    BY <1>2, <1>3, <1>4 DEF Find
LEMMA RecordDeniedInv ==
    ASSUME BrokerInv, NEW b \in Brokers, RecordDenied(b) PROVE BrokerInv'
  <1> DEFINE k == job[b].key
  <1>1. k \in Keys /\ pc[b] = "record" /\ BrokerOK(b)
    BY DEF BrokerInv, BrokerOK, RecordDenied
  <1>2. Grows
    BY DEF RecordDenied, Announce, Grows
  <1>3. \A c \in Brokers \ {b} : pc'[c] = pc[c] /\ job'[c] = job[c]
    BY DEF RecordDenied, Goto, BrokerInv, TypeOK
  <1>4. job' = job /\ pc'[b] = (IF IsRetry(k) THEN "deny" ELSE "idle")
    BY DEF RecordDenied, Goto, BrokerInv, TypeOK
  <1>5. BrokerOK(b)'
    BY <1>1, <1>2, <1>4 DEF BrokerOK, Grows, Known, IsRetry, Approval
  <1>6. TypeOK'
    <2>1. rows' \in [Keys -> Rows \union {Absent}]
      <3>1. \E l \in 0..MaxRequests : RecordAction(k, "policy_denied", l)
        BY <1>1, Paths, BrokerAssumption DEF RecordDenied, Ids
      <3> QED
        BY <1>1, <3>1 DEF RecordAction, BrokerInv, TypeOK, Rows, Statuses
    <2>2. log' \subseteq Keys \X Suffixes
      BY <1>1 DEF RecordDenied, Announce, BrokerInv, TypeOK, Suffixes
    <2>3. pc' \in [Brokers -> {"idle", "find", "record", "request", "link", "execute",
                               "complete", "deny", "count"}]
      BY DEF RecordDenied, Goto, BrokerInv, TypeOK
    <2> QED
      BY <2>1, <2>2, <2>3 DEF RecordDenied, BrokerInv, TypeOK
  <1> QED
    BY <1>2, <1>3, <1>5, <1>6, InvByParts DEF RecordDenied, BrokerInv

LEMMA RecordBlockedInv ==
    ASSUME BrokerInv, NEW b \in Brokers, RecordBlocked(b) PROVE BrokerInv'
  <1> DEFINE k == job[b].key
  <1>1. k \in Keys /\ ~ IsRetry(k) /\ BrokerOK(b)
    BY DEF BrokerInv, BrokerOK, RecordBlocked, NeedsApproval
  <1>2. Grows
    BY DEF RecordBlocked, Announce, Grows
  <1>3. rows[k].link \in 0..MaxRequests /\ job[b] \in Jobs
    BY <1>1, BrokerAssumption DEF BrokerInv, TypeOK, Rows, Absent
  <1>4. /\ [job[b] EXCEPT !.id = rows[k].link] \in Jobs
        /\ job' = [job EXCEPT ![b] = [job[b] EXCEPT !.id = rows[k].link]]
    BY <1>3 DEF Jobs, RecordBlocked
  <1>5. /\ job' \in [Brokers -> Jobs] /\ job'[b] = [job[b] EXCEPT !.id = rows[k].link]
        /\ \A c \in Brokers \ {b} : job'[c] = job[c]
    BY <1>4, JobType DEF BrokerInv
  <1>6. /\ pc'[b] \in {"request", "link"} /\ \A c \in Brokers \ {b} : pc'[c] = pc[c]
        /\ pc' \in [Brokers -> {"idle", "find", "record", "request", "link", "execute",
                                "complete", "deny", "count"}]
    BY DEF RecordBlocked, Goto, BrokerInv, TypeOK
  <1>7. job'[b].key = k /\ job'[b].result = job[b].result
    BY <1>3, <1>5 DEF Jobs
  <1>8. BrokerOK(b)'
    <2> HIDE DEF k
    <2> QED
      BY <1>1, <1>6, <1>7 DEF BrokerOK
  <1>9. TypeOK'
    <2>1. rows' \in [Keys -> Rows \union {Absent}]
      BY <1>1, BrokerAssumption
      DEF RecordBlocked, RecordAction, BrokerInv, TypeOK, Rows, Statuses
    <2>2. log' \subseteq Keys \X Suffixes
      BY <1>1 DEF RecordBlocked, Announce, BrokerInv, TypeOK, Suffixes
    <2> QED
      BY <1>5, <1>6, <2>1, <2>2 DEF RecordBlocked, BrokerInv, TypeOK
  <1> QED
    BY <1>2, <1>5, <1>6, <1>8, <1>9, InvByParts DEF RecordBlocked, BrokerInv

LEMMA CreateRequestInv ==
    ASSUME BrokerInv, NEW b \in Brokers, CreateRequest(b) PROVE BrokerInv'
  <1> DEFINE k == job[b].key
             n == Len(requests) + 1
  <1>1. k \in Keys /\ k.work \in Works /\ BrokerOK(b)
    BY Paths DEF BrokerInv, BrokerOK, CreateRequest
  <1>2. Grows /\ n \in Ids /\ requests' \in Seq(Requests) /\ Len(requests') <= MaxRequests
        /\ approved' \subseteq DOMAIN requests'
        /\ \A i \in DOMAIN requests' : requests'[i].status = "approved" => i \in approved'
    BY <1>1, NewRequestGrows DEF CreateRequest
  <1>3. [job[b] EXCEPT !.id = n] \in Jobs /\ job' = [job EXCEPT ![b] = [job[b] EXCEPT !.id = n]]
    <2>1. job[b] \in Jobs /\ n \in 0..MaxRequests
      BY <1>2, BrokerAssumption DEF Ids, BrokerInv, TypeOK
    <2>2. job' = [job EXCEPT ![b].id = n]
      BY DEF CreateRequest
    <2> HIDE DEF n
    <2> QED
      BY <2>1, <2>2 DEF Jobs
  <1>4. /\ job' \in [Brokers -> Jobs] /\ job'[b] = [job[b] EXCEPT !.id = n]
        /\ \A c \in Brokers \ {b} : job'[c] = job[c]
    BY <1>3, JobType DEF BrokerInv
  <1>5. /\ pc'[b] = "link" /\ \A c \in Brokers \ {b} : pc'[c] = pc[c]
        /\ pc' \in [Brokers -> {"idle", "find", "record", "request", "link", "execute",
                                "complete", "deny", "count"}]
    BY DEF CreateRequest, Goto, BrokerInv, TypeOK
  <1>6. TypeOK'
    BY <1>2, <1>4, <1>5 DEF CreateRequest, BrokerInv, TypeOK
  <1>7. job'[b].key = k /\ job'[b].result = job[b].result /\ job[b] \in Jobs
    BY <1>4 DEF BrokerInv, TypeOK, Jobs
  <1>8. ~ IsRetry(k)
    BY <1>1 DEF BrokerOK, CreateRequest
  <1>9. BrokerOK(b)'
    <2> HIDE DEF k, n
    <2> QED
      BY <1>1, <1>5, <1>7, <1>8 DEF BrokerOK, k
  <1> QED
    BY <1>2, <1>4, <1>5, <1>6, <1>9, InvByParts DEF CreateRequest, BrokerInv
LEMMA LinkRequestInv ==
    ASSUME BrokerInv, NEW b \in Brokers, LinkRequest(b) PROVE BrokerInv'
  <1>1. job[b].key \in Keys /\ BrokerOK(b) /\ job[b].id \in 0..MaxRequests
    BY DEF BrokerInv, BrokerOK, LinkRequest, TypeOK, Jobs
  <1>2. Grows
    BY DEF LinkRequest, Grows
  <1>3. /\ pc'[b] = "idle" /\ job' = job /\ \A c \in Brokers \ {b} : pc'[c] = pc[c]
        /\ pc' \in [Brokers -> {"idle", "find", "record", "request", "link", "execute",
                                "complete", "deny", "count"}]
    BY DEF LinkRequest, Goto, BrokerInv, TypeOK
  <1>4. BrokerOK(b)'
    BY <1>1, <1>3 DEF BrokerOK
  <1>5. rows' \in [Keys -> Rows \union {Absent}]
    BY <1>1 DEF LinkRequest, CompleteAction, BrokerInv, TypeOK, Rows, Statuses
  <1>6. TypeOK'
    BY <1>3, <1>5 DEF LinkRequest, BrokerInv, TypeOK
  <1> QED
    BY <1>2, <1>3, <1>4, <1>6, InvByParts DEF LinkRequest, BrokerInv

LEMMA RecordStartedInv ==
    ASSUME BrokerInv, NEW b \in Brokers, RecordStarted(b) PROVE BrokerInv'
  <1> DEFINE k == job[b].key
  <1>1. k \in Keys /\ k.work \in Works /\ BrokerOK(b) /\ pc[b] = "record"
    BY Paths DEF BrokerInv, BrokerOK, RecordStarted, Unblocked
  <1>2. Grows
    BY DEF RecordStarted, Announce, Grows
  <1>3. /\ pc'[b] = "execute" /\ job' = job /\ \A c \in Brokers \ {b} : pc'[c] = pc[c]
        /\ pc' \in [Brokers -> {"idle", "find", "record", "request", "link", "execute",
                                "complete", "deny", "count"}]
    BY DEF RecordStarted, Goto, BrokerInv, TypeOK
  <1>4. class[k.work] # "dangerous" /\ (IsRetry(k) \/ class[k.work] = "read")
    <2>1. class[k.work] \in {"read", "risky", "dangerous", "command"}
      BY <1>1 DEF BrokerInv, TypeOK
    <2> QED
      BY <1>1, <2>1 DEF RecordStarted, Unblocked, NeedsApproval, BrokerOK
  <1>5. <<k, "started">> \in log'
    BY DEF RecordStarted, Announce
  <1>6. BrokerOK(b)'
    BY <1>1, <1>2, <1>3, <1>4, <1>5 DEF BrokerOK, Grows, Known, IsRetry, Approval
  <1>7. rows' \in [Keys -> Rows \union {Absent}]
    BY <1>1, BrokerAssumption
    DEF RecordStarted, RecordAction, BrokerInv, TypeOK, Rows, Statuses
  <1>8. log' \subseteq Keys \X Suffixes
    BY <1>1 DEF RecordStarted, Announce, BrokerInv, TypeOK, Suffixes
  <1>9. TypeOK'
    BY <1>3, <1>7, <1>8 DEF RecordStarted, BrokerInv, TypeOK
  <1> QED
    BY <1>2, <1>3, <1>6, <1>9, InvByParts DEF RecordStarted, BrokerInv

LEMMA ReplayInv ==
    ASSUME BrokerInv, NEW b \in Brokers, Replay(b) PROVE BrokerInv'
  <1> DEFINE k == job[b].key
             j == [job[b] EXCEPT !.result = rows[k].status]
  <1>1. k \in Keys /\ BrokerOK(b) /\ pc[b] = "record"
    BY DEF BrokerInv, BrokerOK, Replay, Unblocked
  <1>2. Grows
    BY DEF Replay, Announce, Grows
  <1>3. rows[k].status \in Statuses \ {"started"}
    BY <1>1 DEF BrokerInv, TypeOK, Replay, Rows, Absent
  <1>4. j \in Jobs /\ j.key = k /\ j.id = job[b].id /\ j.result # "started"
    BY <1>3, ZenonT(40) DEF BrokerInv, TypeOK, Jobs
  <1>5. /\ job' \in [Brokers -> Jobs] /\ job'[b] = j
        /\ \A c \in Brokers \ {b} : job'[c] = job[c]
    BY <1>4, JobType DEF BrokerInv, Replay
  <1>6. /\ pc'[b] = (IF IsRetry(k) THEN "count" ELSE "idle")
        /\ \A c \in Brokers \ {b} : pc'[c] = pc[c]
        /\ pc' \in [Brokers -> {"idle", "find", "record", "request", "link", "execute",
                                "complete", "deny", "count"}]
    BY DEF Replay, Goto, BrokerInv, TypeOK
  <1>7. BrokerOK(b)'
    <2>1. job'[b].key = k /\ job'[b].id = job[b].id /\ job'[b].result # "started"
      BY <1>4, <1>5
    <2> QED
      BY <1>1, <1>2, <1>6, <2>1 DEF BrokerOK, Grows, Known, IsRetry, Approval
  <1>8. log' \subseteq Keys \X Suffixes
    BY <1>1 DEF Replay, Announce, BrokerInv, TypeOK, Suffixes
  <1>9. TypeOK'
    BY <1>5, <1>6, <1>8 DEF Replay, BrokerInv, TypeOK
  <1> QED
    BY <1>2, <1>5, <1>6, <1>7, <1>9, InvByParts DEF Replay, BrokerInv

(* The only step that runs anything.                                         *)
LEMMA ExecuteInv ==
    ASSUME BrokerInv, NEW b \in Brokers, Execute(b) PROVE BrokerInv'
  <1>1. PICK s \in ExecutorResults : job' = [job EXCEPT ![b].result = s]
    BY DEF Execute
  <1> DEFINE k == job[b].key
             j == [job[b] EXCEPT !.result = s]
  <1>2. k \in Keys /\ BrokerOK(b) /\ pc[b] = "execute"
    BY DEF BrokerInv, BrokerOK, Execute
  <1>3. j \in Jobs /\ j.key = k /\ j.id = job[b].id /\ j.result # "started"
    BY DEF BrokerInv, TypeOK, Jobs, ExecutorResults, Statuses
  <1>4. /\ job' \in [Brokers -> Jobs] /\ job'[b] = j
        /\ \A c \in Brokers \ {b} : job'[c] = job[c]
    BY <1>1, <1>3, JobType DEF BrokerInv
  <1>5. /\ pc'[b] = "complete" /\ \A c \in Brokers \ {b} : pc'[c] = pc[c]
        /\ pc' \in [Brokers -> {"idle", "find", "record", "request", "link", "execute",
                                "complete", "deny", "count"}]
    BY DEF Execute, Goto, BrokerInv, TypeOK
  <1>6. Grows
    BY DEF Execute, Grows
  <1>7. BrokerOK(b)'
    <2>1. job'[b].key = k /\ job'[b].id = job[b].id /\ job'[b].result # "started"
      BY <1>3, <1>4
    <2> QED
      BY <1>2, <1>5, <1>6, <2>1 DEF BrokerOK, Grows, Known, IsRetry, Approval
  <1>8. effects' \in [Keys -> Nat]
    BY <1>2 DEF Execute, BrokerInv, TypeOK
  <1>9. TypeOK'
    BY <1>4, <1>5, <1>8 DEF Execute, BrokerInv, TypeOK
  <1>10. Authorised'
    <2>1. ASSUME NEW m \in Keys, m # k, effects'[m] > 0 PROVE effects[m] > 0
      BY <1>2, <2>1 DEF Execute, BrokerInv, TypeOK
    <2>2. /\ class[k.work] # "dangerous" /\ <<k, "started">> \in log
          /\ class[k.work] # "read" => IsRetry(k)
          /\ IsRetry(k) => Approval(k) \in approved /\ requests[Approval(k)].work = k.work
      BY <1>2 DEF BrokerOK, Known
    <2> HIDE DEF k
    <2> QED
      BY <2>1, <2>2 DEF Authorised, Execute, BrokerInv, IsRetry, Approval
  <1> QED
    BY <1>4, <1>5, <1>6, <1>7, <1>9, <1>10, OthersStay DEF Execute, BrokerInv
LEMMA CompleteInv ==
    ASSUME BrokerInv, NEW b \in Brokers, Complete(b) PROVE BrokerInv'
  <1> DEFINE k == job[b].key
  <1>1. k \in Keys /\ BrokerOK(b) /\ pc[b] = "complete" /\ job[b].result \in Statuses
    BY DEF BrokerInv, BrokerOK, Complete, TypeOK, Jobs
  <1>2. Grows
    BY DEF Complete, Announce, Grows
  <1>3. /\ pc'[b] = (IF IsRetry(k) THEN "count" ELSE "idle") /\ job' = job
        /\ \A c \in Brokers \ {b} : pc'[c] = pc[c]
        /\ pc' \in [Brokers -> {"idle", "find", "record", "request", "link", "execute",
                                "complete", "deny", "count"}]
    BY DEF Complete, Goto, BrokerInv, TypeOK
  <1>4. BrokerOK(b)'
    BY <1>1, <1>2, <1>3 DEF BrokerOK, Grows, Known, IsRetry, Approval
  <1>5. rows' \in [Keys -> Rows \union {Absent}]
    <2>1. PICK l \in 0..MaxRequests : CompleteAction(k, job[b].result, l)
      BY <1>1, Paths, BrokerAssumption DEF Complete, Ids
    <2> QED
      BY <1>1, <2>1 DEF CompleteAction, BrokerInv, TypeOK, Rows
  <1>6. log' \subseteq Keys \X Suffixes
    BY <1>1 DEF Complete, Announce, BrokerInv, TypeOK, Suffixes
  <1>7. TypeOK'
    BY <1>3, <1>5, <1>6 DEF Complete, BrokerInv, TypeOK
  <1> QED
    BY <1>2, <1>3, <1>4, <1>7, InvByParts DEF Complete, BrokerInv

LEMMA CompleteDeniedInv ==
    ASSUME BrokerInv, NEW b \in Brokers, CompleteDenied(b) PROVE BrokerInv'
  <1> DEFINE k == job[b].key
             j == [job[b] EXCEPT !.result = "policy_denied"]
  <1>1. k \in Keys /\ BrokerOK(b) /\ pc[b] = "deny" /\ Approval(k) \in 0..MaxRequests
    <2>1. k \in Keys /\ BrokerOK(b) /\ pc[b] = "deny" /\ IsRetry(k)
      BY DEF BrokerInv, BrokerOK, CompleteDenied
    <2>2. Approval(k) \in Ids /\ Ids \subseteq 0..MaxRequests
      BY <2>1, Paths, BrokerAssumption DEF Ids
    <2> QED
      BY <2>1, <2>2
  <1>2. Grows
    BY DEF CompleteDenied, Grows
  <1>3. j \in Jobs /\ j.key = k /\ j.id = job[b].id /\ j.result # "started"
    BY DEF BrokerInv, TypeOK, Jobs, Statuses
  <1>4. /\ job' \in [Brokers -> Jobs] /\ job'[b] = j
        /\ \A c \in Brokers \ {b} : job'[c] = job[c]
    BY <1>3, JobType DEF BrokerInv, CompleteDenied
  <1>5. /\ pc'[b] = "count" /\ \A c \in Brokers \ {b} : pc'[c] = pc[c]
        /\ pc' \in [Brokers -> {"idle", "find", "record", "request", "link", "execute",
                                "complete", "deny", "count"}]
    BY DEF CompleteDenied, Goto, BrokerInv, TypeOK
  <1>6. BrokerOK(b)'
    <2>1. job'[b].key = k /\ job'[b].id = job[b].id /\ job'[b].result # "started"
      BY <1>3, <1>4
    <2> QED
      BY <1>1, <1>2, <1>5, <2>1 DEF BrokerOK, Grows, Known, IsRetry, Approval
  <1>7. rows' \in [Keys -> Rows \union {Absent}]
    BY <1>1 DEF CompleteDenied, CompleteAction, BrokerInv, TypeOK, Rows, Statuses
  <1>8. TypeOK'
    BY <1>4, <1>5, <1>7 DEF CompleteDenied, BrokerInv, TypeOK
  <1> QED
    BY <1>2, <1>4, <1>5, <1>6, <1>8, InvByParts DEF CompleteDenied, BrokerInv

LEMMA CountRetryInv ==
    ASSUME BrokerInv, NEW b \in Brokers, CountRetry(b) PROVE BrokerInv'
  <1> DEFINE i == job[b].id
             r == [requests[i] EXCEPT !.retries = @ + 1, !.last = job[b].result]
  <1>1. i \in DOMAIN requests /\ BrokerOK(b) /\ job[b].result \in Statuses
    BY DEF BrokerInv, BrokerOK, CountRetry, Known, TypeOK, Jobs
  <1>2. requests[i] \in Requests
    BY <1>1, RequestsType DEF BrokerInv
  <1>3. r \in Requests /\ r.work = requests[i].work /\ r.status = requests[i].status
    <2>1. requests[i].retries + 1 \in Nat /\ r = [[requests[i] EXCEPT
             !.retries = requests[i].retries + 1] EXCEPT !.last = job[b].result]
      BY <1>2 DEF Requests
    <2> QED
      BY <1>1, <1>2, <2>1 DEF Requests
  <1>4. requests' = [requests EXCEPT ![i] = r]
    BY DEF CountRetry
  <1> HIDE DEF i, r
  <1>5. /\ requests' \in Seq(Requests) /\ Len(requests') = Len(requests)
        /\ DOMAIN requests' = DOMAIN requests
        /\ \A n \in DOMAIN requests : /\ requests'[n].work = requests[n].work
                                      /\ requests'[n].status = requests[n].status
    BY <1>1, <1>3, <1>4 DEF BrokerInv, TypeOK
  <1>6. Grows
    BY <1>5 DEF CountRetry, Grows
  <1>7. /\ pc'[b] = "idle" /\ job' = job /\ \A c \in Brokers \ {b} : pc'[c] = pc[c]
        /\ pc' \in [Brokers -> {"idle", "find", "record", "request", "link", "execute",
                                "complete", "deny", "count"}]
    BY DEF CountRetry, Goto, BrokerInv, TypeOK
  <1>8. BrokerOK(b)'
    BY <1>1, <1>7 DEF BrokerOK
  <1>9. TypeOK'
    BY <1>5, <1>7 DEF CountRetry, BrokerInv, TypeOK
  <1> QED
    BY <1>5, <1>6, <1>7, <1>8, <1>9, InvByParts DEF CountRetry, BrokerInv

LEMMA DieInv ==
    ASSUME BrokerInv, NEW b \in Brokers, Die(b) PROVE BrokerInv'
  <1>1. job[b].key.work \in Works /\ BrokerOK(b)
    BY Paths DEF BrokerInv, BrokerOK, Die
  <1>2. Grows
    BY DEF Die, Grows
  <1>3. /\ pc'[b] = "idle" /\ job' = job /\ \A c \in Brokers \ {b} : pc'[c] = pc[c]
        /\ pc' \in [Brokers -> {"idle", "find", "record", "request", "link", "execute",
                                "complete", "deny", "count"}]
    BY DEF Die, Goto, BrokerInv, TypeOK
  <1>4. BrokerOK(b)'
    BY <1>1, <1>3 DEF BrokerOK
  <1>5. upset' \subseteq Works \X {"death", "rival", "recovery"}
    BY <1>1 DEF Die, Upset, BrokerInv, TypeOK
  <1>6. TypeOK'
    BY <1>3, <1>5 DEF Die, BrokerInv, TypeOK
  <1> QED
    BY <1>2, <1>3, <1>4, <1>6, InvByParts DEF Die, BrokerInv
-----------------------------------------------------------------------------
(* The steps of the operator. *)

LEMMA RequestForCommandInv ==
    ASSUME BrokerInv, NEW w \in Works, RequestForCommand(w) PROVE BrokerInv'
  <1>1. Grows /\ requests' \in Seq(Requests) /\ Len(requests') <= MaxRequests
        /\ approved' \subseteq DOMAIN requests'
        /\ \A i \in DOMAIN requests' : requests'[i].status = "approved" => i \in approved'
    BY NewRequestGrows DEF RequestForCommand
  <1>2. TypeOK'
    BY <1>1 DEF RequestForCommand, BrokerInv, TypeOK
  <1> QED
    BY <1>1, <1>2, InvByOperator DEF RequestForCommand

LEMMA ResolveInv ==
    ASSUME BrokerInv, NEW i \in Ids, NEW s \in {"approved", "rejected"}, Resolve(i, s)
    PROVE  BrokerInv'
  <1> DEFINE r == [requests[i] EXCEPT !.status = s]
  <1>1. i \in DOMAIN requests /\ requests[i] \in Requests
    BY RequestsType DEF BrokerInv, Resolve
  <1>2. r \in Requests /\ r.work = requests[i].work /\ r.status = s
    BY <1>1 DEF Requests
  <1>3. requests' = [requests EXCEPT ![i] = r]
    BY DEF Resolve
  <1> HIDE DEF r
  <1>4. /\ requests' \in Seq(Requests) /\ Len(requests') = Len(requests)
        /\ DOMAIN requests' = DOMAIN requests /\ requests'[i].status = s
        /\ \A n \in DOMAIN requests : requests'[n].work = requests[n].work
        /\ \A n \in DOMAIN requests \ {i} : requests'[n].status = requests[n].status
    BY <1>1, <1>2, <1>3 DEF BrokerInv, TypeOK
  <1>5. Grows
    BY <1>4 DEF Resolve, Grows
  <1>6. /\ approved' \subseteq DOMAIN requests' /\ approved' \subseteq Ids
        /\ \A n \in DOMAIN requests' : requests'[n].status = "approved" => n \in approved'
    BY <1>1, <1>4 DEF Resolve, BrokerInv, TypeOK
  <1>7. TypeOK'
    BY <1>4, <1>6, BudgetType DEF Resolve, BrokerInv, TypeOK
  <1> QED
    BY <1>5, <1>6, <1>7, InvByOperator DEF Resolve

LEMMA ListStaleInv ==
    ASSUME BrokerInv, ListStale PROVE BrokerInv'
  <1>1. Grows
    BY DEF ListStale, Grows
  <1>2. expiring' \subseteq Ids
    BY RequestsType DEF ListStale, BrokerInv, Ids
  <1>3. TypeOK'
    BY <1>2, BudgetType DEF ListStale, BrokerInv, TypeOK
  <1> QED
    BY <1>1, <1>3, InvByOperator DEF ListStale, BrokerInv

LEMMA MarkStaleInv ==
    ASSUME BrokerInv, MarkStale PROVE BrokerInv'
  <1> DEFINE r(i) == IF i \in expiring THEN [requests[i] EXCEPT !.status = "stale"]
                     ELSE requests[i]
  <1>1. ASSUME NEW i \in DOMAIN requests
        PROVE  /\ r(i) \in Requests /\ r(i).work = requests[i].work
               /\ r(i).status \in {"stale", requests[i].status}
    <2>1. requests[i] \in Requests
      BY RequestsType DEF BrokerInv
    <2> QED
      BY <2>1 DEF Requests
  <1>2. requests' = [i \in 1..Len(requests) |-> r(i)]
    BY RequestsType DEF MarkStale, BrokerInv
  <1>3. Len(requests) \in Nat /\ DOMAIN requests = 1..Len(requests) /\ Len(requests) <= MaxRequests
    BY RequestsType DEF BrokerInv, TypeOK
  <1> HIDE DEF r
  <1>4. /\ requests' \in Seq(Requests) /\ Len(requests') = Len(requests)
        /\ DOMAIN requests' = DOMAIN requests
        /\ \A n \in DOMAIN requests : /\ requests'[n].work = requests[n].work
                                      /\ requests'[n].status \in {"stale", requests[n].status}
    BY <1>1, <1>2, <1>3
  <1>5. Grows
    BY <1>4 DEF MarkStale, Grows
  <1>6. TypeOK'
    BY <1>3, <1>4 DEF MarkStale, BrokerInv, TypeOK
  <1> QED
    BY <1>4, <1>5, <1>6, InvByOperator DEF MarkStale, BrokerInv

LEMMA RecoveryInv ==
    ASSUME BrokerInv, ListStarted \/ \E k \in Keys : RecoverAction(k) PROVE BrokerInv'
  <1>1. CASE ListStarted
    <2>1. Grows
      BY <1>1 DEF ListStarted, Grows
    <2>2. TypeOK'
      BY <1>1, BudgetType DEF ListStarted, BrokerInv, TypeOK
    <2> QED
      BY <1>1, <2>1, <2>2, InvByOperator DEF ListStarted, BrokerInv
  <1>2. ASSUME NEW k \in Keys, RecoverAction(k) PROVE BrokerInv'
    <2>1. Grows
      BY <1>2 DEF RecoverAction, Grows
    <2>2. rows' \in [Keys -> Rows \union {Absent}]
      BY <1>2, BrokerAssumption
      DEF RecoverAction, CompleteAction, BrokerInv, TypeOK, Rows, Statuses
    <2>3. upset' \subseteq Works \X {"death", "rival", "recovery"}
      BY <1>2, Paths DEF RecoverAction, Upset, BrokerInv, TypeOK
    <2>4. TypeOK'
      BY <1>2, <2>2, <2>3 DEF RecoverAction, BrokerInv, TypeOK
    <2> QED
      BY <1>2, <2>1, <2>4, InvByOperator DEF RecoverAction, BrokerInv
  <1> QED
    BY <1>1, <1>2

LEMMA EditPolicyInv ==
    ASSUME BrokerInv, NEW w \in Works, NEW v \in Verdicts, EditPolicy(w, v) PROVE BrokerInv'
  <1>1. Grows
    BY DEF EditPolicy, Grows
  <1>2. TypeOK'
    BY BudgetType DEF EditPolicy, BrokerInv, TypeOK
  <1> QED
    BY <1>1, <1>2, InvByOperator DEF EditPolicy, BrokerInv
-----------------------------------------------------------------------------
LEMMA BrokerInvStays == BrokerInv /\ [Next]_vars => BrokerInv'
  <1> SUFFICES ASSUME BrokerInv, [Next]_vars PROVE BrokerInv'
    OBVIOUS
  <1>1. CASE UNCHANGED vars
    <2>1. Grows /\ TypeOK'
      BY <1>1 DEF vars, Grows, BrokerInv, TypeOK
    <2> QED
      BY <1>1, <2>1, InvByOperator DEF vars, BrokerInv
  <1>2. ASSUME NEW b \in Brokers,
               \/ \E w \in Works : Call(b, w)
               \/ \E i \in Ids : Retry(b, i)
               \/ Step(b) \/ Die(b)
        PROVE  BrokerInv'
    BY <1>2, CallInv, RetryInv, FindInv, RecordDeniedInv, RecordBlockedInv, CreateRequestInv,
       LinkRequestInv, RecordStartedInv, ReplayInv, ExecuteInv, CompleteInv,
       CompleteDeniedInv, CountRetryInv, DieInv DEF Step
  <1>3. CASE Operator
    BY <1>3, RequestForCommandInv, ResolveInv, ListStaleInv, MarkStaleInv, RecoveryInv,
       EditPolicyInv DEF Operator
  <1> QED
    BY <1>1, <1>2, <1>3 DEF Next

LEMMA BrokerInvariant == Spec => []BrokerInv
  BY InitInv, BrokerInvStays, PTL DEF Spec

(* Every variable keeps its type: the rows, requests, brokers and events of  *)
(* tools/broker.py over any number of calls.                                 *)
THEOREM BrokerTypeCorrect == Spec => []TypeOK
  BY BrokerInvariant, PTL DEF BrokerInv

(* ToolBroker.run and run_approved execute nothing dangerous, nothing above  *)
(* the read tier but retries an operator approved, and nothing before its    *)
(* started event.                                                            *)
THEOREM BrokerAuthorised == Spec => []Authorised
  BY BrokerInvariant, PTL DEF BrokerInv
-----------------------------------------------------------------------------
(* The broker implements the ledger of actions. *)

OpenKeys == {k \in Keys : rows[k].status = "started"}
ClosedKeys == {k \in Keys : rows[k].status \notin {"absent", "started"}}
Admitted == [k \in Keys |-> {b \in Brokers : pc[b] = "execute" /\ job[b].key = k}]

LEMMA LedgerVars ==
    Ledger!vars = <<OpenKeys, ClosedKeys, Admitted, effects>>
  BY DEF Ledger!vars, OpenKeys, ClosedKeys, Admitted

(* Only steps to or from an execution change who is admitted.                *)
LEMMA AdmittedSame ==
    ASSUME \A b \in Brokers : /\ pc'[b] = "execute" <=> pc[b] = "execute"
                              /\ pc[b] = "execute" => job'[b].key = job[b].key
    PROVE  Admitted' = Admitted
  BY DEF Admitted

LEMMA CloseStep ==
    ASSUME BrokerInv, NEW k \in Keys, NEW r, rows' = [rows EXCEPT ![k] = r],
           r.status \notin {"absent", "started"}, Admitted' = Admitted, UNCHANGED effects
    PROVE  Ledger!Next
  <1>1. OpenKeys' = OpenKeys \ {k} /\ ClosedKeys' = ClosedKeys \union {k}
    BY DEF OpenKeys, ClosedKeys, BrokerInv, TypeOK
  <1>2. Ledger!Close(k)
    BY <1>1 DEF Ledger!Close, OpenKeys, ClosedKeys, Admitted
  <1> QED
    BY <1>2 DEF Ledger!Next

LEMMA CompleteStep ==
    ASSUME BrokerInv, NEW k \in Keys, NEW st, NEW l, CompleteAction(k, st, l),
           st \notin {"absent", "started"}, Admitted' = Admitted, UNCHANGED effects
    PROVE  Ledger!Next
  <1> DEFINE r == [status |-> st, link |-> l]
  <1>1. rows' = [rows EXCEPT ![k] = r] /\ r.status = st
    BY DEF CompleteAction
  <1> HIDE DEF r
  <1> QED
    BY <1>1, CloseStep

LEMMA QuietStep ==
    ASSUME UNCHANGED <<rows, effects>>, Admitted' = Admitted
    PROVE  UNCHANGED Ledger!vars
  BY LedgerVars DEF OpenKeys, ClosedKeys, Ledger!vars, Admitted

(* A row is written by record_action unless the key is taken.                *)
LEMMA RecordStep ==
    ASSUME BrokerInv, NEW k \in Keys, NEW st, NEW l, RecordAction(k, st, l),
           st \notin {"absent", "started"}, Admitted' = Admitted, UNCHANGED effects
    PROVE  [Ledger!Next]_Ledger!vars
  <1>1. CASE rows[k] = Absent
    <2> DEFINE r == [status |-> st, link |-> l]
    <2>1. rows' = [rows EXCEPT ![k] = r] /\ r.status = st
      BY <1>1 DEF RecordAction
    <2> HIDE DEF r
    <2> QED
      BY <2>1, CloseStep
  <1>2. CASE rows[k] # Absent
    BY <1>2, QuietStep DEF RecordAction
  <1> QED
    BY <1>1, <1>2

(* Admission: the row is absent, or still started by another broker.         *)
LEMMA AdmitStep ==
    ASSUME BrokerInv, NEW b \in Brokers, RecordStarted(b) PROVE Ledger!Next
  <1>1. PICK k \in Keys : /\ k = job[b].key /\ pc[b] = "record"
                          /\ rows[k].status \in {"absent", "started"}
    BY DEF BrokerInv, BrokerOK, RecordStarted, Unblocked
  <1>2. pc' = [pc EXCEPT ![b] = "execute"] /\ job' = job /\ effects' = effects
    BY DEF RecordStarted, Goto
  <1>3. k \notin ClosedKeys /\ OpenKeys' = OpenKeys \union {k} /\ ClosedKeys' = ClosedKeys
    <2> DEFINE r == [status |-> "started", link |-> 0]
    <2>1. /\ rows[k] = Absent => rows' = [rows EXCEPT ![k] = r]
          /\ rows[k] # Absent => rows' = rows
      BY <1>1 DEF RecordStarted, RecordAction
    <2>2. rows \in [Keys -> Rows \union {Absent}] /\ r.status = "started"
      BY DEF BrokerInv, TypeOK
    <2> HIDE DEF r
    <2>3. CASE rows[k] = Absent
      BY <1>1, <2>1, <2>2, <2>3 DEF OpenKeys, ClosedKeys, Absent
    <2>4. CASE rows[k] # Absent
      <3>1. rows[k].status = "started"
        BY <1>1, <2>2, <2>4 DEF Rows, Statuses
      <3> QED
        BY <1>1, <2>1, <2>4, <3>1 DEF OpenKeys, ClosedKeys
    <2> QED
      BY <2>3, <2>4
  <1>4. Admitted' = [Admitted EXCEPT ![k] = @ \union {b}]
    <2>1. pc \in [Brokers -> {"idle", "find", "record", "request", "link", "execute",
                              "complete", "deny", "count"}]
      BY DEF BrokerInv, TypeOK
    <2> QED
      BY <1>1, <1>2, <2>1 DEF Admitted
  <1>5. Ledger!Admit(b, k)
    BY <1>2, <1>3, <1>4 DEF Ledger!Admit, OpenKeys, ClosedKeys, Admitted
  <1> QED
    BY <1>1, <1>5 DEF Ledger!Next

(* Execution, and death before it: the admission is used up.                 *)
LEMMA LeaveStep ==
    ASSUME BrokerInv, NEW b \in Brokers, pc[b] = "execute", UNCHANGED rows,
           \/ Execute(b)
           \/ Die(b)
    PROVE  Ledger!Next
  <1>1. PICK k \in Keys : k = job[b].key
    BY DEF BrokerInv, BrokerOK
  <1>2. /\ pc'[b] # "execute"
        /\ \A c \in Brokers \ {b} : pc'[c] = pc[c] /\ job'[c].key = job[c].key
    BY DEF Execute, Die, Goto, BrokerInv, TypeOK
  <1>3. Admitted' = [Admitted EXCEPT ![k] = @ \ {b}] /\ b \in Admitted[k]
    BY <1>1, <1>2 DEF Admitted
  <1>4. OpenKeys' = OpenKeys /\ ClosedKeys' = ClosedKeys
    BY DEF OpenKeys, ClosedKeys
  <1>5. CASE Execute(b)
    <2>1. effects' = [effects EXCEPT ![k] = @ + 1]
      BY <1>1, <1>5 DEF Execute
    <2>2. Ledger!Run(b, k)
      BY <1>3, <1>4, <2>1 DEF Ledger!Run, OpenKeys, ClosedKeys, Admitted
    <2> QED
      BY <1>1, <2>2 DEF Ledger!Next
  <1>6. CASE Die(b)
    <2>1. Ledger!Leave(b, k)
      BY <1>3, <1>4, <1>6 DEF Ledger!Leave, OpenKeys, ClosedKeys, Admitted, Die
    <2> QED
      BY <1>1, <2>1 DEF Ledger!Next
  <1> QED
    BY <1>5, <1>6

(* The other steps of a broker: none of them enters or leaves "execute".     *)
LEMMA BrokerStepMaps ==
    ASSUME BrokerInv, NEW b \in Brokers,
           \/ \E w \in Works : Call(b, w)
           \/ \E i \in Ids : Retry(b, i)
           \/ Step(b) \/ Die(b)
    PROVE  [Ledger!Next]_Ledger!vars
  <1>1. CASE RecordStarted(b)
    BY <1>1, AdmitStep
  <1>2. CASE pc[b] = "execute" /\ (Execute(b) \/ Die(b))
    BY <1>2, LeaveStep DEF Execute, Die
  <1> DEFINE Elsewhere == pc[b] # "execute" /\ pc'[b] # "execute"
                          /\ \A c \in Brokers \ {b} : pc'[c] = pc[c] /\ job'[c] = job[c]
  <1>3. ASSUME Elsewhere PROVE Admitted' = Admitted
    BY <1>3, AdmittedSame
  <1>4. pc \in [Brokers -> {"idle", "find", "record", "request", "link", "execute",
                            "complete", "deny", "count"}] /\ job \in [Brokers -> Jobs]
    BY DEF BrokerInv, TypeOK
  <1>5. CASE (\E w \in Works : Call(b, w)) \/ (\E i \in Ids : Retry(b, i))
    <2>1. Elsewhere /\ UNCHANGED <<rows, effects>>
      BY <1>4, <1>5 DEF Call, Retry, Enter, Goto
    <2> QED
      BY <1>3, <2>1, QuietStep
  <1>6. CASE Find(b) \/ CreateRequest(b) \/ Replay(b) \/ CountRetry(b)
    <2>1. Elsewhere /\ UNCHANGED <<rows, effects>>
      BY <1>4, <1>6 DEF Find, CreateRequest, Replay, Unblocked, CountRetry, Goto
    <2> QED
      BY <1>3, <2>1, QuietStep
  <1>7. CASE RecordDenied(b)
    <2>1. Elsewhere /\ UNCHANGED effects
      BY <1>4, <1>7 DEF RecordDenied, Goto
    <2>2. job[b].key \in Keys /\ \E l : RecordAction(job[b].key, "policy_denied", l)
      BY <1>7 DEF RecordDenied, BrokerInv, BrokerOK
    <2> QED
      BY <1>3, <2>1, <2>2, RecordStep
  <1>8. CASE RecordBlocked(b)
    <2>1. Elsewhere /\ UNCHANGED effects
      BY <1>4, <1>8 DEF RecordBlocked, Goto
    <2>2. job[b].key \in Keys /\ RecordAction(job[b].key, "needs_approval", 0)
      BY <1>8 DEF RecordBlocked, BrokerInv, BrokerOK
    <2> QED
      BY <1>3, <2>1, <2>2, RecordStep
  <1>9. CASE LinkRequest(b) \/ Complete(b) \/ CompleteDenied(b)
    <2>1. Elsewhere /\ UNCHANGED effects
      BY <1>4, <1>9 DEF LinkRequest, Complete, CompleteDenied, Goto
    <2>2. PICK st, l : CompleteAction(job[b].key, st, l)
                       /\ st \in {"needs_approval", "policy_denied", job[b].result}
      BY <1>9 DEF LinkRequest, Complete, CompleteDenied
    <2>3. job[b].key \in Keys /\ st \notin {"absent", "started"}
      BY <1>4, <1>9, <2>2
      DEF LinkRequest, Complete, CompleteDenied, BrokerInv, BrokerOK, Jobs, Statuses
    <2> QED
      BY <1>3, <2>1, <2>2, <2>3, CompleteStep
  <1>10. CASE Die(b) /\ pc[b] # "execute"
    <2>1. Elsewhere /\ UNCHANGED <<rows, effects>>
      BY <1>4, <1>10 DEF Die, Goto
    <2> QED
      BY <1>3, <2>1, QuietStep
  <1> QED
    BY <1>1, <1>2, <1>5, <1>6, <1>7, <1>8, <1>9, <1>10 DEF Step, Execute

LEMMA OperatorStepMaps ==
    ASSUME BrokerInv, Operator PROVE [Ledger!Next]_Ledger!vars
  <1>1. ASSUME UNCHANGED <<pc, job>> PROVE Admitted' = Admitted
    BY <1>1 DEF Admitted
  <1>2. ASSUME NEW k \in Keys, RecoverAction(k) PROVE Ledger!Next
    <2>1. rows' = [rows EXCEPT ![k] = [status |-> "failed", link |-> 0]]
          /\ UNCHANGED <<pc, job, effects>>
      BY <1>2 DEF RecoverAction, CompleteAction
    <2> QED
      BY <1>1, <2>1, CloseStep
  <1>3. CASE ~ \E k \in Keys : RecoverAction(k)
    <2>1. UNCHANGED <<rows, pc, job, effects>>
      BY <1>3 DEF Operator, RequestForCommand, Resolve, ListStale, MarkStale, ListStarted,
                  EditPolicy
    <2> QED
      BY <1>1, <2>1, QuietStep
  <1> QED
    BY <1>2, <1>3

(* The action journal of the broker keeps the promise of ActionLedger: every *)
(* execution was admitted while its action was open, and what is completed   *)
(* stays completed.                                                          *)
THEOREM LedgerImplemented == Spec => ImplementsLedger
  <1>1. Init => Ledger!Init
    BY DEF Init, Ledger!Init, Absent
  <1>2. BrokerInv /\ [Next]_vars => [Ledger!Next]_Ledger!vars
    <2>1. CASE UNCHANGED vars
      BY <2>1, QuietStep DEF vars, Admitted
    <2> QED
      BY <2>1, BrokerStepMaps, OperatorStepMaps DEF Next
  <1> QED
    BY <1>1, <1>2, BrokerInvariant, PTL DEF Spec, ImplementsLedger, Ledger!Spec
-----------------------------------------------------------------------------
(* EffectOnce and RequestsAreLinked are facts about the broker that works    *)
(* alone on a call.  They are kept work by work, for the works that have     *)
(* been left alone; what a step does to one work the others do not see.      *)

Calm(w) == {<<w, "death">>, <<w, "rival">>} \intersect upset = {}
Quiet(w) == Calm(w) /\ <<w, "recovery">> \notin upset
Open(k) == rows[k].status \in {"absent", "started"}
On(b, w) == pc[b] # "idle" /\ job[b].key.work = w
At(b, label, k) == pc[b] = label /\ job[b].key = k

Alone(w) ==
    \A b, c \in Brokers : On(b, w) /\ On(c, w) => b = c

(* The executor has run under an open key only if its broker is about to     *)
(* close it, and a broker about to run it is the first to.                   *)
RanOnce(k) ==
    /\ effects[k] <= 1
    /\ effects[k] = 1 => ~ Open(k) \/ \E b \in Brokers : At(b, "complete", k)
    /\ \A b \in Brokers : At(b, "execute", k) => effects[k] = 0

(* The row of the call itself names every request there is of it, or its     *)
(* broker is about to write the name.                                        *)
WorkLinked(w) ==
    LET k == Key(w, << >>) IN
    /\ \A b \in Brokers :
         /\ At(b, "request", k) \/ At(b, "execute", k) \/ At(b, "complete", k) => rows[k].link = 0
         /\ At(b, "link", k) => rows[k].link \in {0, job[b].id}
    /\ \A i \in DOMAIN requests :
         requests[i].work = w /\ class[w] # "command" =>
           rows[k].link = i \/ \E b \in Brokers : At(b, "link", k) /\ job[b].id = i

WorkInv(w) ==
    /\ \A k \in Keys : k.work = w /\ Open(k) => rows[k].link = 0
    /\ Calm(w) => Alone(w) /\ \A k \in Keys : k.work = w => RanOnce(k)
    /\ Quiet(w) => WorkLinked(w)

AloneInv == \A w \in Works : WorkInv(w)

(* A step that concerns no work but w.                                       *)
Touches(w) ==
    /\ upset \subseteq upset' /\ class' = class
    /\ \A b \in Brokers :
         \/ pc'[b] = pc[b] /\ job'[b] = job[b]
         \/ /\ pc[b] = "idle" \/ job[b].key.work = w
            /\ pc'[b] = "idle" \/ job'[b].key.work = w
    /\ \A k \in Keys : k.work # w => rows'[k] = rows[k] /\ effects'[k] = effects[k]
    /\ \A i \in DOMAIN requests' :
         \/ i \in DOMAIN requests /\ requests'[i].work = requests[i].work
         \/ requests'[i].work = w

LEMMA OtherWorks ==
    ASSUME NEW w, NEW v \in Works, v # w, Touches(w), WorkInv(v) PROVE WorkInv(v)'
  <1>1. ASSUME NEW c \in Brokers PROVE On(c, v)' <=> On(c, v)
    BY DEF Touches, On
  <1>2. ASSUME NEW c \in Brokers, NEW k \in Keys, k.work = v, NEW l, l # "idle"
        PROVE  /\ At(c, l, k)' <=> At(c, l, k)
               /\ At(c, l, k) => job'[c].id = job[c].id
    BY <1>2 DEF Touches, At
  <1>3. (Calm(v)' => Calm(v)) /\ (Quiet(v)' => Quiet(v))
    BY DEF Touches, Calm, Quiet
  <1>4. ASSUME NEW k \in Keys, k.work = v
        PROVE  /\ rows'[k] = rows[k] /\ effects'[k] = effects[k]
               /\ RanOnce(k) => RanOnce(k)'
    BY <1>2, <1>4 DEF Touches, RanOnce, Open
  <1>5. Alone(v) => Alone(v)'
    BY <1>1 DEF Alone
  <1>6. WorkLinked(v) => WorkLinked(v)'
    <2> DEFINE k == Key(v, << >>)
    <2>1. k \in Keys /\ k.work = v
      BY Paths, KeyFields
    <2>2. rows'[k] = rows[k] /\ class' = class
          /\ \A i \in DOMAIN requests' : requests'[i].work = v =>
               i \in DOMAIN requests /\ requests[i].work = v
      BY <2>1 DEF Touches
    <2>3. ASSUME NEW c \in Brokers
          PROVE  /\ At(c, "request", k)' <=> At(c, "request", k)
                 /\ At(c, "execute", k)' <=> At(c, "execute", k)
                 /\ At(c, "complete", k)' <=> At(c, "complete", k)
                 /\ At(c, "link", k)' <=> At(c, "link", k)
                 /\ At(c, "link", k) => job'[c].id = job[c].id
      BY <1>2, <2>1
    <2> HIDE DEF k
    <2>4. SUFFICES ASSUME WorkLinked(v) PROVE WorkLinked(v)'
      OBVIOUS
    <2> QED
      BY <2>2, <2>3, <2>4 DEF WorkLinked, k
  <1>7. \A k \in Keys : k.work = v => (Open(k)' <=> Open(k))
    BY <1>4 DEF Open
  <1> QED
    BY <1>3, <1>4, <1>5, <1>6, <1>7 DEF WorkInv

(* A step of broker b that is in the middle of a call.                       *)
Mine(b) ==
    LET w == job[b].key.work IN
    /\ On(b, w) /\ w \in Works /\ job'[b].key.work = w
    /\ \A c \in Brokers \ {b} : pc'[c] = pc[c] /\ job'[c] = job[c]
    /\ \A k \in Keys \ {job[b].key} : rows'[k] = rows[k] /\ effects'[k] = effects[k]

LEMMA StepIsMine == ASSUME BrokerInv, NEW b \in Brokers, Step(b) PROVE Mine(b)
  <1> DEFINE w == job[b].key.work
  <1>1. pc[b] # "idle" /\ job[b].key \in Keys /\ w \in Works
    BY Paths DEF Step, Find, RecordDenied, RecordBlocked, CreateRequest, LinkRequest, Unblocked,
                 RecordStarted, Replay, Execute, Complete, CompleteDenied, CountRetry,
                 BrokerInv, BrokerOK
  <1>2. pc \in [Brokers -> Labels] /\ job \in [Brokers -> Jobs] /\ effects \in [Keys -> Nat]
        /\ rows \in [Keys -> Rows \union {Absent}]
    BY LabelsType DEF BrokerInv, TypeOK
  <1>3. \A c \in Brokers \ {b} : pc'[c] = pc[c] /\ job'[c] = job[c]
    BY <1>2 DEF Step, Find, RecordDenied, RecordBlocked, CreateRequest, LinkRequest,
                RecordStarted, Replay, Execute, Complete, CompleteDenied, CountRetry, Goto
  <1>4. job'[b].key.work = w
    <2>1. CASE Find(b)
      <3>1. ASSUME NEW K, NEW V, K.work = w,
                   job' = [job EXCEPT ![b].key = K, ![b].verdict = V]
            PROVE  job'[b].key.work = w
        <4>1. job' = [job EXCEPT ![b] = [job[b] EXCEPT !.key = K, !.verdict = V]]
          BY <3>1
        <4>2. job[b] \in Jobs /\ job'[b] = [job[b] EXCEPT !.key = K, !.verdict = V]
          BY <1>2, <4>1
        <4> QED
          BY <3>1, <4>2 DEF Jobs
      <3>2. \A path : Key(w, Append(path, job[b].id)).work = w
        BY KeyFields
      <3> QED
        BY <2>1, <3>1, <3>2 DEF Find
    <2>2. CASE ~ Find(b)
      BY <1>2, <2>2 DEF Step, RecordDenied, RecordBlocked, CreateRequest, LinkRequest,
                RecordStarted, Replay, Execute, Complete, CompleteDenied, CountRetry, Jobs
    <2> QED
      BY <2>1, <2>2
  <1>5. ASSUME NEW k \in Keys, k # job[b].key PROVE rows'[k] = rows[k] /\ effects'[k] = effects[k]
    BY <1>2, <1>5 DEF Step, Find, RecordDenied, RecordBlocked, CreateRequest, LinkRequest,
                RecordStarted, Replay, Execute, Complete, CompleteDenied, CountRetry,
                RecordAction, CompleteAction
  <1> QED
    BY <1>1, <1>3, <1>4, <1>5 DEF Mine, On

LEMMA MineTouches ==
    ASSUME BrokerInv, NEW b \in Brokers, Step(b) PROVE Touches(job[b].key.work)
  <1>1. Mine(b)
    BY StepIsMine
  <1>2. upset' = upset /\ class' = class
    BY DEF Step, Find, RecordDenied, RecordBlocked, CreateRequest, LinkRequest,
           RecordStarted, Replay, Execute, Complete, CompleteDenied, CountRetry
  <1>3. ASSUME NEW i \in DOMAIN requests'
        PROVE  \/ i \in DOMAIN requests /\ requests'[i].work = requests[i].work
               \/ requests'[i].work = job[b].key.work
    <2>1. CASE CreateRequest(b)
      BY <2>1, RequestsType DEF CreateRequest, NewRequest, BrokerInv, TypeOK
    <2>2. CASE CountRetry(b)
      BY <2>2, RequestsType DEF CountRetry, BrokerInv, TypeOK, Requests
    <2>3. CASE ~ CreateRequest(b) /\ ~ CountRetry(b)
      BY <2>3 DEF Step, Find, RecordDenied, RecordBlocked, LinkRequest,
                  RecordStarted, Replay, Execute, Complete, CompleteDenied
    <2> QED
      BY <2>1, <2>2, <2>3
  <1> QED
    BY <1>1, <1>2, <1>3 DEF Mine, Touches

(* Alone(w), kept by every step of a broker that was in the middle of w.     *)
LEMMA MineAlone ==
    ASSUME NEW b \in Brokers, Mine(b), Alone(job[b].key.work) PROVE \A w : w = job[b].key.work => Alone(w)'
  BY DEF Mine, Alone, On

(* record_action keeps a row that is there, complete_action_record writes    *)
(* a result: what is closed stays closed, and no open row gets a link.       *)
RowWritten(k) ==
    \/ rows' = rows
    \/ RecordAction(k, "started", 0)
    \/ \E s \in Statuses \ {"started"}, l \in 0..MaxRequests :
         RecordAction(k, s, l) \/ CompleteAction(k, s, l)

LEMMA RowsKeep ==
    ASSUME BrokerInv, NEW k \in Keys, RowWritten(k), NEW m \in Keys
    PROVE  /\ ~ Open(m) => ~ Open(m)'
           /\ (Open(m) => rows[m].link = 0) => (Open(m)' => rows'[m].link = 0)
  <1>1. rows \in [Keys -> Rows \union {Absent}]
    BY DEF BrokerInv, TypeOK
  <1>2. CASE RecordAction(k, "started", 0)
    BY <1>1, <1>2 DEF RecordAction, Open, Absent
  <1>3. ASSUME NEW s \in Statuses \ {"started"}, NEW l \in 0..MaxRequests,
               RecordAction(k, s, l) \/ CompleteAction(k, s, l)
        PROVE  rows' = rows \/ rows' = [rows EXCEPT ![k] = [status |-> s, link |-> l]]
    BY <1>3 DEF RecordAction, CompleteAction
  <1>4. ASSUME NEW s \in Statuses \ {"started"}, NEW l,
               rows' = [rows EXCEPT ![k] = [status |-> s, link |-> l]]
        PROVE  /\ ~ Open(m) => ~ Open(m)'
               /\ (Open(m) => rows[m].link = 0) => (Open(m)' => rows'[m].link = 0)
    BY <1>1, <1>4 DEF Open, Statuses
  <1> QED
    BY <1>2, <1>3, <1>4 DEF RowWritten, Open

LEMMA StepWritesRow ==
    ASSUME BrokerInv, NEW b \in Brokers, Step(b)
    PROVE  job[b].key \in Keys /\ RowWritten(job[b].key)
  <1> USE BrokerAssumption
  <1>1. BrokerOK(b) /\ job[b] \in Jobs /\ pc[b] # "idle"
    BY DEF BrokerInv, TypeOK, Step, Find, RecordDenied, RecordBlocked, CreateRequest,
           LinkRequest, Unblocked, RecordStarted, Replay, Execute, Complete, CompleteDenied,
           CountRetry
  <1>2. job[b].key \in Keys /\ job[b].id \in 0..MaxRequests
        /\ (IsRetry(job[b].key) => Approval(job[b].key) \in 0..MaxRequests)
    BY <1>1, Paths DEF BrokerOK, Jobs, Ids
  <1>3. CASE RecordDenied(b)
    BY <1>2, <1>3 DEF RecordDenied, RowWritten, Statuses
  <1>4. CASE RecordBlocked(b) \/ RecordStarted(b)
    BY <1>2, <1>4 DEF RecordBlocked, RecordStarted, RowWritten, Statuses
  <1>5. CASE LinkRequest(b)
    BY <1>2, <1>5 DEF LinkRequest, RowWritten, Statuses
  <1>6. CASE Complete(b)
    <2>1. job[b].result \in Statuses \ {"started"}
      BY <1>1 DEF BrokerOK, Jobs
    <2> QED
      BY <1>2, <1>6, <2>1 DEF Complete, RowWritten
  <1>7. CASE CompleteDenied(b)
    <2>1. IsRetry(job[b].key)
      BY <1>1, <1>7 DEF BrokerOK, CompleteDenied
    <2> QED
      BY <1>2, <1>7, <2>1 DEF CompleteDenied, RowWritten, Statuses
  <1>8. CASE rows' = rows
    BY <1>2, <1>8 DEF RowWritten
  <1> QED
    BY <1>2, <1>3, <1>4, <1>5, <1>6, <1>7, <1>8
    DEF Step, Find, CreateRequest, Replay, Execute, CountRetry

LEMMA RanOnceStays ==
    ASSUME NEW k \in Keys, RanOnce(k), effects'[k] = effects[k], ~ Open(k) => ~ Open(k)',
           \A c \in Brokers : At(c, "complete", k) => At(c, "complete", k)' \/ ~ Open(k)',
           \A c \in Brokers : At(c, "execute", k)' => At(c, "execute", k) \/ effects[k] = 0
    PROVE  RanOnce(k)'
  BY DEF RanOnce

(* A calm work is run at most once under each of its keys.                   *)
LEMMA StepRunsOnce ==
    ASSUME BrokerInv, NEW b \in Brokers, Step(b), NEW w, w = job[b].key.work, Alone(w),
           NEW k \in Keys, k.work = w, RanOnce(k)
    PROVE  RanOnce(k)'
  <1>1. Mine(b) /\ effects \in [Keys -> Nat] /\ rows \in [Keys -> Rows \union {Absent}]
        /\ pc \in [Brokers -> Labels] /\ job \in [Brokers -> Jobs]
    BY StepIsMine, LabelsType DEF BrokerInv, TypeOK
  <1>2. ~ Open(k) => ~ Open(k)'
    BY StepWritesRow, RowsKeep
  <1>3. ASSUME NEW c \in Brokers \ {b}, NEW l, l # "idle"
        PROVE  At(c, l, k)' <=> At(c, l, k)
    BY <1>1, <1>3 DEF Mine, At
  <1>4. ASSUME NEW c \in Brokers, NEW l, l # "idle", At(c, l, k) PROVE c = b
    BY <1>1, <1>4 DEF Mine, At, Alone, On
  <1>5. CASE Execute(b) /\ k = job[b].key
    <2>1. effects[k] = 0 /\ effects'[k] = 1
      BY <1>1, <1>5 DEF RanOnce, At, Execute
    <2>2. At(b, "complete", k)'
      BY <1>1, <1>5 DEF At, Execute, Goto, Jobs
    <2>3. \A c \in Brokers : ~ At(c, "execute", k)'
      BY <1>3, <1>4, <2>2 DEF At
    <2> QED
      BY <2>1, <2>2, <2>3 DEF RanOnce
  <1>6. CASE ~ Execute(b) \/ k # job[b].key
    <2>1. effects'[k] = effects[k]
      BY <1>1, <1>6 DEF Mine, Step, Find, RecordDenied, RecordBlocked, CreateRequest,
            LinkRequest, RecordStarted, Replay, Complete, CompleteDenied, CountRetry
    <2>2. At(b, "complete", k) => ~ Open(k)'
      <3>1. ASSUME At(b, "complete", k) PROVE ~ Open(k)'
        <4>1. Complete(b) /\ job[b].result \in Statuses \ {"started"}
          BY <3>1 DEF At, Step, Find, RecordDenied, RecordBlocked, CreateRequest, Unblocked,
            LinkRequest, RecordStarted, Replay, Execute, CompleteDenied, CountRetry,
            BrokerInv, BrokerOK, TypeOK, Jobs
        <4>2. rows'[k].status = job[b].result
          BY <1>1, <3>1, <4>1 DEF At, Complete, CompleteAction
        <4> QED
          BY <4>1, <4>2 DEF Open, Statuses
      <3> QED
        BY <3>1
    <2>3. At(b, "execute", k)' => effects[k] = 0
      <3>1. ASSUME At(b, "execute", k)' PROVE effects[k] = 0
        <4>1. RecordStarted(b) /\ job' = job
          BY <1>1, <3>1 DEF At, Step, Find, RecordDenied, RecordBlocked, CreateRequest,
            LinkRequest, RecordStarted, Replay, Execute, Complete, CompleteDenied, CountRetry,
            Goto, Labels
        <4>2. Open(k) /\ pc[b] = "record"
          BY <3>1, <4>1 DEF At, RecordStarted, Unblocked, Open
        <4>3. \A c \in Brokers : ~ At(c, "complete", k)
          BY <1>4, <4>2 DEF At
        <4> QED
          BY <1>1, <4>2, <4>3 DEF RanOnce
      <3> QED
        BY <3>1
    <2> QED
      BY <1>2, <1>3, <1>4, <2>1, <2>2, <2>3, RanOnceStays
  <1> QED
    BY <1>5, <1>6

(* The row of w itself, when a step leaves its link as it was.               *)
LEMMA LinkKept ==
    ASSUME NEW w, WorkLinked(w), NEW k, k = Key(w, << >>), NEW b \in Brokers,
           class' = class, rows'[k].link = rows[k].link,
           \A c \in Brokers \ {b} : pc'[c] = pc[c] /\ job'[c] = job[c],
           pc[b] # "link",
           \A i \in DOMAIN requests' : requests'[i].work = w /\ class[w] # "command" =>
             i \in DOMAIN requests /\ requests[i].work = w,
           At(b, "request", k)' \/ At(b, "execute", k)' \/ At(b, "complete", k)' =>
             rows[k].link = 0,
           At(b, "link", k)' => rows[k].link \in {0, job'[b].id}
    PROVE  WorkLinked(w)'
  BY DEF WorkLinked, At

LEMMA FirstKey ==
    \A k \in Keys : k = Key(k.work, << >>) \/ IsRetry(k)
  BY DEF Keys, Key, IsRetry

(* What a step does to the row of the call it works on, or of its retry.     *)
LEMMA StepKeepsLink ==
    ASSUME BrokerInv, NEW b \in Brokers, Step(b), ~ LinkRequest(b), ~ CreateRequest(b),
           NEW w, w = job[b].key.work, NEW k, k = Key(w, << >>), WorkLinked(w),
           Open(k) => rows[k].link = 0
    PROVE  WorkLinked(w)'
  <1>1. Mine(b) /\ rows \in [Keys -> Rows \union {Absent}]
        /\ pc \in [Brokers -> Labels] /\ job \in [Brokers -> Jobs] /\ k \in Keys
        /\ BrokerOK(b)
    BY StepIsMine, LabelsType, Paths DEF BrokerInv, TypeOK, Mine
  <1>2. pc[b] # "link" /\ pc[b] # "request" /\ class' = class /\ pc[b] # "idle"
    BY DEF Step, Find, RecordDenied, RecordBlocked, RecordStarted, Replay, Execute, Complete,
           CompleteDenied, CountRetry, Unblocked
  <1>3. \A i \in DOMAIN requests' : requests'[i].work = w =>
          i \in DOMAIN requests /\ requests[i].work = w
    <2>1. CASE CountRetry(b)
      BY <2>1, RequestsType DEF CountRetry, BrokerInv, TypeOK, Requests
    <2>2. CASE ~ CountRetry(b)
      BY <2>2 DEF Step, Find, RecordDenied, RecordBlocked, RecordStarted, Replay, Execute,
                  Complete, CompleteDenied
    <2> QED
      BY <2>1, <2>2
  <1>4. rows'[k].link = rows[k].link
    <2>1. CASE k # job[b].key
      BY <1>1, <2>1 DEF Mine
    <2>2. CASE k = job[b].key
      <3>1. ~ IsRetry(k)
        BY <1>1, Paths DEF Mine
      <3>2. CASE Complete(b)
        <4>1. rows[k].link = 0
          BY <2>2, <3>2 DEF WorkLinked, At, Complete
        <4>2. rows'[k].link = 0
          BY <1>1, <2>2, <3>1, <3>2 DEF Complete, CompleteAction
        <4> QED
          BY <4>1, <4>2
      <3>3. CASE RecordDenied(b) \/ RecordBlocked(b) \/ RecordStarted(b)
        <4>1. PICK s : RecordAction(k, s, 0)
          BY <2>2, <3>1, <3>3 DEF RecordDenied, RecordBlocked, RecordStarted
        <4> QED
          BY <1>1, <4>1 DEF RecordAction, Absent
      <3>4. CASE rows' = rows
        BY <3>4
      <3> QED
        BY <1>1, <2>2, <3>1, <3>2, <3>3, <3>4
        DEF Step, Find, Replay, Execute, CompleteDenied, CountRetry, BrokerOK
    <2> QED
      BY <2>1, <2>2
  <1>5. At(b, "request", k)' \/ At(b, "execute", k)' \/ At(b, "complete", k)' => rows[k].link = 0
    <2>1. CASE RecordStarted(b)
      BY <1>1, <1>2, <2>1 DEF RecordStarted, At, Goto, Open
    <2>2. CASE RecordBlocked(b)
      <3>1. At(b, "request", k)' => job[b].key = k
        BY <1>1, <2>2 DEF At, RecordBlocked, Jobs
      <3> QED
        BY <1>1, <2>2, <3>1 DEF RecordBlocked, At, Goto
    <2>3. CASE Execute(b)
      <3>1. At(b, "complete", k)' => At(b, "execute", k)
        BY <1>1, <2>3 DEF At, Execute, Jobs
      <3> QED
        BY <1>1, <2>3, <3>1 DEF WorkLinked, At, Execute, Goto
    <2>4. CASE pc'[b] \notin {"request", "execute", "complete"}
      BY <2>4 DEF At
    <2> QED
      BY <1>1, <2>1, <2>2, <2>3, <2>4
      DEF Step, Find, RecordDenied, Replay, Complete, CompleteDenied, CountRetry, Goto
  <1>6. At(b, "link", k)' => rows[k].link \in {0, job'[b].id}
    <2>1. CASE RecordBlocked(b)
      BY <1>1, <2>1 DEF At, RecordBlocked, Jobs
    <2>2. CASE pc'[b] # "link"
      BY <2>2 DEF At
    <2> QED
      BY <1>1, <2>1, <2>2
      DEF Step, Find, RecordDenied, RecordStarted, Replay, Execute, Complete, CompleteDenied,
          CountRetry, Goto
  <1> QED
    BY <1>1, <1>2, <1>3, <1>4, <1>5, <1>6, LinkKept DEF Mine

(* The two writes that link a request: nobody else is at work on w.          *)
LEMMA CreateLinks ==
    ASSUME BrokerInv, NEW b \in Brokers, CreateRequest(b),
           NEW w, w = job[b].key.work, WorkLinked(w), Alone(w)
    PROVE  WorkLinked(w)'
  <1> DEFINE k == Key(w, << >>)
             n == Len(requests) + 1
  <1>1. Mine(b) /\ BrokerOK(b) /\ job[b].key \in Keys /\ pc \in [Brokers -> Labels]
        /\ job \in [Brokers -> Jobs]
    BY StepIsMine, LabelsType DEF BrokerInv, BrokerOK, TypeOK, CreateRequest, Step
  <1>2. job[b].key = k /\ At(b, "request", k)
    BY <1>1, FirstKey DEF BrokerOK, CreateRequest, At
  <1>3. job'[b].key = k /\ job'[b].id = n /\ pc'[b] = "link" /\ rows' = rows /\ class' = class
    BY <1>1, <1>2 DEF CreateRequest, Goto, Jobs
  <1>4. rows[k].link = 0
    BY <1>2 DEF WorkLinked
  <1>5. ASSUME NEW c \in Brokers \ {b}, NEW l, l # "idle" PROVE ~ At(c, l, k) /\ ~ At(c, l, k)'
    BY <1>1, <1>2, <1>5 DEF Alone, Mine, On, At
  <1>6. \A i \in DOMAIN requests' :
          i = n \/ (i \in DOMAIN requests /\ requests'[i] = requests[i])
    <2>1. PICK r \in Requests : requests' = Append(requests, r)
      BY <1>1 DEF CreateRequest, NewRequest, Requests, Mine
    <2>2. /\ Len(requests') = Len(requests) + 1 /\ Len(requests) \in Nat
          /\ DOMAIN requests = 1..Len(requests) /\ DOMAIN requests' = 1..Len(requests')
          /\ \A i \in 1..Len(requests) : requests'[i] = requests[i]
      BY <2>1 DEF BrokerInv, TypeOK
    <2> QED
      BY <2>2
  <1>7. \A i \in DOMAIN requests : i # 0
    BY RequestsType DEF BrokerInv
  <1>8. \A c \in Brokers : ~ At(c, "link", k)
    BY <1>2, <1>5 DEF At
  <1>9. At(b, "link", k)' /\ \A c \in Brokers : ~ At(c, "request", k)' /\ ~ At(c, "execute", k)'
                                               /\ ~ At(c, "complete", k)'
    BY <1>3, <1>5 DEF At
  <1> HIDE DEF n
  <1>10. \A i \in DOMAIN requests' : requests'[i].work = w /\ class[w] # "command" => i = n
    BY <1>4, <1>6, <1>7, <1>8 DEF WorkLinked
  <1> QED
    BY <1>3, <1>4, <1>9, <1>10 DEF WorkLinked

LEMMA LinkLinks ==
    ASSUME BrokerInv, NEW b \in Brokers, LinkRequest(b),
           NEW w, w = job[b].key.work, WorkLinked(w), Alone(w)
    PROVE  WorkLinked(w)'
  <1> DEFINE k == Key(w, << >>)
  <1>1. Mine(b) /\ BrokerOK(b) /\ job[b].key \in Keys /\ pc \in [Brokers -> Labels]
        /\ rows \in [Keys -> Rows \union {Absent}]
    BY StepIsMine, LabelsType DEF BrokerInv, BrokerOK, TypeOK, LinkRequest, Step
  <1>2. job[b].key = k /\ At(b, "link", k)
    BY <1>1, FirstKey DEF BrokerOK, LinkRequest, At
  <1>3. rows'[k].link = job[b].id /\ pc'[b] = "idle" /\ UNCHANGED <<class, requests, job>>
    BY <1>1, <1>2 DEF LinkRequest, CompleteAction, Goto
  <1>4. rows[k].link \in {0, job[b].id}
    BY <1>2 DEF WorkLinked
  <1>5. ASSUME NEW c \in Brokers \ {b}, NEW l, l # "idle" PROVE ~ At(c, l, k) /\ ~ At(c, l, k)'
    BY <1>1, <1>2, <1>5 DEF Alone, Mine, On, At
  <1>6. \A i \in DOMAIN requests : i # 0
    BY RequestsType DEF BrokerInv
  <1>7. \A c \in Brokers : At(c, "link", k) => c = b
    BY <1>5
  <1>8. \A c \in Brokers : /\ ~ At(c, "request", k)' /\ ~ At(c, "execute", k)'
                           /\ ~ At(c, "complete", k)' /\ ~ At(c, "link", k)'
    BY <1>3, <1>5 DEF At
  <1>9. \A i \in DOMAIN requests : requests[i].work = w /\ class[w] # "command" => i = job[b].id
    BY <1>4, <1>6, <1>7 DEF WorkLinked
  <1> QED
    BY <1>3, <1>8, <1>9 DEF WorkLinked

LEMMA StepWork ==
    ASSUME BrokerInv, NEW b \in Brokers, Step(b), AloneInv PROVE AloneInv'
  <1>1. PICK w \in Works : w = job[b].key.work
    BY StepIsMine DEF Mine
  <1>2. Touches(w) /\ WorkInv(w)
    BY <1>1, MineTouches DEF AloneInv
  <1>3. \A k \in Keys : k.work = w /\ Open(k)' => rows'[k].link = 0
    BY <1>2, StepWritesRow, RowsKeep DEF WorkInv
  <1>4. (Calm(w)' => Calm(w)) /\ (Quiet(w)' => Quiet(w) /\ Calm(w))
    BY <1>2 DEF Touches, Calm, Quiet
  <1>5. ASSUME Calm(w) PROVE Alone(w)' /\ \A k \in Keys : k.work = w => RanOnce(k)'
    BY <1>1, <1>2, <1>5, StepIsMine, MineAlone, StepRunsOnce DEF WorkInv
  <1>6. ASSUME Quiet(w), Calm(w) PROVE WorkLinked(w)'
    <2>1. WorkLinked(w) /\ Alone(w) /\ Key(w, << >>) \in Keys /\ Key(w, << >>).work = w
      BY <1>2, <1>6, Paths, KeyFields DEF WorkInv
    <2> QED
      BY <1>1, <1>2, <2>1, CreateLinks, LinkLinks, StepKeepsLink DEF WorkInv
  <1>7. WorkInv(w)'
    BY <1>3, <1>4, <1>5, <1>6 DEF WorkInv
  <1> QED
    BY <1>2, <1>7, OtherWorks DEF AloneInv

(* A broker takes up a call: a rival is noted.                               *)
LEMMA EnterWork ==
    ASSUME BrokerInv, AloneInv, NEW b \in Brokers, NEW k \in Keys, NEW i, NEW v,
           NEW l \in {"record", "find"}, Enter(b, k, i, v, l),
           UNCHANGED <<rows, requests, class, effects>>
    PROVE  AloneInv'
  <1> DEFINE j == [key |-> k, id |-> i, verdict |-> v, result |-> "failed"]
  <1>1. PICK w \in Works : w = k.work /\ pc[b] = "idle" /\ WorkInv(w)
    BY Paths DEF Enter, AloneInv
  <1>2. /\ pc'[b] = l /\ job'[b].key.work = w
        /\ \A c \in Brokers \ {b} : pc'[c] = pc[c] /\ job'[c] = job[c]
    <2>1. j.key = k
      OBVIOUS
    <2>2. job' = [job EXCEPT ![b] = j]
      BY DEF Enter
    <2> HIDE DEF j
    <2> QED
      BY <1>1, <2>1, <2>2 DEF Enter, Goto, BrokerInv, TypeOK
  <1>3. /\ upset \subseteq upset'
        /\ Busy(w) => <<w, "rival">> \in upset'
        /\ ~ Busy(w) => upset' = upset
    BY <1>1 DEF Enter, Upset
  <1>4. Touches(w)
    BY <1>1, <1>2, <1>3 DEF Touches
  <1>5. ASSUME Busy(w) PROVE WorkInv(w)'
    BY <1>1, <1>3, <1>5 DEF WorkInv, Calm, Quiet, Open
  <1>6. ASSUME ~ Busy(w) PROVE WorkInv(w)'
    <2>1. \A c \in Brokers : ~ On(c, w)
      BY <1>1, <1>6 DEF Busy, On
    <2>2. Alone(w)'
      BY <1>2, <2>1 DEF Alone, On
    <2>3. (Calm(w)' => Calm(w)) /\ (Quiet(w)' => Quiet(w))
      BY <1>3, <1>6 DEF Calm, Quiet
    <2>4. ASSUME NEW m \in Keys, RanOnce(m) PROVE RanOnce(m)'
      <3>1. \A c \in Brokers : At(c, "complete", m) => At(c, "complete", m)'
        BY <1>1, <1>2 DEF At
      <3>2. \A c \in Brokers : At(c, "execute", m)' => At(c, "execute", m)
        BY <1>1, <1>2 DEF At
      <3> QED
        BY <2>4, <3>1, <3>2, RanOnceStays DEF Open
    <2>5. ASSUME WorkLinked(w) PROVE WorkLinked(w)'
      <3>1. \A m : /\ ~ At(b, "request", m)' /\ ~ At(b, "execute", m)'
                   /\ ~ At(b, "complete", m)' /\ ~ At(b, "link", m)'
        BY <1>2 DEF At
      <3> QED
        BY <1>1, <1>2, <2>5, <3>1, LinkKept
    <2> QED
      BY <1>1, <2>2, <2>3, <2>4, <2>5 DEF WorkInv, Open
  <1>7. WorkInv(w)'
    BY <1>5, <1>6
  <1> QED
    BY <1>4, <1>7, OtherWorks DEF AloneInv

LEMMA DieWork ==
    ASSUME BrokerInv, AloneInv, NEW b \in Brokers, Die(b) PROVE AloneInv'
  <1>1. PICK w \in Works : w = job[b].key.work
    BY Paths DEF BrokerInv, BrokerOK, Die
  <1>2. Touches(w) /\ WorkInv(w) /\ <<w, "death">> \in upset'
    BY <1>1 DEF Die, Upset, Goto, Touches, AloneInv, BrokerInv, TypeOK
  <1>3. WorkInv(w)'
    BY <1>2 DEF Die, WorkInv, Calm, Quiet, Open
  <1> QED
    BY <1>2, <1>3, OtherWorks DEF AloneInv

(* recover closes the row, whoever works on it.                              *)
LEMMA RecoverWork ==
    ASSUME BrokerInv, AloneInv, NEW k \in Keys, RecoverAction(k) PROVE AloneInv'
  <1>1. PICK w \in Works : w = k.work
    BY Paths
  <1>2. Touches(w) /\ WorkInv(w) /\ <<w, "recovery">> \in upset'
    BY <1>1 DEF RecoverAction, CompleteAction, Upset, Touches, AloneInv, BrokerInv, TypeOK
  <1>3. RowWritten(k)
    BY BrokerAssumption DEF RecoverAction, RowWritten, Statuses
  <1>4. \A m \in Keys : m.work = w /\ Open(m)' => rows'[m].link = 0
    BY <1>2, <1>3, RowsKeep DEF WorkInv
  <1>5. (Calm(w)' => Calm(w)) /\ ~ Quiet(w)'
    BY <1>2 DEF Touches, Calm, Quiet
  <1>6. ASSUME NEW m \in Keys, RanOnce(m) PROVE RanOnce(m)'
    BY <1>3, <1>6, RowsKeep, RanOnceStays DEF RecoverAction, At
  <1>7. Alone(w) => Alone(w)'
    BY DEF RecoverAction, Alone, On
  <1>8. WorkInv(w)'
    BY <1>2, <1>4, <1>5, <1>6, <1>7 DEF WorkInv
  <1> QED
    BY <1>2, <1>8, OtherWorks DEF AloneInv

LEMMA RequestWork ==
    ASSUME BrokerInv, AloneInv, NEW w \in Works, RequestForCommand(w) PROVE AloneInv'
  <1>1. \A i \in DOMAIN requests' :
          \/ i \in DOMAIN requests /\ requests'[i].work = requests[i].work
          \/ requests'[i].work = w
    BY DEF RequestForCommand, NewRequest, BrokerInv, TypeOK
  <1>2. Touches(w) /\ WorkInv(w)
    BY <1>1 DEF RequestForCommand, Touches, AloneInv
  <1>3. class[w] = "command" /\ UNCHANGED <<rows, effects, pc, job, upset, class>>
    BY DEF RequestForCommand
  <1>4. WorkLinked(w) => WorkLinked(w)'
    BY <1>3 DEF WorkLinked, At
  <1>5. WorkInv(w)'
    BY <1>2, <1>3, <1>4 DEF WorkInv, Open, Calm, Quiet, Alone, RanOnce, On, At
  <1> QED
    BY <1>2, <1>5, OtherWorks DEF AloneInv

(* The other steps of the operator concern no work of a broker.              *)
LEMMA OtherStepsWork ==
    ASSUME BrokerInv, AloneInv, UNCHANGED <<rows, effects, pc, job, upset, class>>,
           \A i \in DOMAIN requests' :
             i \in DOMAIN requests /\ requests'[i].work = requests[i].work
    PROVE  AloneInv'
  <1>1. Touches(NoWork) /\ \A v \in Works : v # NoWork
    BY WorkAssumption DEF Touches
  <1> QED
    BY <1>1, OtherWorks DEF AloneInv

LEMMA AloneInit == ASSUME Init PROVE AloneInv
  BY Paths, KeyFields DEF Init, AloneInv, WorkInv, Alone, On, RanOnce, At, WorkLinked, Absent

LEMMA AloneStays == BrokerInv /\ AloneInv /\ [Next]_vars => AloneInv'
  <1> SUFFICES ASSUME BrokerInv, AloneInv, [Next]_vars PROVE AloneInv'
    OBVIOUS
  <1>1. CASE UNCHANGED vars
    BY <1>1, OtherStepsWork DEF vars
  <1>2. ASSUME NEW b \in Brokers, NEW w \in Works, Call(b, w) PROVE AloneInv'
    BY <1>2, Paths, EnterWork DEF Call
  <1>3. ASSUME NEW b \in Brokers, NEW i \in Ids, Retry(b, i) PROVE AloneInv'
    <2>1. requests[i].work \in Works
      BY <1>3, RequestsType DEF Retry, BrokerInv, Requests
    <2> QED
      BY <1>3, <2>1, Paths, EnterWork DEF Retry
  <1>4. ASSUME NEW i \in Ids, NEW s \in {"approved", "rejected"}, Resolve(i, s) PROVE AloneInv'
    <2>1. \A n \in DOMAIN requests' :
             n \in DOMAIN requests /\ requests'[n].work = requests[n].work
      BY <1>4, RequestsType DEF Resolve, BrokerInv, TypeOK, Requests
    <2> QED
      BY <1>4, <2>1, OtherStepsWork DEF Resolve
  <1>5. CASE MarkStale
    <2>1. \A n \in DOMAIN requests' :
             n \in DOMAIN requests /\ requests'[n].work = requests[n].work
      BY <1>5, RequestsType DEF MarkStale, BrokerInv, Requests
    <2> QED
      BY <1>5, <2>1, OtherStepsWork DEF MarkStale
  <1>6. CASE ListStale \/ ListStarted \/ \E w \in Works, v \in Verdicts : EditPolicy(w, v)
    BY <1>6, OtherStepsWork DEF ListStale, ListStarted, EditPolicy
  <1> QED
    BY <1>1, <1>2, <1>3, <1>4, <1>5, <1>6, StepWork, DieWork, RecoverWork, RequestWork
    DEF Next, Operator

LEMMA AloneInvariant == Spec => [](BrokerInv /\ AloneInv)
  <1>1. Init => AloneInv
    BY AloneInit
  <1> QED
    BY <1>1, BrokerInvariant, AloneStays, PTL DEF Spec

(* tools/broker.py runs the executor at most once for an idempotency key,    *)
(* however calls, retries, recovery and policy edits interleave, unless a    *)
(* broker died over the call or two worked on it.                            *)
THEOREM BrokerEffectOnce == Spec => []EffectOnce
  <1>1. BrokerInv /\ AloneInv => EffectOnce
    <2> SUFFICES ASSUME BrokerInv, AloneInv, NEW k \in Keys, effects[k] > 1
                 PROVE  ~ Calm(k.work)
      BY DEF EffectOnce, Calm
    <2>1. effects[k] \in Nat /\ WorkInv(k.work)
      BY Paths DEF AloneInv, BrokerInv, TypeOK
    <2> QED
      BY <2>1 DEF WorkInv, RanOnce
  <1> QED
    BY <1>1, AloneInvariant, PTL

(* The request of a blocked call can be found again from its action row      *)
(* unless the broker died, had a rival, or recover failed the action.        *)
THEOREM BrokerLinksRequests == Spec => []RequestsAreLinked
  <1>1. BrokerInv /\ AloneInv => RequestsAreLinked
    <2> SUFFICES ASSUME BrokerInv, AloneInv, NEW i \in DOMAIN requests,
                        class[requests[i].work] # "command",
                        \A why \in {"death", "rival", "recovery"} :
                          <<requests[i].work, why>> \notin upset
                 PROVE  \/ LinkedTo(i) # {}
                        \/ \E b \in Brokers : pc[b] = "link" /\ job[b].id = i
      BY DEF RequestsAreLinked
    <2> DEFINE w == requests[i].work
               k == Key(w, << >>)
    <2>1. w \in Works
      BY RequestsType DEF BrokerInv, Requests
    <2>2. WorkLinked(w)
      BY <2>1 DEF AloneInv, WorkInv, Quiet, Calm
    <2>3. CASE rows[k].link = i
      <3>1. k \in Keys /\ k.path = << >>
        BY <2>1, Paths, KeyFields
      <3>2. \A m \in Keys : Len(k.path) <= Len(m.path)
        BY <3>1, Paths
      <3> QED
        BY <2>3, <3>1, <3>2 DEF LinkedTo
    <2> QED
      BY <2>2, <2>3 DEF WorkLinked, At
  <1> QED
    BY <1>1, AloneInvariant, PTL
=============================================================================

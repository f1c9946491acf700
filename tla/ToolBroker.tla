----------------------------- MODULE ToolBroker -----------------------------
(***************************************************************************)
(* ToolBroker.run and run_approved of tools/broker.py on the tables        *)
(* action_records and approval_requests of storage/db.py, with the         *)
(* operator commands that write the same rows: `ai-orch approvals          *)
(* approve|reject|retry|stale' and the action part of `ai-orch recover     *)
(* --apply' (cli/app.py).                                                  *)
(*                                                                         *)
(* Every committed write is an action of its own, and a process can die    *)
(* between any two of them.  Keyed events are folded into the write they   *)
(* follow (EventLog models the append); sandbox.decision events, which     *)
(* repeat a result, are left out.  The commands read the configuration     *)
(* when they start, and it can be edited between two of them.              *)
(***************************************************************************)
EXTENDS Integers, Sequences, FiniteSets

CONSTANTS
    Brokers,        \* processes that run tool calls or retry approvals
    Works,          \* tool calls, each with its own idempotency key, and commands
    NoWork,         \* the work of a broker that has had none
    Classes,        \* what the works can be, see `class'
    Policies,       \* what the patterns say when the project is configured
    MaxCalls,       \* bound: calls and retries begun
    MaxRequests,    \* bound: approval requests
    MaxDepth,       \* bound: retries of retries
    MaxEdits,       \* bound: edits of the policy
    MaxDecisions,   \* bound: operator decisions on requests
    MaxSweeps       \* bound: recover and stale commands

ASSUME WorkAssumption ==
    /\ NoWork \notin Works
    /\ Classes \subseteq [Works -> {"read", "risky", "dangerous", "command"}]
    /\ Policies \subseteq [Works -> {"allow", "ask", "deny"}]
ASSUME BrokerAssumption ==
    /\ MaxCalls \in Nat /\ MaxRequests \in Nat /\ MaxDepth \in Nat
    /\ MaxEdits \in Nat /\ MaxDecisions \in Nat /\ MaxSweeps \in Nat

VARIABLES
    rows,       \* action_records: idempotency key -> row
    requests,   \* approval_requests, in order of approval_id
    class,      \* a call of the read risk tier, of another, or dangerous by its
                \* text; or a command whose approval verification or memory asks
    policy,     \* what the configured patterns say of each command
    pc,         \* where each broker stands
    job,        \* each broker's local variables
    recovery,   \* keys recover listed and has not written yet
    expiring,   \* requests `approvals stale' listed and has not written yet
    log,        \* keyed task_events of the broker
    effects,    \* history: how often the executor was run under a key
    approved,   \* history: requests an operator ever approved
    upset,      \* history: works whose broker died, had a rival or was recovered
    used        \* the bounds used up so far

vars == <<rows, requests, class, policy, pc, job, recovery, expiring, log, effects,
          approved, upset, used>>

Ids == 1..MaxRequests
Statuses == {"started", "succeeded", "failed", "policy_denied", "needs_approval"}
Verdicts == {"allow", "ask", "deny"}

(* The key of a call, or of its approved retry: the retry of the action      *)
(* with key k under approval i has the key k:approval:i.                     *)
Keys == [work : Works, path : UNION {[1..n -> Ids] : n \in 0..MaxDepth}]
Key(w, path) == [work |-> w, path |-> path]
IsRetry(k) == k.path # << >>
Approval(k) == k.path[Len(k.path)]

(* link is the approval_id in the output of result_json, 0 for none.         *)
Absent == [status |-> "absent", link |-> 0]
Rows == [status : Statuses, link : 0..MaxRequests]
Requests == [work : Works, status : {"pending", "approved", "rejected", "stale"},
             retries : Nat, last : Statuses \union {"none"}]
Suffixes == {"blocked", "denied", "approved", "started", "replayed", "finished"}

NoKey == Key(NoWork, << >>)
NoJob == [key |-> NoKey, verdict |-> "allow", id |-> 0, result |-> "failed"]
Jobs == [key : Keys \union {NoKey}, verdict : Verdicts, id : 0..MaxRequests,
         result : Statuses]

TypeOK ==
    /\ rows \in [Keys -> Rows \union {Absent}]
    /\ requests \in Seq(Requests) /\ Len(requests) <= MaxRequests
    /\ class \in [Works -> {"read", "risky", "dangerous", "command"}]
    /\ policy \in [Works -> Verdicts]
    /\ pc \in [Brokers -> {"idle", "find", "record", "request", "link", "execute",
                           "complete", "deny", "count"}]
    /\ job \in [Brokers -> Jobs]
    /\ recovery \subseteq Keys /\ expiring \subseteq Ids
    /\ log \subseteq Keys \X Suffixes
    /\ effects \in [Keys -> Nat]
    /\ approved \subseteq Ids /\ upset \subseteq Works \X {"death", "rival", "recovery"}
    /\ used \in [calls : 0..MaxCalls, edits : 0..MaxEdits,
                 decisions : 0..MaxDecisions, sweeps : 0..MaxSweeps]

Init ==
    /\ rows = [k \in Keys |-> Absent]
    /\ requests = << >>
    /\ class \in Classes /\ policy \in Policies
    /\ pc = [b \in Brokers |-> "idle"]
    /\ job = [b \in Brokers |-> NoJob]
    /\ recovery = {} /\ expiring = {} /\ log = {}
    /\ effects = [k \in Keys |-> 0]
    /\ approved = {} /\ upset = {}
    /\ used = [calls |-> 0, edits |-> 0, decisions |-> 0, sweeps |-> 0]

Goto(b, label) == pc' = [pc EXCEPT ![b] = label]
Budget(field, limit) ==
    used[field] < limit /\ used' = [used EXCEPT ![field] = @ + 1]
Announce(k, suffixes) == log' = log \union ({k} \X suffixes)
Busy(w) == \E b \in Brokers : pc[b] # "idle" /\ job[b].key.work = w
Upset(w, why) == upset' = upset \union {<<w, why>>}

(* PolicyEngine's verdict, and the classification that only makes it stricter. *)
Verdict(w) == IF class[w] = "dangerous" THEN "deny" ELSE policy[w]

(* record_action: INSERT, or leave the row that holds the key.               *)
RecordAction(k, status, link) ==
    rows' = IF rows[k] = Absent
            THEN [rows EXCEPT ![k] = [status |-> status, link |-> link]] ELSE rows

(* complete_action_record: the row is written whatever it holds.             *)
CompleteAction(k, status, link) ==
    rows' = [rows EXCEPT ![k] = [status |-> status, link |-> link]]
-----------------------------------------------------------------------------
(* run and run_approved *)

Enter(b, k, id, verdict, label) ==
    /\ pc[b] = "idle" /\ Budget("calls", MaxCalls)
    /\ job' = [job EXCEPT ![b] = [key |-> k, id |-> id, verdict |-> verdict,
                                  result |-> "failed"]]
    /\ IF Busy(k.work) THEN Upset(k.work, "rival") ELSE UNCHANGED upset
    /\ Goto(b, label)

Call(b, w) ==
    /\ class[w] # "command"
    /\ Enter(b, Key(w, << >>), 0, Verdict(w), "record")
    /\ UNCHANGED <<rows, requests, class, policy, recovery, expiring, log, effects, approved>>

(* approvals retry: the status is read here and not again.                   *)
Retry(b, i) ==
    /\ i \in DOMAIN requests /\ requests[i].status = "approved"
    /\ Enter(b, Key(requests[i].work, << >>), i, "allow", "find")
    /\ UNCHANGED <<rows, requests, class, policy, recovery, expiring, log, effects, approved>>

(* The first action whose stored output names the approval.  Rows of a call  *)
(* are created in the order of their retries.                                *)
LinkedTo(i) ==
    {k \in Keys : rows[k].link = i
       /\ \A m \in Keys : rows[m].link = i => Len(k.path) <= Len(m.path)}

RetriedPath(w, i) ==
    IF class[w] = "command" THEN {<< >>} ELSE {k.path : k \in LinkedTo(i)}

Find(b) ==
    LET i == job[b].id
        w == job[b].key.work
    IN  /\ pc[b] = "find"
        /\ \A path \in RetriedPath(w, i) : Len(path) < MaxDepth
        /\ \/ \E path \in RetriedPath(w, i) :
                /\ job' = [job EXCEPT ![b].key = Key(w, Append(path, i)),
                                      ![b].verdict = Verdict(w)]
                /\ Goto(b, "record")
           \/ RetriedPath(w, i) = {} /\ Goto(b, "idle") /\ UNCHANGED job
        /\ UNCHANGED <<rows, requests, class, policy, recovery, expiring, log, effects,
                       approved, upset, used>>

(* Mutant: only the policy decides. *)
PolicyAsks(b) ==
    ~IsRetry(job[b].key) /\ job[b].verdict = "ask"

(* _blocked_status *)
NeedsApproval(b) ==
    /\ ~IsRetry(job[b].key) /\ job[b].verdict # "deny"
    /\ job[b].verdict = "ask" \/ class[job[b].key.work] = "risky"

RecordDenied(b) ==
    LET k == job[b].key IN
    /\ pc[b] = "record" /\ job[b].verdict = "deny"
    /\ IF IsRetry(k)
       THEN /\ RecordAction(k, "policy_denied", Approval(k))
            /\ Announce(k, {"denied"}) /\ Goto(b, "deny")
       ELSE /\ RecordAction(k, "policy_denied", 0)
            /\ Announce(k, {"blocked"}) /\ Goto(b, "idle")
    /\ UNCHANGED <<requests, class, policy, job, recovery, expiring, effects, approved, upset, used>>

(* Mutant: a call that was blocked before asks once more. *)
AskOnceMore(b) ==
    LET k == job[b].key IN
    /\ pc[b] = "record" /\ NeedsApproval(b)
    /\ RecordAction(k, "needs_approval", 0)
    /\ Announce(k, {"blocked"})
    /\ job' = [job EXCEPT ![b].id = 0]
    /\ Goto(b, "request")
    /\ UNCHANGED <<requests, class, policy, recovery, expiring, effects, approved, upset, used>>

(* An approval already linked to the action is used again.                   *)
RecordBlocked(b) ==
    LET k == job[b].key IN
    /\ pc[b] = "record" /\ NeedsApproval(b)
    /\ RecordAction(k, "needs_approval", 0)
    /\ Announce(k, {"blocked"})
    /\ job' = [job EXCEPT ![b].id = rows[k].link]
    /\ Goto(b, IF rows[k].link = 0 THEN "request" ELSE "link")
    /\ UNCHANGED <<requests, class, policy, recovery, expiring, effects, approved, upset, used>>

(* Mutant: the status of a new request is not one the table takes. *)
NewOpenRequest(w) ==
    /\ Len(requests) < MaxRequests
    /\ requests' = Append(requests, [work |-> w, status |-> "open",
                                     retries |-> 0, last |-> "none"])

NewRequest(w) ==
    /\ Len(requests) < MaxRequests
    /\ requests' = Append(requests, [work |-> w, status |-> "pending",
                                     retries |-> 0, last |-> "none"])

CreateRequest(b) ==
    /\ pc[b] = "request"
    /\ NewRequest(job[b].key.work)
    /\ job' = [job EXCEPT ![b].id = Len(requests) + 1]
    /\ Goto(b, "link")
    /\ UNCHANGED <<rows, class, policy, recovery, expiring, log, effects, approved, upset, used>>

LinkRequest(b) ==
    /\ pc[b] = "link"
    /\ CompleteAction(job[b].key, "needs_approval", job[b].id)
    /\ Goto(b, "idle")
    /\ UNCHANGED <<requests, class, policy, job, recovery, expiring, log, effects, approved,
                   upset, used>>

Unblocked(b) == pc[b] = "record" /\ job[b].verdict # "deny" /\ ~NeedsApproval(b)

(* Mutant: what is stored is not looked at. *)
StartAnyway(b) ==
    LET k == job[b].key IN
    /\ Unblocked(b)
    /\ RecordAction(k, "started", 0)
    /\ Announce(k, {"approved", "started"})
    /\ Goto(b, "execute")
    /\ UNCHANGED <<requests, class, policy, job, recovery, expiring, effects, approved, upset, used>>

(* Mutant: what failed is run again, too. *)
RestartFailed(b) ==
    LET k == job[b].key IN
    /\ Unblocked(b) /\ rows[k].status \in {"absent", "started", "failed"}
    /\ RecordAction(k, "started", 0)
    /\ Announce(k, {"approved", "started"})
    /\ Goto(b, "execute")
    /\ UNCHANGED <<requests, class, policy, job, recovery, expiring, effects, approved, upset, used>>

(* A row still started is run again: its owner may have died.                *)
RecordStarted(b) ==
    LET k == job[b].key IN
    /\ Unblocked(b) /\ rows[k].status \in {"absent", "started"}
    /\ RecordAction(k, "started", 0)
    /\ Announce(k, {"approved", "started"})
    /\ Goto(b, "execute")
    /\ UNCHANGED <<requests, class, policy, job, recovery, expiring, effects, approved, upset, used>>

(* _completed_result_from_action: the stored result is the answer.           *)
Replay(b) ==
    LET k == job[b].key IN
    /\ Unblocked(b) /\ rows[k].status \notin {"absent", "started"}
    /\ Announce(k, {"replayed"})
    /\ job' = [job EXCEPT ![b].result = rows[k].status]
    /\ Goto(b, IF IsRetry(k) THEN "count" ELSE "idle")
    /\ UNCHANGED <<rows, requests, class, policy, recovery, expiring, effects, approved, upset, used>>

(* The process, memory and file executors succeed, or fail in one of several *)
(* ways (an exception, a sandbox denial) that the broker handles alike.      *)
ExecutorResults == {"succeeded", "failed"}

Execute(b) ==
    /\ pc[b] = "execute"
    /\ effects' = [effects EXCEPT ![job[b].key] = @ + 1]
    /\ \E s \in ExecutorResults : job' = [job EXCEPT ![b].result = s]
    /\ Goto(b, "complete")
    /\ UNCHANGED <<rows, requests, class, policy, recovery, expiring, log, approved, upset, used>>

Complete(b) ==
    LET k == job[b].key IN
    /\ pc[b] = "complete"
    /\ CompleteAction(k, job[b].result, IF IsRetry(k) THEN Approval(k) ELSE 0)
    /\ Announce(k, {"finished"})
    /\ Goto(b, IF IsRetry(k) THEN "count" ELSE "idle")
    /\ UNCHANGED <<requests, class, policy, job, recovery, expiring, effects, approved, upset, used>>

(* A denied retry writes its row once more, with the action id in it.        *)
CompleteDenied(b) ==
    /\ pc[b] = "deny"
    /\ CompleteAction(job[b].key, "policy_denied", Approval(job[b].key))
    /\ job' = [job EXCEPT ![b].result = "policy_denied"]
    /\ Goto(b, "count")
    /\ UNCHANGED <<requests, class, policy, recovery, expiring, log, effects, approved, upset, used>>

(* record_approval_retry *)
CountRetry(b) ==
    /\ pc[b] = "count"
    /\ requests' = [requests EXCEPT ![job[b].id].retries = @ + 1,
                                    ![job[b].id].last = job[b].result]
    /\ Goto(b, "idle")
    /\ UNCHANGED <<rows, class, policy, job, recovery, expiring, log, effects, approved, upset, used>>

Die(b) ==
    /\ pc[b] # "idle"
    /\ Goto(b, "idle") /\ Upset(job[b].key.work, "death")
    /\ UNCHANGED <<rows, requests, class, policy, job, recovery, expiring, log, effects,
                   approved, used>>
-----------------------------------------------------------------------------
(* The operator *)

(* The supervisor's verification runner and the memory commands ask for the  *)
(* approval of a command themselves.                                         *)
RequestForCommand(w) ==
    /\ class[w] = "command" /\ NewRequest(w)
    /\ UNCHANGED <<rows, class, policy, pc, job, recovery, expiring, log, effects, approved,
                   upset, used>>

(* approvals approve and reject write any request there is.                  *)
Resolve(i, status) ==
    /\ i \in DOMAIN requests /\ Budget("decisions", MaxDecisions)
    /\ requests' = [requests EXCEPT ![i].status = status]
    /\ approved' = IF status = "approved" THEN approved \union {i} ELSE approved
    /\ UNCHANGED <<rows, class, policy, pc, job, recovery, expiring, log, effects, upset>>

(* approvals stale: the SELECT of old pending requests ...                   *)
ListStale ==
    /\ expiring = {} /\ Budget("sweeps", MaxSweeps)
    /\ \E n \in DOMAIN requests :
         expiring' = {i \in 1..n : requests[i].status = "pending"}
    /\ UNCHANGED <<rows, requests, class, policy, pc, job, recovery, log, effects, approved, upset>>

(* ... and the UPDATE of the ids it returned.                                *)
MarkStale ==
    /\ expiring # {}
    /\ requests' = [i \in DOMAIN requests |->
                      IF i \in expiring THEN [requests[i] EXCEPT !.status = "stale"]
                      ELSE requests[i]]
    /\ expiring' = {}
    /\ UNCHANGED <<rows, class, policy, pc, job, recovery, log, effects, approved, upset, used>>

(* recover --apply lists the started actions that are old enough, and then   *)
(* fails them one by one.                                                    *)
ListStarted ==
    /\ recovery = {} /\ Budget("sweeps", MaxSweeps)
    /\ recovery' \in SUBSET {k \in Keys : rows[k].status = "started"}
    /\ UNCHANGED <<rows, requests, class, policy, pc, job, expiring, log, effects, approved, upset>>

RecoverAction(k) ==
    /\ k \in recovery
    /\ CompleteAction(k, "failed", 0)
    /\ recovery' = recovery \ {k} /\ Upset(k.work, "recovery")
    /\ UNCHANGED <<requests, class, policy, pc, job, expiring, log, effects, approved, used>>

EditPolicy(w, verdict) ==
    /\ Budget("edits", MaxEdits) /\ policy[w] # verdict
    /\ policy' = [policy EXCEPT ![w] = verdict]
    /\ UNCHANGED <<rows, requests, class, pc, job, recovery, expiring, log, effects, approved, upset>>
-----------------------------------------------------------------------------
Step(b) ==
    \/ Find(b) \/ RecordDenied(b) \/ RecordBlocked(b) \/ CreateRequest(b)
    \/ LinkRequest(b) \/ RecordStarted(b) \/ Replay(b) \/ Execute(b) \/ Complete(b)
    \/ CompleteDenied(b) \/ CountRetry(b)

Operator ==
    \/ \E w \in Works : RequestForCommand(w)
    \/ \E i \in Ids, s \in {"approved", "rejected"} : Resolve(i, s)
    \/ ListStale \/ MarkStale \/ ListStarted
    \/ \E k \in Keys : RecoverAction(k)
    \/ \E w \in Works, v \in Verdicts : EditPolicy(w, v)

Next ==
    \/ \E b \in Brokers :
         \/ \E w \in Works : Call(b, w)
         \/ \E i \in Ids : Retry(b, i)
         \/ Step(b) \/ Die(b)
    \/ Operator

Spec == Init /\ [][Next]_vars
-----------------------------------------------------------------------------
(* PROPERTIES *)

(* Nothing dangerous is ever executed, a call above the read tier only as    *)
(* the retry of a request of its own that an operator has approved, and no   *)
(* execution precedes its started event - however policies, decisions and    *)
(* retries interleave (ADR-0003: deny rules stay stronger than approvals).   *)
Authorised ==
    \A k \in Keys : effects[k] > 0 =>
      /\ class[k.work] # "dangerous"
      /\ <<k, "started">> \in log
      /\ class[k.work] # "read" => IsRetry(k)
      /\ IsRetry(k) => Approval(k) \in approved /\ requests[Approval(k)].work = k.work

(* The executor runs at most once for a key, whatever is replayed, retried,  *)
(* recovered and reconfigured, unless a broker died over the call or two     *)
(* worked on it at a time.                                                   *)
EffectOnce ==
    \A k \in Keys : effects[k] > 1 => {<<k.work, "death">>, <<k.work, "rival">>} \intersect upset # {}

(* A request the broker made can be retried: some row names it, unless its   *)
(* broker died, had a rival, or recover failed the action under it.          *)
RequestsAreLinked ==
    \A i \in DOMAIN requests :
      \/ LinkedTo(i) # {}
      \/ class[requests[i].work] = "command"
      \/ \E b \in Brokers : pc[b] = "link" /\ job[b].id = i
      \/ \E why \in {"death", "rival", "recovery"} : <<requests[i].work, why>> \in upset

(* The action journal: an execution is begun by a process that was admitted  *)
(* while the action was open, and a completed action is never opened again.  *)
Ledger == INSTANCE ActionLedger WITH
            Workers <- Brokers,
            open <- {k \in Keys : rows[k].status = "started"},
            closed <- {k \in Keys : rows[k].status \notin {"absent", "started"}},
            admitted <- [k \in Keys |-> {b \in Brokers : pc[b] = "execute" /\ job[b].key = k}],
            runs <- effects
ImplementsLedger == Ledger!Spec
=============================================================================

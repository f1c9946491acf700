----------------------------- MODULE ActionLease -----------------------------
(***************************************************************************)
(* The lease on a row of action_records (storage/db.py): acquire,          *)
(* heartbeat and release by workers, and recover, which fails an action    *)
(* whose lease has run out.  One action.  The time a call works with is    *)
(* read when it begins, the row is updated later, and the record it        *)
(* returns is read later still, each by a statement of its own.            *)
(***************************************************************************)
EXTENDS Integers

CONSTANTS
    Workers,    \* lease owners
    NoOwner,    \* lease_owner NULL
    Ttl,        \* ttl_sec
    MaxTime     \* bound: the clock

ASSUME LeaseAssumption == NoOwner \notin Workers /\ Ttl \in Nat \ {0} /\ MaxTime \in Nat

VARIABLES
    row,        \* status, lease_owner and lease_expires_at of the action
    now,        \* the clock of the machine
    call,       \* where each worker's call stands
    clock,      \* the time its call works with
    until,      \* how long the worker's last granted lease lasts, 0 for none
    told,       \* the owner in the record its last call returned
    listed,     \* recover has listed the action as stale
    renewed     \* history: the lease was granted after that

leaseVars == <<row, now, call, clock, until, told, listed, renewed>>

Times == 0..MaxTime + Ttl
Leases ==
    [status : {"started", "succeeded", "failed"}, owner : Workers \union {NoOwner},
     expires : Times]

LeaseTypeOK ==
    /\ row \in Leases /\ now \in 0..MaxTime
    /\ call \in [Workers -> {"idle", "acquire", "heartbeat", "read"}]
    /\ clock \in [Workers -> 0..MaxTime] /\ until \in [Workers -> Times]
    /\ told \in [Workers -> Workers \union {NoOwner}]
    /\ listed \in BOOLEAN /\ renewed \in BOOLEAN

LeaseInit ==
    /\ row = [status |-> "started", owner |-> NoOwner, expires |-> 0] /\ now = 0
    /\ call = [w \in Workers |-> "idle"] /\ clock = [w \in Workers |-> 0]
    /\ until = [w \in Workers |-> 0] /\ told = [w \in Workers |-> NoOwner]
    /\ listed = FALSE /\ renewed = FALSE

MoveTo(w, label) == call' = [call EXCEPT ![w] = label]
-----------------------------------------------------------------------------
BeginCall(w, operation) ==
    /\ call[w] = "idle" /\ MoveTo(w, operation)
    /\ clock' = [clock EXCEPT ![w] = now]
    /\ UNCHANGED <<row, now, until, told, listed, renewed>>

(* The lease is free, the caller's own, or has run out by the caller's time. *)
Grants(w) ==
    row.owner \in {w, NoOwner} \/ row.expires <= clock[w]

Extend(w) ==
    /\ row' = [row EXCEPT !.owner = w, !.expires = clock[w] + Ttl]
    /\ until' = [until EXCEPT ![w] = clock[w] + Ttl]

Fail(w) == MoveTo(w, "idle") /\ UNCHANGED <<row, until>>

Acquire(w) ==
    /\ call[w] = "acquire"
    /\ IF row.status = "started" /\ Grants(w)
       THEN MoveTo(w, "read") /\ Extend(w) /\ renewed' = listed
       ELSE Fail(w) /\ UNCHANGED renewed
    /\ UNCHANGED <<now, clock, told, listed>>

(* Mutant: the owner is not compared. *)
HeartbeatOfAny(w) ==
    /\ call[w] = "heartbeat"
    /\ IF row.status = "started" /\ row.expires > clock[w]
       THEN MoveTo(w, "read") /\ Extend(w) /\ renewed' = listed
       ELSE Fail(w) /\ UNCHANGED renewed
    /\ UNCHANGED <<now, clock, told, listed>>

Heartbeat(w) ==
    /\ call[w] = "heartbeat"
    /\ IF row.status = "started" /\ row.owner = w /\ row.expires > clock[w]
       THEN MoveTo(w, "read") /\ Extend(w) /\ renewed' = listed
       ELSE Fail(w) /\ UNCHANGED renewed
    /\ UNCHANGED <<now, clock, told, listed>>

(* get_action_record, in a connection of its own.                            *)
ReadBack(w) ==
    /\ call[w] = "read" /\ MoveTo(w, "idle")
    /\ told' = [told EXCEPT ![w] = row.owner]
    /\ UNCHANGED <<row, now, clock, until, listed, renewed>>

Release(w) ==
    /\ call[w] = "idle" /\ row.owner = w
    /\ row' = [row EXCEPT !.owner = NoOwner, !.expires = 0]
    /\ until' = [until EXCEPT ![w] = 0] /\ told' = [told EXCEPT ![w] = NoOwner]
    /\ UNCHANGED <<now, call, clock, listed, renewed>>

(* complete_action_record asks for no lease and no status: whoever calls it  *)
(* writes its status and clears the lease, whose holder is not told.         *)
Closes(status) == row' = [status |-> status, owner |-> NoOwner, expires |-> 0]

Complete(w) ==
    /\ call[w] = "idle"
    /\ \E status \in {"succeeded", "failed"} : Closes(status)
    /\ UNCHANGED <<now, call, clock, until, told, listed, renewed>>

(* Mutant: the lease is not looked at. *)
ListStarted ==
    /\ ~listed /\ row.status = "started"
    /\ listed' = TRUE /\ renewed' = FALSE
    /\ UNCHANGED <<row, now, call, clock, until, told>>

(* recover --apply: list_stale_action_records, and complete as failed later. *)
ListStale ==
    /\ ~listed /\ row.status = "started"
    /\ row.owner # NoOwner => row.expires <= now
    /\ listed' = TRUE /\ renewed' = FALSE
    /\ UNCHANGED <<row, now, call, clock, until, told>>

RecoverAction ==
    /\ listed /\ Closes("failed") /\ listed' = FALSE
    /\ UNCHANGED <<now, call, clock, until, told, renewed>>

Tick ==
    /\ now < MaxTime /\ now' = now + 1
    /\ UNCHANGED <<row, call, clock, until, told, listed, renewed>>

LeaseNext ==
    \/ \E w \in Workers :
         \/ \E operation \in {"acquire", "heartbeat"} : BeginCall(w, operation)
         \/ Acquire(w) \/ Heartbeat(w) \/ ReadBack(w) \/ Release(w) \/ Complete(w)
    \/ ListStale \/ RecoverAction \/ Tick

LeaseSpec == LeaseInit /\ [][LeaseNext]_leaseVars
-----------------------------------------------------------------------------
(* PROPERTIES *)

Holds(w) == until[w] > now

(* Two workers never hold the lease at a time, although each judges it by a  *)
(* time it has read before; and while its lease lasts a worker is told that  *)
(* it has the lease, or that nobody has, when the action was completed or    *)
(* recovered under its lease: never that another has it.                     *)
LeaseIsExclusive ==
    \A v, w \in Workers :
      /\ Holds(v) /\ Holds(w) => v = w
      /\ Holds(w) /\ call[w] = "idle" =>
           told[w] = w \/ (told[w] = NoOwner /\ row.status # "started")

(* recover fails no action under a live lease (V0_5_GOAL_PLAN: recovery      *)
(* detects expired leases), unless the lease was granted - to a heartbeat    *)
(* begun in time, or to whoever took it over - after recover looked.         *)
RecoverSparesHolders ==
    [][RecoverAction /\ row.status = "started" => renewed \/ \A w \in Workers : ~ Holds(w)]_leaseVars
=============================================================================

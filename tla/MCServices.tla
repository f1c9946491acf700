----------------------------- MODULE MCServices -----------------------------
(***************************************************************************)
(* Small instances, for TLC, of the services every command stands on: the  *)
(* event log, the schema of the store, the lease of an action, and the     *)
(* process runner.  They share no state, so a behaviour exercises one of   *)
(* them and the others rest.                                               *)
(***************************************************************************)
EXTENDS EventLog, ActionLease, Migrations, ProcessRunner, TLC

CONSTANTS w1, w2, w3, k1, k2

VARIABLE part

MCWriters == {w1, w2, w3}
MCKeys == {k1, k2}
MCWorkers == {w1, w2}
MCProcs == {w1, w2}
MCOlds == {0, 1, 2, 3, 8, 12, 17, 18, 19, 20}

servicesVars == <<part, vars, schemaVars, leaseVars, processVars>>

ServicesInit ==
    /\ part \in {"events", "schema", "lease", "process"}
    /\ Init /\ SchemaInit /\ LeaseInit /\ ProcessInit
    /\ part # "schema" => disk.version = 0
    /\ part # "process" => ~polled /\ ~deaf

ServicesNext ==
    /\ UNCHANGED part
    /\ \/ /\ part = "events" /\ UNCHANGED <<schemaVars, leaseVars, processVars>>
          /\ Next
       \/ /\ part = "schema" /\ UNCHANGED <<vars, leaseVars, processVars>>
          /\ SchemaNext
       \/ /\ part = "lease" /\ UNCHANGED <<vars, schemaVars, processVars>>
          /\ LeaseNext
       \/ /\ part = "process" /\ UNCHANGED <<vars, schemaVars, leaseVars>>
          /\ ProcessNext

Alone(A) == part = "process" /\ UNCHANGED <<part, vars, schemaVars, leaseVars>> /\ A

ServicesSpec ==
    /\ ServicesInit /\ [][ServicesNext]_servicesVars
    /\ WF_servicesVars(Alone(Run)) /\ WF_servicesVars(Alone(DeadlinePasses))
-----------------------------------------------------------------------------
(* The properties of the services; each is stated and explained there.       *)

(* Every variable of the four has its type.                                  *)
TypesOK == TypeOK /\ SchemaTypeOK /\ LeaseTypeOK /\ ProcessTypeOK

(* See ProcessRunner: run ends after its deadline; the other parts start none. *)
CallReturns == part = "process" => RunReturns
=============================================================================

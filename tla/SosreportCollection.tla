------------------------- MODULE SosreportCollection -------------------------
(***************************************************************************)
(* What the operator promises its users, without caches, annotations or    *)
(* the steps of Reconcile.  A Sosreport u has a set of target nodes.  Each *)
(* of them is visited once: it waits, a Job runs on it, the Job ends.  A   *)
(* Job starts only below the limit in force, and never for a finished      *)
(* Sosreport.  Finished comes last and is final.  A handler that does not  *)
(* know of the deletion of its Sosreport yet may still start a Job, but    *)
(* never on a node visited before.                                         *)
(***************************************************************************)
EXTENDS Integers, FiniteSets

CONSTANTS
    UIDs,
    Targets     \* Targets[u]: the nodes Sosreport u is to be collected from

VARIABLES
    phase,      \* phase[u]: "none", "active", "finished" or "deleted"
    waiting,    \* waiting[u]: targets on which no Job has been started
    running,    \* running[u]: targets on which a Job runs
    limit       \* how many Jobs of one Sosreport may run

collectionVars == <<phase, waiting, running, limit>>

CollectionInit ==
    /\ phase   = [u \in UIDs |-> "none"]
    /\ waiting = Targets
    /\ running = [u \in UIDs |-> {}]
    /\ limit \in Int

Move(u, from, to) ==
    /\ phase[u] \in from
    /\ phase' = [phase EXCEPT ![u] = to]

Request(u) ==
    /\ Move(u, {"none"}, "active")
    /\ UNCHANGED <<waiting, running, limit>>

Start(u, node) ==
    /\ phase[u] \in {"active", "deleted"}
    /\ node \in waiting[u]
    /\ Cardinality(running[u]) < limit
    /\ waiting' = [waiting EXCEPT ![u] = @ \ {node}]
    /\ running' = [running EXCEPT ![u] = @ \cup {node}]
    /\ UNCHANGED <<phase, limit>>

(* The Job on the node completes, fails for good or is deleted, by a user  *)
(* or because its Sosreport is.                                            *)
End(u, node) ==
    /\ node \in running[u]
    /\ running' = [running EXCEPT ![u] = @ \ {node}]
    /\ UNCHANGED <<phase, waiting, limit>>

Finish(u) ==
    /\ waiting[u] = {} /\ running[u] = {}
    /\ Move(u, {"active"}, "finished")
    /\ UNCHANGED <<waiting, running, limit>>

Delete(u) ==
    /\ Move(u, {"active", "finished"}, "deleted")
    /\ UNCHANGED <<waiting, running, limit>>

SetLimit ==
    /\ limit' \in Int
    /\ UNCHANGED <<phase, waiting, running>>

CollectionNext ==
    \/ \E u \in UIDs :
          \/ Request(u) \/ Finish(u) \/ Delete(u)
          \/ \E node \in waiting[u] : Start(u, node)
          \/ \E node \in running[u] : End(u, node)
    \/ SetLimit

Collecting == CollectionInit /\ [][CollectionNext]_collectionVars

=============================================================================

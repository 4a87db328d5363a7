------------------------- MODULE SosreportRefinement -------------------------
(***************************************************************************)
(* SosreportOperator implements SosreportCollection, as long as the        *)
(* manager's process lives, no response to a Create of a Job is lost and   *)
(* the List of nodes does not fail.  The waiting nodes are read from the   *)
(* controller's memory, the running ones from the stored Jobs, the phase   *)
(* from the stored Sosreports: the refinement ties the three together.     *)
(***************************************************************************)
EXTENDS SosreportOperator

Exists(u) == \E n \in Names : api[n].uid = u

Finished(u) == \E n \in Names : IsFinished(n, u)

Phase(u) ==
    IF u \notin created THEN "none"
    ELSE IF Finished(u) THEN "finished"
    ELSE IF Exists(u) THEN "active" ELSE "deleted"

(* A Sosreport that has not been scheduled has all its nodes before it;    *)
(* then the list to run, without the nodes that the loop under way has     *)
(* started, is what it has before it.  This reads the memory of a process  *)
(* that has lived all along: whoever is not on the runList has not been    *)
(* scheduled.  After a restart that is not so (see NodesLeft of            *)
(* SosreportRestart), and the mapping would not be one.                    *)
WaitingNodes(u) ==
    IF u \in runList THEN ToRunNodes(u) \ StartedNodes(u) ELSE Eligible(u)

BusyNodes(u) == {j.node : j \in LiveJobs(u)}

PhaseMap   == [u \in UIDs |-> Phase(u)]
WaitingMap == [u \in UIDs |-> WaitingNodes(u)]
BusyMap    == [u \in UIDs |-> BusyNodes(u)]
EligibleMap == [u \in UIDs |-> Eligible(u)]

Collection == INSTANCE SosreportCollection WITH
    Targets <- EligibleMap, phase <- PhaseMap, waiting <- WaitingMap,
    running <- BusyMap, limit <- sosreportConcurrency

(* Each step of the operator, in whatever interleaving of users, informers *)
(* and Reconcile, is a step of SosreportCollection or changes nothing that *)
(* can be seen there: nodes are visited once, below the limit, and         *)
(* Finished comes after all of them and is final.                          *)
ImplementsCollection == Collection!Collecting

-----------------------------------------------------------------------------
(* A UID is given to one Sosreport, and nothing works on a UID that has    *)
(* not been given.                                                         *)
UidsGiven ==
    /\ runList \subseteq created
    /\ \A n \in Names :
          /\ api[n].uid \in created \cup {NoUid}
          /\ cache[n].uid \in created \cup {NoUid}
          /\ \A v \in watch[n] : v.uid \in created \cup {NoUid}
    /\ \A m, n \in Names : api[m].uid = api[n].uid => m = n \/ api[n].uid = NoUid

=============================================================================

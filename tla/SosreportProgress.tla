-------------------------- MODULE SosreportProgress --------------------------
(***************************************************************************)
(* Why the stored status of a Sosreport shows IN PROGRESS while one of its *)
(* Jobs runs, although it is written only once, by the Reconcile that      *)
(* schedules the Sosreport, and never again if that write conflicts.       *)
(***************************************************************************)
EXTENDS SosreportRestart

(* Reconcile schedules the Sosreport stored under n.                       *)
Scheduling(n) ==
    pc \in {"scheduleUpdate", "scheduleStatus"} /\ req = n /\ s.uid = api[n].uid

(* Nobody writes to a Sosreport before it is put on the runList, so        *)
(* whatever the cache shows of it is the stored version ...                *)
Untouched ==
    \A n \in Names : \A v \in Versions(n) :
        v.uid = api[n].uid /\ v.uid \notin runList /\ v.uid # NoUid
            => v.rv = api[n].rv

(* ... and the copy that is made of it then stays current: both writes of  *)
(* the scheduling are accepted, and no Job is created before them.         *)
SchedulingCurrent ==
    /\ \A n \in Names : Scheduling(n) => s.rv = api[n].rv
    /\ pc \in {"scheduleUpdate", "scheduleStatus"} =>
          \A j \in jobs : j.owner # s.uid

(* While nodes are on its lists a Sosreport is in progress.                *)
Listed(u) == ToRunNodes(u) \cup RunningNodes(u)

ListedInProgress ==
    \A n \in Names : \A u \in UIDs :
        api[n].uid = u /\ Listed(u) # {}
            => api[n].status.inProgress \/ Scheduling(n)

(* If no write is rejected, no response is lost and nobody else writes to  *)
(* Sosreports, these are kept as long as the process lives.                *)
ProgressInv == Untouched /\ SchedulingCurrent /\ ListedInProgress

=============================================================================

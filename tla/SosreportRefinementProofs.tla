---------------------- MODULE SosreportRefinementProofs ----------------------
(***************************************************************************)
(* SosreportOperator implements SosreportCollection, for every choice of   *)
(* the constants that rules out crashes, lost responses to Creates and     *)
(* failing Lists of nodes or Jobs.  And no node is forgotten, with crashes *)
(* or with rejected writes, unless a List of nodes fails or users delete   *)
(* Jobs.                                                                   *)
(***************************************************************************)
EXTENDS SosreportRefinement, SosreportCoverProofs

(* Every List of nodes answers.                                            *)
NoListFail == budget["listFail"] = 0

(* No user deletes a Job by hand any more.                                 *)
NoJobDeleted == budget["deleteJob"] = 0

(* A budget without failing Lists, or without deletions of Jobs, remains   *)
(* without them.                                                           *)
LEMMA ListsAnswerStep ==
    ASSUME TypeOK, [Next]_vars
    PROVE  (NoListFail => NoListFail') /\ (NoJobDeleted => NoJobDeleted')
BY BudgetStep DEF NoListFail, NoJobDeleted, FaultKinds

-----------------------------------------------------------------------------
(* UIDs.                                                                   *)

(* The UIDs stay in order when a step stores under a name what has the UID *)
(* stored there, or deletes it.                                            *)
LEMMA UidsKept ==
    ASSUME TypeOK, UidsGiven, UNCHANGED <<cache, created>>,
           runList' \subseteq created,
           \/ UNCHANGED <<api, watch>>
           \/ \E n \in Names, v \in Version :
                 Store(n, v) /\ v.uid \in {api[n].uid, NoUid}
    PROVE  UidsGiven'
<1> USE DEF TypeOK, KubeTypeOK
<1>1. CASE UNCHANGED <<api, watch>>
  BY <1>1 DEF UidsGiven
<1>2. ASSUME NEW n \in Names, NEW v \in Version,
             Store(n, v), v.uid \in {api[n].uid, NoUid}
      PROVE  UidsGiven'
  <2>1. \A m \in Names : /\ api'[m] = IF m = n THEN v ELSE api[m]
                         /\ watch'[m] \subseteq watch[m] \cup {v}
    BY <1>2 DEF Store
  <2>2. v.uid \in created \cup {NoUid}
    BY <1>2 DEF UidsGiven
  <2>3. \A m \in Names : api'[m].uid \in {api[m].uid, NoUid}
    BY <1>2, <2>1
  <2>4. \A m, k \in Names :
           api'[m].uid = api'[k].uid => m = k \/ api'[k].uid = NoUid
    BY <2>3 DEF UidsGiven
  <2>5. \A m \in Names : /\ api'[m].uid \in created \cup {NoUid}
                         /\ cache[m].uid \in created \cup {NoUid}
    BY <2>3 DEF UidsGiven
  <2>6. \A m \in Names : \A w \in watch'[m] : w.uid \in created \cup {NoUid}
    BY <2>1, <2>2 DEF UidsGiven
  <2>7. QED
    BY <2>4, <2>5, <2>6 DEF UidsGiven
<1>3. QED
  BY <1>1, <1>2

(* Reconcile stores under a name what keeps the UID stored there.          *)
LEMMA ReconcilerStores ==
    ASSUME TypeOK, ReconcilerNext
    PROVE  \/ UNCHANGED <<api, watch>>
           \/ \E n \in Names, v \in Version : Store(n, v) /\ v.uid = api[n].uid
<1> DEFINE Kept == \/ UNCHANGED <<api, watch>>
                   \/ \E n \in Names, v \in Version :
                         Store(n, v) /\ v.uid = api[n].uid
<1> USE DEF TypeOK, KubeTypeOK, ReconcilerTypeOK
<1>1. ASSUME NEW n \in Names, NEW v \in Version, Update(n, v)
      PROVE  Kept
  <2>1. WithAnnotations(n, v) \in Version
    BY WithAnnotationsIsVersion
  <2>2. WithAnnotations(n, v).uid = api[n].uid
    BY DEF WithAnnotations
  <2>3. QED
    BY <1>1, <2>1, <2>2 DEF Update
<1>2. ASSUME NEW n \in Names, NEW v \in Version,
             UpdateStatus(n, v) \/ Reordered(n, v)
      PROVE  Kept
  <2>1. WithStatus(n, v) \in Version
    BY WithStatusIsVersion
  <2>2. WithStatus(n, v).uid = api[n].uid
    BY DEF WithStatus
  <2>3. QED
    BY <1>2, <2>1, <2>2 DEF UpdateStatus, Reordered
<1>3. pc # "idle" => req \in Names /\ s \in Version
  OBVIOUS
<1>4. CASE ScheduleUpdate \/ DequeueUpdate \/ RunUpdate
  BY <1>1, <1>3, <1>4 DEF ScheduleUpdate, DequeueUpdate, RunUpdate
<1>5. CASE ScheduleStatus
  <2>1. [s EXCEPT !.status.inProgress = TRUE] \in Version
    BY DEF Version, Status
  <2> DEFINE v == [s EXCEPT !.status.inProgress = TRUE]
  <2>2. UpdateStatus(req, v) /\ req \in Names
    BY <1>3, <1>5 DEF ScheduleStatus
  <2> HIDE DEF v
  <2>3. v \in Version
    BY <2>1 DEF v
  <2>4. QED
    BY <1>2, <2>2, <2>3
<1>6. CASE Conclude
  <2>1. Concluded(s) \in Version /\ req \in Names
    BY <1>3, <1>6, ConcludedIsVersion DEF Conclude
  <2>2. QED
    BY <1>2, <1>6, <2>1 DEF Conclude
<1>7. CASE RunSosreportJobs
  BY <1>7 DEF RunSosreportJobs, CreatePvc, CreateJob, EndLoop, kubeVars
<1>8. ASSUME NEW n \in queue, ScheduleNoNodes(n) PROVE Kept
  <2>1. n \in Names /\ cache[n] \in Version
    BY <1>8, BeginType DEF ScheduleNoNodes
  <2> DEFINE v == [cache[n] EXCEPT !.status.inProgress = FALSE]
  <2>2. v \in Version
    BY <2>1 DEF Version, Status
  <2>3. UpdateStatus(n, v)
    BY <1>8 DEF ScheduleNoNodes
  <2> HIDE DEF v
  <2>4. QED
    BY <1>2, <2>1, <2>2, <2>3
<1>9. ASSUME NEW n \in queue, Reconcile(n) PROVE Kept
  BY <1>8, <1>9 DEF Reconcile, ReconcileIgnored, ScheduleListFails, Schedule,
                    Continue, ContinueListFails, kubeVars
<1>10. QED
  BY <1>4, <1>5, <1>6, <1>7, <1>9 DEF ReconcilerNext

(* Reconcile puts a Sosreport on the runList that it has read.             *)
LEMMA RunListKnown ==
    ASSUME TypeOK, UidsGiven, ReconcilerNext
    PROVE  runList' \subseteq created
<1> USE DEF TypeOK, KubeTypeOK, ReconcilerTypeOK
<1>1. CASE runList' = runList
  BY <1>1 DEF UidsGiven
<1>2. ASSUME NEW n \in queue, Begin(n), runList' = runList \cup {cache[n].uid}
      PROVE  runList' \subseteq created
  BY <1>2 DEF UidsGiven, Begin, IsIgnored
<1>3. QED
  BY <1>1, <1>2
     DEF ReconcilerNext, Reconcile, ReconcileIgnored, ScheduleListFails,
         ScheduleNoNodes, Schedule, Continue, ContinueListFails,
         ScheduleUpdate, ScheduleStatus, DequeueUpdate, RunSosreportJobs,
         CreatePvc, CreateJob, EndLoop, RunUpdate, Conclude, memVars

(* Every step gives UIDs in order.                                         *)
LEMMA UidsStep ==
    ASSUME TypeOK, TypeOK', UidsGiven, [Next]_vars
    PROVE  UidsGiven'
<1> USE DEF TypeOK, KubeTypeOK, ReconcilerTypeOK
<1>1. runList \subseteq created
  BY DEF UidsGiven
<1>2. CASE Controller
  <2>1. UNCHANGED <<cache, created>>
    BY <1>2 DEF Controller, ReconcilerNext, Reconcile, ReconcileIgnored,
                ScheduleListFails, ScheduleNoNodes, Schedule, Continue,
                ContinueListFails, ScheduleUpdate, ScheduleStatus,
                DequeueUpdate, RunSosreportJobs, CreatePvc, CreateJob,
                EndLoop, RunUpdate, Conclude, kubeVars
  <2>2. QED
    BY <1>2, <2>1, RunListKnown, ReconcilerStores, UidsKept DEF Controller
<1>3. ASSUME NEW n \in Names, NEW u \in UIDs, CreateSosreport(n, u)
      PROVE  UidsGiven'
  <2> DEFINE v == Fresh(u, api[n].rv + 1)
  <2>1. v.uid = u
    BY DEF Fresh
  <2>2. /\ api' = [api EXCEPT ![n] = v]
        /\ watch' = [watch EXCEPT ![n] = @ \cup {v}]
        /\ created' = created \cup {u} /\ u \notin created
        /\ UNCHANGED <<cache, runList>>
    BY <1>3 DEF CreateSosreport, Store, recVars
  <2> HIDE DEF v
  <2>3. \A m \in Names : api'[m].uid = IF m = n THEN u ELSE api[m].uid
    BY <2>1, <2>2
  <2>4. \A m \in Names : \A w \in watch'[m] : w.uid \in created' \cup {NoUid}
    BY <2>1, <2>2 DEF UidsGiven
  <2>5. u # NoUid /\ \A m \in Names : api[m].uid # u
    BY <2>2, KubeApiAssumption DEF UidsGiven
  <2>6. \A m, k \in Names :
           api'[m].uid = api'[k].uid => m = k \/ api'[k].uid = NoUid
    BY <2>3, <2>5 DEF UidsGiven
  <2>7. QED
    BY <2>2, <2>3, <2>4, <2>6 DEF UidsGiven
<1>4. ASSUME NEW n \in Names, TouchSosreport(n) PROVE UidsGiven'
  <2> DEFINE v == [api[n] EXCEPT !.rv = @ + 1]
  <2>1. v \in Version
    BY VersionParts DEF Version
  <2>2. v.uid = api[n].uid
    OBVIOUS
  <2>3. Store(n, v) /\ UNCHANGED <<cache, created, runList>>
    BY <1>4 DEF TouchSosreport, memVars
  <2> HIDE DEF v
  <2>4. QED
    BY <1>1, <2>1, <2>2, <2>3, UidsKept
<1>5. ASSUME NEW n \in Names, DeleteSosreport(n) PROVE UidsGiven'
  <2>1. api[n].rv + 1 \in Nat
    BY VersionParts
  <2>2. /\ Fresh(NoUid, api[n].rv + 1) \in Version
        /\ Fresh(NoUid, api[n].rv + 1).uid = NoUid
    BY <2>1, FreshIsVersion DEF Fresh
  <2>3. /\ Store(n, Fresh(NoUid, api[n].rv + 1))
        /\ UNCHANGED <<cache, created, runList>>
    BY <1>5 DEF DeleteSosreport, memVars
  <2>4. QED
    BY <1>1, <2>2, <2>3, UidsKept
<1>6. ASSUME NEW n \in Names, Deliver(n) PROVE UidsGiven'
  <2>1. PICK v \in watch[n] : /\ cache' = [cache EXCEPT ![n] = v]
                              /\ watch' = [watch EXCEPT ![n] = @ \ {v}]
    BY <1>6 DEF Deliver
  <2>2. UNCHANGED <<api, created, runList>>
    BY <1>6 DEF Deliver, memVars
  <2>3. QED
    BY <2>1, <2>2 DEF UidsGiven
<1>7. CASE Crash \/ Panic
  <2>1. UNCHANGED <<api, created>> /\ cache' = api /\ runList' = {}
        /\ watch' = [n \in Names |-> {}]
    BY <1>7 DEF Crash, Panic, Restart
  <2>2. QED
    BY <2>1 DEF UidsGiven
<1>8. CASE UNCHANGED <<api, watch, cache, created, runList>>
  BY <1>1, <1>8, UidsKept
<1>9. QED
  BY <1>2, <1>3, <1>4, <1>5, <1>6, <1>7, <1>8
     DEF Next, Users, Informers, Cluster, DeleteJob, SetConcurrency, Resync,
         JobEvent, JobCompletes, JobFinishes, GarbageCollect, Collect, vars,
         kubeVars, recVars, memVars, storeVars

-----------------------------------------------------------------------------
(* The three maps of the refinement.                                       *)

(* A step that stores nothing, or stores a version of the same Sosreport   *)
(* that is finished if and only if the stored one was, changes no phase.   *)
LEMMA PhaseSame ==
    ASSUME TypeOK, UNCHANGED created,
           \/ UNCHANGED api
           \/ \E n \in Names, v \in Version :
                 /\ api' = [api EXCEPT ![n] = v]
                 /\ v.uid = api[n].uid
                 /\ v.status.finished = api[n].status.finished
    PROVE  UNCHANGED PhaseMap
<1>1. \A n \in Names : /\ api'[n].uid = api[n].uid
                       /\ api'[n].status.finished = api[n].status.finished
  BY DEF TypeOK, KubeTypeOK
<1>2. \A u \in UIDs : Exists(u)' = Exists(u) /\ Finished(u)' = Finished(u)
  BY <1>1 DEF Exists, Finished, IsFinished
<1>3. \A u \in UIDs : Phase(u)' = Phase(u)
  BY <1>2 DEF Phase
<1>4. QED
  BY <1>3 DEF PhaseMap

(* A step that leaves the lists and the nodes started in the loop alone.   *)
LEMMA WaitingSame ==
    ASSUME \A u \in UIDs :
              WaitingNodes(u)' = WaitingNodes(u)
    PROVE  UNCHANGED WaitingMap
BY DEF WaitingMap

(* A step outside of Reconcile does.                                       *)
LEMMA WaitingOutside ==
    ASSUME UNCHANGED <<localVars, memVars>>
    PROVE  UNCHANGED WaitingMap
<1>1. \A u \in UIDs : WaitingNodes(u)' = WaitingNodes(u)
  BY DEF WaitingNodes, ToRunNodes, StartedNodes, localVars, memVars
<1>2. QED
  BY <1>1, WaitingSame

(* A step that keeps the Jobs and what is done of them.                    *)
LEMMA BusySame ==
    ASSUME UNCHANGED <<jobs, doneJobs>>
    PROVE  UNCHANGED BusyMap
BY DEF BusyMap, BusyNodes, LiveJobs

(* A step that changes none of the maps sets the limit, at most.           *)
LEMMA SeenAsSetLimit ==
    ASSUME TypeOK', UNCHANGED <<PhaseMap, WaitingMap, BusyMap>>
    PROVE  Collection!CollectionNext
BY DEF Collection!CollectionNext, Collection!SetLimit, TypeOK, ReconcilerTypeOK

(* A live Job j disappears or is done: its node is not busy any more.      *)
LEMMA BusyLess ==
    ASSUME TypeOK, TypeOK', OneJobPerNode, NEW j \in jobs \ doneJobs,
           jobs' \ doneJobs' = (jobs \ doneJobs) \ {j}
    PROVE  /\ j.owner \in UIDs
           /\ j.node \in BusyNodes(j.owner)
           /\ BusyMap' = [BusyMap EXCEPT ![j.owner] = @ \ {j.node}]
<1>1. j.owner \in UIDs
  BY DEF Job, TypeOK, KubeTypeOK
<1>2. j.node \in BusyNodes(j.owner)
  BY DEF BusyNodes, LiveJobs
<1>3. ASSUME NEW u \in UIDs
      PROVE  BusyNodes(u)' = IF u = j.owner THEN BusyNodes(u) \ {j.node}
                             ELSE BusyNodes(u)
  <2>1. LiveJobs(u)' = LiveJobs(u) \ {j}
    BY DEF LiveJobs
  <2>2. CASE u = j.owner
    <3>1. \A k \in LiveJobs(u) : k.node = j.node => k = j
      BY <2>2 DEF LiveJobs, OneJobPerNode
    <3>2. QED
      BY <2>1, <2>2, <3>1 DEF BusyNodes
  <2>3. CASE u # j.owner
    <3>1. LiveJobs(u)' = LiveJobs(u)
      BY <2>1, <2>3 DEF LiveJobs
    <3>2. QED
      BY <2>3, <3>1 DEF BusyNodes
  <2>4. QED
    BY <2>2, <2>3
<1>4. QED
  BY <1>1, <1>2, <1>3 DEF BusyMap

(* The end of a live Job is seen as End.                                   *)
LEMMA SeenAsEnd ==
    ASSUME TypeOK, TypeOK', OneJobPerNode, NEW j \in jobs \ doneJobs,
           jobs' \ doneJobs' = (jobs \ doneJobs) \ {j},
           UNCHANGED <<api, created, localVars, memVars>>
    PROVE  Collection!CollectionNext
<1>1. UNCHANGED <<PhaseMap, WaitingMap, sosreportConcurrency>>
  BY PhaseSame, WaitingOutside DEF memVars
<1>2. j.owner \in UIDs /\ j.node \in BusyMap[j.owner]
  BY BusyLess DEF BusyMap
<1>3. Collection!End(j.owner, j.node)
  BY <1>1, <1>2, BusyLess DEF Collection!End
<1>4. QED
  BY <1>2, <1>3 DEF Collection!CollectionNext

(* That of a Job that is deleted is not, if it had ended before.           *)
LEMMA RemovalSeen ==
    ASSUME TypeOK, TypeOK', ListsInv, NEW j \in jobs, RemoveJob(j),
           UNCHANGED <<api, created, localVars, memVars>>
    PROVE  Collection!CollectionNext
<1> USE DEF TypeOK, KubeTypeOK
<1>1. CASE j \in doneJobs
  <2>1. jobs' \ doneJobs' = jobs \ doneJobs
    BY <1>1 DEF RemoveJob
  <2>2. UNCHANGED BusyMap
    BY <2>1 DEF BusyMap, BusyNodes, LiveJobs
  <2>3. QED
    BY <2>2, PhaseSame, WaitingOutside, SeenAsSetLimit
<1>2. CASE j \notin doneJobs
  <2>1. jobs' \ doneJobs' = (jobs \ doneJobs) \ {j}
    BY <1>2 DEF RemoveJob
  <2>2. OneJobPerNode
    BY DEF ListsInv, JobsListed
  <2>3. QED
    BY <1>2, <2>1, <2>2, SeenAsEnd
<1>3. QED
  BY <1>1, <1>2

(* What users do is seen as Request, Delete, End, or not at all.           *)
LEMMA UserRefines ==
    ASSUME TypeOK, TypeOK', UidsGiven, ListsInv, Users
    PROVE  Collection!CollectionNext
<1> USE DEF TypeOK, KubeTypeOK
<1>1. ASSUME NEW n \in Names, NEW u \in UIDs, CreateSosreport(n, u)
      PROVE  Collection!CollectionNext
  <2>1. UNCHANGED <<WaitingMap, BusyMap, sosreportConcurrency>>
    BY <1>1, WaitingOutside, BusySame
       DEF CreateSosreport, recVars, localVars, memVars, childVars
  <2>2. /\ u \notin created /\ created' = created \cup {u}
        /\ api[n].uid = NoUid
        /\ api' = [api EXCEPT ![n] = Fresh(u, api[n].rv + 1)]
    BY <1>1 DEF CreateSosreport, Store
  <2>3. /\ api'[n].uid = u /\ api'[n].status.finished = FALSE
        /\ \A m \in Names \ {n} : api'[m] = api[m]
    BY <2>2 DEF Fresh, NewStatus
  <2>4. u # NoUid /\ \A m \in Names : api[m].uid # u
    BY <2>2, KubeApiAssumption DEF UidsGiven
  <2>5. Phase(u) = "none" /\ Phase(u)' = "active"
    <3>1. Exists(u)' /\ ~Finished(u)'
      BY <2>3, <2>4 DEF Exists, Finished, IsFinished
    <3>2. QED
      BY <2>2, <3>1 DEF Phase
  <2>6. \A w \in UIDs \ {u} : Phase(w)' = Phase(w)
    <3>1. \A w \in UIDs \ {u} : Exists(w)' = Exists(w) /\ Finished(w)' = Finished(w)
      BY <2>2, <2>3, KubeApiAssumption DEF Exists, Finished, IsFinished
    <3>2. QED
      BY <2>2, <3>1 DEF Phase
  <2>7. Collection!Move(u, {"none"}, "active")
    BY <2>5, <2>6 DEF Collection!Move, PhaseMap
  <2>8. QED
    BY <2>1, <2>7 DEF Collection!Request, Collection!CollectionNext
<1>2. ASSUME NEW n \in Names, TouchSosreport(n)
      PROVE  Collection!CollectionNext
  <2> DEFINE v == [api[n] EXCEPT !.rv = @ + 1]
  <2>1. v \in Version
    BY VersionParts DEF Version
  <2>2. v.uid = api[n].uid /\ v.status = api[n].status
    OBVIOUS
  <2>3. Store(n, v) /\ UNCHANGED <<created, jobs, doneJobs, localVars, memVars>>
    BY <1>2 DEF TouchSosreport, childVars
  <2> HIDE DEF v
  <2>4. UNCHANGED PhaseMap
    BY <2>1, <2>2, <2>3, PhaseSame DEF Store
  <2>5. QED
    BY <2>3, <2>4, WaitingOutside, BusySame, SeenAsSetLimit
<1>3. ASSUME NEW n \in Names, DeleteSosreport(n)
      PROVE  Collection!CollectionNext
  <2>1. UNCHANGED <<WaitingMap, BusyMap, sosreportConcurrency>>
    BY <1>3, WaitingOutside, BusySame
       DEF DeleteSosreport, memVars, childVars
  <2>2. PICK u \in UIDs : u = api[n].uid
    BY <1>3 DEF DeleteSosreport, Version
  <2>3. /\ api' = [api EXCEPT ![n] = Fresh(NoUid, api[n].rv + 1)]
        /\ UNCHANGED created
    BY <1>3 DEF DeleteSosreport, Store
  <2>4. /\ u # NoUid /\ u \in created
        /\ \A m \in Names \ {n} : api[m].uid # u
    BY <2>2, KubeApiAssumption DEF UidsGiven
  <2>5. /\ api'[n].uid = NoUid
        /\ \A m \in Names \ {n} : api'[m] = api[m]
    BY <2>3 DEF Fresh
  <2>6. Phase(u) \in {"active", "finished"} /\ Phase(u)' = "deleted"
    <3>1. Exists(u) /\ ~Exists(u)' /\ ~Finished(u)'
      BY <2>2, <2>4, <2>5 DEF Exists, Finished, IsFinished
    <3>2. QED
      BY <2>3, <2>4, <3>1 DEF Phase
  <2>7. \A w \in UIDs \ {u} : Phase(w)' = Phase(w)
    <3>1. \A w \in UIDs \ {u} : Exists(w)' = Exists(w) /\ Finished(w)' = Finished(w)
      BY <2>2, <2>5, KubeApiAssumption DEF Exists, Finished, IsFinished
    <3>2. QED
      BY <2>3, <3>1 DEF Phase
  <2>8. Collection!Move(u, {"active", "finished"}, "deleted")
    BY <2>6, <2>7 DEF Collection!Move, PhaseMap
  <2>9. QED
    BY <2>1, <2>8 DEF Collection!Delete, Collection!CollectionNext
<1>4. ASSUME NEW j \in jobs, DeleteJob(j) PROVE Collection!CollectionNext
  BY <1>4, RemovalSeen DEF DeleteJob, storeVars
<1>5. ASSUME NEW c \in ConcurrencySettings, SetConcurrency(c)
      PROVE  Collection!CollectionNext
  BY <1>5, PhaseSame, WaitingOutside, BusySame, SeenAsSetLimit
     DEF SetConcurrency, kubeVars
<1>6. QED
  BY <1>1, <1>2, <1>3, <1>4, <1>5 DEF Users

(* Informers are not seen.                                                 *)
LEMMA InformerRefines ==
    ASSUME TypeOK, TypeOK', Informers
    PROVE  Collection!CollectionNext
<1>1. UNCHANGED <<api, created, jobs, doneJobs, localVars, memVars>>
  BY DEF Informers, Deliver, Resync, JobEvent, kubeVars, childVars
<1>2. QED
  BY <1>1, PhaseSame, WaitingOutside, BusySame, SeenAsSetLimit

(* Jobs end, and the dependents of a deleted Sosreport are collected.      *)
LEMMA ClusterRefines ==
    ASSUME TypeOK, TypeOK', ListsInv, NoLoss, CopyHasList, Cluster
    PROVE  Collection!CollectionNext
<1> USE DEF TypeOK, KubeTypeOK
<1>1. ASSUME NEW j \in jobs, JobCompletes(j) PROVE Collection!CollectionNext
  <2>1. /\ UNCHANGED <<api, created, localVars, memVars>>
        /\ j \notin doneJobs
        /\ jobs' \ doneJobs' = (jobs \ doneJobs) \ {j}
    BY <1>1 DEF JobCompletes, JobFinishes, recVars, localVars, memVars
  <2>2. OneJobPerNode
    BY DEF ListsInv, JobsListed
  <2>3. QED
    BY <2>1, <2>2, SeenAsEnd
<1>2. ASSUME NEW u \in UIDs, GarbageCollect(u) PROVE Collection!CollectionNext
  <2>1. /\ UNCHANGED <<api, created, localVars, memVars>>
        /\ \/ \E j \in jobs : RemoveJob(j)
           \/ UNCHANGED <<jobs, doneJobs>>
    BY <1>2 DEF GarbageCollect, Collect, JobsOf
  <2>2. CASE UNCHANGED <<jobs, doneJobs>>
    BY <2>1, <2>2, PhaseSame, WaitingOutside, BusySame, SeenAsSetLimit
  <2>3. QED
    BY <2>1, <2>2, RemovalSeen
<1>3. ~Crash /\ ~Panic
  BY PanicNeedsNoList DEF Crash, Spend, NoLoss
<1>4. QED
  BY <1>1, <1>2, <1>3 DEF Cluster

-----------------------------------------------------------------------------
(* Reconcile.                                                              *)

(* A Sosreport on the runList whose list to run keeps its members.         *)
LEMMA WaitingListed ==
    ASSUME UNCHANGED runList,
           \A u \in UIDs : /\ u \in runList => ToRunNodes(u)' = ToRunNodes(u)
                           /\ StartedNodes(u)' = StartedNodes(u)
    PROVE  UNCHANGED WaitingMap
<1>1. \A u \in UIDs : WaitingNodes(u)' = WaitingNodes(u)
  BY DEF WaitingNodes
<1>2. QED
  BY <1>1, WaitingSame

(* The first step of a Reconcile, which reads and schedules, is not seen:  *)
(* a Sosreport's list to run holds what was waiting before.                *)
LEMMA ReconcileRefines ==
    ASSUME TypeOK, TypeOK', VersionInv, ListsInv, NoLoss, NoListFail,
           NEW n \in queue, Reconcile(n), UNCHANGED created
    PROVE  UNCHANGED <<PhaseMap, WaitingMap, BusyMap>>
<1> USE DEF TypeOK, KubeTypeOK, ReconcilerTypeOK
<1>1. UNCHANGED BusyMap
  BY BusySame DEF Reconcile, ReconcileIgnored, ScheduleListFails,
       ScheduleNoNodes, Schedule, Continue, ContinueListFails, kubeVars,
       childVars
<1>2. CASE ReconcileIgnored(n)
  BY <1>1, <1>2, PhaseSame, WaitingOutside DEF ReconcileIgnored, kubeVars
<1>3. ~ScheduleListFails(n) /\ ~ContinueListFails(n)
  BY DEF ScheduleListFails, ContinueListFails, Spend, NoListFail, NoLoss
<1>4. CASE ScheduleNoNodes(n)
  <2>1. /\ n \in Names /\ cache[n] \in Version /\ cache[n].uid \in UIDs
        /\ cache[n].status.finished = FALSE
    BY <1>4, BeginType DEF ScheduleNoNodes
  <2> DEFINE v == [cache[n] EXCEPT !.status.inProgress = FALSE]
  <2>2. cache[n].status.inProgress = FALSE
    BY <1>4, <2>1 DEF ScheduleNoNodes, NotYetRunning, Version, Status
  <2>3. v.status = cache[n].status /\ v.uid = cache[n].uid /\ v.rv = cache[n].rv
    BY <2>1, <2>2 DEF Version, Status
  <2>4. UpdateStatus(n, v)
    BY <1>4 DEF ScheduleNoNodes
  <2> HIDE DEF v
  <2>5. IsCurrent(n, v) => v.status = api[n].status
    BY <2>1, <2>3 DEF IsCurrent, VersionInv, InformerCoherent, Coherent
  <2>6. UNCHANGED api
    BY <2>4, <2>5 DEF UpdateStatus
  <2>7. PICK u \in UIDs : u = cache[n].uid
    BY <2>1
  <2>8. /\ u \notin runList /\ runList' = runList \cup {u} /\ Eligible(u) = {}
        /\ UNCHANGED <<localVars, jobToRunList>>
    BY <1>4, <2>7 DEF ScheduleNoNodes, Begin, NotYetRunning, Eligible
  <2>9. \A w \in UIDs : /\ ToRunNodes(w)' = ToRunNodes(w)
                        /\ StartedNodes(w)' = StartedNodes(w)
    BY <2>8 DEF ToRunNodes, StartedNodes, localVars
  <2>10. ToRunNodes(u) = {}
    BY <2>8 DEF ListsInv, JobsListed
  <2>11. ASSUME NEW w \in UIDs
         PROVE  WaitingNodes(w)' = WaitingNodes(w)
    <3>1. CASE w = u
      <4>1. WaitingNodes(w) = {}
        BY <2>8, <3>1 DEF WaitingNodes
      <4>2. u \in runList'
        BY <2>8
      <4>3. WaitingNodes(w)' = {}
        BY <2>9, <2>10, <3>1, <4>2 DEF WaitingNodes
      <4>4. QED
        BY <4>1, <4>3
    <3>2. CASE w # u
      <4>1. w \in runList' <=> w \in runList
        BY <2>8, <3>2
      <4>2. QED
        BY <2>9, <4>1 DEF WaitingNodes, Eligible
    <3>3. QED
      BY <3>1, <3>2
  <2>12. UNCHANGED PhaseMap
    BY <2>6, PhaseSame
  <2>13. UNCHANGED WaitingMap
    BY <2>11, WaitingSame
  <2>14. QED
    BY <1>1, <2>12, <2>13
<1>5. CASE Schedule(n)
  <2>1. PICK u \in UIDs : u = cache[n].uid
    BY <1>5, BeginType DEF Schedule
  <2>2. /\ pc = "idle" /\ u \notin runList /\ runList' = runList \cup {u}
        /\ jobToRunList' = [jobToRunList EXCEPT ![u] = Eligible(u)]
        /\ UNCHANGED <<api, started>>
    BY <1>5, <2>1 DEF Schedule, Begin, NotYetRunning, kubeVars, loopVars
  <2>3. Eligible(u) \in SUBSET Nodes
    BY ReconcilerAssumption DEF Eligible
  <2>4. ToRunNodes(u)' = Eligible(u)
    BY <2>2, <2>3, MembersFacts DEF ToRunNodes
  <2>5. \A w \in UIDs \ {u} : ToRunNodes(w)' = ToRunNodes(w)
    BY <2>2 DEF ToRunNodes
  <2>6. started = {}
    BY <2>2 DEF ListsInv, LoopInv
  <2>7. \A w \in UIDs : StartedNodes(w)' = {} /\ StartedNodes(w) = {}
    BY <2>2, <2>6 DEF StartedNodes
  <2>8. \A w \in UIDs : WaitingNodes(w)' = WaitingNodes(w)
    BY <2>2, <2>4, <2>5, <2>7 DEF WaitingNodes
  <2>9. QED
    BY <1>1, <2>2, <2>8, PhaseSame, WaitingSame
<1>6. CASE Continue(n)
  <2>1. /\ n \in Names /\ cache[n] \in Version /\ cache[n].uid \in UIDs
    BY <1>6, BeginType DEF Continue
  <2>2. PICK u \in UIDs : u = cache[n].uid
    BY <2>1
  <2>3. /\ pc = "idle"
        /\ jobToRunList' = [jobToRunList EXCEPT ![u] =
                              Loaded(jobToRunList[u], cache[n].ann.toRun)]
        /\ UNCHANGED <<api, runList, started>>
    BY <1>6, <2>2 DEF Continue, Begin, kubeVars
  <2>4. jobToRunList[u] = Absent => cache[n].ann.toRun \in {Absent, Null}
    BY <2>1, <2>2 DEF ListsInv, StoredAgree, Agrees
  <2>5. ToRunNodes(u)' = ToRunNodes(u)
    BY <2>3, <2>4, MembersFacts DEF ToRunNodes, Loaded
  <2>6. \A w \in UIDs \ {u} : ToRunNodes(w)' = ToRunNodes(w)
    BY <2>3 DEF ToRunNodes
  <2>7. \A w \in UIDs : StartedNodes(w)' = {} /\ StartedNodes(w) = {}
    BY <2>3 DEF StartedNodes, ListsInv, LoopInv
  <2>8. QED
    BY <1>1, <2>3, <2>5, <2>6, <2>7, PhaseSame, WaitingListed
<1>7. QED
  BY <1>2, <1>3, <1>4, <1>5, <1>6 DEF Reconcile

(* Neither is the writing of annotations.                                  *)
LEMMA UpdateRefines ==
    ASSUME TypeOK, TypeOK', ListsInv, UNCHANGED created,
           ScheduleUpdate \/ DequeueUpdate \/ RunUpdate
    PROVE  UNCHANGED <<PhaseMap, WaitingMap, BusyMap>>
<1> USE DEF TypeOK, KubeTypeOK, ReconcilerTypeOK
<1>1. /\ pc # "idle" /\ pc # "run" /\ Update(req, s)
      /\ UNCHANGED <<started, memVars, jobs, doneJobs>>
  BY DEF ScheduleUpdate, DequeueUpdate, RunUpdate, childVars, loopVars
<1>2. req \in Names /\ s \in Version
  BY <1>1
<1>3. \/ UNCHANGED api
      \/ api' = [api EXCEPT ![req] = WithAnnotations(req, s)]
  BY <1>1 DEF Update, Store
<1>4. /\ WithAnnotations(req, s) \in Version
      /\ WithAnnotations(req, s).uid = api[req].uid
      /\ WithAnnotations(req, s).status = api[req].status
  BY <1>2, WithAnnotationsIsVersion DEF WithAnnotations
<1>5. UNCHANGED PhaseMap
  BY <1>2, <1>3, <1>4, PhaseSame
<1>6. started = {}
  BY <1>1 DEF ListsInv, LoopInv
<1>7. \A w \in UIDs : /\ ToRunNodes(w)' = ToRunNodes(w)
                      /\ StartedNodes(w)' = {} /\ StartedNodes(w) = {}
  BY <1>1, <1>6 DEF ToRunNodes, StartedNodes, memVars
<1>8. QED
  BY <1>1, <1>5, <1>7, WaitingListed, BusySame DEF memVars

(* The write that ends a Reconcile is seen when it stores Finished.        *)
LEMMA StatusRefines ==
    ASSUME TypeOK, TypeOK', VersionInv, UidsGiven, ListsInv, UNCHANGED created,
           pc # "idle", pc # "run", NEW v \in Version,
           UpdateStatus(req, v) \/ Reordered(req, v),
           v.uid = s.uid, v.rv = s.rv,
           v.status.finished => isSosreportJobsDone(s.uid),
           Return, UNCHANGED <<jobs, doneJobs, memVars>>
    PROVE  Collection!CollectionNext
<1> USE DEF TypeOK, KubeTypeOK, ReconcilerTypeOK
<1>1. req \in Names /\ s \in Version /\ s.uid \in UIDs /\ s.uid \in runList
  BY DEF ListsInv, CopyAgrees
<1>2. started = {} /\ started' = {}
  BY DEF ListsInv, LoopInv, Return
<1>3. \A w \in UIDs : /\ ToRunNodes(w)' = ToRunNodes(w)
                      /\ StartedNodes(w)' = {} /\ StartedNodes(w) = {}
  BY <1>2 DEF ToRunNodes, StartedNodes, memVars
<1>4. UNCHANGED <<WaitingMap, BusyMap, sosreportConcurrency>>
  BY <1>3, WaitingListed, BusySame DEF memVars
<1>5. PICK w \in Version : w = WithStatus(req, v)
  BY <1>1, WithStatusIsVersion
<1>6. w.uid = api[req].uid /\ w.status = v.status
  BY <1>5 DEF WithStatus
<1>7. \/ UNCHANGED api
      \/ IsCurrent(req, v) /\ api' = [api EXCEPT ![req] = w]
  BY <1>5 DEF UpdateStatus, Reordered, Store
<1>8. CASE UNCHANGED api
  BY <1>4, <1>8, PhaseSame, SeenAsSetLimit
<1>9. CASE IsCurrent(req, v) /\ api' = [api EXCEPT ![req] = w]
  <2>1. s.uid = api[req].uid /\ api[req].status.finished = FALSE
    <3>1. s.uid = api[req].uid /\ s.rv = api[req].rv
      BY <1>9 DEF IsCurrent
    <3>2. ~s.status.finished /\ s.status = api[req].status
      BY <3>1 DEF VersionInv, CopyCoherent
    <3>3. QED
      BY <1>1, <3>1, <3>2 DEF Version, Status
  <2>2. w.status.finished \in BOOLEAN
    BY DEF Version, Status
  <2>3. CASE w.status.finished = FALSE
    <3>1. /\ api' = [api EXCEPT ![req] = w]
          /\ w.uid = api[req].uid
          /\ w.status.finished = api[req].status.finished
      BY <1>6, <1>9, <2>1, <2>3
    <3>2. UNCHANGED PhaseMap
      BY <1>1, <3>1, PhaseSame
    <3>3. QED
      BY <1>4, <3>2, SeenAsSetLimit
  <2>4. CASE w.status.finished = TRUE
    <3>1. PICK u \in UIDs : u = s.uid
      BY <1>1
    <3>2. /\ ToRunNodes(u) = {} /\ RunningNodes(u) = {}
      BY <1>6, <2>4, <3>1
         DEF isSosreportJobsDone, ToRunNodes, RunningNodes
    <3>3. WaitingMap[u] = {}
      BY <1>1, <3>1, <3>2 DEF WaitingMap, WaitingNodes
    <3>4. LiveJobs(u) = {}
      BY <1>3, <3>2 DEF LiveJobs, ListsInv, JobsListed
    <3>5. BusyMap[u] = {}
      BY <3>4 DEF BusyMap, BusyNodes
    <3>6. u \in created /\ u # NoUid
          /\ \A m \in Names \ {req} : api[m].uid # u
      BY <1>1, <2>1, <3>1, KubeApiAssumption DEF UidsGiven
    <3>7. /\ api'[req].uid = u /\ api'[req].status.finished = TRUE
          /\ \A m \in Names \ {req} : api'[m] = api[m]
      BY <1>1, <1>6, <1>9, <2>1, <2>4, <3>1
    <3>8. Phase(u) = "active" /\ Phase(u)' = "finished"
      <4>1. Exists(u) /\ ~Finished(u) /\ Finished(u)'
        BY <1>1, <2>1, <3>1, <3>6, <3>7 DEF Exists, Finished, IsFinished
      <4>2. QED
        BY <3>6, <4>1 DEF Phase
    <3>9. \A x \in UIDs \ {u} : Phase(x)' = Phase(x)
      <4>1. \A x \in UIDs \ {u} :
               Exists(x)' = Exists(x) /\ Finished(x)' = Finished(x)
        BY <1>1, <2>1, <3>1, <3>7 DEF Exists, Finished, IsFinished
      <4>2. QED
        BY <4>1 DEF Phase
    <3>10. Collection!Move(u, {"active"}, "finished")
      BY <3>8, <3>9 DEF Collection!Move, PhaseMap
    <3>11. QED
      BY <1>4, <3>3, <3>5, <3>10
         DEF Collection!Finish, Collection!CollectionNext
  <2>5. QED
    BY <2>2, <2>3, <2>4
<1>10. QED
  BY <1>7, <1>8, <1>9

(* The last write of a Reconcile.                                          *)
LEMMA EndRefines ==
    ASSUME TypeOK, TypeOK', VersionInv, UidsGiven, ListsInv, UNCHANGED created,
           ScheduleStatus \/ Conclude
    PROVE  Collection!CollectionNext
<1>1. /\ s \in Version /\ pc # "idle" /\ pc # "run" /\ ~s.status.finished
      /\ Return /\ UNCHANGED <<jobs, doneJobs, memVars>>
  BY DEF ScheduleStatus, Conclude, childVars, TypeOK, ReconcilerTypeOK,
         VersionInv, CopyCoherent
<1>2. CASE ScheduleStatus
  <2> DEFINE v == [s EXCEPT !.status.inProgress = TRUE]
  <2>1. /\ v \in Version /\ v.uid = s.uid /\ v.rv = s.rv
        /\ v.status.finished = s.status.finished
    BY <1>1 DEF Version, Status
  <2>2. UpdateStatus(req, v)
    BY <1>2 DEF ScheduleStatus
  <2> HIDE DEF v
  <2>3. PICK w \in Version : w = v
    BY <2>1
  <2>4. QED
    BY <1>1, <2>1, <2>2, <2>3, StatusRefines
<1>3. CASE Conclude
  <2>1. PICK w \in Version : w = Concluded(s)
    BY <1>1, ConcludedIsVersion DEF TypeOK, ReconcilerTypeOK
  <2>2. /\ w.uid = s.uid /\ w.rv = s.rv
        /\ w.status.finished => isSosreportJobsDone(s.uid)
    BY <1>1, <2>1 DEF Concluded, Version
  <2>3. UpdateStatus(req, w) \/ Reordered(req, w)
    BY <1>3, <2>1 DEF Conclude
  <2>4. QED
    BY <1>1, <2>2, <2>3, StatusRefines
<1>4. QED
  BY <1>2, <1>3

(* The Create of a Job is seen as the start of its node.                   *)
LEMMA CreateJobRefines ==
    ASSUME TypeOK, TypeOK', UidsGiven, ListsInv, NoLoss, UNCHANGED created,
           NEW j \in inFlight, CreateJob(j)
    PROVE  Collection!CollectionNext
<1> USE DEF TypeOK, KubeTypeOK, ReconcilerTypeOK
<1>1. /\ pc = "run" /\ s.uid \in UIDs /\ s.uid \in runList
      /\ j \in Job /\ j.owner = s.uid
      /\ j.node \in ToRunNodes(s.uid) \ started /\ MayStart
  BY DEF CreateJob, ListsInv, LoopInv, CopyAgrees
<1>2. UNCHANGED <<api, doneJobs, pc, s, memVars>>
  BY DEF CreateJob
<1>3. UNCHANGED <<PhaseMap, sosreportConcurrency>>
  BY <1>2, PhaseSame DEF memVars
<1>4. \A w \in UIDs : ToRunNodes(w)' = ToRunNodes(w)
  BY <1>2 DEF ToRunNodes, memVars
<1>5. CASE UNCHANGED <<jobs, started>>
  <2>1. \A w \in UIDs : StartedNodes(w)' = StartedNodes(w)
    BY <1>2, <1>5 DEF StartedNodes
  <2>2. QED
    BY <1>2, <1>3, <1>4, <1>5, <2>1, WaitingListed, BusySame, SeenAsSetLimit
       DEF memVars
<1>6. CASE jobs' = jobs \cup {j} /\ started' = started \cup {j.node}
  <2>1. PICK u \in UIDs : u = s.uid
    BY <1>1
  <2>2. j \notin jobs
    <3>1. StartedNodes(s.uid) = started
      BY <1>1 DEF StartedNodes
    <3>2. QED
      BY <1>1, <3>1 DEF ListsInv, JobsListed
  <2>3. \A w \in UIDs : StartedNodes(w)' = IF w = u THEN StartedNodes(w) \cup {j.node}
                                           ELSE StartedNodes(w)
    BY <1>1, <1>2, <1>6, <2>1 DEF StartedNodes
  <2>4. \A w \in UIDs : WaitingNodes(w)' = IF w = u THEN WaitingNodes(w) \ {j.node}
                                           ELSE WaitingNodes(w)
    BY <1>1, <1>2, <1>4, <2>1, <2>3 DEF WaitingNodes, memVars
  <2>5. ASSUME NEW w \in UIDs
        PROVE  BusyNodes(w)' = IF w = u THEN BusyNodes(w) \cup {j.node}
                               ELSE BusyNodes(w)
    <3>1. j \notin doneJobs
      BY <2>2
    <3>2. LiveJobs(w)' = IF w = u THEN LiveJobs(w) \cup {j} ELSE LiveJobs(w)
      BY <1>1, <1>2, <1>6, <2>1, <3>1 DEF LiveJobs
    <3>3. QED
      BY <3>2 DEF BusyNodes
  <2>6. j.node \in WaitingMap[u]
    BY <1>1, <2>1 DEF WaitingMap, WaitingNodes, StartedNodes
  <2>7. Cardinality(BusyMap[u]) < sosreportConcurrency
    <3>1. Cardinality(BusyNodes(u)) =< Cardinality(LiveJobs(u))
          /\ Cardinality(BusyNodes(u)) \in Nat
      <4> DEFINE L == LiveJobs(u)
                 f == [k \in L |-> k.node]
      <4>1. IsFiniteSet(L)
        BY LiveJobsBound
      <4>2. f \in Surjection(L, BusyNodes(u))
        <5>1. \A k \in L : k.node \in BusyNodes(u)
          BY DEF BusyNodes
        <5>2. \A x \in BusyNodes(u) : \E k \in L : k.node = x
          BY DEF BusyNodes
        <5> HIDE DEF L
        <5>3. f \in [L -> BusyNodes(u)]
          BY <5>1
        <5>4. \A x \in BusyNodes(u) : \E k \in L : f[k] = x
          BY <5>2
        <5> HIDE DEF f
        <5>5. QED
          BY <5>3, <5>4 DEF Surjection
      <4> HIDE DEF L, f
      <4>3. IsFiniteSet(BusyNodes(u)) /\ Cardinality(BusyNodes(u)) =< Cardinality(L)
        BY <4>1, <4>2, FS_Surjection
      <4>4. QED
        BY <4>3, FS_CardinalityType DEF L
    <3>2. Cardinality(StartedNodes(u)) < sosreportConcurrency
                                           - Cardinality(RunningNodes(u))
      BY <1>1, <2>1 DEF MayStart, maxNewSosreports, StartedNodes, RunningNodes
    <3>3. sosreportConcurrency \in Int
      OBVIOUS
    <3>4. Cardinality(BusyNodes(u)) < sosreportConcurrency
      BY <3>1, <3>2, <3>3, LiveJobsBound
    <3>5. QED
      BY <3>4 DEF BusyMap
  <2>8. PhaseMap[u] \in {"active", "deleted"}
    <3>1. u \in created
      BY <1>1, <2>1 DEF UidsGiven
    <3>2. ~Finished(u)
      BY <1>1, <2>1 DEF Finished, ListsInv, FinishedListsEmpty
    <3>3. QED
      BY <3>1, <3>2 DEF PhaseMap, Phase
  <2>9. /\ WaitingMap' = [WaitingMap EXCEPT ![u] = @ \ {j.node}]
        /\ BusyMap' = [BusyMap EXCEPT ![u] = @ \cup {j.node}]
    BY <2>4, <2>5 DEF WaitingMap, BusyMap
  <2>10. Collection!Start(u, j.node)
    <3>1. PhaseMap' = PhaseMap /\ sosreportConcurrency' = sosreportConcurrency
      BY <1>3
    <3>2. Collection!Cardinality(BusyMap[u]) = Cardinality(BusyMap[u])
      BY DEF Cardinality, Collection!Cardinality
    <3>3. QED
      BY <2>6, <2>7, <2>8, <2>9, <3>1, <3>2 DEF Collection!Start
  <2>11. QED
    BY <2>6, <2>10 DEF Collection!CollectionNext
<1>7. QED
  BY <1>5, <1>6 DEF CreateJob, Spend, NoLoss

(* The rest of the loop is not seen: nodes that were started go from the   *)
(* loop's list to the running list, off the list to run.                   *)
LEMMA LoopRefines ==
    ASSUME TypeOK, TypeOK', ListsInv, UNCHANGED created,
           EndLoop \/ \E node \in toVisit : CreatePvc(node)
    PROVE  UNCHANGED <<PhaseMap, WaitingMap, BusyMap>>
<1> USE DEF TypeOK, KubeTypeOK, ReconcilerTypeOK
<1>1. UNCHANGED <<api, jobs, doneJobs, runList>>
  BY DEF EndLoop, CreatePvc, kubeVars, memVars
<1>2. ASSUME NEW node \in toVisit, CreatePvc(node)
      PROVE  UNCHANGED WaitingMap
  <2>1. UNCHANGED <<pc, s, started, memVars>>
    BY <1>2 DEF CreatePvc
  <2>2. \A w \in UIDs : /\ ToRunNodes(w)' = ToRunNodes(w)
                        /\ StartedNodes(w)' = StartedNodes(w)
    BY <2>1 DEF ToRunNodes, StartedNodes, memVars
  <2>3. QED
    BY <1>1, <2>2, WaitingListed
<1>3. ASSUME EndLoop PROVE UNCHANGED WaitingMap
  <2>1. PICK u \in UIDs : u = s.uid
    BY <1>3 DEF EndLoop, LoopEnds
  <2> DEFINE toRun == IF jobToRunList[u] \in {Absent, Null}
                      THEN jobToRunList[u] ELSE jobToRunList[u] \ started
  <2>2. /\ pc = "run" /\ started' = {}
        /\ jobToRunList' = [jobToRunList EXCEPT ![u] = toRun]
    BY <1>3, <2>1 DEF EndLoop, LoopEnds
  <2>3. Members(toRun) = Members(jobToRunList[u]) \ started
    <3>1. CASE jobToRunList[u] \in {Absent, Null}
      BY <3>1, MembersFacts
    <3>2. CASE jobToRunList[u] \in SUBSET Nodes
      <4>1. toRun = jobToRunList[u] \ started /\ toRun \in SUBSET Nodes
        BY <3>2, MembersFacts
      <4>2. QED
        BY <3>2, <4>1, MembersFacts
    <3>3. QED
      BY <3>1, <3>2 DEF NodeList
  <2> HIDE DEF toRun
  <2>4. ToRunNodes(u)' = ToRunNodes(u) \ started /\ StartedNodes(u) = started
    BY <2>1, <2>2, <2>3 DEF ToRunNodes, StartedNodes
  <2>5. \A w \in UIDs \ {u} : ToRunNodes(w)' = ToRunNodes(w) /\ StartedNodes(w) = {}
    BY <2>1, <2>2 DEF ToRunNodes, StartedNodes
  <2>6. \A w \in UIDs : StartedNodes(w)' = {}
    BY <2>2 DEF StartedNodes
  <2>7. ASSUME NEW w \in UIDs
        PROVE  WaitingNodes(w)' = WaitingNodes(w)
    <3>1. ToRunNodes(w)' \ StartedNodes(w)' = ToRunNodes(w) \ StartedNodes(w)
      BY <2>4, <2>5, <2>6
    <3>2. (w \in runList)' <=> w \in runList
      BY <1>1
    <3>3. QED
      BY <3>1, <3>2 DEF WaitingNodes
  <2>8. UNCHANGED WaitingMap
    BY <2>7, WaitingSame
  <2>9. QED
    BY <2>8
<1>4. UNCHANGED PhaseMap
  BY <1>1, PhaseSame
<1>5. UNCHANGED BusyMap
  BY <1>1, BusySame
<1>6. QED
  BY <1>2, <1>3, <1>4, <1>5

(* Each step of the operator is a step of SosreportCollection or a stutter. *)
LEMMA StepRefines ==
    ASSUME TypeOK, TypeOK', VersionInv, UidsGiven, ListsInv, NoLoss,
           NoListFail, CopyHasList, [Next]_vars
    PROVE  [Collection!CollectionNext]_(Collection!collectionVars)
<1>1. ASSUME Controller PROVE Collection!CollectionNext
  <2>1. UNCHANGED created
    BY <1>1 DEF Controller
  <2>2. ASSUME NEW n \in queue, Reconcile(n) PROVE Collection!CollectionNext
    BY <2>1, <2>2, ReconcileRefines, SeenAsSetLimit
  <2>3. ASSUME ScheduleUpdate \/ DequeueUpdate \/ RunUpdate
        PROVE  Collection!CollectionNext
    BY <2>1, <2>3, UpdateRefines, SeenAsSetLimit
  <2>4. ASSUME ScheduleStatus \/ Conclude PROVE Collection!CollectionNext
    BY <2>1, <2>4, EndRefines
  <2>5. ASSUME EndLoop \/ \E node \in toVisit : CreatePvc(node)
        PROVE  Collection!CollectionNext
    BY <2>1, <2>5, LoopRefines, SeenAsSetLimit
  <2>6. ASSUME NEW j \in inFlight, CreateJob(j) PROVE Collection!CollectionNext
    BY <2>1, <2>6, CreateJobRefines
  <2>7. QED
    BY <1>1, <2>2, <2>3, <2>4, <2>5, <2>6
       DEF Controller, ReconcilerNext, RunSosreportJobs
<1>2. CASE UNCHANGED vars
  <2>1. UNCHANGED <<api, created, jobs, doneJobs, localVars, memVars>>
    BY <1>2 DEF vars, kubeVars, recVars, localVars, memVars
  <2>2. UNCHANGED <<PhaseMap, WaitingMap, BusyMap, sosreportConcurrency>>
    BY <2>1, PhaseSame, WaitingOutside, BusySame DEF memVars
  <2>3. QED
    BY <2>2 DEF Collection!collectionVars
<1>3. QED
  BY <1>1, <1>2, UserRefines, InformerRefines, ClusterRefines DEF Next

(* Nothing is seen at first.                                               *)
LEMMA InitRefines == Init => UidsGiven /\ Collection!CollectionInit
<1> SUFFICES ASSUME Init PROVE UidsGiven /\ Collection!CollectionInit
  OBVIOUS
<1>1. /\ created = {} /\ runList = {} /\ jobs = {} /\ cache = api
      /\ api = [n \in Names |-> Fresh(NoUid, 0)]
      /\ watch = [n \in Names |-> {}] /\ sosreportConcurrency = 0
  BY DEF Init, KubeInit, ReconcilerInit
<1>2. UidsGiven
  BY <1>1 DEF UidsGiven, Fresh
<1>3. PhaseMap = [u \in UIDs |-> "none"]
  BY <1>1 DEF PhaseMap, Phase
<1>4. WaitingMap = EligibleMap
  BY <1>1 DEF WaitingMap, EligibleMap, WaitingNodes
<1>5. BusyMap = [u \in UIDs |-> {}]
  BY <1>1 DEF BusyMap, BusyNodes, LiveJobs
<1>6. QED
  BY <1>1, <1>2, <1>3, <1>4, <1>5 DEF Collection!CollectionInit

(* The operator implements SosreportCollection.                            *)
THEOREM Refines ==
    ASSUME MaxFaults["crash"] = 0, MaxFaults["lostCreate"] = 0,
           MaxFaults["listJobsFail"] = 0, MaxFaults["listFail"] = 0
    PROVE  Spec => ImplementsCollection
<1>1. Init => NoLoss /\ NoListFail /\ UidsGiven /\ Collection!CollectionInit
  BY InitRefines DEF Init, ReconcilerInit, NoLoss, NoListFail
<1>2. TypeOK /\ NoLoss /\ [Next]_vars => NoLoss'
  BY NoLossStep
<1>3. TypeOK /\ NoListFail /\ [Next]_vars => NoListFail'
  BY ListsAnswerStep
<1>4. TypeOK /\ TypeOK' /\ UidsGiven /\ [Next]_vars => UidsGiven'
  BY UidsStep
<1>5. TypeOK /\ TypeOK' /\ VersionInv /\ UidsGiven /\ ListsInv /\ NoLoss
        /\ NoListFail /\ CopyHasList /\ [Next]_vars
        => [Collection!CollectionNext]_(Collection!collectionVars)
  BY StepRefines
<1>6. QED
  BY <1>1, <1>2, <1>3, <1>4, <1>5, TypeCorrect, VersionsCoherent, ListsCorrect,
     LoopHasList, PTL DEF Spec, ImplementsCollection, Collection!Collecting

-----------------------------------------------------------------------------
(* No node is forgotten.  What is not on the list to run is on the running *)
(* list or done (CoverInv, AliveInv), and then there is a Job for it       *)
(* (RunningHasJob).                                                        *)

(* The Jobs of a Sosreport that exists are not deleted.                    *)
LEMMA JobsOfStay ==
    ASSUME TypeOK, NoJobDeleted, [Next]_vars, NEW u \in UIDs, Exists(u)
    PROVE  JobsOf(u) \subseteq JobsOf(u)'
<1>1. jobs \subseteq jobs' \/ \E w \in UIDs : GarbageCollect(w)
  <2>1. CASE Controller
    BY <2>1 DEF Controller, ReconcilerNext, Reconcile, RunSosreportJobs,
         ReconcileIgnored, ScheduleListFails, ScheduleNoNodes, Schedule,
         Continue, ContinueListFails, ScheduleUpdate, ScheduleStatus,
         DequeueUpdate, RunUpdate, Conclude, CreatePvc, CreateJob, EndLoop,
         kubeVars, childVars
  <2>2. CASE Users
    <3>1. ASSUME NEW j \in jobs PROVE ~DeleteJob(j)
      BY DEF DeleteJob, Spend, NoJobDeleted
    <3>2. QED
      BY <2>2, <3>1 DEF Users, CreateSosreport, TouchSosreport,
           DeleteSosreport, SetConcurrency, kubeVars, childVars
  <2>3. CASE Informers
    BY <2>3 DEF Informers, Deliver, Resync, JobEvent, kubeVars, childVars
  <2>4. CASE Cluster
    BY <2>4 DEF Cluster, JobCompletes, JobFinishes, Crash, Panic, Restart
  <2>5. CASE UNCHANGED vars
    BY <2>5 DEF vars, kubeVars
  <2>6. QED
    BY <2>1, <2>2, <2>3, <2>4, <2>5 DEF Next
<1>2. CASE jobs \subseteq jobs'
  BY <1>2 DEF JobsOf
<1>3. ASSUME NEW w \in UIDs, GarbageCollect(w)
      PROVE  JobsOf(u) \subseteq JobsOf(u)'
  <2>1. w # u /\ jobs \ JobsOf(w) \subseteq jobs'
    BY <1>3 DEF GarbageCollect, Collect, RemoveJob, Exists
  <2>2. QED
    BY <2>1 DEF JobsOf
<1>4. QED
  BY <1>1, <1>2, <1>3

(* A version that is stored under n is the first of its Sosreport, or that *)
(* of none; or it has the annotations of the stored one or of the copy.    *)
Inherits(n, v) ==
    \/ v.ann = NoAnnotations /\ v.uid \notin created
    \/ v.ann = api[n].ann /\ v.uid = api[n].uid
    \/ v.ann = s.ann /\ v.uid = api[n].uid /\ v.uid = s.uid /\ pc # "idle"

(* So do all that Reconcile stores.                                        *)
LEMMA ReconcilerInherits ==
    ASSUME TypeOK, ReconcilerNext
    PROVE  Forgets \/ \E n \in Names, v \in Version : Writes(n, v) /\ Inherits(n, v)
<1> DEFINE Goal == \/ Forgets
                   \/ \E n \in Names, v \in Version :
                         Writes(n, v) /\ Inherits(n, v)
<1> USE DEF TypeOK, KubeTypeOK, ReconcilerTypeOK
<1>1. CASE UNCHANGED <<api, watch, cache>>
  BY <1>1 DEF Forgets, Versions
<1>2. ASSUME NEW n \in Names, NEW v \in Version, UNCHANGED cache,
             UpdateStatus(n, v) \/ Reordered(n, v)
      PROVE  Goal
  <2>1. CASE UNCHANGED <<api, watch>>
    BY <1>1, <1>2, <2>1
  <2>2. CASE WithStatus(n, v) \in Version /\ Writes(n, WithStatus(n, v))
    <3>1. Inherits(n, WithStatus(n, v))
      BY DEF Inherits, WithStatus
    <3>2. QED
      BY <2>2, <3>1
  <2>3. QED
    BY <1>2, <2>1, <2>2, UpdateStatusWrites
<1>3. CASE ScheduleUpdate \/ DequeueUpdate \/ RunUpdate
  <2>1. pc # "idle" /\ Update(req, s) /\ UNCHANGED cache
    BY <1>3 DEF ScheduleUpdate, DequeueUpdate, RunUpdate
  <2>2. req \in Names /\ s \in Version
    BY <2>1
  <2>3. CASE UNCHANGED <<api, watch>>
    BY <1>1, <2>1, <2>3
  <2>4. CASE /\ IsCurrent(req, s) /\ WithAnnotations(req, s) \in Version
             /\ Writes(req, WithAnnotations(req, s))
    <3>1. Inherits(req, WithAnnotations(req, s))
      BY <2>1, <2>4 DEF Inherits, WithAnnotations, IsCurrent
    <3>2. QED
      BY <2>2, <2>4, <3>1
  <2>5. QED
    BY <2>1, <2>2, <2>3, <2>4, UpdateWrites
<1>4. CASE ScheduleStatus
  <2> DEFINE v == [s EXCEPT !.status.inProgress = TRUE]
  <2>1. req \in Names /\ s \in Version /\ UNCHANGED cache /\ UpdateStatus(req, v)
    BY <1>4 DEF ScheduleStatus
  <2>2. v \in Version
    BY <2>1 DEF Version, Status
  <2> HIDE DEF v
  <2>3. QED
    BY <1>2, <2>1, <2>2
<1>5. CASE Conclude
  <2>1. req \in Names /\ Concluded(s) \in Version /\ UNCHANGED cache
    BY <1>5, ConcludedIsVersion DEF Conclude
  <2>2. QED
    BY <1>2, <1>5, <2>1 DEF Conclude
<1>6. CASE RunSosreportJobs
  BY <1>1, <1>6 DEF RunSosreportJobs, CreatePvc, CreateJob, EndLoop, kubeVars
<1>7. ASSUME NEW n \in queue, ScheduleNoNodes(n) PROVE Goal
  <2> DEFINE v == [cache[n] EXCEPT !.status.inProgress = FALSE]
  <2>1. n \in Names /\ cache[n] \in Version
    BY <1>7, BeginType DEF ScheduleNoNodes
  <2>2. v \in Version
    BY <2>1 DEF Version, Status
  <2>3. UpdateStatus(n, v) /\ UNCHANGED cache
    BY <1>7 DEF ScheduleNoNodes
  <2> HIDE DEF v
  <2>4. QED
    BY <1>2, <2>1, <2>2, <2>3
<1>8. ASSUME NEW n \in queue, Reconcile(n) PROVE Goal
  BY <1>1, <1>7, <1>8 DEF Reconcile, ReconcileIgnored, ScheduleListFails,
                          Schedule, Continue, ContinueListFails, kubeVars
<1>9. QED
  BY <1>3, <1>4, <1>5, <1>6, <1>8 DEF ReconcilerNext

(* And so do all that anybody stores.                                      *)
LEMMA AllInherit ==
    ASSUME TypeOK, [Next]_vars
    PROVE  Forgets \/ \E n \in Names, v \in Version : Writes(n, v) /\ Inherits(n, v)
<1> DEFINE Goal == \/ Forgets
                   \/ \E n \in Names, v \in Version :
                         Writes(n, v) /\ Inherits(n, v)
<1> USE DEF TypeOK, KubeTypeOK, ReconcilerTypeOK
<1>1. CASE UNCHANGED <<api, watch, cache>>
  BY <1>1 DEF Forgets, Versions
<1>2. ASSUME NEW n \in Names PROVE api[n] \in Version /\ api[n].rv + 1 \in Nat
  BY VersionParts
<1>3. ASSUME NEW n \in Names, NEW u \in UIDs \cup {NoUid}, u \notin created,
             Store(n, Fresh(u, api[n].rv + 1)), UNCHANGED cache
      PROVE  Goal
  <2> DEFINE v == Fresh(u, api[n].rv + 1)
  <2>1. /\ v \in Version /\ v.uid = u /\ v.ann = NoAnnotations
        /\ v.rv = api[n].rv + 1
    BY <1>2, FreshIsVersion DEF Fresh
  <2> HIDE DEF v
  <2>2. Store(n, v)
    BY <1>3 DEF v
  <2>3. Writes(n, v) /\ Inherits(n, v)
    BY <1>3, <2>1, <2>2 DEF Writes, Inherits
  <2>4. QED
    BY <2>1, <2>3
<1>4. ASSUME NEW n \in Names, TouchSosreport(n) PROVE Goal
  <2> DEFINE v == [api[n] EXCEPT !.rv = @ + 1]
  <2>1. /\ v \in Version /\ v.rv = api[n].rv + 1 /\ v.uid = api[n].uid
        /\ v.ann = api[n].ann
    BY <1>2 DEF Version
  <2>2. Store(n, v) /\ UNCHANGED cache
    BY <1>4 DEF TouchSosreport
  <2> HIDE DEF v
  <2>3. Writes(n, v) /\ Inherits(n, v)
    BY <2>1, <2>2 DEF Writes, Inherits
  <2>4. QED
    BY <2>1, <2>3
<1>5. ASSUME NEW n \in Names, NEW u \in UIDs, CreateSosreport(n, u) PROVE Goal
  BY <1>3, <1>5 DEF CreateSosreport
<1>6. ASSUME NEW n \in Names, DeleteSosreport(n) PROVE Goal
  <2>1. NoUid \notin created
    BY KubeApiAssumption
  <2>2. QED
    BY <1>3, <1>6, <2>1 DEF DeleteSosreport
<1>7. CASE Users
  <2>1. ASSUME \/ \E j \in jobs : DeleteJob(j)
               \/ \E c \in ConcurrencySettings : SetConcurrency(c)
        PROVE  Goal
    BY <1>1, <2>1 DEF DeleteJob, SetConcurrency, kubeVars, storeVars
  <2>2. QED
    BY <1>4, <1>5, <1>6, <1>7, <2>1 DEF Users
<1>8. CASE Informers \/ Cluster \/ UNCHANGED vars
  <2>1. ASSUME NEW n \in Names, Deliver(n) PROVE Forgets
    BY <2>1 DEF Deliver, Forgets, Versions
  <2>2. ASSUME Crash \/ Panic PROVE Forgets
    BY <2>2 DEF Crash, Panic, Restart, Forgets, Versions
  <2>3. QED
    BY <1>1, <1>8, <2>1, <2>2
       DEF Informers, Resync, JobEvent, Cluster, JobCompletes, JobFinishes,
           GarbageCollect, Collect, vars, kubeVars, storeVars
<1>9. QED
  BY <1>7, <1>8, ReconcilerInherits DEF Next, Controller

(* What versions show was shown before.                                    *)
LEMMA ShownByVersions ==
    ASSUME TypeOK, [Next]_vars, NEW n \in Names, NEW v \in Versions(n)',
           NEW node \in Members(v.ann.running)
    PROVE  ShownRunning(v.uid, node)
<1>1. CASE Forgets
  BY <1>1 DEF Forgets, ShownRunning
<1>2. ASSUME NEW m \in Names, NEW w \in Version, Writes(m, w), Inherits(m, w)
      PROVE  ShownRunning(v.uid, node)
  <2>1. v \in Versions(n) \/ v = w
    BY <1>2, VersionsWritten
  <2>2. CASE v \in Versions(n)
    BY <2>2 DEF ShownRunning
  <2>3. CASE v = w /\ w.ann = NoAnnotations
    BY <2>3 DEF NoAnnotations, Members
  <2>4. CASE v = w /\ w.ann = api[m].ann /\ w.uid = api[m].uid
    <3>1. api[m] \in Versions(m)
      BY DEF Versions
    <3>2. QED
      BY <2>4, <3>1 DEF ShownRunning
  <2>5. CASE v = w /\ w.ann = s.ann /\ w.uid = s.uid /\ pc # "idle"
    BY <2>5 DEF ShownRunning
  <2>6. QED
    BY <1>2, <2>1, <2>2, <2>3, <2>4, <2>5 DEF Inherits
<1>3. QED
  BY <1>1, <1>2, AllInherit

(* What the lists and Reconcile show: memory, then the copy and the loop.  *)
ShownInside(u, node) ==
    \/ node \in Members(jobRunningList[u])
    \/ pc # "idle" /\ s.uid = u /\ node \in Members(s.ann.running) \cup started

(* The loop starts a node when its Job is there; the first step of         *)
(* Reconcile takes up what a version shows.                                *)
LEMMA ShownByController ==
    ASSUME TypeOK, RestartInv, RunningHasJob, ReconcilerNext,
           NEW u \in UIDs, NEW node \in Nodes, ShownInside(u, node)'
    PROVE  \/ ShownRunning(u, node)
           \/ /\ pc # "idle" /\ s.uid = u
              /\ \E j \in JobsOf(u)' : j.node = node
<1> DEFINE Goal == \/ ShownRunning(u, node)
                   \/ /\ pc # "idle" /\ s.uid = u
                      /\ \E j \in JobsOf(u)' : j.node = node
<1> USE DEF TypeOK, KubeTypeOK, ReconcilerTypeOK
<1>1. CASE UNCHANGED <<jobRunningList, pc, s, started>>
  BY <1>1 DEF ShownInside, ShownRunning
<1>2. ASSUME NEW n \in queue, Reconcile(n) PROVE Goal
  <2>1. CASE ReconcileIgnored(n) \/ ScheduleListFails(n) \/ ScheduleNoNodes(n)
    BY <1>1, <2>1
       DEF ReconcileIgnored, ScheduleListFails, ScheduleNoNodes, localVars,
           loopVars, memVars
  <2> DEFINE w == cache[n].uid
  <2>2. CASE Schedule(n) \/ Continue(n) \/ ContinueListFails(n)
    <3>1. /\ n \in Names /\ cache[n] \in Version /\ w \in UIDs /\ pc = "idle"
          /\ started = {} /\ UNCHANGED started
      BY <2>2, BeginType
         DEF Schedule, Continue, ContinueListFails, Begin, RunningHasJob,
             loopVars
    <3>2. cache[n] \in Versions(n)
      BY DEF Versions
    <3>3. node \in Members(cache[n].ann.running) => ShownRunning(w, node)
      BY <3>1, <3>2 DEF ShownRunning
    <3>4. CASE Schedule(n)
      <4>1. /\ UNCHANGED jobRunningList
            /\ s'.uid = w /\ s'.ann.running = cache[n].ann.running
        BY <3>1, <3>4 DEF Schedule, Version, Annotations
      <4>2. QED
        BY <3>1, <3>3, <4>1 DEF ShownInside, ShownRunning
    <3>5. CASE Continue(n)
      <4> DEFINE k == jobRunningList[w]
                 l == Loaded(k, cache[n].ann.running)
                 r == Dequeued(l, w)
      <4>1. /\ jobRunningList' = [jobRunningList EXCEPT ![w] = r]
            /\ s'.uid = w /\ s'.ann.running = Marshal(r)
        BY <3>1, <3>5 DEF Continue, Version, Annotations
      <4>2. k \in NodeList /\ cache[n].ann.running \in NodeList
        BY <3>1 DEF Version, Annotations
      <4>3. /\ l \in NodeList
            /\ Members(l) \subseteq Members(k) \cup Members(cache[n].ann.running)
        BY <4>2, LoadedFacts DEF Loaded
      <4> HIDE DEF l
      <4>4. r \in NodeList /\ Members(r) \subseteq Members(l)
        <5>1. Members(r) \subseteq Members(l)
          BY <4>3 DEF Dequeued, Members
        <5>2. QED
          BY <3>1, <4>3, <5>1, DequeuedFacts
      <4> HIDE DEF r
      <4>5. Members(Marshal(r)) = Members(r)
        BY <4>4, LoadedFacts
      <4>6. node \in Members(r) => Goal \/ u # w
        BY <3>3, <4>3, <4>4 DEF ShownRunning, k
      <4>7. u # w => jobRunningList'[u] = jobRunningList[u] /\ s'.uid # u
        BY <3>1, <4>1
      <4>8. u = w => jobRunningList'[u] = r
        BY <3>1, <4>1
      <4>9. QED
        BY <3>1, <4>1, <4>5, <4>6, <4>7, <4>8 DEF ShownInside, ShownRunning
    <3>6. CASE ContinueListFails(n)
      <4> DEFINE l == Loaded(jobRunningList[w], cache[n].ann.running)
      <4>1. /\ jobRunningList' = [jobRunningList EXCEPT ![w] = l]
            /\ s' = cache[n]
        BY <3>6 DEF ContinueListFails
      <4>2. Members(l) \subseteq Members(jobRunningList[w])
                              \cup Members(cache[n].ann.running)
        BY DEF Loaded
      <4> HIDE DEF l
      <4>3. u # w => jobRunningList'[u] = jobRunningList[u] /\ s'.uid # u
        BY <3>1, <4>1
      <4>4. u = w => jobRunningList'[u] = l
        BY <3>1, <4>1
      <4>5. QED
        BY <3>1, <3>3, <4>1, <4>2, <4>3, <4>4 DEF ShownInside, ShownRunning
    <3>7. QED
      BY <2>2, <3>4, <3>5, <3>6
  <2>3. QED
    BY <1>2, <2>1, <2>2 DEF Reconcile
<1>3. CASE ScheduleUpdate \/ DequeueUpdate \/ RunUpdate
  <2>1. /\ pc # "idle" /\ Update(req, s) /\ UNCHANGED cache
        /\ UNCHANGED <<jobRunningList, started>>
    BY <1>3 DEF ScheduleUpdate, DequeueUpdate, RunUpdate, memVars, loopVars
  <2>2. req \in Names /\ s \in Version
    BY <2>1
  <2>3. s' = s \/ (IsCurrent(req, s) /\ s' = WithAnnotations(req, s))
    BY <2>1, <2>2, UpdateWrites
  <2>4. s'.ann = s.ann /\ s'.uid = s.uid
    BY <2>3 DEF WithAnnotations, IsCurrent
  <2>5. QED
    BY <2>1, <2>4 DEF ShownInside, ShownRunning
<1>4. CASE ScheduleStatus \/ Conclude
  BY <1>4 DEF ScheduleStatus, Conclude, Return, memVars, ShownInside,
              ShownRunning
<1>5. ASSUME NEW m \in toVisit, CreatePvc(m) PROVE Goal
  BY <1>1, <1>5 DEF CreatePvc, memVars
<1>6. ASSUME NEW j \in inFlight, CreateJob(j) PROVE Goal
  <2>1. /\ pc # "idle" /\ j.owner = s.uid
        /\ UNCHANGED <<jobRunningList, pc, s>>
        /\ \/ UNCHANGED started
           \/ jobs' = jobs \cup {j} /\ started' = started \cup {j.node}
    BY <1>6 DEF CreateJob, memVars, RestartInv, LoopQuiet
  <2>2. CASE UNCHANGED started
    BY <1>1, <2>1, <2>2
  <2>3. CASE jobs' = jobs \cup {j} /\ started' = started \cup {j.node}
    <3>1. j \in JobsOf(s.uid)'
      BY <2>1, <2>3 DEF JobsOf
    <3>2. QED
      BY <2>1, <2>3, <3>1 DEF ShownInside, ShownRunning
  <2>4. QED
    BY <2>1, <2>2, <2>3
<1>7. CASE EndLoop
  <2> DEFINE k == jobRunningList[s.uid]
             r == Members(k) \cup started
  <2>1. /\ jobRunningList' = [jobRunningList EXCEPT ![s.uid] = r]
        /\ s \in Version /\ s.uid \in UIDs /\ pc = "run" /\ started' = {}
        /\ s'.uid = s.uid /\ s'.ann.running = r
    BY <1>7 DEF EndLoop, LoopEnds, Version
  <2>2. Members(r) = r
    BY <2>1, LoadedFacts, NodeListType
  <2>3. node \in r => ShownRunning(s.uid, node)
    BY <2>1 DEF ShownRunning
  <2> HIDE DEF r
  <2>4. QED
    BY <2>1, <2>2, <2>3 DEF ShownInside, ShownRunning
<1>8. QED
  BY <1>2, <1>3, <1>4, <1>5, <1>6, <1>7 DEF ReconcilerNext, RunSosreportJobs

(* Nobody else shows anything, but a restart forgets what was shown.       *)
LEMMA ShownStep ==
    ASSUME TypeOK, RestartInv, RunningHasJob, [Next]_vars,
           NEW u \in UIDs, NEW node \in Nodes, ShownRunning(u, node)'
    PROVE  \/ ShownRunning(u, node)
           \/ /\ pc # "idle" /\ s.uid = u
              /\ \E j \in JobsOf(u)' : j.node = node
<1>1. CASE ~ShownInside(u, node)'
  <2>1. PICK n \in Names : \E v \in Versions(n)' :
           v.uid = u /\ node \in Members(v.ann.running)
    BY <1>1 DEF ShownInside, ShownRunning
  <2>2. QED
    BY <2>1, ShownByVersions
<1>2. CASE ShownInside(u, node)' /\ ReconcilerNext
  BY <1>2, ShownByController
<1>3. CASE /\ ShownInside(u, node)'
           /\ Users \/ Informers \/ Cluster \/ UNCHANGED vars
  <2>1. ~Crash /\ ~Panic
    BY <1>3, LoadedFacts DEF Crash, Panic, Restart, Return, ShownInside
  <2>2. UNCHANGED <<localVars, memVars>>
    BY <1>3, <2>1
       DEF Users, CreateSosreport, TouchSosreport, DeleteSosreport, DeleteJob,
           SetConcurrency, Informers, Deliver, Resync, JobEvent, Cluster,
           JobCompletes, GarbageCollect, vars, recVars, localVars, memVars
  <2>3. UNCHANGED <<jobRunningList, pc, s, started>>
    BY <2>2 DEF localVars, loopVars, memVars
  <2>4. QED
    BY <1>3, <2>3 DEF ShownInside, ShownRunning
<1>4. QED
  BY <1>1, <1>2, <1>3 DEF Next, Controller

(* Only the loop starts nodes.                                             *)
LEMMA StartedInLoop ==
    ASSUME TypeOK, RunningHasJob, [Next]_vars, pc' # "run"
    PROVE  started' = {}
<1> USE DEF RunningHasJob
<1>1. CASE ReconcilerNext
  BY <1>1
     DEF ReconcilerNext, Reconcile, RunSosreportJobs, ReconcileIgnored,
         ScheduleListFails, ScheduleNoNodes, Schedule, Continue,
         ContinueListFails, Begin, ScheduleUpdate, ScheduleStatus,
         DequeueUpdate, RunUpdate, Conclude, CreatePvc, CreateJob, EndLoop,
         Return, localVars, loopVars
<1>2. CASE Crash \/ Panic
  BY <1>2 DEF Crash, Panic, Restart, Return
<1>3. CASE /\ Users \/ Informers \/ Cluster \/ UNCHANGED vars
           /\ ~Crash /\ ~Panic
  BY <1>3
     DEF Users, CreateSosreport, TouchSosreport, DeleteSosreport, DeleteJob,
         SetConcurrency, Informers, Deliver, Resync, JobEvent, Cluster,
         JobCompletes, GarbageCollect, vars, recVars, localVars, loopVars
<1>4. QED
  BY <1>1, <1>2, <1>3 DEF Next, Controller

(* What is shown to run has its Job, as long as users delete none.         *)
LEMMA RunningHasJobStep ==
    ASSUME TypeOK, RestartInv, RunningHasJob, NoJobDeleted, [Next]_vars
    PROVE  RunningHasJob'
<1>1. created \subseteq created'
  BY DEF Next, Controller, Users, CreateSosreport, TouchSosreport,
         DeleteSosreport, DeleteJob, SetConcurrency, Informers, Deliver, Resync,
         JobEvent, Cluster, JobCompletes, GarbageCollect, Crash, Panic,
         Restart, vars
<1>2. pc # "idle" => s.uid \in created
  BY DEF RestartInv, CopyBegun
<1>3. ASSUME NEW u \in UIDs, u \notin created', NEW node \in Nodes
      PROVE  ~ShownRunning(u, node)'
  BY <1>1, <1>2, <1>3, ShownStep DEF RunningHasJob
<1>4. ASSUME NEW n \in Names, NEW u \in UIDs, NEW node \in Nodes,
             api'[n].uid = u, ShownRunning(u, node)'
      PROVE  \E j \in JobsOf(u)' : j.node = node
  <2>1. CASE ShownRunning(u, node)
    <3>1. u \in created
      BY <2>1 DEF RunningHasJob
    <3>2. Exists(u)
      <4>1. CASE Forgets
        BY <1>4, <4>1 DEF Forgets, Exists
      <4>2. ASSUME NEW m \in Names, NEW v \in Version,
                   Writes(m, v), Inherits(m, v)
            PROVE  Exists(u)
        BY <1>4, <3>1, <4>2, VersionsWritten DEF Inherits, Exists
      <4>3. QED
        BY <4>1, <4>2, AllInherit
    <3>3. \E j \in JobsOf(u) : j.node = node
      BY <2>1, <3>2 DEF Exists, RunningHasJob
    <3>4. QED
      BY <3>2, <3>3, JobsOfStay
  <2>2. QED
    BY <1>4, <2>1, ShownStep
<1>5. pc' # "run" => started' = {}
  BY StartedInLoop
<1>6. QED
  BY <1>3, <1>4, <1>5 DEF RunningHasJob

(* At the start nothing is shown.                                          *)
LEMMA RunningHasJobInit == Init => RunningHasJob
<1> SUFFICES ASSUME Init PROVE RunningHasJob
  OBVIOUS
<1>1. /\ pc = "idle" /\ started = {}
      /\ jobRunningList = [u \in UIDs |-> Absent]
      /\ cache = api /\ watch = [n \in Names |-> {}]
      /\ api = [n \in Names |-> Fresh(NoUid, 0)]
  BY DEF Init, KubeInit, ReconcilerInit
<1>2. \A n \in Names : \A v \in Versions(n) : v.uid = NoUid
  BY <1>1 DEF Versions, Fresh
<1>3. \A u \in UIDs : \A node \in Nodes : ~ShownRunning(u, node)
  BY <1>1, <1>2, LoadedFacts, KubeApiAssumption DEF ShownRunning
<1>4. QED
  BY <1>1, <1>3 DEF RunningHasJob

(* No node is listed as running, or as having run, that has no Job, with   *)
(* crashes, rejected and unanswered writes: only users may take Jobs away. *)
THEOREM ListedNodesHaveJobs ==
    ASSUME MaxFaults["deleteJob"] = 0
    PROVE  Spec => []RunningHasJob
<1>1. Init => NoJobDeleted
  BY DEF Init, ReconcilerInit, NoJobDeleted
<1>2. TypeOK /\ NoJobDeleted /\ [Next]_vars => NoJobDeleted'
  BY ListsAnswerStep
<1>3. TypeOK /\ RestartInv /\ RunningHasJob /\ NoJobDeleted /\ [Next]_vars
        => RunningHasJob'
  BY RunningHasJobStep
<1>4. QED
  BY <1>1, <1>2, <1>3, RunningHasJobInit, TypeCorrect, RestartsAreSafe, PTL
     DEF Spec

(* None is forgotten if what a version of a Sosreport that is under way    *)
(* leads to, now or later, accounts for its nodes.                         *)
LEMMA VersionsForgetNone ==
    ASSUME TypeOK, RunningHasJob,
           \A n \in Names : \A v \in Versions(n) :
              v.uid \in UIDs /\ v.uid = api[n].uid /\ Begun(v)
                 => Covered(v.uid, Left(v) \cup Members(jobRunningList[v.uid])
                                           \cup Members(v.ann.running))
    PROVE  NoNodeForgotten
<1> SUFFICES ASSUME NEW n \in Names, NEW v \in Versions(n),
                    v.uid \in UIDs, v.uid = api[n].uid, Begun(v),
                    NEW node \in Eligible(v.uid), node \notin Left(v)
             PROVE  \E j \in JobsOf(v.uid) : j.node = node
  BY DEF NoNodeForgotten, NodesLeft
<1>1. PICK u \in UIDs : u = v.uid
  OBVIOUS
<1>2. \/ node \in Members(jobRunningList[u]) \cup Members(v.ann.running)
      \/ node \in DoneOn(u)
  BY <1>1 DEF Covered
<1>3. CASE node \in DoneOn(u)
  BY <1>1, <1>3 DEF DoneOn, JobsOf, TypeOK, KubeTypeOK
<1>4. CASE node \in Members(jobRunningList[u]) \cup Members(v.ann.running)
  <2>1. ShownRunning(u, node)
    BY <1>1, <1>4 DEF ShownRunning
  <2>2. node \in Nodes
    BY <1>1, ReconcilerAssumption DEF Eligible
  <2>3. QED
    BY <1>1, <2>1, <2>2 DEF RunningHasJob
<1>5. QED
  BY <1>2, <1>3, <1>4

(* While a Sosreport exists, each of its nodes is still to be visited or   *)
(* has a Job, also after crashes and panics at any point and a restart     *)
(* from whatever version the cache then shows: a list that memory has lost *)
(* is in the annotations of every version that is in progress.             *)
THEOREM NothingForgottenAfterRestart ==
    ASSUME MaxFaults["fail"] = 0, MaxFaults["listFail"] = 0,
           MaxFaults["deleteJob"] = 0
    PROVE  Spec => []NoNodeForgotten
<1>1. TypeOK /\ RunningHasJob /\ CoverInv => NoNodeForgotten
  <2> SUFFICES ASSUME TypeOK, RunningHasJob, StoreCovers,
                      NEW n \in Names, NEW v \in Versions(n),
                      v.uid \in UIDs, v.uid = api[n].uid, Begun(v)
               PROVE  Covered(v.uid, Left(v) \cup Members(jobRunningList[v.uid])
                                             \cup Members(v.ann.running))
    BY VersionsForgetNone DEF CoverInv
  <2>1. PICK u \in UIDs : u = v.uid
    OBVIOUS
  <2>2. CASE Remembered(u)
    <3>1. Covered(u, InMemory(u))
      BY <2>1, <2>2 DEF StoreCovers, MemoryCovers
    <3>2. Members(jobToRunList[u]) \subseteq Left(v)
      BY <2>1, LoadedFacts DEF Left
    <3>3. QED
      BY <2>1, <3>1, <3>2 DEF Covered, InMemory
  <2>3. CASE ~Remembered(u)
    <3>1. v.status.inProgress /\ jobToRunList[u] = Absent
      BY <2>1, <2>3 DEF Begun, Remembered
    <3>2. Covered(u, InVersion(v))
      BY <2>1, <3>1 DEF StoreCovers, VersionsCover
    <3>3. Left(v) = Members(v.ann.toRun)
      BY <2>1, <3>1 DEF Left, Loaded
    <3>4. QED
      BY <2>1, <3>2, <3>3 DEF Covered, InVersion
  <2>4. QED
    BY <2>2, <2>3
<1>2. QED
  BY <1>1, TypeCorrect, ListedNodesHaveJobs, RestartsLoseNothing, PTL

(* The same without crashes and panics, but with rejected writes, and      *)
(* Creates whose response is lost or that fail.                            *)
THEOREM NothingForgotten ==
    ASSUME MaxFaults["crash"] = 0, MaxFaults["listJobsFail"] = 0,
           MaxFaults["listFail"] = 0, MaxFaults["deleteJob"] = 0
    PROVE  Spec => []NoNodeForgotten
<1>1. TypeOK /\ RunningHasJob /\ AliveInv => NoNodeForgotten
  <2> SUFFICES ASSUME TypeOK, RunningHasJob, AliveInv,
                      NEW n \in Names, NEW v \in Versions(n),
                      v.uid \in UIDs, v.uid = api[n].uid, Begun(v)
               PROVE  Covered(v.uid, Left(v) \cup Members(jobRunningList[v.uid])
                                             \cup Members(v.ann.running))
    BY VersionsForgetNone
  <2>1. PICK u \in UIDs : u = v.uid
    OBVIOUS
  <2>2. u \in runList
    BY <2>1 DEF Begun, AliveInv, ProgressListed
  <2>3. Covered(u, InMemory(u))
    BY <2>1, <2>2 DEF AliveInv, MemoryAlone
  <2>4. Members(jobToRunList[u]) \subseteq Left(v)
    BY <2>1, LoadedFacts DEF Left
  <2>5. QED
    BY <2>1, <2>3, <2>4 DEF Covered, InMemory
<1>2. QED
  BY <1>1, TypeCorrect, ListedNodesHaveJobs, MemoryStaysWhole, PTL

=============================================================================

------------------------ MODULE SosreportListsProofs ------------------------
(***************************************************************************)
(* What the controller's lists promise as long as the manager's process    *)
(* lives and every response to a Create arrives: one Job per node, never   *)
(* more at a time than the concurrency, and none left when the Sosreport   *)
(* is finished.  ListsInv is the inductive invariant.  MCFinishedRestart   *)
(* shows what a crash does to it; a lost response does the same, as the    *)
(* node of the Job that was created stays on the list to run; and so does  *)
(* a failed List of Jobs, after which the process may panic.               *)
(***************************************************************************)
EXTENDS SosreportOperatorProofs, FiniteSetTheorems

(* No crash, lost Create or failed List of Jobs is left in the budget.     *)
NoLoss ==
    budget["crash"] = 0 /\ budget["lostCreate"] = 0 /\ budget["listJobsFail"] = 0

(* No fault that has been used up, or was never allowed, happens.          *)
LEMMA BudgetStep ==
    ASSUME TypeOK, [Next]_vars
    PROVE  \A k \in FaultKinds : budget[k] = 0 => budget'[k] = 0
<1> SUFFICES budget' = budget \/ \E k \in FaultKinds : Spend(k)
  BY DEF Spend, TypeOK, ReconcilerTypeOK
<1>1. {"crash", "fail", "lostUpdate", "lostCreate", "listFail",
       "listJobsFail", "touch", "delete", "deleteJob", "configure", "churn"}
         \subseteq FaultKinds
  BY DEF FaultKinds
<1>2. CASE Controller
  <2>1. ASSUME NEW n \in queue, Reconcile(n)
        PROVE  budget' = budget \/ \E k \in FaultKinds : Spend(k)
    BY <1>1, <2>1
       DEF Reconcile, ReconcileIgnored, ScheduleListFails, ScheduleNoNodes,
           Schedule, Continue, ContinueListFails, UpdateStatus, envVars
  <2>2. ASSUME \/ ScheduleUpdate \/ DequeueUpdate \/ RunUpdate
               \/ ScheduleStatus \/ Conclude
        PROVE  budget' = budget \/ \E k \in FaultKinds : Spend(k)
    BY <1>1, <2>2
       DEF ScheduleUpdate, DequeueUpdate, RunUpdate, ScheduleStatus, Conclude,
           Update, UpdateStatus, Reordered
  <2>3. CASE RunSosreportJobs
    BY <1>1, <2>3 DEF RunSosreportJobs, CreatePvc, CreateJob, EndLoop, envVars
  <2>4. QED
    BY <1>2, <2>1, <2>2, <2>3 DEF Controller, ReconcilerNext
<1>3. CASE Users
  BY <1>1, <1>3 DEF Users, CreateSosreport, TouchSosreport, DeleteSosreport,
                    DeleteJob, SetConcurrency, recVars
<1>4. CASE Informers
  BY <1>4 DEF Informers, Deliver, Resync, JobEvent, envVars
<1>5. CASE Cluster
  BY <1>1, <1>5 DEF Cluster, JobCompletes, GarbageCollect, Crash, Panic,
                    recVars, envVars
<1>6. CASE UNCHANGED vars
  BY <1>6 DEF vars, recVars
<1>7. QED
  BY <1>2, <1>3, <1>4, <1>5, <1>6 DEF Next

(* A budget without these faults stays without them.                       *)
LEMMA NoLossStep ==
    ASSUME TypeOK, NoLoss, [Next]_vars
    PROVE  NoLoss'
BY BudgetStep DEF NoLoss, FaultKinds

-----------------------------------------------------------------------------
(* What Reconcile takes into the loop of runSosreportJobs has a list of    *)
(* running nodes among its annotations.                                    *)
CopyHasList == pc \in {"run", "dequeueUpdate"} => s.ann.running # Absent

(* Every List of Jobs answers.                                             *)
ListsOfJobsAnswer == budget["listJobsFail"] = 0

(* Then writing to the annotations does not panic.                         *)
LEMMA PanicNeedsNoList == CopyHasList => ~Panic
BY DEF CopyHasList, Panic, LoopEnds, NoAnnotations

(* dequeueSosreportJobsDone gives the copy that list, unless its List of   *)
(* Jobs fails; update() leaves it there.                                   *)
LEMMA CopyHasListStep ==
    ASSUME TypeOK, ListsOfJobsAnswer, CopyHasList, [Next]_vars
    PROVE  CopyHasList'
<1>1. ASSUME NEW n \in queue, Reconcile(n) PROVE CopyHasList'
  <2>1. CASE Continue(n)
    <3>1. cache[n] \in Version
      BY <2>1, BeginType DEF Continue
    <3> DEFINE r == Dequeued(Loaded(jobRunningList[cache[n].uid],
                                    cache[n].ann.running), cache[n].uid)
    <3>2. s' = [cache[n] EXCEPT !.ann.running = Marshal(r)]
      BY <2>1 DEF Continue
    <3>3. Marshal(r) # Absent
      BY KubeApiAssumption DEF Marshal
    <3> HIDE DEF r
    <3>4. s'.ann.running = Marshal(r)
      BY <3>1, <3>2 DEF Version, Annotations
    <3>5. QED
      BY <3>3, <3>4 DEF CopyHasList
  <2>2. ~ContinueListFails(n)
    BY DEF ContinueListFails, Spend, ListsOfJobsAnswer
  <2>3. CASE Schedule(n)
    BY <2>3 DEF Schedule, CopyHasList
  <2>4. CASE ReconcileIgnored(n) \/ ScheduleListFails(n) \/ ScheduleNoNodes(n)
    BY <2>4 DEF ReconcileIgnored, ScheduleListFails, ScheduleNoNodes, localVars,
                CopyHasList
  <2>5. QED
    BY <1>1, <2>1, <2>2, <2>3, <2>4 DEF Reconcile
<1>2. CASE DequeueUpdate
  <2>1. pc = "dequeueUpdate" /\ Update(req, s)
    BY <1>2 DEF DequeueUpdate
  <2>2. s'.ann = s.ann
    BY <2>1 DEF Update, WithAnnotations
  <2>3. QED
    BY <2>1, <2>2 DEF CopyHasList
<1>3. CASE ScheduleUpdate \/ ScheduleStatus \/ RunUpdate \/ Conclude
  BY <1>3 DEF ScheduleUpdate, ScheduleStatus, RunUpdate, Conclude, Return,
              CopyHasList
<1>4. CASE RunSosreportJobs
  BY <1>4 DEF RunSosreportJobs, CreatePvc, CreateJob, EndLoop, CopyHasList
<1>5. CASE Users \/ Informers \/ UNCHANGED vars
  BY <1>5 DEF Users, CreateSosreport, TouchSosreport, DeleteSosreport, DeleteJob,
              SetConcurrency, Informers, Deliver, Resync, JobEvent, vars,
              recVars, localVars, CopyHasList
<1>6. CASE Cluster
  BY <1>6 DEF Cluster, JobCompletes, GarbageCollect, Crash, Panic, Restart,
              Return, recVars, localVars, CopyHasList
<1>7. QED
  BY <1>1, <1>2, <1>3, <1>4, <1>5, <1>6 DEF Next, Controller, ReconcilerNext

(* So it stays as long as no List of Jobs fails.                           *)
THEOREM LoopHasList ==
    ASSUME MaxFaults["listJobsFail"] = 0
    PROVE  Spec => []CopyHasList
<1>1. Init => CopyHasList /\ ListsOfJobsAnswer
  BY DEF Init, ReconcilerInit, CopyHasList, ListsOfJobsAnswer
<1>2. TypeOK /\ ListsOfJobsAnswer /\ [Next]_vars => ListsOfJobsAnswer'
  BY BudgetStep DEF ListsOfJobsAnswer, FaultKinds
<1>3. TypeOK /\ ListsOfJobsAnswer /\ CopyHasList /\ [Next]_vars => CopyHasList'
  BY CopyHasListStep
<1>4. QED
  BY <1>1, <1>2, <1>3, TypeCorrect, PTL DEF Spec

(* runSosreportJobs panics on a Sosreport without annotations only after a *)
(* List of Jobs has failed, with crashes, conflicts and lost or rejected   *)
(* writes at any point: what it takes into its loop otherwise has been     *)
(* through dequeueSosreportJobsDone.                                       *)
THEOREM PanicNeedsListFailure ==
    ASSUME MaxFaults["listJobsFail"] = 0
    PROVE  Spec => [][~Panic]_vars
<1>1. CopyHasList /\ [Next]_vars => [~Panic]_vars
  BY PanicNeedsNoList
<1>2. QED
  BY <1>1, LoopHasList, PTL DEF Spec

-----------------------------------------------------------------------------
(* What marshalling and set operations do to a list's members.             *)
LEMMA MembersFacts ==
    /\ Members(Absent) = {} /\ Members(Null) = {}
    /\ \A X \in SUBSET Nodes : /\ Members(X) = X
                               /\ X # Absent /\ X # Null
                               /\ Marshal(X) = X
    /\ Marshal(Absent) = Null /\ Marshal(Null) = Null
    /\ Absent # Null
BY KubeApiAssumption DEF Members, Marshal

(* Entries are added to the runList and to the maps, and never removed.    *)
MemoryGrows ==
    /\ runList \subseteq runList'
    /\ \A u \in UIDs :
          /\ jobToRunList'[u] = Absent => jobToRunList[u] = Absent
          /\ jobRunningList'[u] = Absent => jobRunningList[u] = Absent

(* Agreement with a version survives memory that only grows.               *)
LEMMA AgreesKept ==
    ASSUME MemoryGrows, NEW v, Agrees(v)
    PROVE  Agrees(v)'
BY DEF MemoryGrows, Agrees

(* A step that stores nothing, or stores one version that agrees, keeps    *)
(* the agreement of all the versions.                                      *)
LEMMA StoredAgreeKept ==
    ASSUME TypeOK, StoredAgree, MemoryGrows, UNCHANGED cache,
           \/ UNCHANGED <<api, watch>>
           \/ \E n \in Names, v \in Version : Store(n, v) /\ Agrees(v)'
    PROVE  StoredAgree'
<1>1. ASSUME NEW n \in Names
      PROVE  /\ Agrees(cache[n])'
             /\ Agrees(api[n])' \/ api'[n] # api[n]
             /\ \A v \in watch[n] : Agrees(v)'
  <2>1. \A v \in watch[n] : Agrees(v)'
    BY AgreesKept DEF StoredAgree
  <2>2. cache'[n] = cache[n] /\ Agrees(cache[n]) /\ Agrees(api[n])
    BY DEF StoredAgree
  <2>3. Agrees(cache[n])'
    BY <2>2 DEF MemoryGrows, Agrees
  <2>4. ASSUME api'[n] = api[n] PROVE Agrees(api[n])'
    BY <2>2, <2>4 DEF MemoryGrows, Agrees
  <2>5. QED
    BY <2>1, <2>3, <2>4
<1>2. CASE UNCHANGED <<api, watch>>
  BY <1>1, <1>2 DEF StoredAgree
<1>3. ASSUME NEW n \in Names, NEW v \in Version, Store(n, v), Agrees(v)'
      PROVE  StoredAgree'
  <2>1. api' = [api EXCEPT ![n] = v] /\ watch' = [watch EXCEPT ![n] = @ \cup {v}]
    BY <1>3 DEF Store
  <2>2. SUFFICES ASSUME NEW m \in Names
                 PROVE  /\ Agrees(api[m])' /\ Agrees(cache[m])'
                        /\ \A w \in watch'[m] : Agrees(w)'
    BY DEF StoredAgree
  <2>3. CASE m = n
    <3>1. api'[m] = v /\ watch'[m] = watch[m] \cup {v}
      BY <2>1, <2>3 DEF TypeOK, KubeTypeOK
    <3>2. Agrees(api[m])'
      BY <1>3, <3>1 DEF Agrees
    <3>3. QED
      BY <1>1, <1>3, <3>1, <3>2
  <2>4. CASE m # n
    <3>1. api'[m] = api[m] /\ watch'[m] = watch[m]
      BY <2>1, <2>4 DEF TypeOK, KubeTypeOK
    <3>2. QED
      BY <1>1, <3>1
  <2>5. QED
    BY <2>3, <2>4
<1>4. QED
  BY <1>2, <1>3

(* The Jobs stay as they are or become fewer, and done Jobs stay done.     *)
JobsShrink == jobs' \subseteq jobs /\ doneJobs \cap jobs' \subseteq doneJobs'

(* A step outside of Reconcile.                                            *)
LEMMA OutsideKeeps ==
    ASSUME TypeOK, ListsInv, UNCHANGED <<localVars, memVars>>, JobsShrink
    PROVE  /\ MemoryGrows /\ CopyAgrees' /\ JobsListed' /\ LoopInv'
           /\ (UNCHANGED api => FinishedListsEmpty')
<1> USE DEF ListsInv, localVars, memVars
<1>1. MemoryGrows
  BY DEF MemoryGrows
<1>2. CopyAgrees'
  BY DEF CopyAgrees, Agrees
<1>3. \A u : /\ ToRunNodes(u)' = ToRunNodes(u)
             /\ RunningNodes(u)' = RunningNodes(u)
             /\ StartedNodes(u)' = StartedNodes(u)
  BY DEF ToRunNodes, RunningNodes, StartedNodes
<1>4. JobsListed'
  BY <1>3 DEF JobsListed, OneJobPerNode, JobsShrink
<1>5. LoopInv'
  BY DEF LoopInv, ToRunNodes, MayStart, maxNewSosreports
<1>6. UNCHANGED api => FinishedListsEmpty'
  BY <1>3 DEF FinishedListsEmpty, IsFinished
<1>7. QED
  BY <1>1, <1>2, <1>4, <1>5, <1>6

(* Users keep the agreement of lists and Jobs.                             *)
LEMMA UserListsStep ==
    ASSUME TypeOK, TypeOK', ListsInv, Users
    PROVE  ListsInv'
<1> USE DEF TypeOK, KubeTypeOK
<1>1. ASSUME NEW n \in Names, NEW v \in Version, Store(n, v), Agrees(v),
             UNCHANGED <<cache, localVars, memVars, jobs, doneJobs>>,
             \/ ~v.status.finished
             \/ v.uid = api[n].uid /\ v.status = api[n].status
      PROVE  ListsInv'
  <2>1. JobsShrink
    BY <1>1 DEF JobsShrink
  <2>2. MemoryGrows /\ CopyAgrees' /\ JobsListed' /\ LoopInv'
    BY <1>1, <2>1, OutsideKeeps
  <2>3. StoredAgree'
    <3>1. Agrees(v)'
      BY <1>1, <2>2, AgreesKept
    <3>2. QED
      BY <1>1, <2>2, <3>1, StoredAgreeKept DEF ListsInv
  <2>4. FinishedListsEmpty'
    <3> SUFFICES ASSUME NEW m \in Names, NEW u \in UIDs, IsFinished(m, u)'
                 PROVE  /\ u \in runList'
                        /\ ToRunNodes(u)' = {} /\ RunningNodes(u)' = {}
      BY DEF FinishedListsEmpty
    <3>1. IsFinished(m, u)
      BY <1>1 DEF Store, IsFinished
    <3>2. QED
      BY <1>1, <3>1
         DEF ListsInv, FinishedListsEmpty, ToRunNodes, RunningNodes, memVars
  <2>5. QED
    BY <2>2, <2>3, <2>4 DEF ListsInv
<1>2. ASSUME NEW n \in Names PROVE api[n] \in Version /\ api[n].rv + 1 \in Nat
  BY VersionParts
<1>3. ASSUME NEW u \in UIDs \cup {NoUid}, NEW rv \in Nat
      PROVE  Agrees(Fresh(u, rv)) /\ ~Fresh(u, rv).status.finished
  BY DEF Agrees, Fresh, NewStatus, NoAnnotations
<1>4. ASSUME NEW n \in Names, NEW u \in UIDs, CreateSosreport(n, u)
      PROVE  ListsInv'
  <2>1. Fresh(u, api[n].rv + 1) \in Version
    BY <1>2, FreshIsVersion
  <2>2. /\ Store(n, Fresh(u, api[n].rv + 1))
        /\ UNCHANGED <<cache, localVars, memVars, jobs, doneJobs>>
    BY <1>4 DEF CreateSosreport, recVars, childVars, localVars, memVars
  <2>3. QED
    BY <1>1, <1>2, <1>3, <2>1, <2>2
<1>5. ASSUME NEW n \in Names, TouchSosreport(n) PROVE ListsInv'
  <2> DEFINE v == [api[n] EXCEPT !.rv = @ + 1]
  <2>1. v \in Version
    BY <1>2 DEF Version
  <2>2. v.uid = api[n].uid /\ v.status = api[n].status /\ v.ann = api[n].ann
    OBVIOUS
  <2>3. /\ Store(n, v)
        /\ UNCHANGED <<cache, localVars, memVars, jobs, doneJobs>>
    BY <1>5 DEF TouchSosreport, childVars
  <2> HIDE DEF v
  <2>4. Agrees(v)
    BY <2>2 DEF ListsInv, StoredAgree, Agrees
  <2>5. QED
    BY <1>1, <2>1, <2>2, <2>3, <2>4
<1>6. ASSUME NEW n \in Names, DeleteSosreport(n) PROVE ListsInv'
  <2>1. Fresh(NoUid, api[n].rv + 1) \in Version
    BY <1>2, FreshIsVersion
  <2>2. /\ Store(n, Fresh(NoUid, api[n].rv + 1))
        /\ UNCHANGED <<cache, localVars, memVars, jobs, doneJobs>>
    BY <1>6 DEF DeleteSosreport, childVars
  <2>3. QED
    BY <1>1, <1>2, <1>3, <2>1, <2>2
<1>7. ASSUME NEW c \in ConcurrencySettings, SetConcurrency(c) PROVE ListsInv'
  <2>1. JobsShrink /\ UNCHANGED <<api, watch, cache, localVars, memVars>>
    BY <1>7 DEF SetConcurrency, kubeVars, JobsShrink
  <2>2. QED
    BY <2>1, OutsideKeeps, StoredAgreeKept DEF ListsInv
<1>8. ASSUME NEW j \in jobs, DeleteJob(j) PROVE ListsInv'
  <2>1. JobsShrink /\ UNCHANGED <<api, watch, cache, localVars, memVars>>
    BY <1>8 DEF DeleteJob, RemoveJob, storeVars, JobsShrink
  <2>2. QED
    BY <2>1, OutsideKeeps, StoredAgreeKept DEF ListsInv
<1>9. QED
  BY <1>4, <1>5, <1>6, <1>7, <1>8 DEF Users

(* Informers keep the agreement of lists and Jobs.                         *)
LEMMA InformerListsStep ==
    ASSUME TypeOK, TypeOK', ListsInv, Informers
    PROVE  ListsInv'
<1>1. JobsShrink /\ UNCHANGED <<api, localVars, memVars>>
  BY DEF Informers, Deliver, Resync, JobEvent, kubeVars, childVars, JobsShrink
<1>2. MemoryGrows /\ CopyAgrees' /\ JobsListed' /\ LoopInv' /\ FinishedListsEmpty'
  BY <1>1, OutsideKeeps
<1>3. ASSUME NEW n \in Names, Deliver(n) PROVE StoredAgree'
  <2>1. PICK v \in watch[n] : /\ cache' = [cache EXCEPT ![n] = v]
                              /\ watch' = [watch EXCEPT ![n] = @ \ {v}]
    BY <1>3 DEF Deliver
  <2>2. QED
    BY <1>1, <2>1
       DEF ListsInv, StoredAgree, Agrees, memVars, TypeOK, KubeTypeOK
<1>4. ASSUME UNCHANGED <<watch, cache>> PROVE StoredAgree'
  BY <1>1, <1>2, <1>4, StoredAgreeKept DEF ListsInv
<1>5. StoredAgree'
  BY <1>3, <1>4 DEF Informers, Resync, JobEvent, kubeVars
<1>6. QED
  BY <1>2, <1>5 DEF ListsInv

(* The cluster keeps the agreement of lists and Jobs.                      *)
LEMMA ClusterListsStep ==
    ASSUME TypeOK, TypeOK', NoLoss, CopyHasList, ListsInv, Cluster
    PROVE  ListsInv'
<1>1. ASSUME NEW j \in jobs, JobCompletes(j)
      PROVE  JobsShrink /\ UNCHANGED <<api, watch, cache, localVars, memVars>>
  BY <1>1 DEF JobCompletes, JobFinishes, recVars, localVars, memVars, JobsShrink
<1>2. ASSUME NEW u \in UIDs, GarbageCollect(u)
      PROVE  JobsShrink /\ UNCHANGED <<api, watch, cache, localVars, memVars>>
  BY <1>2 DEF GarbageCollect, Collect, RemoveJob, JobsShrink
<1>3. ~Crash /\ ~Panic
  BY PanicNeedsNoList DEF Crash, Spend, NoLoss
<1>4. JobsShrink /\ UNCHANGED <<api, watch, cache, localVars, memVars>>
  BY <1>1, <1>2, <1>3 DEF Cluster
<1>5. QED
  BY <1>4, OutsideKeeps, StoredAgreeKept DEF ListsInv

-----------------------------------------------------------------------------
(* A Sosreport that is put on the runList and gets no list.                *)
LEMMA OnlyRunListGrows ==
    ASSUME TypeOK, TypeOK', ListsInv, pc = "idle", NEW u \in UIDs,
           runList' = runList \cup {u},
           UNCHANGED <<cache, jobs, doneJobs, localVars, jobToRunList,
                       jobRunningList>>
    PROVE  /\ MemoryGrows /\ CopyAgrees' /\ JobsListed' /\ LoopInv'
           /\ (UNCHANGED api => FinishedListsEmpty')
<1> USE DEF ListsInv, localVars
<1>1. MemoryGrows
  BY DEF MemoryGrows
<1>2. CopyAgrees'
  BY DEF CopyAgrees
<1>3. \A w : /\ ToRunNodes(w)' = ToRunNodes(w)
             /\ RunningNodes(w)' = RunningNodes(w)
             /\ StartedNodes(w)' = StartedNodes(w)
  BY DEF ToRunNodes, RunningNodes, StartedNodes
<1>4. JobsListed'
  BY <1>3 DEF JobsListed, OneJobPerNode
<1>5. LoopInv'
  BY DEF LoopInv
<1>6. UNCHANGED api => FinishedListsEmpty'
  BY <1>3 DEF FinishedListsEmpty, IsFinished
<1>7. QED
  BY <1>1, <1>2, <1>4, <1>5, <1>6

(* Scheduling keeps the agreement of lists and Jobs.                       *)
LEMMA ScheduleListsStep ==
    ASSUME TypeOK, TypeOK', VersionInv, ListsInv,
           NEW n \in queue, Schedule(n)
    PROVE  ListsInv'
<1> DEFINE u == cache[n].uid
<1> USE DEF TypeOK, KubeTypeOK, ReconcilerTypeOK
<1>1. n \in Names /\ cache[n] \in Version /\ u \in UIDs
  BY BeginType DEF Schedule
<1>2. /\ pc = "idle" /\ u \notin runList /\ ~cache[n].status.inProgress
      /\ runList' = runList \cup {u}
      /\ jobToRunList' = [jobToRunList EXCEPT ![u] = Eligible(u)]
      /\ pc' = "scheduleUpdate"
      /\ s' = [cache[n] EXCEPT !.ann.toRun = Eligible(u)]
      /\ UNCHANGED <<api, watch, cache, jobs, doneJobs, toVisit, inFlight,
                     started, jobRunningList>>
  BY DEF Schedule, Begin, NotYetRunning, kubeVars, loopVars
<1>3. Eligible(u) \in SUBSET Nodes
  BY <1>1, ReconcilerAssumption DEF Eligible
<1>4. MemoryGrows
  BY <1>1, <1>2, <1>3, MembersFacts DEF MemoryGrows
<1>5. StoredAgree'
  BY <1>2, <1>4, StoredAgreeKept DEF ListsInv
<1>6. CopyAgrees'
  <2>1. s'.uid = u /\ s'.status = cache[n].status
        /\ s'.ann = [cache[n].ann EXCEPT !.toRun = Eligible(u)]
    BY <1>1, <1>2 DEF Version
  <2>2. s'.ann.running = cache[n].ann.running
    BY <2>1
  <2>3. jobToRunList'[u] # Absent
    BY <1>1, <1>2, <1>3, MembersFacts
  <2>4. Agrees(cache[n])
    BY <1>1 DEF ListsInv, StoredAgree
  <2> HIDE DEF u
  <2>5. QED
    BY <1>2, <2>1, <2>2, <2>3, <2>4 DEF CopyAgrees, Agrees, u
<1>7. ASSUME NEW w \in UIDs
      PROVE  /\ w # u => ToRunNodes(w)' = ToRunNodes(w)
             /\ RunningNodes(w)' = RunningNodes(w)
             /\ StartedNodes(w)' = {} /\ StartedNodes(w) = {}
  BY <1>1, <1>2 DEF ToRunNodes, RunningNodes, StartedNodes, ListsInv, LoopInv
<1>8. JobsListed'
  <2>1. \A j \in jobs : j.owner \in UIDs /\ j.owner # u
    BY <1>2 DEF ListsInv, JobsListed, Job
  <2> HIDE DEF u
  <2>2. QED
    BY <1>2, <1>7, <2>1 DEF ListsInv, JobsListed, OneJobPerNode
<1>9. FinishedListsEmpty'
  <2> SUFFICES ASSUME NEW m \in Names, NEW w \in UIDs, IsFinished(m, w)'
               PROVE  /\ w \in runList'
                      /\ ToRunNodes(w)' = {} /\ RunningNodes(w)' = {}
    BY DEF FinishedListsEmpty
  <2>1. IsFinished(m, w)
    BY <1>2 DEF IsFinished
  <2>2. w \in runList /\ ToRunNodes(w) = {} /\ RunningNodes(w) = {}
    BY <2>1 DEF ListsInv, FinishedListsEmpty
  <2>3. w # u
    BY <1>2, <2>2
  <2>4. QED
    BY <1>2, <1>7, <2>2, <2>3
<1>10. LoopInv'
  <2>1. toVisit' = {} /\ inFlight' = {} /\ started' = {}
    BY <1>2 DEF ListsInv, LoopInv
  <2>2. QED
    BY <1>2, <2>1 DEF LoopInv
<1>11. QED
  BY <1>5, <1>6, <1>8, <1>9, <1>10 DEF ListsInv

(* Loading and dequeueing keep the agreement.                              *)
LEMMA ContinueListsStep ==
    ASSUME TypeOK, TypeOK', VersionInv, ListsInv,
           NEW n \in queue, Continue(n)
    PROVE  ListsInv'
<1>0. PICK u \in UIDs : u = cache[n].uid
  BY BeginType DEF Continue
<1> DEFINE toRun   == Loaded(jobToRunList[u], cache[n].ann.toRun)
           loaded  == Loaded(jobRunningList[u], cache[n].ann.running)
           running == Dequeued(loaded, u)
<1> USE DEF TypeOK, KubeTypeOK, ReconcilerTypeOK
<1>1. n \in Names /\ cache[n] \in Version
  BY BeginType DEF Continue
<1>2. /\ pc = "idle" /\ (u \in runList \/ cache[n].status.inProgress)
      /\ jobToRunList'   = [jobToRunList   EXCEPT ![u] = toRun]
      /\ jobRunningList' = [jobRunningList EXCEPT ![u] = running]
      /\ pc' \in {"run", "dequeueUpdate"}
      /\ s' = [cache[n] EXCEPT !.ann.running = Marshal(running)]
      /\ toVisit' = Members(toRun)
      /\ UNCHANGED <<api, watch, cache, jobs, doneJobs, seenDone, inFlight,
                     started, runList>>
  BY <1>0 DEF Continue, Begin, NotYetRunning, kubeVars
<1>3. Agrees(cache[n])
  BY <1>1 DEF ListsInv, StoredAgree
<1>4. u \in runList
  BY <1>0, <1>2, <1>3 DEF Agrees
<1>5. /\ jobToRunList[u] = Absent => cache[n].ann.toRun \in {Absent, Null}
      /\ jobRunningList[u] = Absent => cache[n].ann.running \in {Absent, Null}
  BY <1>0, <1>3 DEF Agrees
<1>6. jobToRunList[u] \in NodeList /\ jobRunningList[u] \in NodeList
  OBVIOUS
<1>7. /\ Members(toRun) = Members(jobToRunList[u])
      /\ toRun = Absent => jobToRunList[u] = Absent
  BY <1>5, MembersFacts DEF Loaded
<1>8. /\ Members(loaded) = Members(jobRunningList[u])
      /\ loaded = Absent => jobRunningList[u] = Absent
      /\ loaded \in NodeList
  BY <1>5, <1>6, MembersFacts DEF Loaded, NodeList
<1>9. /\ Members(running) = Members(jobRunningList[u]) \ DoneNodes(u)
      /\ running = Absent => jobRunningList[u] = Absent
      /\ running = Absent => Marshal(running) = Null
  <2> HIDE DEF loaded
  <2>1. CASE loaded \in {Absent, Null}
    BY <1>8, <2>1, MembersFacts DEF Dequeued
  <2>2. CASE loaded \in SUBSET Nodes
    <3>1. running = loaded \ DoneNodes(u) /\ running \in SUBSET Nodes
      BY <2>2, MembersFacts DEF Dequeued
    <3>2. QED
      BY <1>8, <2>2, <3>1, MembersFacts
  <2>3. QED
    BY <1>8, <2>1, <2>2 DEF NodeList
<1>10. s'.uid = u /\ s'.status = cache[n].status
       /\ s'.ann = [cache[n].ann EXCEPT !.running = Marshal(running)]
  BY <1>0, <1>1, <1>2 DEF Version
<1>11. /\ s'.ann.toRun = cache[n].ann.toRun
       /\ s'.ann.running = Marshal(running)
  <2>1. cache[n].ann \in Annotations
    BY <1>1, VersionParts
  <2> HIDE DEF running
  <2>2. QED
    BY <1>10, <2>1 DEF Annotations
<1> HIDE DEF toRun, loaded, running
<1>12. MemoryGrows
  BY <1>1, <1>2, <1>7, <1>9 DEF MemoryGrows
<1>13. StoredAgree'
  BY <1>2, <1>12, StoredAgreeKept DEF ListsInv
<1>14. jobToRunList'[u] = toRun /\ jobRunningList'[u] = running
  BY <1>2
<1>15. CopyAgrees'
  BY <1>0, <1>2, <1>3, <1>4, <1>5, <1>7, <1>9, <1>10, <1>11, <1>14
     DEF CopyAgrees, Agrees
<1>16. /\ \A w \in UIDs : ToRunNodes(w)' = ToRunNodes(w)
       /\ \A w \in UIDs : w # u => RunningNodes(w)' = RunningNodes(w)
       /\ RunningNodes(u)' = RunningNodes(u) \ DoneNodes(u)
  <2>1. \A w \in UIDs : w # u => /\ jobToRunList'[w] = jobToRunList[w]
                                 /\ jobRunningList'[w] = jobRunningList[w]
    BY <1>2
  <2>2. QED
    BY <1>7, <1>9, <1>14, <2>1 DEF ToRunNodes, RunningNodes
<1>17. started = {} /\ started' = {} /\ inFlight' = {}
  BY <1>2 DEF ListsInv, LoopInv
<1>18. \A w : StartedNodes(w) = {} /\ StartedNodes(w)' = {}
  BY <1>17 DEF StartedNodes
<1>19. JobsListed'
  <2>1. \A j \in jobs : j.owner \in UIDs
    BY DEF Job
  <2>2. \A w \in UIDs \ runList : ToRunNodes(w)' = {} /\ RunningNodes(w)' = {}
    BY <1>4, <1>16 DEF ListsInv, JobsListed
  <2>3. ASSUME NEW j \in jobs, j \notin doneJobs
        PROVE  j.node \in RunningNodes(j.owner)'
    <3>1. j.node \in RunningNodes(j.owner)
      BY <1>18, <2>3 DEF ListsInv, JobsListed
    <3>2. CASE j.owner = u
      <4>1. j.node \notin DoneNodes(u)
        BY <2>3, <3>2 DEF DoneNodes, ListsInv, JobsListed, OneJobPerNode
      <4>2. QED
        BY <1>16, <3>1, <3>2, <4>1
    <3>3. CASE j.owner # u
      BY <1>16, <2>1, <3>1, <3>3
    <3>4. QED
      BY <3>2, <3>3
  <2>4. QED
    BY <1>2, <1>16, <1>18, <2>1, <2>2, <2>3
       DEF ListsInv, JobsListed, OneJobPerNode
<1>20. FinishedListsEmpty'
  <2> SUFFICES ASSUME NEW m \in Names, NEW w \in UIDs, IsFinished(m, w)'
               PROVE  /\ w \in runList'
                      /\ ToRunNodes(w)' = {} /\ RunningNodes(w)' = {}
    BY DEF FinishedListsEmpty
  <2>1. IsFinished(m, w)
    BY <1>2 DEF IsFinished
  <2>2. w \in runList /\ ToRunNodes(w) = {} /\ RunningNodes(w) = {}
    BY <2>1 DEF ListsInv, FinishedListsEmpty
  <2>3. QED
    BY <1>2, <1>16, <2>2
<1>21. LoopInv'
  <2>1. toVisit' = Members(jobToRunList'[s'.uid])
    BY <1>2, <1>10, <1>14
  <2>2. QED
    BY <1>2, <1>17, <2>1 DEF LoopInv, ToRunNodes
<1>22. QED
  BY <1>13, <1>15, <1>19, <1>20, <1>21 DEF ListsInv

-----------------------------------------------------------------------------
(* A step that leaves the memory and the Jobs alone and goes on with, or   *)
(* gives up, the copy of a Reconcile whose loop is not under way.          *)
LEMMA BetweenLoops ==
    ASSUME TypeOK, ListsInv, UNCHANGED <<memVars, jobs, doneJobs>>,
           pc # "idle", pc # "run", inFlight' = {}, started' = {}
    PROVE  MemoryGrows /\ JobsListed'
<1> USE DEF ListsInv, memVars
<1>1. MemoryGrows
  BY DEF MemoryGrows
<1>2. \A w : /\ ToRunNodes(w)' = ToRunNodes(w)
             /\ RunningNodes(w)' = RunningNodes(w)
             /\ StartedNodes(w)' = {} /\ StartedNodes(w) = {}
  BY DEF ToRunNodes, RunningNodes, StartedNodes, LoopInv
<1>3. JobsListed'
  BY <1>2 DEF JobsListed, OneJobPerNode
<1>4. QED
  BY <1>1, <1>3

(* update() keeps the agreement of lists and Jobs.                         *)
LEMMA UpdateListsStep ==
    ASSUME TypeOK, TypeOK', VersionInv, ListsInv,
           ScheduleUpdate \/ DequeueUpdate \/ RunUpdate
    PROVE  ListsInv'
<1> USE DEF TypeOK, KubeTypeOK, ReconcilerTypeOK
<1>1. /\ pc # "idle" /\ pc # "run" /\ pc' # "idle"
      /\ pc' \notin {"run", "dequeueUpdate"} => pc \notin {"run", "dequeueUpdate"}
      /\ Update(req, s)
      /\ UNCHANGED <<cache, jobs, doneJobs, req, toVisit, inFlight, started,
                     memVars>>
  BY DEF ScheduleUpdate, DequeueUpdate, RunUpdate, childVars, loopVars
<1>2. req \in Names /\ s \in Version /\ s.uid \in UIDs
  BY <1>1
<1>3. inFlight = {} /\ started = {}
  BY <1>1 DEF ListsInv, LoopInv
<1>4. MemoryGrows /\ JobsListed'
  BY <1>1, <1>3, BetweenLoops
<1>5. s'.uid = s.uid
  BY <1>1, <1>2, UpdateType
<1>6. Agrees(s) /\ Agrees(api[req]) /\ s.uid \in runList
  BY <1>1, <1>2 DEF ListsInv, CopyAgrees, StoredAgree
<1>7. PICK v \in Version : v = WithAnnotations(req, s)
  BY <1>2, WithAnnotationsIsVersion
<1>8. v.uid = api[req].uid /\ v.ann = s.ann /\ v.status = api[req].status
  BY <1>7 DEF WithAnnotations
<1>9. ASSUME IsCurrent(req, s) PROVE Agrees(v)'
  <2>1. Agrees(v)
    BY <1>6, <1>8, <1>9 DEF Agrees, IsCurrent
  <2>2. QED
    BY <1>4, <2>1, AgreesKept
<1>10. /\ \/ UNCHANGED <<api, watch>>
          \/ IsCurrent(req, s) /\ Store(req, v)
       /\ s' = s \/ (IsCurrent(req, s) /\ s' = v)
  BY <1>1, <1>7 DEF Update
<1>11. StoredAgree'
  BY <1>1, <1>2, <1>4, <1>9, <1>10, StoredAgreeKept DEF ListsInv
<1>12. CopyAgrees'
  <2>1. s.uid \in runList'
    BY <1>1, <1>6 DEF memVars
  <2>2. CASE s' = s
    BY <1>4, <1>6, <2>1, <2>2 DEF CopyAgrees, Agrees, MemoryGrows
  <2>3. CASE IsCurrent(req, s) /\ s' = v
    BY <1>5, <1>9, <2>1, <2>3 DEF CopyAgrees, Agrees
  <2>4. QED
    BY <1>10, <2>2, <2>3
<1>13. \A w : /\ ToRunNodes(w)' = ToRunNodes(w)
              /\ RunningNodes(w)' = RunningNodes(w)
  BY <1>1 DEF ToRunNodes, RunningNodes, memVars
<1>14. FinishedListsEmpty'
  <2> SUFFICES ASSUME NEW m \in Names, NEW w \in UIDs, IsFinished(m, w)'
               PROVE  /\ w \in runList'
                      /\ ToRunNodes(w)' = {} /\ RunningNodes(w)' = {}
    BY DEF FinishedListsEmpty
  <2>1. IsFinished(m, w)
    BY <1>2, <1>8, <1>10 DEF IsFinished, Store
  <2>2. QED
    BY <1>1, <1>13, <2>1 DEF ListsInv, FinishedListsEmpty, memVars
<1>15. LoopInv'
  <2>1. toVisit' \subseteq Members(jobToRunList[s.uid])
    BY <1>1 DEF ListsInv, LoopInv, ToRunNodes
  <2>2. pc' \notin {"run", "dequeueUpdate"} => toVisit' = {}
    BY <1>1 DEF ListsInv, LoopInv
  <2>3. QED
    BY <1>1, <1>3, <1>5, <2>1, <2>2 DEF LoopInv, ToRunNodes, memVars
<1>16. QED
  BY <1>4, <1>11, <1>12, <1>14, <1>15 DEF ListsInv

(* The write that ends a Reconcile: its status is the copy's but for       *)
(* Finished, which is set when both lists of the Sosreport are empty.      *)
LEMMA StatusListsStep ==
    ASSUME TypeOK, TypeOK', VersionInv, ListsInv,
           pc # "idle", pc # "run", NEW v \in Version,
           UpdateStatus(req, v) \/ Reordered(req, v),
           v.uid = s.uid,
           v.status.finished => isSosreportJobsDone(s.uid),
           Return, UNCHANGED <<cache, jobs, doneJobs, memVars>>
    PROVE  ListsInv'
<1> USE DEF TypeOK, KubeTypeOK, ReconcilerTypeOK
<1>1. req \in Names /\ s.uid \in UIDs /\ s.uid \in runList
  BY DEF ListsInv, CopyAgrees
<1>2. pc' = "idle" /\ toVisit' = {} /\ inFlight' = {} /\ started' = {}
  BY DEF Return
<1>3. MemoryGrows /\ JobsListed'
  BY <1>2, BetweenLoops
<1>4. PICK w \in Version : w = WithStatus(req, v)
  BY <1>1, WithStatusIsVersion
<1>5. w.uid = api[req].uid /\ w.ann = api[req].ann /\ w.status = v.status
  BY <1>4 DEF WithStatus
<1>6. \/ UNCHANGED <<api, watch>>
      \/ IsCurrent(req, v) /\ Store(req, w)
  BY <1>4 DEF UpdateStatus, Reordered
<1>7. ASSUME IsCurrent(req, v) PROVE Agrees(w)'
  <2>1. Agrees(api[req])
    BY <1>1 DEF ListsInv, StoredAgree
  <2>2. Agrees(w)
    BY <1>1, <1>5, <1>7, <2>1 DEF Agrees, IsCurrent
  <2>3. QED
    BY <1>3, <2>2, AgreesKept
<1>8. StoredAgree'
  BY <1>1, <1>3, <1>6, <1>7, StoredAgreeKept DEF ListsInv
<1>9. FinishedListsEmpty'
  <2> SUFFICES ASSUME NEW m \in Names, NEW u \in UIDs, IsFinished(m, u)'
               PROVE  /\ u \in runList
                      /\ ToRunNodes(u) = {} /\ RunningNodes(u) = {}
    BY DEF FinishedListsEmpty, ToRunNodes, RunningNodes, memVars
  <2>1. CASE IsFinished(m, u)
    BY <2>1 DEF ListsInv, FinishedListsEmpty
  <2>2. CASE ~IsFinished(m, u)
    <3>1. IsCurrent(req, v) /\ Store(req, w) /\ m = req
      BY <1>6, <2>2 DEF IsFinished, Store
    <3>2. w.uid = u /\ w.status.finished
      BY <3>1 DEF IsFinished, Store
    <3>3. u = s.uid /\ isSosreportJobsDone(s.uid)
      BY <1>5, <3>1, <3>2 DEF IsCurrent
    <3>4. QED
      BY <1>1, <3>3 DEF isSosreportJobsDone, ToRunNodes, RunningNodes
  <2>3. QED
    BY <2>1, <2>2
<1>10. CopyAgrees' /\ LoopInv'
  BY <1>2 DEF CopyAgrees, LoopInv
<1>11. QED
  BY <1>3, <1>8, <1>9, <1>10 DEF ListsInv

(* The last write of a Reconcile keeps the agreement.                      *)
LEMMA EndListsStep ==
    ASSUME TypeOK, TypeOK', VersionInv, ListsInv, ScheduleStatus \/ Conclude
    PROVE  ListsInv'
<1>1. /\ s \in Version /\ pc # "idle" /\ pc # "run" /\ ~s.status.finished
      /\ Return /\ UNCHANGED <<cache, jobs, doneJobs, memVars>>
  BY DEF ScheduleStatus, Conclude, childVars, TypeOK, ReconcilerTypeOK,
         VersionInv, CopyCoherent
<1>2. CASE ScheduleStatus
  <2> DEFINE v == [s EXCEPT !.status.inProgress = TRUE]
  <2>1. v \in Version /\ v.uid = s.uid /\ v.status.finished = s.status.finished
    BY <1>1 DEF Version, Status
  <2>2. UpdateStatus(req, v)
    BY <1>2 DEF ScheduleStatus
  <2> HIDE DEF v
  <2>3. PICK w \in Version : w = v
    BY <2>1
  <2>4. QED
    BY <1>1, <2>1, <2>2, <2>3, StatusListsStep
<1>3. CASE Conclude
  <2>1. Concluded(s) \in Version
    BY <1>1, ConcludedIsVersion
  <2>2. PICK w \in Version : w = Concluded(s)
    BY <2>1
  <2>3. /\ w.uid = s.uid
        /\ w.status.finished => isSosreportJobsDone(s.uid)
    BY <1>1, <2>2 DEF Concluded, Version
  <2>4. UpdateStatus(req, w) \/ Reordered(req, w)
    BY <1>3, <2>2 DEF Conclude
  <2>5. QED
    BY <1>1, <2>3, <2>4, StatusListsStep
<1>4. QED
  BY <1>2, <1>3

(* The first step of Reconcile keeps the agreement.                        *)
LEMMA ReconcileListsStep ==
    ASSUME TypeOK, TypeOK', VersionInv, NoLoss, ListsInv,
           NEW n \in queue, Reconcile(n)
    PROVE  ListsInv'
<1>1. CASE ReconcileIgnored(n)
  <2>1. JobsShrink /\ UNCHANGED <<api, watch, cache, localVars, memVars>>
    BY <1>1 DEF ReconcileIgnored, kubeVars, JobsShrink
  <2>2. QED
    BY <2>1, OutsideKeeps, StoredAgreeKept DEF ListsInv
<1>2. CASE ScheduleListFails(n)
  <2>1. PICK u \in UIDs : u = cache[n].uid
    BY <1>2, BeginType DEF ScheduleListFails
  <2>2. /\ pc = "idle" /\ runList' = runList \cup {u}
        /\ UNCHANGED <<api, watch, cache, jobs, doneJobs, localVars,
                       jobToRunList, jobRunningList>>
    BY <1>2, <2>1 DEF ScheduleListFails, Begin, kubeVars
  <2>3. QED
    BY <2>2, OnlyRunListGrows, StoredAgreeKept DEF ListsInv
<1>3. CASE ScheduleNoNodes(n)
  <2>1. /\ n \in Names /\ cache[n] \in Version
        /\ cache[n].status.finished = FALSE
    BY <1>3, BeginType DEF ScheduleNoNodes
  <2>2. PICK u \in UIDs : u = cache[n].uid
    BY <1>3, BeginType DEF ScheduleNoNodes
  <2>3. /\ pc = "idle" /\ runList' = runList \cup {u}
        /\ UNCHANGED <<cache, jobs, doneJobs, localVars, jobToRunList,
                       jobRunningList>>
    BY <1>3, <2>2 DEF ScheduleNoNodes, Begin, childVars
  <2>4. MemoryGrows /\ CopyAgrees' /\ JobsListed' /\ LoopInv'
        /\ (UNCHANGED api => FinishedListsEmpty')
    BY <2>3, OnlyRunListGrows
  <2> DEFINE v == [cache[n] EXCEPT !.status.inProgress = FALSE]
  <2>5. ~cache[n].status.inProgress
    BY <1>3 DEF ScheduleNoNodes, NotYetRunning
  <2>6. v.status = cache[n].status /\ v.uid = cache[n].uid /\ v.rv = cache[n].rv
    <3>1. cache[n].status.inProgress = FALSE
      BY <2>1, <2>5 DEF Version, Status
    <3>2. QED
      BY <2>1, <3>1 DEF Version, Status
  <2>7. UpdateStatus(n, v)
    BY <1>3 DEF ScheduleNoNodes
  <2> HIDE DEF v
  <2>8. IsCurrent(n, v) => v.status = api[n].status
    BY <2>1, <2>6 DEF IsCurrent, VersionInv, InformerCoherent, Coherent
  <2>9. UNCHANGED <<api, watch>>
    BY <2>7, <2>8 DEF UpdateStatus
  <2>10. QED
    BY <2>3, <2>4, <2>9, StoredAgreeKept DEF ListsInv
<1>4. ~ContinueListFails(n)
  BY DEF ContinueListFails, Spend, NoLoss
<1>5. QED
  BY <1>1, <1>2, <1>3, <1>4, ScheduleListsStep, ContinueListsStep DEF Reconcile

-----------------------------------------------------------------------------
(* The loop of runSosreportJobs.                                           *)
LEMMA LoopKeepsStored ==
    ASSUME TypeOK, ListsInv, MemoryGrows,
           UNCHANGED <<api, watch, cache, runList>>,
           \A u \in UIDs :
              ToRunNodes(u) = {} /\ RunningNodes(u) = {} /\ u \in runList
                 => ToRunNodes(u)' = {} /\ RunningNodes(u)' = {}
    PROVE  StoredAgree' /\ FinishedListsEmpty'
<1>1. StoredAgree'
  BY StoredAgreeKept DEF ListsInv
<1>2. FinishedListsEmpty'
  BY DEF ListsInv, FinishedListsEmpty, IsFinished
<1>3. QED
  BY <1>1, <1>2

(* Creating PVC and Job of a node keeps the agreement.                     *)
LEMMA CreateListsStep ==
    ASSUME TypeOK, TypeOK', NoLoss, ListsInv,
           \/ \E node \in toVisit : CreatePvc(node)
           \/ \E j \in inFlight : CreateJob(j)
    PROVE  ListsInv'
<1> USE DEF TypeOK, KubeTypeOK, ReconcilerTypeOK
<1>1. /\ pc = "run" /\ s.uid \in UIDs
      /\ UNCHANGED <<api, watch, cache, doneJobs, pc, req, s, memVars>>
  BY DEF CreatePvc, CreateJob
<1>2. MemoryGrows
  BY <1>1 DEF MemoryGrows, memVars
<1>3. \A u : ToRunNodes(u)' = ToRunNodes(u) /\ RunningNodes(u)' = RunningNodes(u)
  BY <1>1 DEF ToRunNodes, RunningNodes, memVars
<1>4. StoredAgree' /\ FinishedListsEmpty'
  BY <1>1, <1>2, <1>3, LoopKeepsStored DEF memVars
<1>5. CopyAgrees'
  BY <1>1 DEF ListsInv, CopyAgrees, Agrees, memVars
<1>6. ASSUME NEW node \in toVisit, CreatePvc(node)
      PROVE  JobsListed' /\ LoopInv'
  <2>1. /\ inFlight = {} /\ MayStart /\ toVisit' = toVisit \ {node}
        /\ UNCHANGED <<jobs, started>>
    BY <1>6 DEF CreatePvc
  <2>2. inFlight' = {} \/ inFlight' = {jobForSosreport(node)}
    BY <1>6, <2>1 DEF CreatePvc
  <2>3. JobsListed'
    BY <1>1, <1>3, <2>1
       DEF ListsInv, JobsListed, OneJobPerNode, StartedNodes, memVars
  <2>4. MayStart'
    BY <1>1, <2>1 DEF MayStart, maxNewSosreports, memVars
  <2>5. node \in ToRunNodes(s.uid) \ started
    BY <1>1 DEF ListsInv, LoopInv
  <2>6. \A j \in inFlight' : j.owner = s.uid /\ j.node = node
    BY <2>2 DEF jobForSosreport
  <2>7. ToRunNodes(s.uid)' = ToRunNodes(s.uid)
    BY <1>1 DEF ToRunNodes, memVars
  <2>8. QED
    BY <1>1, <2>1, <2>3, <2>4, <2>5, <2>6, <2>7 DEF ListsInv, LoopInv
<1>7. ASSUME NEW j \in inFlight, CreateJob(j)
      PROVE  JobsListed' /\ LoopInv'
  <2>1. /\ j \in Job /\ j.owner = s.uid /\ j.node \notin toVisit
        /\ j.node \in ToRunNodes(s.uid) \ started
    BY DEF ListsInv, LoopInv
  <2>2. ToRunNodes(s.uid)' = ToRunNodes(s.uid)
    BY <1>1 DEF ToRunNodes, memVars
  <2>3. inFlight' = {} /\ UNCHANGED toVisit
    BY <1>7 DEF CreateJob
  <2>4. CASE jobs' = jobs \cup {j} /\ started' = started \cup {j.node}
    <3>1. LoopInv'
      BY <1>1, <2>1, <2>2, <2>3, <2>4 DEF ListsInv, LoopInv
    <3>2. \A u : /\ StartedNodes(u) \subseteq StartedNodes(u)'
                 /\ u # s.uid => StartedNodes(u)' = StartedNodes(u)
      BY <1>1, <2>4 DEF StartedNodes
    <3>3. StartedNodes(s.uid) = started /\ StartedNodes(s.uid)' = started'
      BY <1>1 DEF StartedNodes
    <3>4. \A k \in jobs : k.owner = j.owner => k.node # j.node
      BY <2>1, <3>3 DEF ListsInv, JobsListed
    <3>5. OneJobPerNode'
      BY <2>4, <3>4 DEF ListsInv, JobsListed, OneJobPerNode
    <3>6. j.owner \in runList'
      BY <1>1, <2>1 DEF ListsInv, CopyAgrees, memVars
    <3>7. j.node \in StartedNodes(s.uid)'
      BY <2>4, <3>3
    <3>8. ASSUME NEW k \in jobs
          PROVE  /\ k.owner \in runList'
                 /\ k.node \notin ToRunNodes(k.owner)' \ StartedNodes(k.owner)'
                 /\ k \notin doneJobs' =>
                       k.node \in RunningNodes(k.owner)' \cup StartedNodes(k.owner)'
      BY <1>1, <1>3, <3>2 DEF ListsInv, JobsListed, memVars
    <3>9. \A u \in UIDs \ runList' : ToRunNodes(u)' = {} /\ RunningNodes(u)' = {}
      BY <1>1, <1>3 DEF ListsInv, JobsListed, memVars
    <3>10. JobsListed'
      <4>1. SUFFICES ASSUME NEW k \in jobs'
                     PROVE  /\ k.owner \in runList'
                            /\ k.node \notin ToRunNodes(k.owner)' \ StartedNodes(k.owner)'
                            /\ k \notin doneJobs' =>
                                  k.node \in RunningNodes(k.owner)'
                                               \cup StartedNodes(k.owner)'
        BY <3>5, <3>9 DEF JobsListed
      <4>2. CASE k \in jobs
        BY <3>8, <4>2
      <4>3. CASE k = j
        BY <1>1, <2>1, <3>6, <3>7, <4>3 DEF StartedNodes
      <4>4. QED
        BY <2>4, <4>2, <4>3
    <3>11. QED
      BY <3>1, <3>10
  <2>5. CASE UNCHANGED <<jobs, started>>
    <3>1. LoopInv'
      BY <1>1, <2>2, <2>3, <2>5 DEF ListsInv, LoopInv
    <3>2. JobsListed'
      BY <1>1, <1>3, <2>5
         DEF ListsInv, JobsListed, OneJobPerNode, StartedNodes, memVars
    <3>3. QED
      BY <3>1, <3>2
  <2>6. QED
    BY <1>7, <2>4, <2>5 DEF CreateJob, Spend, NoLoss
<1>8. QED
  BY <1>4, <1>5, <1>6, <1>7 DEF ListsInv

(* Moving the started nodes between lists keeps the agreement.             *)
LEMMA EndLoopListsStep ==
    ASSUME TypeOK, TypeOK', ListsInv, EndLoop
    PROVE  ListsInv'
<1> USE DEF TypeOK, KubeTypeOK, ReconcilerTypeOK
<1>0. PICK u \in UIDs : u = s.uid
  BY DEF EndLoop
<1> DEFINE toRun   == IF jobToRunList[u] \in {Absent, Null}
                      THEN jobToRunList[u] ELSE jobToRunList[u] \ started
           running == Members(jobRunningList[u]) \cup started
           ann     == [toRun |-> Marshal(toRun), running |-> running]
<1>1. /\ pc = "run" /\ inFlight = {}
      /\ jobToRunList'   = [jobToRunList   EXCEPT ![u] = toRun]
      /\ jobRunningList' = [jobRunningList EXCEPT ![u] = running]
      /\ pc' \in {"conclude", "runUpdate"}
      /\ s' = [s EXCEPT !.ann = ann]
      /\ toVisit' = {} /\ started' = {}
      /\ UNCHANGED <<api, watch, cache, jobs, doneJobs, req, inFlight, runList>>
  BY <1>0 DEF EndLoop, LoopEnds, kubeVars
<1>2. jobToRunList[u] \in NodeList /\ jobRunningList[u] \in NodeList
  OBVIOUS
<1>3. /\ Members(toRun) = Members(jobToRunList[u]) \ started
      /\ toRun = Absent => jobToRunList[u] = Absent
      /\ toRun = Absent => Marshal(toRun) = Null
  <2>1. CASE jobToRunList[u] \in {Absent, Null}
    BY <2>1, MembersFacts
  <2>2. CASE jobToRunList[u] \in SUBSET Nodes
    <3>1. toRun = jobToRunList[u] \ started /\ toRun \in SUBSET Nodes
      BY <2>2, MembersFacts
    <3>2. QED
      BY <2>2, <3>1, MembersFacts
  <2>3. QED
    BY <1>2, <2>1, <2>2 DEF NodeList
<1>4. running \in SUBSET Nodes
  BY <1>2, NodeListType
<1>5. Members(running) = running /\ running # Absent
  BY <1>4, MembersFacts
<1>6. s'.uid = u /\ s'.status = s.status /\ s'.ann = ann
  BY <1>0, <1>1 DEF Version
<1>7. s'.ann.toRun = Marshal(toRun) /\ s'.ann.running = running
  BY <1>6
<1>8. u \in runList /\ Agrees(s)
  BY <1>0, <1>1 DEF ListsInv, CopyAgrees
<1>9. started \subseteq Members(jobToRunList[u])
  BY <1>0, <1>1 DEF ListsInv, LoopInv, ToRunNodes
<1> HIDE DEF toRun, running, ann
<1>10. jobToRunList'[u] = toRun /\ jobRunningList'[u] = running
  BY <1>1
<1>11. /\ ToRunNodes(u)' = ToRunNodes(u) \ started
       /\ RunningNodes(u)' = RunningNodes(u) \cup started
       /\ StartedNodes(u) = started
  BY <1>0, <1>1, <1>3, <1>5, <1>10
     DEF ToRunNodes, RunningNodes, StartedNodes, running
<1>12. \A w \in UIDs : w # u => /\ ToRunNodes(w)' = ToRunNodes(w)
                                /\ RunningNodes(w)' = RunningNodes(w)
                                /\ StartedNodes(w) = {}
  BY <1>0, <1>1 DEF ToRunNodes, RunningNodes, StartedNodes
<1>13. \A w : StartedNodes(w)' = {}
  BY <1>1 DEF StartedNodes
<1>14. MemoryGrows
  BY <1>1, <1>3, <1>5 DEF MemoryGrows
<1>15. StoredAgree' /\ FinishedListsEmpty'
  <2>1. \A w \in UIDs :
           ToRunNodes(w) = {} /\ RunningNodes(w) = {} /\ w \in runList
              => ToRunNodes(w)' = {} /\ RunningNodes(w)' = {}
    BY <1>9, <1>11, <1>12 DEF ToRunNodes
  <2>2. QED
    BY <1>1, <1>14, <2>1, LoopKeepsStored
<1>16. CopyAgrees'
  BY <1>1, <1>3, <1>5, <1>6, <1>7, <1>8, <1>10 DEF CopyAgrees, Agrees
<1>17. JobsListed'
  <2>1. \A j \in jobs : j.owner \in UIDs
    BY DEF Job
  <2>2. \A w \in UIDs \ runList : ToRunNodes(w)' = {} /\ RunningNodes(w)' = {}
    BY <1>8, <1>12 DEF ListsInv, JobsListed
  <2>3. ASSUME NEW j \in jobs
        PROVE  /\ j.owner \in runList
               /\ j.node \notin ToRunNodes(j.owner)'
               /\ j \notin doneJobs => j.node \in RunningNodes(j.owner)'
    <3>1. /\ j.owner \in runList
          /\ j.node \notin ToRunNodes(j.owner) \ StartedNodes(j.owner)
          /\ j \notin doneJobs =>
               j.node \in RunningNodes(j.owner) \cup StartedNodes(j.owner)
      BY DEF ListsInv, JobsListed
    <3>2. CASE j.owner = u
      BY <1>11, <3>1, <3>2
    <3>3. CASE j.owner # u
      BY <1>12, <2>1, <3>1, <3>3
    <3>4. QED
      BY <3>2, <3>3
  <2>4. QED
    BY <1>1, <1>13, <2>2, <2>3 DEF ListsInv, JobsListed, OneJobPerNode
<1>18. LoopInv'
  BY <1>1 DEF LoopInv
<1>19. QED
  BY <1>15, <1>16, <1>17, <1>18 DEF ListsInv

-----------------------------------------------------------------------------
(* Every step keeps the agreement of lists and Jobs.                       *)
LEMMA ListsStep ==
    ASSUME TypeOK, TypeOK', VersionInv, NoLoss, CopyHasList, ListsInv,
           [Next]_vars
    PROVE  ListsInv'
<1>1. CASE Controller
  <2>1. CASE RunSosreportJobs
    BY <2>1, CreateListsStep, EndLoopListsStep DEF RunSosreportJobs
  <2>2. QED
    BY <1>1, <2>1, ReconcileListsStep, UpdateListsStep, EndListsStep
       DEF Controller, ReconcilerNext
<1>2. CASE Users
  BY <1>2, UserListsStep
<1>3. CASE Informers
  BY <1>3, InformerListsStep
<1>4. CASE Cluster
  BY <1>4, ClusterListsStep
<1>5. CASE UNCHANGED vars
  <2>1. JobsShrink /\ UNCHANGED <<api, watch, cache, localVars, memVars>>
    BY <1>5 DEF vars, kubeVars, recVars, localVars, memVars, JobsShrink
  <2>2. QED
    BY <2>1, OutsideKeeps, StoredAgreeKept DEF ListsInv
<1>6. QED
  BY <1>1, <1>2, <1>3, <1>4, <1>5 DEF Next

(* Lists and Jobs agree in the initial states: there are none.             *)
LEMMA ListsInit == Init => ListsInv
<1> SUFFICES ASSUME Init PROVE ListsInv
  OBVIOUS
<1>1. TypeOK
  BY InitType
<1>2. /\ api = [n \in Names |-> Fresh(NoUid, 0)] /\ cache = api
      /\ watch = [n \in Names |-> {}]
      /\ jobs = {} /\ pc = "idle" /\ runList = {}
      /\ toVisit = {} /\ inFlight = {} /\ started = {}
      /\ jobToRunList   = [u \in UIDs |-> Absent]
      /\ jobRunningList = [u \in UIDs |-> Absent]
  BY DEF Init, KubeInit, ReconcilerInit
<1>3. StoredAgree
  BY <1>2, KubeApiAssumption DEF StoredAgree, Agrees, Fresh
<1>4. JobsListed
  BY <1>2, MembersFacts DEF JobsListed, OneJobPerNode, ToRunNodes, RunningNodes
<1>5. FinishedListsEmpty
  BY <1>2, KubeApiAssumption DEF FinishedListsEmpty, IsFinished, Fresh
<1>6. CopyAgrees /\ LoopInv
  BY <1>2 DEF CopyAgrees, LoopInv
<1>7. QED
  BY <1>3, <1>4, <1>5, <1>6 DEF ListsInv

(* While the manager's process lives, no response to a Create is lost and  *)
(* no List of Jobs fails, the lists in memory account for every Job.       *)
THEOREM ListsCorrect ==
    ASSUME MaxFaults["crash"] = 0, MaxFaults["lostCreate"] = 0,
           MaxFaults["listJobsFail"] = 0
    PROVE  Spec => []ListsInv
<1>1. Init => NoLoss
  BY DEF Init, ReconcilerInit, NoLoss
<1>2. TypeOK /\ NoLoss /\ [Next]_vars => NoLoss'
  BY NoLossStep
<1>3. TypeOK /\ TypeOK' /\ VersionInv /\ NoLoss /\ CopyHasList /\ ListsInv
        /\ [Next]_vars => ListsInv'
  BY ListsStep
<1>4. QED
  BY <1>1, <1>2, <1>3, ListsInit, TypeCorrect, VersionsCoherent, LoopHasList,
     PTL DEF Spec

(* No node ever has two Jobs of one Sosreport: started nodes are moved     *)
(* between the lists in memory, whatever an outdated cache shows.          *)
THEOREM NoDuplicateJob ==
    ASSUME MaxFaults["crash"] = 0, MaxFaults["lostCreate"] = 0,
           MaxFaults["listJobsFail"] = 0
    PROVE  Spec => []OneJobPerNode
<1>1. ListsInv => OneJobPerNode
  BY DEF ListsInv, JobsListed
<1>2. QED
  BY <1>1, ListsCorrect, PTL

(* When a Sosreport is marked as finished, none of its Jobs is running.    *)
THEOREM FinishedIsIdle ==
    ASSUME MaxFaults["crash"] = 0, MaxFaults["lostCreate"] = 0,
           MaxFaults["listJobsFail"] = 0
    PROVE  Spec => []FinishedMeansIdle
<1>1. TypeOK /\ ListsInv => FinishedMeansIdle
  <2> SUFFICES ASSUME TypeOK, ListsInv,
                      NEW n \in Names, NEW u \in UIDs, IsFinished(n, u),
                      NEW j \in LiveJobs(u)
               PROVE  FALSE
    BY DEF FinishedMeansIdle
  <2>1. ToRunNodes(u) = {} /\ RunningNodes(u) = {}
    BY DEF ListsInv, FinishedListsEmpty
  <2>2. StartedNodes(u) = {}
    BY <2>1 DEF ListsInv, LoopInv, StartedNodes
  <2>3. QED
    BY <2>1, <2>2 DEF LiveJobs, ListsInv, JobsListed
<1>2. QED
  BY <1>1, ListsCorrect, TypeCorrect, PTL

(* The live Jobs of a Sosreport are no more than its nodes on the running  *)
(* list and those started in the loop under way: no two share a node.      *)
LEMMA LiveJobsBound ==
    ASSUME TypeOK, ListsInv, NEW u \in UIDs
    PROVE  /\ IsFiniteSet(LiveJobs(u))
           /\ Cardinality(LiveJobs(u)) \in Nat
           /\ Cardinality(RunningNodes(u)) \in Nat
           /\ Cardinality(StartedNodes(u)) \in Nat
           /\ Cardinality(LiveJobs(u)) =<
                 Cardinality(RunningNodes(u)) + Cardinality(StartedNodes(u))
<1> DEFINE R == RunningNodes(u)
           A == StartedNodes(u)
           L == LiveJobs(u)
           f == [j \in L |-> j.node]
<1>1. R \in SUBSET Nodes /\ A \in SUBSET Nodes
  BY NodeListType DEF RunningNodes, StartedNodes, TypeOK, ReconcilerTypeOK
<1>2. IsFiniteSet(R) /\ IsFiniteSet(A)
  BY <1>1, KubeApiAssumption, FS_Subset
<1>3. f \in Injection(L, R \cup A)
  <2>1. \A j \in L : j.node \in R \cup A
    BY DEF LiveJobs, ListsInv, JobsListed
  <2>2. \A j, k \in L : j.node = k.node => j = k
    BY DEF LiveJobs, ListsInv, JobsListed, OneJobPerNode
  <2> HIDE DEF R, A, L
  <2>3. f \in [L -> R \cup A]
    BY <2>1
  <2>4. \A j, k \in L : f[j] = f[k] => j = k
    BY <2>2
  <2> HIDE DEF f
  <2>5. QED
    BY <2>3, <2>4 DEF Injection, IsInjective
<1> HIDE DEF R, A, L, f
<1>4. /\ IsFiniteSet(R \cup A)
      /\ Cardinality(R \cup A) =
            Cardinality(R) + Cardinality(A) - Cardinality(R \cap A)
  BY <1>2, FS_Union
<1>5. IsFiniteSet(L) /\ Cardinality(L) =< Cardinality(R \cup A)
  BY <1>3, <1>4, FS_Injection
<1>6. IsFiniteSet(R \cap A)
  <2>1. R \cap A \in SUBSET R
    OBVIOUS
  <2>2. QED
    BY <1>2, <2>1, FS_Subset
<1>7. /\ Cardinality(R) \in Nat /\ Cardinality(A) \in Nat
      /\ Cardinality(L) \in Nat /\ Cardinality(R \cap A) \in Nat
  BY <1>2, <1>5, <1>6, FS_CardinalityType
<1>8. Cardinality(L) =< Cardinality(R) + Cardinality(A)
  BY <1>4, <1>5, <1>7
<1>9. QED
  BY <1>5, <1>7, <1>8 DEF R, A, L

(* A Job is created only while fewer Jobs of its Sosreport run than the    *)
(* concurrency that Reconcile has read.                                    *)
THEOREM StartsWithinLimit ==
    ASSUME MaxFaults["crash"] = 0, MaxFaults["lostCreate"] = 0,
           MaxFaults["listJobsFail"] = 0
    PROVE  Spec => StartWithinLimit
<1>1. TypeOK /\ ListsInv /\ [Next]_vars => [StartStep]_vars
  <2> SUFFICES ASSUME TypeOK, ListsInv, [Next]_vars,
                      NEW k \in jobs', k \notin jobs
               PROVE  Cardinality(LiveJobs(k.owner)) < sosreportConcurrency
    BY DEF StartStep
  <2>1. PICK j \in inFlight : CreateJob(j)
    <3>1. CASE Controller
      BY <3>1
         DEF Controller, ReconcilerNext, Reconcile, RunSosreportJobs,
             ReconcileIgnored, ScheduleListFails, ScheduleNoNodes, Schedule,
             Continue, ContinueListFails, ScheduleUpdate, ScheduleStatus,
             DequeueUpdate, RunUpdate, Conclude, CreatePvc, EndLoop, kubeVars,
             childVars
    <3>2. CASE Users
      BY <3>2 DEF Users, CreateSosreport, TouchSosreport, DeleteSosreport,
                  DeleteJob, RemoveJob, SetConcurrency, kubeVars, childVars
    <3>3. CASE Informers
      BY <3>3 DEF Informers, Deliver, Resync, JobEvent, kubeVars, childVars
    <3>4. CASE Cluster
      BY <3>4 DEF Cluster, JobCompletes, JobFinishes, GarbageCollect, Collect,
                  RemoveJob, Crash, Panic, Restart
    <3>5. CASE UNCHANGED vars
      BY <3>5 DEF vars, kubeVars
    <3>6. QED
      BY <3>1, <3>2, <3>3, <3>4, <3>5 DEF Next
  <2>2. k = j /\ pc = "run"
    BY <2>1 DEF CreateJob
  <2>3. j.owner = s.uid /\ MayStart /\ s.uid \in UIDs
    BY <2>1, <2>2 DEF ListsInv, LoopInv, TypeOK, ReconcilerTypeOK
  <2>4. Cardinality(StartedNodes(s.uid)) < sosreportConcurrency
                                            - Cardinality(RunningNodes(s.uid))
    BY <2>2, <2>3 DEF MayStart, maxNewSosreports, StartedNodes, RunningNodes
  <2>5. sosreportConcurrency \in Int
    BY DEF TypeOK, ReconcilerTypeOK
  <2>6. QED
    BY <2>2, <2>3, <2>4, <2>5, LiveJobsBound
<1>2. QED
  BY <1>1, ListsCorrect, TypeCorrect, PTL DEF Spec, StartWithinLimit

=============================================================================

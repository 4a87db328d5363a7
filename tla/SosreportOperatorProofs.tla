----------------------- MODULE SosreportOperatorProofs -----------------------
(***************************************************************************)
(* Theorems about SosreportOperator, for every value of its constants.     *)
(***************************************************************************)
EXTENDS SosreportOperator, TLAPS

-----------------------------------------------------------------------------
(* Versions that the API server stores are versions.                       *)
LEMMA FreshIsVersion ==
    ASSUME NEW u \in UIDs \cup {NoUid}, NEW rv \in Nat
    PROVE  Fresh(u, rv) \in Version
BY DEF Fresh, Version, NoAnnotations, NewStatus, Annotations, Status, NodeList

(* The components of a version have their types.                           *)
LEMMA VersionParts ==
    ASSUME NEW v \in Version
    PROVE  /\ v.uid \in UIDs \cup {NoUid}
           /\ v.rv \in Nat /\ v.rv + 1 \in Nat
           /\ v.ann \in Annotations
           /\ v.ann.toRun \in NodeList /\ v.ann.running \in NodeList
           /\ v.status \in Status
BY DEF Version, Annotations

(* What the server stores on update() is a version.                        *)
LEMMA WithAnnotationsIsVersion ==
    ASSUME NEW n \in Names, NEW v \in Version, api \in [Names -> Version]
    PROVE  WithAnnotations(n, v) \in Version
BY DEF WithAnnotations, Version

(* What the server stores on updateStatus() is a version.                  *)
LEMMA WithStatusIsVersion ==
    ASSUME NEW n \in Names, NEW v \in Version, api \in [Names -> Version]
    PROVE  WithStatus(n, v) \in Version
BY DEF WithStatus, Version

(* Storing a version keeps the types of store and watches.                 *)
LEMMA StoreType ==
    ASSUME NEW n \in Names, NEW v \in Version, Store(n, v),
           api \in [Names -> Version], watch \in [Names -> SUBSET Version]
    PROVE  /\ api' \in [Names -> Version]
           /\ watch' \in [Names -> SUBSET Version]
BY DEF Store

(* A fault leaves a budget of natural numbers.                             *)
LEMMA SpendType ==
    ASSUME NEW kind \in FaultKinds, Spend(kind), budget \in [FaultKinds -> Nat]
    PROVE  budget' \in [FaultKinds -> Nat]
BY DEF Spend

(* The configured concurrency is an integer, also by default.              *)
LEMMA ConcurrencyType ==
    ASSUME concurrencySetting \in ConcurrencySettings
    PROVE  Concurrency \in Int
BY ReconcilerAssumption DEF Concurrency, DEFAULT_SOSREPORT_CONCURRENCY

(* Reading and marshalling lists of nodes yields such lists.               *)
LEMMA NodeListType ==
    /\ \A l \in NodeList : Members(l) \in SUBSET Nodes
    /\ \A l \in NodeList : Marshal(l) \in NodeList
    /\ \A X \in SUBSET Nodes : X \in NodeList
    /\ Absent \in NodeList
BY DEF NodeList, Members, Marshal

(* The status that Reconcile writes in the end is a status.                *)
LEMMA ConcludedIsVersion ==
    ASSUME NEW v \in Version
    PROVE  Concluded(v) \in Version
<1> DEFINE done == isSosreportJobsDone(v.uid)
<1>1. /\ Members(v.ann.running) \in SUBSET Nodes
      /\ Members(v.ann.toRun) \in SUBSET Nodes
  BY NodeListType, VersionParts
<1>2. [finished   |-> v.status.finished \/ done,
       inProgress |-> v.status.inProgress /\ ~done,
       currentlyRunningNodes |-> Members(v.ann.running),
       outstandingNodes      |-> Members(v.ann.toRun)] \in Status
  BY <1>1 DEF Status
<1>3. QED
  BY <1>2 DEF Concluded, Version

(* update() keeps the types of all that it changes.                        *)
LEMMA UpdateType ==
    ASSUME TypeOK, NEW n \in Names, NEW v \in Version, v.uid \in UIDs,
           Update(n, v)
    PROVE  /\ api' \in [Names -> Version]
           /\ watch' \in [Names -> SUBSET Version]
           /\ s' \in Version
           /\ s'.uid = v.uid
           /\ budget' \in [FaultKinds -> Nat]
<1> USE DEF TypeOK, KubeTypeOK, ReconcilerTypeOK
<1>1. WithAnnotations(n, v) \in Version
  BY WithAnnotationsIsVersion
<1>2. IsCurrent(n, v) => WithAnnotations(n, v).uid = v.uid
  BY DEF WithAnnotations, IsCurrent
<1>3. "fail" \in FaultKinds /\ "lostUpdate" \in FaultKinds
  BY DEF FaultKinds
<1>4. ASSUME Store(n, WithAnnotations(n, v))
      PROVE  /\ api' \in [Names -> Version]
             /\ watch' \in [Names -> SUBSET Version]
  BY <1>1, <1>4, StoreType
<1>5. ASSUME Spend("fail") \/ Spend("lostUpdate")
      PROVE  budget' \in [FaultKinds -> Nat]
  BY <1>3, <1>5, SpendType
<1>6. QED
  BY <1>1, <1>2, <1>4, <1>5 DEF Update

(* updateStatus() keeps the types of all that it changes.                  *)
LEMMA UpdateStatusType ==
    ASSUME TypeOK, NEW n \in Names, NEW v \in Version, UpdateStatus(n, v)
    PROVE  /\ api' \in [Names -> Version]
           /\ watch' \in [Names -> SUBSET Version]
           /\ budget' \in [FaultKinds -> Nat]
<1> USE DEF TypeOK, KubeTypeOK, ReconcilerTypeOK
<1>1. ASSUME Store(n, WithStatus(n, v))
      PROVE  /\ api' \in [Names -> Version]
             /\ watch' \in [Names -> SUBSET Version]
  BY <1>1, WithStatusIsVersion, StoreType
<1>2. ASSUME Spend("fail")
      PROVE  budget' \in [FaultKinds -> Nat]
  <2>1. "fail" \in FaultKinds
    BY DEF FaultKinds
  <2>2. QED
    BY <1>2, <2>1, SpendType
<1>3. QED
  BY <1>1, <1>2 DEF UpdateStatus

(* A Reconcile that returns leaves the worker idle.                        *)
LEMMA ReturnType ==
    ASSUME Return
    PROVE  /\ pc' \in Labels
           /\ (pc' = "idle") = (req' = NoName)
           /\ req' \in Names \cup {NoName}
           /\ s' \in Version
           /\ pc' # "idle" => s'.uid \in UIDs
           /\ toVisit' = {} /\ inFlight' = {} /\ started' = {}
BY FreshIsVersion DEF Return, Labels, NoSosreport

-----------------------------------------------------------------------------
(* The initial states are well typed.                                      *)
LEMMA InitType == Init => TypeOK
BY KubeApiAssumption, ReconcilerAssumption, FreshIsVersion, NodeListType
   DEF Init, KubeInit, ReconcilerInit, TypeOK, KubeTypeOK, ReconcilerTypeOK,
       NoSosreport, Labels

(* Users keep the types.                                                   *)
LEMMA UserTypeStep == TypeOK /\ Users => TypeOK'
<1> SUFFICES ASSUME TypeOK, Users PROVE TypeOK'
  OBVIOUS
<1> USE DEF TypeOK, KubeTypeOK, ReconcilerTypeOK
<1>1. ASSUME NEW n \in Names, NEW u \in UIDs, CreateSosreport(n, u)
      PROVE  TypeOK'
  <2>1. Fresh(u, api[n].rv + 1) \in Version
    <3>1. api[n].rv + 1 \in Nat
      BY VersionParts
    <3>2. QED
      BY <3>1, FreshIsVersion
  <2>2. api' \in [Names -> Version] /\ watch' \in [Names -> SUBSET Version]
    BY <1>1, <2>1, StoreType DEF CreateSosreport
  <2>3. QED
    BY <1>1, <2>2 DEF CreateSosreport, recVars, childVars
<1>2. ASSUME NEW n \in Names, TouchSosreport(n) PROVE TypeOK'
  <2>1. [api[n] EXCEPT !.rv = @ + 1] \in Version
    <3>1. api[n] \in Version /\ api[n].rv + 1 \in Nat
      BY VersionParts
    <3>2. QED
      BY <3>1 DEF Version
  <2>2. api' \in [Names -> Version] /\ watch' \in [Names -> SUBSET Version]
    BY <1>2, <2>1, StoreType DEF TouchSosreport
  <2>3. budget' \in [FaultKinds -> Nat]
    BY <1>2, SpendType DEF TouchSosreport, FaultKinds
  <2>4. QED
    BY <1>2, <2>2, <2>3 DEF TouchSosreport, childVars, localVars, memVars
<1>3. ASSUME NEW n \in Names, DeleteSosreport(n) PROVE TypeOK'
  <2>1. Fresh(NoUid, api[n].rv + 1) \in Version
    <3>1. api[n].rv + 1 \in Nat
      BY VersionParts
    <3>2. QED
      BY <3>1, FreshIsVersion
  <2>2. api' \in [Names -> Version] /\ watch' \in [Names -> SUBSET Version]
    BY <1>3, <2>1, StoreType DEF DeleteSosreport
  <2>3. budget' \in [FaultKinds -> Nat]
    BY <1>3, SpendType DEF DeleteSosreport, FaultKinds
  <2>4. QED
    BY <1>3, <2>2, <2>3 DEF DeleteSosreport, childVars, localVars, memVars
<1>4. ASSUME NEW c \in ConcurrencySettings, SetConcurrency(c) PROVE TypeOK'
  <2>1. budget' \in [FaultKinds -> Nat]
    BY <1>4, SpendType DEF SetConcurrency, FaultKinds
  <2>2. QED
    BY <1>4, <2>1 DEF SetConcurrency, kubeVars, localVars, memVars
<1>5. ASSUME NEW j \in jobs, DeleteJob(j) PROVE TypeOK'
  <2>1. budget' \in [FaultKinds -> Nat]
    BY <1>5, SpendType DEF DeleteJob, FaultKinds
  <2>2. j.name \in Names
    BY DEF Job
  <2>3. QED
    BY <1>5, <2>1, <2>2 DEF DeleteJob, RemoveJob, storeVars, localVars, memVars
<1>6. QED
  BY <1>1, <1>2, <1>3, <1>4, <1>5 DEF Users

(* Informers keep the types.                                               *)
LEMMA InformerTypeStep == TypeOK /\ Informers => TypeOK'
<1> SUFFICES ASSUME TypeOK, Informers PROVE TypeOK'
  OBVIOUS
<1> USE DEF TypeOK, KubeTypeOK, ReconcilerTypeOK
<1>1. ASSUME NEW n \in Names, Deliver(n) PROVE TypeOK'
  <2>1. cache' \in [Names -> Version] /\ watch' \in [Names -> SUBSET Version]
    BY <1>1 DEF Deliver, Deliverable
  <2>2. QED
    BY <1>1, <2>1 DEF Deliver, childVars, localVars, memVars, envVars
<1>2. ASSUME NEW n \in Names, Resync(n) PROVE TypeOK'
  BY <1>2 DEF Resync, kubeVars, localVars, memVars, envVars
<1>3. ASSUME NEW j \in jobs, JobEvent(j) PROVE TypeOK'
  <2>1. j.name \in Names
    BY DEF Job
  <2>2. QED
    BY <1>3, <2>1 DEF JobEvent, localVars, memVars, envVars
<1>4. QED
  BY <1>1, <1>2, <1>3 DEF Informers

(* The cluster, and a crash of the manager, keep the types.                *)
LEMMA ClusterTypeStep == TypeOK /\ Cluster => TypeOK'
<1> SUFFICES ASSUME TypeOK, Cluster PROVE TypeOK'
  OBVIOUS
<1> USE DEF TypeOK, KubeTypeOK, ReconcilerTypeOK
<1>1. ASSUME NEW j \in jobs, JobCompletes(j) PROVE TypeOK'
  BY <1>1 DEF JobCompletes, JobFinishes, recVars
<1>2. ASSUME NEW u \in UIDs, GarbageCollect(u) PROVE TypeOK'
  <2>1. queue' \subseteq Names
    BY <1>2 DEF GarbageCollect, Job
  <2>2. UNCHANGED <<api, watch, cache, clock, localVars, memVars, envVars, created>>
    BY <1>2 DEF GarbageCollect, Collect
  <2>3. jobs' \subseteq Job /\ doneJobs' \subseteq jobs' /\ seenDone' \subseteq doneJobs'
        /\ pvcs' \subseteq Job
    BY <1>2 DEF GarbageCollect, Collect, RemoveJob, RemovePvc
  <2>4. QED
    BY <2>1, <2>2, <2>3 DEF localVars, memVars, envVars
<1>3. CASE Crash \/ Panic
  <2>1. budget' \in [FaultKinds -> Nat] /\ Restart
    BY <1>3, SpendType DEF Crash, Panic, FaultKinds
  <2>2. queue' \subseteq Names /\ cache' \in [Names -> Version]
        /\ watch' \in [Names -> SUBSET Version]
    BY <2>1 DEF Restart
  <2>3. jobToRunList' \in [UIDs -> NodeList]
        /\ jobRunningList' \in [UIDs -> NodeList]
    BY <2>1, NodeListType DEF Restart
  <2>4. QED
    BY <2>1, <2>2, <2>3, ReturnType DEF Restart
<1>4. QED
  BY <1>1, <1>2, <1>3 DEF Cluster

(* The Sosreport that a Reconcile looks at has a UID.                      *)
LEMMA BeginType ==
    ASSUME TypeOK, NEW n \in queue, Begin(n)
    PROVE  /\ n \in Names /\ n # NoName
           /\ cache[n] \in Version
           /\ cache[n].uid \in UIDs
           /\ cache[n].status.finished = FALSE
           /\ sosreportConcurrency' \in Int
<1> USE DEF TypeOK, KubeTypeOK, ReconcilerTypeOK
<1>1. n \in Names /\ n # NoName /\ cache[n] \in Version
  BY ReconcilerAssumption
<1>2. cache[n].uid \in UIDs /\ cache[n].status.finished = FALSE
  BY <1>1 DEF Begin, IsIgnored, Version, Status
<1>3. sosreportConcurrency' \in Int
  BY ConcurrencyType DEF Begin, SetConfiguration
<1>4. QED
  BY <1>1, <1>2, <1>3

(* The first step of Reconcile keeps the types.                            *)
LEMMA ReconcileTypeStep ==
    ASSUME TypeOK, NEW n \in queue, Reconcile(n), UNCHANGED created
    PROVE  TypeOK'
<1> USE DEF TypeOK, KubeTypeOK, ReconcilerTypeOK
<1>1. CASE ReconcileIgnored(n)
  BY <1>1 DEF ReconcileIgnored, kubeVars, localVars, memVars, envVars
<1>2. CASE ScheduleListFails(n)
  <2>1. budget' \in [FaultKinds -> Nat]
    BY <1>2, SpendType DEF ScheduleListFails, FaultKinds
  <2>2. cache[n].uid \in UIDs /\ sosreportConcurrency' \in Int
    BY <1>2, BeginType DEF ScheduleListFails
  <2>3. QED
    BY <1>2, <2>1, <2>2 DEF ScheduleListFails, kubeVars, localVars
<1>3. CASE ScheduleNoNodes(n)
  <2> DEFINE v == [cache[n] EXCEPT !.status.inProgress = FALSE]
  <2>1. n \in Names /\ cache[n].uid \in UIDs /\ sosreportConcurrency' \in Int
    BY <1>3, BeginType DEF ScheduleNoNodes
  <2>2. v \in Version
    <3>1. cache[n] \in Version
      BY <2>1
    <3>2. QED
      BY <3>1 DEF Version, Status
  <2>3. UpdateStatus(n, v)
    BY <1>3 DEF ScheduleNoNodes
  <2>4. /\ api' \in [Names -> Version]
        /\ watch' \in [Names -> SUBSET Version]
        /\ budget' \in [FaultKinds -> Nat]
    <3> HIDE DEF v
    <3>1. QED
      BY <2>1, <2>2, <2>3, UpdateStatusType
  <2>5. QED
    BY <1>3, <2>1, <2>4 DEF ScheduleNoNodes, childVars, localVars
<1>4. CASE Schedule(n)
  <2>1. /\ n \in Names /\ n # NoName /\ cache[n] \in Version
        /\ cache[n].uid \in UIDs /\ sosreportConcurrency' \in Int
    BY <1>4, BeginType DEF Schedule
  <2>2. Eligible(cache[n].uid) \in NodeList
    BY <2>1, NodeListType, ReconcilerAssumption DEF Eligible
  <2>3. s' \in Version /\ s'.uid \in UIDs
    BY <1>4, <2>1, <2>2 DEF Schedule, Version, Annotations
  <2>4. /\ runList' \subseteq UIDs
        /\ jobToRunList' \in [UIDs -> NodeList]
        /\ pc' \in Labels /\ pc' # "idle" /\ req' = n
    BY <1>4, <2>1, <2>2 DEF Schedule, Labels
  <2>5. QED
    BY <1>4, <2>1, <2>3, <2>4 DEF Schedule, kubeVars, loopVars, envVars
<1>5. CASE Continue(n)
  <2> DEFINE u       == cache[n].uid
             toRun   == Loaded(jobToRunList[u], cache[n].ann.toRun)
             loaded  == Loaded(jobRunningList[u], cache[n].ann.running)
             running == Dequeued(loaded, u)
  <2>1. /\ n \in Names /\ n # NoName /\ cache[n] \in Version
        /\ u \in UIDs /\ sosreportConcurrency' \in Int
    BY <1>5, BeginType DEF Continue
  <2>2. toRun \in NodeList /\ loaded \in NodeList
    BY <2>1, VersionParts DEF Loaded
  <2>3. running \in NodeList
    <3> HIDE DEF loaded
    <3>1. QED
      BY <2>2 DEF Dequeued, NodeList
  <2>4. /\ queue' = queue \ {n}
        /\ jobToRunList'   = [jobToRunList   EXCEPT ![u] = toRun]
        /\ jobRunningList' = [jobRunningList EXCEPT ![u] = running]
        /\ pc' \in {"run", "dequeueUpdate"}
        /\ req' = n
        /\ s' = [cache[n] EXCEPT !.ann.running = Marshal(running)]
        /\ toVisit' = Members(toRun)
        /\ UNCHANGED <<kubeVars, inFlight, started, runList, envVars>>
    BY <1>5 DEF Continue
  <2> HIDE DEF toRun, loaded, running, u
  <2>5. s' \in Version /\ s'.uid \in UIDs
    <3>1. Marshal(running) \in NodeList
      BY <2>3, NodeListType
    <3>2. QED
      BY <2>1, <2>4, <3>1 DEF Version, Annotations, u
  <2>6. toVisit' \subseteq Nodes
    BY <2>2, <2>4, NodeListType
  <2>7. QED
    BY <2>1, <2>2, <2>3, <2>4, <2>5, <2>6 DEF kubeVars, envVars, Labels
<1>6. CASE ContinueListFails(n)
  <2> DEFINE u       == cache[n].uid
             toRun   == Loaded(jobToRunList[u], cache[n].ann.toRun)
             running == Loaded(jobRunningList[u], cache[n].ann.running)
  <2>1. /\ n \in Names /\ n # NoName /\ cache[n] \in Version
        /\ u \in UIDs /\ sosreportConcurrency' \in Int
    BY <1>6, BeginType DEF ContinueListFails
  <2>2. toRun \in NodeList /\ running \in NodeList
    BY <2>1, VersionParts DEF Loaded
  <2>3. /\ queue' = queue \ {n}
        /\ jobToRunList'   = [jobToRunList   EXCEPT ![u] = toRun]
        /\ jobRunningList' = [jobRunningList EXCEPT ![u] = running]
        /\ pc' = "run" /\ req' = n /\ s' = cache[n]
        /\ toVisit' = Members(toRun)
        /\ UNCHANGED <<kubeVars, inFlight, started, runList, concurrencySetting>>
    BY <1>6 DEF ContinueListFails
  <2>4. budget' \in [FaultKinds -> Nat]
    BY <1>6, SpendType DEF ContinueListFails, FaultKinds
  <2>5. s'.uid \in UIDs
    BY <2>1, <2>3
  <2> HIDE DEF toRun, running, u
  <2>6. toVisit' \subseteq Nodes
    BY <2>2, <2>3, NodeListType
  <2>7. QED
    BY <2>1, <2>2, <2>3, <2>4, <2>5, <2>6 DEF kubeVars, Labels
<1>7. QED
  BY <1>1, <1>2, <1>3, <1>4, <1>5, <1>6 DEF Reconcile

(* The API writes of Reconcile keep the types.                             *)
LEMMA WriteTypeStep ==
    ASSUME TypeOK, UNCHANGED created,
           \/ ScheduleUpdate \/ DequeueUpdate \/ RunUpdate
           \/ ScheduleStatus \/ Conclude
    PROVE  TypeOK'
<1> USE DEF TypeOK, KubeTypeOK, ReconcilerTypeOK
<1>1. CASE ScheduleUpdate \/ DequeueUpdate \/ RunUpdate
  <2>1. pc # "idle" /\ Update(req, s)
    BY <1>1 DEF ScheduleUpdate, DequeueUpdate, RunUpdate
  <2>2. req \in Names /\ s.uid \in UIDs
    BY <2>1
  <2>3. /\ api' \in [Names -> Version]
        /\ watch' \in [Names -> SUBSET Version]
        /\ s' \in Version
        /\ s'.uid = s.uid
        /\ budget' \in [FaultKinds -> Nat]
    BY <2>1, <2>2, UpdateType
  <2>4. pc' \in Labels /\ pc' # "idle"
    BY <1>1 DEF ScheduleUpdate, DequeueUpdate, RunUpdate, Labels
  <2>5. QED
    BY <1>1, <2>1, <2>2, <2>3, <2>4
       DEF ScheduleUpdate, DequeueUpdate, RunUpdate, childVars, loopVars,
           memVars
<1>2. CASE ScheduleStatus
  <2> DEFINE v == [s EXCEPT !.status.inProgress = TRUE]
  <2>1. req \in Names /\ v \in Version
    BY <1>2 DEF ScheduleStatus, Version, Status
  <2>2. UpdateStatus(req, v)
    BY <1>2 DEF ScheduleStatus
  <2>3. /\ api' \in [Names -> Version]
        /\ watch' \in [Names -> SUBSET Version]
        /\ budget' \in [FaultKinds -> Nat]
    <3> HIDE DEF v
    <3>1. QED
      BY <2>1, <2>2, UpdateStatusType
  <2>4. QED
    BY <1>2, <2>3, ReturnType DEF ScheduleStatus, childVars, memVars
<1>3. CASE Conclude
  <2>1. req \in Names /\ s.uid \in UIDs
    BY <1>3 DEF Conclude
  <2>2. Concluded(s) \in Version
    BY ConcludedIsVersion
  <2>3. /\ api' \in [Names -> Version]
        /\ watch' \in [Names -> SUBSET Version]
        /\ budget' \in [FaultKinds -> Nat]
    <3>1. CASE UpdateStatus(req, Concluded(s))
      BY <2>1, <2>2, <3>1, UpdateStatusType
    <3>2. CASE Reordered(req, Concluded(s))
      <4>1. WithStatus(req, Concluded(s)) \in Version
        BY <2>1, <2>2, WithStatusIsVersion
      <4>2. Store(req, WithStatus(req, Concluded(s))) /\ Spend("churn")
        BY <3>2 DEF Reordered
      <4>3. "churn" \in FaultKinds
        BY DEF FaultKinds
      <4>4. QED
        BY <2>1, <4>1, <4>2, <4>3, StoreType, SpendType
    <3>3. QED
      BY <1>3, <3>1, <3>2 DEF Conclude
  <2>4. QED
    BY <1>3, <2>3, ReturnType DEF Conclude, childVars, memVars
<1>4. QED
  BY <1>1, <1>2, <1>3

(* The loop of runSosreportJobs keeps the types.                           *)
LEMMA RunTypeStep ==
    ASSUME TypeOK, RunSosreportJobs, UNCHANGED created
    PROVE  TypeOK'
<1> USE DEF TypeOK, KubeTypeOK, ReconcilerTypeOK
<1>1. ASSUME NEW node \in toVisit, CreatePvc(node) PROVE TypeOK'
  <2>1. jobForSosreport(node) \in Job
    BY <1>1 DEF CreatePvc, jobForSosreport, Job
  <2>2. /\ toVisit' = toVisit \ {node}
        /\ UNCHANGED <<api, watch, cache, jobs, doneJobs, seenDone, queue, pc,
                       req, s, started, memVars, concurrencySetting>>
    BY <1>1 DEF CreatePvc
  <2>3. /\ budget' \in [FaultKinds -> Nat]
        /\ pvcs' \subseteq Job /\ inFlight' \subseteq Job /\ clock' \in Nat
    <3>1. "fail" \in FaultKinds /\ "lostCreate" \in FaultKinds
      BY DEF FaultKinds
    <3>2. QED
      BY <1>1, <2>1, <3>1, SpendType DEF CreatePvc
  <2>4. QED
    BY <2>2, <2>3 DEF memVars
<1>2. ASSUME NEW j \in inFlight, CreateJob(j) PROVE TypeOK'
  <2>1. j \in Job /\ j.node \in Nodes
    BY DEF Job
  <2>2. /\ inFlight' = {}
        /\ UNCHANGED <<api, watch, cache, doneJobs, seenDone, pvcs, clock,
                       queue, pc, req, s, toVisit, memVars, concurrencySetting>>
    BY <1>2 DEF CreateJob
  <2>3. /\ budget' \in [FaultKinds -> Nat]
        /\ jobs' \subseteq Job /\ jobs \subseteq jobs' /\ started' \subseteq Nodes
    <3>1. "fail" \in FaultKinds /\ "lostCreate" \in FaultKinds
      BY DEF FaultKinds
    <3>2. QED
      BY <1>2, <2>1, <3>1, SpendType DEF CreateJob
  <2>4. QED
    BY <2>2, <2>3 DEF memVars
<1>3. CASE EndLoop
  <2> DEFINE u       == s.uid
             toRun   == IF jobToRunList[u] \in {Absent, Null}
                        THEN jobToRunList[u] ELSE jobToRunList[u] \ started
             running == Members(jobRunningList[u]) \cup started
             ann     == [toRun |-> Marshal(toRun), running |-> running]
  <2>1. u \in UIDs
    BY <1>3 DEF EndLoop, LoopEnds
  <2>2. toRun \in NodeList /\ running \in NodeList
    <3>1. jobToRunList[u] \in NodeList /\ jobRunningList[u] \in NodeList
      BY <2>1
    <3>2. toRun \in NodeList
      BY <3>1 DEF NodeList
    <3>3. QED
      BY <3>1, <3>2, NodeListType
  <2>3. /\ jobToRunList'   = [jobToRunList   EXCEPT ![u] = toRun]
        /\ jobRunningList' = [jobRunningList EXCEPT ![u] = running]
        /\ pc' \in {"conclude", "runUpdate"}
        /\ s' = [s EXCEPT !.ann = ann]
        /\ toVisit' = {} /\ started' = {}
        /\ UNCHANGED <<kubeVars, queue, req, inFlight, runList,
                       sosreportConcurrency, envVars>>
        /\ pc # "idle"
    BY <1>3 DEF EndLoop, LoopEnds
  <2> HIDE DEF u, toRun, running
  <2>4. s' \in Version /\ s'.uid \in UIDs
    BY <2>1, <2>2, <2>3, NodeListType DEF Version, Annotations, u
  <2>5. QED
    BY <2>1, <2>2, <2>3, <2>4 DEF kubeVars, envVars, Labels
<1>4. QED
  BY <1>1, <1>2, <1>3 DEF RunSosreportJobs

(* Every action keeps the types: what the reconciler, the users, the       *)
(* informers and the cluster write are Sosreports, Jobs and lists of nodes,*)
(* and Reconcile works on an object that has a UID whenever it is busy.    *)
THEOREM TypeCorrect == Spec => []TypeOK
<1>1. TypeOK /\ [Next]_vars => TypeOK'
  <2> SUFFICES ASSUME TypeOK, [Next]_vars PROVE TypeOK'
    OBVIOUS
  <2>1. CASE Controller
    BY <2>1, ReconcileTypeStep, WriteTypeStep, RunTypeStep
       DEF Controller, ReconcilerNext
  <2>2. CASE Users
    BY <2>2, UserTypeStep
  <2>3. CASE Informers
    BY <2>3, InformerTypeStep
  <2>4. CASE Cluster
    BY <2>4, ClusterTypeStep
  <2>5. CASE UNCHANGED vars
    BY <2>5 DEF vars, kubeVars, recVars, TypeOK, KubeTypeOK, ReconcilerTypeOK
  <2>6. QED
    BY <2>1, <2>2, <2>3, <2>4, <2>5 DEF Next
<1>2. QED
  BY <1>1, InitType, PTL DEF Spec

-----------------------------------------------------------------------------
(* Every step stores at most one new version, of one Sosreport; the        *)
(* informer's cache moves only when a version is delivered or when the     *)
(* manager starts again.                                                   *)
QuietOrStore ==
    \/ UNCHANGED <<api, watch>>
    \/ \E n \in Names, v \in Version :
           v.rv = api[n].rv + 1 /\ Store(n, v)

VersionsGrow ==
    \A n \in Names : /\ api'[n].rv >= api[n].rv
                     /\ api'[n].rv = api[n].rv => api'[n] = api[n]

(* Storing the next version of a Sosreport keeps older versions coherent.  *)
LEMMA StoreCoherent ==
    ASSUME TypeOK, InformerCoherent, UNCHANGED cache, QuietOrStore
    PROVE  InformerCoherent' /\ VersionsGrow
<1> USE DEF TypeOK, KubeTypeOK
<1>1. CASE UNCHANGED <<api, watch>>
  BY <1>1, VersionParts DEF InformerCoherent, Coherent, VersionsGrow
<1>2. ASSUME NEW n \in Names, NEW v \in Version,
             v.rv = api[n].rv + 1, Store(n, v)
      PROVE  InformerCoherent' /\ VersionsGrow
  <2>1. api' = [api EXCEPT ![n] = v] /\ watch' = [watch EXCEPT ![n] = @ \cup {v}]
    BY <1>2 DEF Store
  <2>2. \A m \in Names : api[m].rv \in Nat
    BY VersionParts
  <2>3. VersionsGrow
    BY <1>2, <2>1, <2>2 DEF VersionsGrow
  <2>4. ASSUME NEW m \in Names, NEW w \in Version, Coherent(w, m)
        PROVE  Coherent(w, m)'
    <3>1. w.rv \in Nat
      BY VersionParts
    <3>2. CASE m = n
      BY <1>2, <2>1, <2>2, <2>4, <3>1, <3>2 DEF Coherent
    <3>3. CASE m # n
      BY <2>1, <2>4, <3>3 DEF Coherent
    <3>4. QED
      BY <3>2, <3>3
  <2>5. Coherent(v, n)'
    BY <1>2, <2>1, VersionParts DEF Coherent
  <2>6. ASSUME NEW m \in Names PROVE Coherent(cache[m], m)'
    <3>1. Coherent(cache[m], m) /\ cache'[m] = cache[m]
      BY DEF InformerCoherent
    <3>2. QED
      BY <2>4, <3>1 DEF Coherent
  <2>7. ASSUME NEW m \in Names, NEW w \in watch'[m] PROVE Coherent(w, m)'
    <3>1. CASE w \in watch[m]
      BY <2>4, <3>1 DEF InformerCoherent
    <3>2. CASE w \notin watch[m]
      <4>1. m = n /\ w = v
        BY <2>1, <3>2
      <4>2. QED
        BY <2>5, <4>1
    <3>3. QED
      BY <3>1, <3>2
  <2>8. QED
    BY <2>3, <2>6, <2>7 DEF InformerCoherent
<1>3. QED
  BY <1>1, <1>2 DEF QuietOrStore

(* A copy whose annotations alone have been changed stays coherent.        *)
LEMMA CopyKept ==
    ASSUME TypeOK, TypeOK', CopyCoherent, VersionsGrow, UNCHANGED <<pc, req>>,
           s'.rv = s.rv, s'.uid = s.uid, s'.status = s.status
    PROVE  CopyCoherent'
<1> SUFFICES ASSUME pc # "idle"
             PROVE  /\ s.rv =< api'[req].rv
                    /\ s.rv = api'[req].rv =>
                         s.uid = api'[req].uid /\ s.status = api'[req].status
                    /\ ~s.status.finished
  BY DEF CopyCoherent
<1>1. /\ req \in Names
      /\ s.rv \in Nat /\ api[req].rv \in Nat /\ api'[req].rv \in Nat
  BY VersionParts DEF TypeOK, KubeTypeOK, ReconcilerTypeOK
<1>2. /\ s.rv =< api[req].rv /\ ~s.status.finished
      /\ s.rv = api[req].rv =>
           s.uid = api[req].uid /\ s.status = api[req].status
  BY DEF CopyCoherent
<1>3. /\ api'[req].rv >= api[req].rv
      /\ api'[req].rv = api[req].rv => api'[req] = api[req]
  BY <1>1 DEF VersionsGrow
<1>4. CASE api'[req].rv = api[req].rv
  BY <1>2, <1>3, <1>4
<1>5. CASE api'[req].rv # api[req].rv
  <2>1. s.rv =< api'[req].rv /\ s.rv # api'[req].rv
    BY <1>1, <1>2, <1>3, <1>5
  <2>2. QED
    BY <1>2, <2>1
<1>6. QED
  BY <1>4, <1>5

(* update() stores the copy's annotations in the object the copy was read  *)
(* from, or stores nothing; updateStatus() does so with the status.        *)
LEMMA UpdateStores ==
    ASSUME TypeOK, NEW n \in Names, NEW v \in Version, Update(n, v)
    PROVE  /\ QuietOrStore
           /\ \/ UNCHANGED <<api, watch>>
              \/ /\ IsCurrent(n, v)
                 /\ api' = [api EXCEPT ![n] = WithAnnotations(n, v)]
           /\ \/ s' = v
              \/ /\ IsCurrent(n, v)
                 /\ s' = api'[n]
                 /\ s'.status = api[n].status
<1> USE DEF TypeOK, KubeTypeOK
<1>1. WithAnnotations(n, v) \in Version
  BY WithAnnotationsIsVersion
<1>2. /\ WithAnnotations(n, v).rv = api[n].rv + 1
      /\ WithAnnotations(n, v).status = api[n].status
  BY DEF WithAnnotations
<1>3. ASSUME Store(n, WithAnnotations(n, v))
      PROVE  /\ QuietOrStore
             /\ api' = [api EXCEPT ![n] = WithAnnotations(n, v)]
             /\ api'[n] = WithAnnotations(n, v)
  BY <1>1, <1>2, <1>3 DEF QuietOrStore, Store
<1>4. ASSUME UNCHANGED <<api, watch>> PROVE QuietOrStore
  BY <1>4 DEF QuietOrStore
<1>5. QED
  BY <1>2, <1>3, <1>4 DEF Update

(* updateStatus() stores the next version with the new status, or nothing. *)
LEMMA UpdateStatusStores ==
    ASSUME TypeOK, NEW n \in Names, NEW v \in Version,
           UpdateStatus(n, v) \/ Reordered(n, v)
    PROVE  /\ QuietOrStore
           /\ \/ UNCHANGED <<api, watch>>
              \/ /\ IsCurrent(n, v)
                 /\ api' = [api EXCEPT ![n] = WithStatus(n, v)]
<1> USE DEF TypeOK, KubeTypeOK
<1>1. WithStatus(n, v) \in Version /\ WithStatus(n, v).rv = api[n].rv + 1
  BY WithStatusIsVersion DEF WithStatus
<1>2. ASSUME Store(n, WithStatus(n, v))
      PROVE  /\ QuietOrStore
             /\ api' = [api EXCEPT ![n] = WithStatus(n, v)]
  BY <1>1, <1>2 DEF QuietOrStore, Store
<1>3. ASSUME UNCHANGED <<api, watch>> PROVE QuietOrStore
  BY <1>3 DEF QuietOrStore
<1>4. QED
  BY <1>2, <1>3 DEF UpdateStatus, Reordered

(* A step after which Finished is still what it was: it stores nothing, or *)
(* stores a version of an object that is not finished, or of another one,  *)
(* or one that differs in its resourceVersion only.                        *)
LEMMA FinishedKept ==
    ASSUME TypeOK,
           \/ UNCHANGED api
           \/ \E n \in Names, v \in Version :
                 /\ api' = [api EXCEPT ![n] = v]
                 /\ \/ ~api[n].status.finished
                    \/ api[n].uid = NoUid
                    \/ v.uid = NoUid
                    \/ v.status = api[n].status /\ v.ann = api[n].ann
    PROVE  FinishedStep
<1>1. CASE UNCHANGED api
  BY <1>1 DEF FinishedStep
<1>2. ASSUME NEW n \in Names, NEW v \in Version,
             api' = [api EXCEPT ![n] = v],
             \/ ~api[n].status.finished
             \/ api[n].uid = NoUid
             \/ v.uid = NoUid
             \/ v.status = api[n].status /\ v.ann = api[n].ann
      PROVE  FinishedStep
  <2> SUFFICES ASSUME NEW m \in Names, NEW u \in UIDs,
                      IsFinished(m, u), api'[m].uid = u
               PROVE  api'[m].status = api[m].status /\ api'[m].ann = api[m].ann
    BY DEF FinishedStep
  <2>1. CASE m = n
    <3>1. api'[n] = v
      BY <1>2 DEF TypeOK, KubeTypeOK
    <3>2. QED
      BY <1>2, <2>1, <3>1, KubeApiAssumption DEF IsFinished
  <2>2. CASE m # n
    BY <1>2, <2>2 DEF TypeOK, KubeTypeOK
  <2>3. QED
    BY <2>1, <2>2
<1>3. QED
  BY <1>1, <1>2

(* A step that leaves the store, the cache and the copy alone, the copy's  *)
(* annotations excepted.                                                   *)
LEMMA VersionUntouched ==
    ASSUME TypeOK, TypeOK', VersionInv, UNCHANGED <<api, watch, cache, pc, req>>,
           s'.rv = s.rv, s'.uid = s.uid, s'.status = s.status
    PROVE  VersionInv' /\ FinishedStep
<1>1. QuietOrStore
  BY DEF QuietOrStore
<1>2. InformerCoherent' /\ VersionsGrow
  BY <1>1, StoreCoherent DEF VersionInv
<1>3. CopyCoherent'
  BY <1>2, CopyKept DEF VersionInv
<1>4. QED
  BY <1>2, <1>3, FinishedKept DEF VersionInv

(* Users keep the versions coherent.                                       *)
LEMMA UserVersionStep ==
    ASSUME TypeOK, TypeOK', VersionInv, Users
    PROVE  VersionInv' /\ FinishedStep
<1> USE DEF TypeOK, KubeTypeOK
<1>1. ASSUME NEW n \in Names, NEW v \in Version, v.rv = api[n].rv + 1,
             Store(n, v), UNCHANGED <<cache, pc, req, s>>,
             \/ api[n].uid = NoUid
             \/ v.uid = NoUid
             \/ v.status = api[n].status /\ v.ann = api[n].ann
      PROVE  VersionInv' /\ FinishedStep
  <2>1. QuietOrStore
    BY <1>1 DEF QuietOrStore
  <2>2. InformerCoherent' /\ VersionsGrow
    BY <1>1, <2>1, StoreCoherent DEF VersionInv
  <2>3. CopyCoherent'
    BY <1>1, <2>2, CopyKept DEF VersionInv
  <2>4. FinishedStep
    BY <1>1, FinishedKept DEF Store
  <2>5. QED
    BY <2>2, <2>3, <2>4 DEF VersionInv
<1>2. ASSUME NEW n \in Names PROVE api[n] \in Version /\ api[n].rv + 1 \in Nat
  BY VersionParts
<1>3. ASSUME NEW n \in Names, NEW u \in UIDs, CreateSosreport(n, u)
      PROVE  VersionInv' /\ FinishedStep
  <2>1. Fresh(u, api[n].rv + 1) \in Version
    BY <1>2, FreshIsVersion
  <2>2. Fresh(u, api[n].rv + 1).rv = api[n].rv + 1
    BY DEF Fresh
  <2>3. Store(n, Fresh(u, api[n].rv + 1)) /\ UNCHANGED <<cache, pc, req, s>>
        /\ api[n].uid = NoUid
    BY <1>3 DEF CreateSosreport, recVars
  <2>4. QED
    BY <1>1, <2>1, <2>2, <2>3
<1>4. ASSUME NEW n \in Names, TouchSosreport(n)
      PROVE  VersionInv' /\ FinishedStep
  <2> DEFINE v == [api[n] EXCEPT !.rv = @ + 1]
  <2>1. v \in Version /\ v.rv = api[n].rv + 1
    BY <1>2 DEF Version
  <2>2. v.status = api[n].status /\ v.ann = api[n].ann
    OBVIOUS
  <2>3. Store(n, v) /\ UNCHANGED <<cache, pc, req, s>>
    BY <1>4 DEF TouchSosreport, localVars
  <2> HIDE DEF v
  <2>4. QED
    BY <1>1, <2>1, <2>2, <2>3
<1>5. ASSUME NEW n \in Names, DeleteSosreport(n)
      PROVE  VersionInv' /\ FinishedStep
  <2>1. Fresh(NoUid, api[n].rv + 1) \in Version
    BY <1>2, FreshIsVersion
  <2>2. /\ Fresh(NoUid, api[n].rv + 1).rv = api[n].rv + 1
        /\ Fresh(NoUid, api[n].rv + 1).uid = NoUid
    BY DEF Fresh
  <2>3. Store(n, Fresh(NoUid, api[n].rv + 1)) /\ UNCHANGED <<cache, pc, req, s>>
    BY <1>5 DEF DeleteSosreport, localVars
  <2>4. QED
    BY <1>1, <2>1, <2>2, <2>3
<1>6. ASSUME NEW c \in ConcurrencySettings, SetConcurrency(c)
      PROVE  VersionInv' /\ FinishedStep
  BY <1>6, VersionUntouched DEF SetConcurrency, kubeVars, localVars
<1>7. ASSUME NEW j \in jobs, DeleteJob(j)
      PROVE  VersionInv' /\ FinishedStep
  BY <1>7, VersionUntouched DEF DeleteJob, storeVars, localVars
<1>8. QED
  BY <1>3, <1>4, <1>5, <1>6, <1>7 DEF Users

(* Informers keep the versions coherent.                                   *)
LEMMA InformerVersionStep ==
    ASSUME TypeOK, TypeOK', VersionInv, Informers
    PROVE  VersionInv' /\ FinishedStep
<1> USE DEF TypeOK, KubeTypeOK
<1>1. ASSUME NEW n \in Names, Deliver(n) PROVE VersionInv' /\ FinishedStep
  <2>1. PICK v \in watch[n] : /\ cache' = [cache EXCEPT ![n] = v]
                              /\ watch' = [watch EXCEPT ![n] = @ \ {v}]
    BY <1>1 DEF Deliver
  <2>2. UNCHANGED <<api, pc, req, s>>
    BY <1>1 DEF Deliver, localVars
  <2>3. InformerCoherent'
    BY <2>1, <2>2 DEF VersionInv, InformerCoherent, Coherent
  <2>4. CopyCoherent'
    BY <2>2 DEF VersionInv, CopyCoherent
  <2>5. QED
    BY <2>2, <2>3, <2>4, FinishedKept DEF VersionInv
<1>2. ASSUME NEW n \in Names, Resync(n) PROVE VersionInv' /\ FinishedStep
  BY <1>2, VersionUntouched DEF Resync, kubeVars, localVars
<1>3. ASSUME NEW j \in jobs, JobEvent(j) PROVE VersionInv' /\ FinishedStep
  BY <1>3, VersionUntouched DEF JobEvent, localVars
<1>4. QED
  BY <1>1, <1>2, <1>3 DEF Informers

(* The cluster, and a crash of the manager, keep them coherent.            *)
LEMMA ClusterVersionStep ==
    ASSUME TypeOK, TypeOK', VersionInv, Cluster
    PROVE  VersionInv' /\ FinishedStep
<1>1. ASSUME NEW j \in jobs, JobCompletes(j) PROVE VersionInv' /\ FinishedStep
  BY <1>1, VersionUntouched DEF JobCompletes, JobFinishes, recVars
<1>2. ASSUME NEW u \in UIDs, GarbageCollect(u)
      PROVE  VersionInv' /\ FinishedStep
  BY <1>2, VersionUntouched DEF GarbageCollect, Collect, localVars
<1>3. CASE Crash \/ Panic
  <2>1. UNCHANGED api /\ cache' = api /\ watch' = [n \in Names |-> {}]
        /\ pc' = "idle"
    BY <1>3 DEF Crash, Panic, Restart, Return
  <2>2. InformerCoherent' /\ CopyCoherent'
    BY <2>1, VersionParts
       DEF InformerCoherent, Coherent, CopyCoherent, TypeOK, KubeTypeOK
  <2>3. QED
    BY <2>1, <2>2, FinishedKept DEF VersionInv
<1>4. QED
  BY <1>1, <1>2, <1>3 DEF Cluster

(* The first step of Reconcile keeps the versions coherent.                *)
LEMMA ReconcileVersionStep ==
    ASSUME TypeOK, TypeOK', VersionInv, NEW n \in queue, Reconcile(n)
    PROVE  VersionInv' /\ FinishedStep
<1>1. CASE ReconcileIgnored(n)
  BY <1>1, VersionUntouched DEF ReconcileIgnored, kubeVars, localVars
<1>2. CASE ScheduleListFails(n)
  BY <1>2, VersionUntouched DEF ScheduleListFails, kubeVars, localVars
<1>3. CASE ScheduleNoNodes(n)
  <2> DEFINE v == [cache[n] EXCEPT !.status.inProgress = FALSE]
  <2>1. /\ n \in Names /\ cache[n] \in Version
        /\ cache[n].status.finished = FALSE
    BY <1>3, BeginType DEF ScheduleNoNodes
  <2>2. v \in Version /\ v.rv = cache[n].rv /\ v.uid = cache[n].uid
    BY <2>1 DEF Version, Status
  <2>3. UpdateStatus(n, v) /\ UNCHANGED <<cache, pc, req, s>>
    BY <1>3 DEF ScheduleNoNodes, localVars
  <2> HIDE DEF v
  <2>4. /\ QuietOrStore
        /\ \/ UNCHANGED <<api, watch>>
           \/ IsCurrent(n, v) /\ api' = [api EXCEPT ![n] = WithStatus(n, v)]
    BY <2>1, <2>2, <2>3, UpdateStatusStores
  <2>5. IsCurrent(n, v) => ~api[n].status.finished
    BY <2>1, <2>2 DEF IsCurrent, VersionInv, InformerCoherent, Coherent
  <2>6. WithStatus(n, v) \in Version
    BY <2>1, <2>2, WithStatusIsVersion DEF TypeOK, KubeTypeOK
  <2>7. FinishedStep
    BY <2>1, <2>4, <2>5, <2>6, FinishedKept
  <2>8. InformerCoherent' /\ VersionsGrow
    BY <2>3, <2>4, StoreCoherent DEF VersionInv
  <2>9. QED
    BY <2>3, <2>7, <2>8, CopyKept DEF VersionInv
<1>4. CASE Schedule(n) \/ Continue(n) \/ ContinueListFails(n)
  <2>1. /\ n \in Names /\ cache[n] \in Version
        /\ cache[n].status.finished = FALSE
    BY <1>4, BeginType DEF Schedule, Continue, ContinueListFails
  <2>2. UNCHANGED <<api, watch, cache>> /\ req' = n
    BY <1>4 DEF Schedule, Continue, ContinueListFails, kubeVars
  <2>3. /\ s'.rv = cache[n].rv /\ s'.uid = cache[n].uid
        /\ s'.status = cache[n].status
    <3>1. CASE Schedule(n)
      BY <2>1, <3>1 DEF Schedule, Version
    <3>2. CASE Continue(n)
      BY <2>1, <3>2 DEF Continue, Version
    <3>3. CASE ContinueListFails(n)
      BY <3>3 DEF ContinueListFails
    <3>4. QED
      BY <1>4, <3>1, <3>2, <3>3
  <2>4. CopyCoherent'
    BY <2>1, <2>2, <2>3 DEF VersionInv, InformerCoherent, Coherent, CopyCoherent
  <2>5. InformerCoherent'
    BY <2>2 DEF VersionInv, InformerCoherent, Coherent
  <2>6. QED
    BY <2>2, <2>4, <2>5, FinishedKept DEF VersionInv
<1>5. QED
  BY <1>1, <1>2, <1>3, <1>4 DEF Reconcile

(* The API writes of Reconcile keep the versions coherent.                 *)
LEMMA WriteVersionStep ==
    ASSUME TypeOK, TypeOK', VersionInv,
           \/ ScheduleUpdate \/ DequeueUpdate \/ RunUpdate
           \/ ScheduleStatus \/ Conclude
    PROVE  VersionInv' /\ FinishedStep
<1>1. /\ pc # "idle" /\ req \in Names /\ s \in Version
      /\ IsCurrent(req, s) => ~api[req].status.finished
  BY DEF ScheduleUpdate, DequeueUpdate, RunUpdate, ScheduleStatus, Conclude,
         TypeOK, ReconcilerTypeOK, VersionInv, CopyCoherent, IsCurrent
<1>2. CASE ScheduleUpdate \/ DequeueUpdate \/ RunUpdate
  <2>1. Update(req, s) /\ UNCHANGED <<cache, req>> /\ pc' # "idle"
    BY <1>2 DEF ScheduleUpdate, DequeueUpdate, RunUpdate
  <2>2. /\ QuietOrStore
        /\ \/ UNCHANGED <<api, watch>>
           \/ IsCurrent(req, s) /\ api' = [api EXCEPT ![req] = WithAnnotations(req, s)]
        /\ \/ s' = s
           \/ /\ IsCurrent(req, s)
              /\ s' = api'[req]
              /\ s'.status = api[req].status
    BY <1>1, <2>1, UpdateStores
  <2>3. InformerCoherent' /\ VersionsGrow
    BY <2>1, <2>2, StoreCoherent DEF VersionInv
  <2>4. CopyCoherent'
    <3>1. CASE s' = s
      <4>1. /\ s.rv \in Nat /\ api[req].rv \in Nat /\ api'[req].rv \in Nat
        BY <1>1, VersionParts DEF TypeOK, KubeTypeOK
      <4>2. /\ api'[req].rv >= api[req].rv
            /\ api'[req].rv = api[req].rv => api'[req] = api[req]
        BY <1>1, <2>3 DEF VersionsGrow
      <4>3. /\ s.rv =< api[req].rv /\ ~s.status.finished
            /\ s.rv = api[req].rv =>
                 s.uid = api[req].uid /\ s.status = api[req].status
        BY <1>1 DEF VersionInv, CopyCoherent
      <4>4. s.rv =< api'[req].rv
            /\ (s.rv = api'[req].rv => api'[req].rv = api[req].rv)
        BY <4>1, <4>2, <4>3
      <4>5. QED
        BY <2>1, <3>1, <4>2, <4>3, <4>4 DEF CopyCoherent
    <3>2. CASE /\ IsCurrent(req, s)
               /\ s' = api'[req]
               /\ s'.status = api[req].status
      <4>1. s'.rv \in Nat
        BY VersionParts DEF TypeOK, ReconcilerTypeOK
      <4>2. QED
        BY <1>1, <2>1, <3>2, <4>1 DEF CopyCoherent
    <3>3. QED
      BY <2>2, <3>1, <3>2
  <2>5. WithAnnotations(req, s) \in Version
    BY <1>1, WithAnnotationsIsVersion DEF TypeOK, KubeTypeOK
  <2>6. FinishedStep
    BY <1>1, <2>2, <2>5, FinishedKept
  <2>7. QED
    BY <2>3, <2>4, <2>6 DEF VersionInv
<1>3. ASSUME NEW v \in Version, v.uid = s.uid, v.rv = s.rv,
             UpdateStatus(req, v) \/ Reordered(req, v),
             UNCHANGED cache, pc' = "idle"
      PROVE  VersionInv' /\ FinishedStep
  <2>1. /\ QuietOrStore
        /\ \/ UNCHANGED <<api, watch>>
           \/ IsCurrent(req, v) /\ api' = [api EXCEPT ![req] = WithStatus(req, v)]
    BY <1>1, <1>3, UpdateStatusStores
  <2>2. InformerCoherent'
    BY <1>3, <2>1, StoreCoherent DEF VersionInv
  <2>3. WithStatus(req, v) \in Version
    BY <1>1, WithStatusIsVersion DEF TypeOK, KubeTypeOK
  <2>4. IsCurrent(req, v) => ~api[req].status.finished
    BY <1>1, <1>3 DEF IsCurrent
  <2>5. FinishedStep
    BY <1>1, <2>1, <2>3, <2>4, FinishedKept
  <2>6. QED
    BY <1>3, <2>2, <2>5 DEF VersionInv, CopyCoherent
<1>4. CASE ScheduleStatus
  <2> DEFINE v == [s EXCEPT !.status.inProgress = TRUE]
  <2>1. v \in Version /\ v.uid = s.uid /\ v.rv = s.rv
    BY <1>1 DEF Version, Status
  <2>2. UpdateStatus(req, v) /\ UNCHANGED cache /\ pc' = "idle"
    BY <1>4 DEF ScheduleStatus, Return
  <2> HIDE DEF v
  <2>3. QED
    BY <1>3, <2>1, <2>2
<1>5. CASE Conclude
  <2>1. Concluded(s) \in Version
    BY <1>1, ConcludedIsVersion
  <2>2. Concluded(s).uid = s.uid /\ Concluded(s).rv = s.rv
    BY <1>1 DEF Concluded, Version
  <2>3. /\ UpdateStatus(req, Concluded(s)) \/ Reordered(req, Concluded(s))
        /\ UNCHANGED cache /\ pc' = "idle"
    BY <1>5 DEF Conclude, Return
  <2>4. QED
    BY <1>3, <2>1, <2>2, <2>3
<1>6. QED
  BY <1>2, <1>4, <1>5

(* The loop of runSosreportJobs keeps the versions coherent.               *)
LEMMA RunVersionStep ==
    ASSUME TypeOK, TypeOK', VersionInv, RunSosreportJobs
    PROVE  VersionInv' /\ FinishedStep
<1>1. ASSUME NEW node \in toVisit, CreatePvc(node)
      PROVE  VersionInv' /\ FinishedStep
  BY <1>1, VersionUntouched DEF CreatePvc
<1>2. ASSUME NEW j \in inFlight, CreateJob(j)
      PROVE  VersionInv' /\ FinishedStep
  BY <1>2, VersionUntouched DEF CreateJob
<1>3. CASE EndLoop
  <2>1. UNCHANGED <<api, watch, cache, req>> /\ pc # "idle" /\ pc' # "idle"
    BY <1>3 DEF EndLoop, LoopEnds, kubeVars
  <2>2. s'.rv = s.rv /\ s'.uid = s.uid /\ s'.status = s.status
    BY <1>3 DEF EndLoop, TypeOK, ReconcilerTypeOK, Version
  <2>3. InformerCoherent'
    BY <2>1 DEF VersionInv, InformerCoherent, Coherent
  <2>4. CopyCoherent'
    BY <2>1, <2>2 DEF VersionInv, CopyCoherent
  <2>5. QED
    BY <2>1, <2>3, <2>4, FinishedKept DEF VersionInv
<1>4. QED
  BY <1>1, <1>2, <1>3 DEF RunSosreportJobs

(* Every step keeps the versions coherent.                                 *)
LEMMA VersionStep ==
    ASSUME TypeOK, TypeOK', VersionInv, [Next]_vars
    PROVE  VersionInv' /\ FinishedStep
<1>1. CASE Controller
  BY <1>1, ReconcileVersionStep, WriteVersionStep, RunVersionStep
     DEF Controller, ReconcilerNext
<1>2. CASE Users
  BY <1>2, UserVersionStep
<1>3. CASE Informers
  BY <1>3, InformerVersionStep
<1>4. CASE Cluster
  BY <1>4, ClusterVersionStep
<1>5. CASE UNCHANGED vars
  BY <1>5, VersionUntouched DEF vars, kubeVars, recVars
<1>6. QED
  BY <1>1, <1>2, <1>3, <1>4, <1>5 DEF Next

(* Whatever the informer holds and whatever copy a Reconcile works on is   *)
(* the stored version or an older one, and the copy was read unfinished.   *)
THEOREM VersionsCoherent == Spec => []VersionInv
<1>1. Init => VersionInv
  <2> SUFFICES ASSUME Init PROVE VersionInv
    OBVIOUS
  <2>1. TypeOK
    BY InitType
  <2>2. cache = api /\ watch = [n \in Names |-> {}] /\ pc = "idle"
    BY DEF Init, KubeInit, ReconcilerInit
  <2>3. QED
    BY <2>1, <2>2, VersionParts
       DEF VersionInv, InformerCoherent, CopyCoherent, Coherent, TypeOK, KubeTypeOK
<1>2. TypeOK /\ TypeOK' /\ VersionInv /\ [Next]_vars => VersionInv'
  BY VersionStep
<1>3. QED
  BY <1>1, <1>2, TypeCorrect, PTL DEF Spec

(* Finished is final, whatever crashes, conflicts, lost responses and      *)
(* stale caches do: a write is accepted only when its copy is the stored   *)
(* version, and Reconcile never works on a finished copy.                  *)
THEOREM FinishedIsFinal == Spec => FinishedStable
<1>1. TypeOK /\ TypeOK' /\ VersionInv /\ [Next]_vars => [FinishedStep]_vars
  BY VersionStep
<1>2. QED
  BY <1>1, TypeCorrect, VersionsCoherent, PTL DEF Spec, FinishedStable

=============================================================================

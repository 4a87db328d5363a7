---------------------- MODULE SosreportProgressProofs -----------------------
(***************************************************************************)
(* While a Job of a Sosreport runs, its stored status shows IN PROGRESS,   *)
(* for every choice of the constants that rules out the six faults with    *)
(* each of which alone there is a counterexample: a crash, a failing List  *)
(* of Jobs, a lost response to a Create or to an update, a rejected write, *)
(* and an edit by a user.                                                  *)
(***************************************************************************)
EXTENDS SosreportProgress, SosreportRefinementProofs, SosreportRestartProofs

(* Every write is accepted or conflicts, and nobody else edits Sosreports. *)
NoWriteLost ==
    budget["fail"] = 0 /\ budget["lostUpdate"] = 0 /\ budget["touch"] = 0

(* This remains so.                                                        *)
LEMMA NoWriteLostStep ==
    ASSUME TypeOK, NoWriteLost, [Next]_vars
    PROVE  NoWriteLost'
BY BudgetStep DEF NoWriteLost, FaultKinds

(* So no step meets such a fault, or a crash.                              *)
LEMMA NothingLost ==
    ASSUME TypeOK, NoWriteLost, NoLoss
    PROVE  /\ ~Spend("fail") /\ ~Spend("lostUpdate") /\ ~Spend("touch")
           /\ ~Spend("crash") /\ ~Spend("lostCreate")
           /\ ~Spend("listJobsFail")
BY DEF NoWriteLost, NoLoss, Spend

-----------------------------------------------------------------------------
(* Versions are forgotten, while the runList grows.                        *)
LEMMA UntouchedForget ==
    ASSUME Untouched, Forgets, runList \subseteq runList'
    PROVE  Untouched'
<1> SUFFICES ASSUME NEW n \in Names, NEW v \in Versions(n)',
                    v.uid = api'[n].uid, v.uid \notin runList', v.uid # NoUid
             PROVE  v.rv = api'[n].rv
  BY DEF Untouched
<1>1. v \in Versions(n) /\ api'[n] = api[n]
  BY DEF Forgets
<1>2. QED
  BY <1>1 DEF Untouched

(* A version is stored of a Sosreport that is on the runList, or the first *)
(* one of a Sosreport.                                                     *)
LEMMA UntouchedWrite ==
    ASSUME TypeOK, Untouched, runList \subseteq runList',
           NEW n \in Names, NEW v \in Version, Writes(n, v),
           \/ v.uid \in runList' \cup {NoUid}
           \/ \A w \in Versions(n) : w.uid # v.uid
    PROVE  Untouched'
<1> SUFFICES ASSUME NEW m \in Names, NEW w \in Versions(m)',
                    w.uid = api'[m].uid, w.uid \notin runList', w.uid # NoUid
             PROVE  w.rv = api'[m].rv
  BY DEF Untouched
<1>1. /\ api'[n] = v
      /\ \A k \in Names \ {n} : api'[k] = api[k] /\ Versions(k)' = Versions(k)
      /\ w \in Versions(m) \/ (m = n /\ w = v)
  BY VersionsWritten
<1>2. CASE m = n
  BY <1>1, <1>2
<1>3. CASE m # n
  BY <1>1, <1>3 DEF Untouched
<1>4. QED
  BY <1>2, <1>3

(* Where no Reconcile schedules a Sosreport there is nothing to be said of *)
(* its copy.                                                               *)
LEMMA NotScheduling ==
    ASSUME pc \notin {"scheduleUpdate", "scheduleStatus"}
    PROVE  SchedulingCurrent /\ \A n : ~Scheduling(n)
BY DEF SchedulingCurrent, Scheduling

(* A step outside of Reconcile that stores nothing.                        *)
LEMMA OutsideProgress ==
    ASSUME ProgressInv, Forgets, jobs' \subseteq jobs,
           UNCHANGED <<localVars, memVars>>
    PROVE  ProgressInv'
<1> USE DEF localVars, memVars
<1>1. Untouched'
  BY UntouchedForget DEF ProgressInv
<1>2. UNCHANGED <<api, pc, req, s>>
  BY DEF Forgets
<1>3. \A n : Scheduling(n)' = Scheduling(n)
  BY <1>2 DEF Scheduling
<1>4. SchedulingCurrent'
  BY <1>2, <1>3 DEF ProgressInv, SchedulingCurrent
<1>5. \A u : Listed(u)' = Listed(u)
  BY DEF Listed, ToRunNodes, RunningNodes
<1>6. ListedInProgress'
  BY <1>2, <1>3, <1>5 DEF ProgressInv, ListedInProgress
<1>7. QED
  BY <1>1, <1>4, <1>6 DEF ProgressInv

(* A Sosreport is created or deleted.                                      *)
LEMMA FreshProgress ==
    ASSUME TypeOK, UidsGiven, RestartInv, ListsInv, ProgressInv,
           NEW n \in Names, NEW u \in UIDs \cup {NoUid},
           Writes(n, Fresh(u, api[n].rv + 1)),
           u = NoUid \/ u \notin created,
           UNCHANGED <<jobs, localVars, memVars>>
    PROVE  ProgressInv'
<1> DEFINE v == Fresh(u, api[n].rv + 1)
<1>1. v \in Version /\ v.uid = u
  <2>1. api[n].rv + 1 \in Nat
    BY VersionParts DEF TypeOK, KubeTypeOK
  <2>2. QED
    BY <2>1, FreshIsVersion DEF Fresh
<1> HIDE DEF v
<1>2. /\ api'[n] = v
      /\ \A m \in Names \ {n} : api'[m] = api[m]
  BY <1>1, VersionsWritten DEF v
<1>3. u = NoUid \/ \A w \in Versions(n) : w.uid # u
  BY KubeApiAssumption DEF RestartInv, VersionsInv, NamesOfUids
<1>4. Untouched'
  BY <1>1, <1>3, UntouchedWrite DEF ProgressInv, v, memVars
<1>5. pc # "idle" => s.uid \in created /\ s.uid # NoUid
  BY KubeApiAssumption DEF RestartInv, CopyBegun, TypeOK, ReconcilerTypeOK
<1>6. \A m \in Names :
         Scheduling(m)' <=> m # n /\ Scheduling(m)
  BY <1>1, <1>2, <1>5 DEF Scheduling, localVars
<1>7. SchedulingCurrent'
  BY <1>2, <1>6 DEF ProgressInv, SchedulingCurrent, localVars
<1>8. \A w : Listed(w)' = Listed(w)
  BY DEF Listed, ToRunNodes, RunningNodes, memVars
<1>9. u \in UIDs => Listed(u) = {}
  <2>1. u \in UIDs => u \notin runList
    BY KubeApiAssumption DEF UidsGiven
  <2>2. QED
    BY <2>1 DEF ListsInv, JobsListed, Listed
<1>10. ListedInProgress'
  BY <1>1, <1>2, <1>6, <1>8, <1>9 DEF ProgressInv, ListedInProgress
<1>11. QED
  BY <1>4, <1>7, <1>10 DEF ProgressInv

(* Users, informers and the cluster.                                       *)
LEMMA EnvironmentProgress ==
    ASSUME TypeOK, NoWriteLost, NoLoss, CopyHasList, UidsGiven, RestartInv,
           ListsInv, ProgressInv, Users \/ Informers \/ Cluster
    PROVE  ProgressInv'
<1>1. ASSUME NEW n \in Names, NEW u \in UIDs, CreateSosreport(n, u)
      PROVE  ProgressInv'
  <2>1. /\ Writes(n, Fresh(u, api[n].rv + 1)) /\ u \notin created
        /\ UNCHANGED <<jobs, localVars, memVars>>
    BY <1>1 DEF CreateSosreport, Writes, Fresh, recVars, localVars, memVars,
                childVars
  <2>2. QED
    BY <2>1, FreshProgress
<1>2. ASSUME NEW n \in Names, DeleteSosreport(n) PROVE ProgressInv'
  <2>1. /\ Writes(n, Fresh(NoUid, api[n].rv + 1))
        /\ UNCHANGED <<jobs, localVars, memVars>>
    BY <1>2 DEF DeleteSosreport, Writes, Fresh, childVars
  <2>2. QED
    BY <2>1, FreshProgress
<1>3. ASSUME UNCHANGED <<api, watch, cache, localVars, memVars>>,
             jobs' \subseteq jobs
      PROVE  ProgressInv'
  BY <1>3, OutsideProgress DEF Forgets, Versions
<1>4. ASSUME NEW n \in Names, Deliver(n) PROVE ProgressInv'
  <2>1. PICK v \in watch[n] : /\ cache' = [cache EXCEPT ![n] = v]
                              /\ watch' = [watch EXCEPT ![n] = @ \ {v}]
    BY <1>4 DEF Deliver
  <2>2. UNCHANGED <<api, jobs, localVars, memVars>>
    BY <1>4 DEF Deliver, childVars
  <2>3. Forgets
    BY <2>1, <2>2 DEF Forgets, Versions, TypeOK, KubeTypeOK
  <2>4. QED
    BY <2>2, <2>3, OutsideProgress
<1>5. ~Crash /\ ~Panic /\ \A n \in Names : ~TouchSosreport(n)
  BY NothingLost, PanicNeedsNoList DEF Crash, TouchSosreport
<1>6. CASE Users
  <2>1. ASSUME \/ \E j \in jobs : DeleteJob(j)
               \/ \E c \in ConcurrencySettings : SetConcurrency(c)
        PROVE  ProgressInv'
    BY <1>3, <2>1 DEF DeleteJob, RemoveJob, SetConcurrency, storeVars,
                           kubeVars
  <2>2. QED
    BY <1>1, <1>2, <1>5, <1>6, <2>1 DEF Users
<1>7. CASE Informers
  <2>1. ASSUME \/ \E j \in jobs : JobEvent(j)
               \/ \E n \in Names : Resync(n)
        PROVE  ProgressInv'
    BY <1>3, <2>1 DEF JobEvent, Resync, kubeVars
  <2>2. QED
    BY <1>4, <1>7, <2>1 DEF Informers
<1>8. CASE Cluster
  <2>1. ASSUME \/ \E j \in jobs : JobCompletes(j)
               \/ \E u \in UIDs : GarbageCollect(u)
        PROVE  ProgressInv'
    BY <1>3, <2>1 DEF JobCompletes, JobFinishes, GarbageCollect, Collect,
                      RemoveJob, RemovePvc, recVars, localVars, memVars
  <2>2. QED
    BY <1>5, <1>8, <2>1 DEF Cluster
<1>9. QED
  BY <1>6, <1>7, <1>8

-----------------------------------------------------------------------------
(* The first step of Reconcile.  Nothing is stored: the status of a        *)
(* Sosreport that has just been read is not in progress already.           *)
LEMMA NoNodesStoresNothing ==
    ASSUME TypeOK, VersionInv, NoWriteLost, NoLoss,
           NEW n \in queue, ScheduleNoNodes(n)
    PROVE  UNCHANGED <<api, watch>>
<1> DEFINE v == [cache[n] EXCEPT !.status.inProgress = FALSE]
<1>1. /\ n \in Names /\ cache[n] \in Version /\ ~cache[n].status.inProgress
      /\ UpdateStatus(n, v)
  BY BeginType DEF ScheduleNoNodes, Begin, NotYetRunning
<1>2. v.status = cache[n].status /\ v.uid = cache[n].uid /\ v.rv = cache[n].rv
  BY <1>1 DEF Version, Status
<1> HIDE DEF v
<1>3. IsCurrent(n, v) => v.status = api[n].status
  BY <1>1, <1>2 DEF IsCurrent, VersionInv, InformerCoherent, Coherent
<1>4. QED
  BY <1>1, <1>3, NothingLost DEF UpdateStatus

(* The Sosreport that is put on the runList is not scheduled yet, or its   *)
(* stored version has been read.                                           *)
LEMMA ReconcileProgress ==
    ASSUME TypeOK, TypeOK', VersionInv, NoWriteLost, NoLoss, UidsGiven,
           RestartInv, ListsInv, ProgressInv,
           NEW n \in queue, Reconcile(n)
    PROVE  ProgressInv'
<1>1. pc = "idle" /\ UNCHANGED <<api, watch, cache, jobs>>
  <2>1. pc = "idle" /\ UNCHANGED <<cache, jobs>>
    BY DEF Reconcile, ReconcileIgnored, ScheduleListFails, ScheduleNoNodes,
           Schedule, Continue, ContinueListFails, Begin, kubeVars, childVars
  <2>2. UNCHANGED <<api, watch>>
    BY NoNodesStoresNothing
       DEF Reconcile, ReconcileIgnored, ScheduleListFails, Schedule, Continue,
           ContinueListFails, kubeVars
  <2>3. QED
    BY <2>1, <2>2
<1>2. Forgets
  BY <1>1 DEF Forgets, Versions
<1>3. \A m : ~Scheduling(m)
  BY <1>1, NotScheduling
<1>4. ASSUME NEW u \in UIDs,
             runList \subseteq runList',
             pc' \notin {"scheduleUpdate", "scheduleStatus"},
             Listed(u)' \subseteq Listed(u),
             \A w \in UIDs \ {u} : Listed(w)' = Listed(w)
      PROVE  ProgressInv'
  <2>1. Untouched'
    BY <1>2, <1>4, UntouchedForget DEF ProgressInv
  <2>2. SchedulingCurrent' /\ \A m : ~Scheduling(m)'
    BY <1>4 DEF SchedulingCurrent, Scheduling
  <2>3. ListedInProgress'
    BY <1>1, <1>3, <1>4 DEF ProgressInv, ListedInProgress
  <2>4. QED
    BY <2>1, <2>2, <2>3 DEF ProgressInv
<1>5. ASSUME Begin(n),
             runList' = runList \cup {cache[n].uid},
             UNCHANGED <<localVars, jobToRunList, jobRunningList>>
      PROVE  ProgressInv'
  <2>1. cache[n].uid \in UIDs
    BY <1>5, BeginType
  <2>2. pc' = "idle" /\ \A u : Listed(u)' = Listed(u)
    BY <1>1, <1>5 DEF Listed, ToRunNodes, RunningNodes, localVars
  <2>3. QED
    BY <1>4, <1>5, <2>1, <2>2
<1>6. CASE ReconcileIgnored(n)
  BY <1>2, <1>6, OutsideProgress DEF ReconcileIgnored, kubeVars
<1>7. CASE ScheduleListFails(n) \/ ScheduleNoNodes(n)
  BY <1>5, <1>7 DEF ScheduleListFails, ScheduleNoNodes
<1>8. CASE Schedule(n)
  <2> DEFINE u == cache[n].uid
  <2>1. n \in Names /\ u \in UIDs /\ u # NoUid /\ cache[n] \in Version
    BY <1>8, BeginType, KubeApiAssumption DEF Schedule
  <2>2. /\ pc' = "scheduleUpdate" /\ req' = n
        /\ s' = [cache[n] EXCEPT !.ann.toRun = Eligible(u)]
        /\ u \notin runList /\ runList' = runList \cup {u}
        /\ jobToRunList' = [jobToRunList EXCEPT ![u] = Eligible(u)]
        /\ UNCHANGED jobRunningList
    BY <1>8 DEF Schedule, Begin, NotYetRunning
  <2>3. s'.uid = u /\ s'.rv = cache[n].rv
    BY <2>1, <2>2 DEF Version
  <2> HIDE DEF u
  <2>4. Untouched'
    BY <1>2, <2>2, UntouchedForget DEF ProgressInv
  <2>5. \A m \in Names : Scheduling(m)' <=> m = n /\ u = api[n].uid
    BY <1>1, <2>2, <2>3 DEF Scheduling
  <2>6. SchedulingCurrent'
    <3>1. u = api[n].uid => cache[n].rv = api[n].rv
      BY <2>1, <2>2 DEF ProgressInv, Untouched, Versions, u
    <3>2. \A j \in jobs : j.owner # u
      BY <2>2 DEF ListsInv, JobsListed
    <3>3. QED
      BY <1>1, <2>3, <2>5, <3>1, <3>2 DEF SchedulingCurrent
  <2>7. \A w \in UIDs \ {u} : Listed(w)' = Listed(w)
    BY <2>2 DEF Listed, ToRunNodes, RunningNodes, TypeOK, ReconcilerTypeOK
  <2>8. \A m \in Names : api[m].uid = u => m = n
    BY <2>1 DEF RestartInv, VersionsInv, NamesOfUids, Versions, u
  <2>9. ListedInProgress'
    <3> SUFFICES ASSUME NEW m \in Names, NEW w \in UIDs,
                        api[m].uid = w, Listed(w)' # {}
                 PROVE  api[m].status.inProgress \/ Scheduling(m)'
      BY <1>1 DEF ListedInProgress
    <3>1. CASE w = u
      BY <2>5, <2>8, <3>1
    <3>2. CASE w # u
      BY <1>3, <2>7, <3>2 DEF ProgressInv, ListedInProgress
    <3>3. QED
      BY <3>1, <3>2
  <2>10. QED
    BY <2>4, <2>6, <2>9 DEF ProgressInv
<1>9. CASE Continue(n)
  <2>0. PICK u \in UIDs : u = cache[n].uid
    BY <1>9, BeginType DEF Continue
  <2> DEFINE toRun   == Loaded(jobToRunList[u], cache[n].ann.toRun)
             loaded  == Loaded(jobRunningList[u], cache[n].ann.running)
             running == Dequeued(loaded, u)
  <2>1. n \in Names /\ cache[n] \in Version
    BY <1>9, BeginType DEF Continue
  <2>2. /\ pc' \in {"run", "dequeueUpdate"} /\ UNCHANGED runList
        /\ jobToRunList'   = [jobToRunList   EXCEPT ![u] = toRun]
        /\ jobRunningList' = [jobRunningList EXCEPT ![u] = running]
    BY <1>9, <2>0 DEF Continue
  <2>3. /\ jobToRunList[u] = Absent => cache[n].ann.toRun \in {Absent, Null}
        /\ jobRunningList[u] = Absent => cache[n].ann.running \in {Absent, Null}
    BY <2>0, <2>1 DEF ListsInv, StoredAgree, Agrees
  <2>4. Members(toRun) = Members(jobToRunList[u])
    BY <2>3, LoadedFacts DEF Loaded
  <2>5. Members(loaded) = Members(jobRunningList[u]) /\ loaded \in NodeList
    <3>1. jobRunningList[u] \in NodeList /\ cache[n].ann.running \in NodeList
      BY <2>1, VersionParts DEF TypeOK, ReconcilerTypeOK
    <3>2. QED
      BY <2>3, <3>1, LoadedFacts DEF Loaded
  <2> HIDE DEF toRun, loaded
  <2>6. Members(running) \subseteq Members(loaded)
    <3>1. CASE loaded \in {Absent, Null}
      BY <3>1, LoadedFacts DEF Dequeued
    <3>2. CASE loaded \notin {Absent, Null}
      <4>1. loaded \in SUBSET Nodes /\ running = loaded \ DoneNodes(u)
        BY <2>5, <3>2 DEF NodeList, Dequeued
      <4>2. running \in SUBSET Nodes
        BY <4>1
      <4>3. Members(running) = running /\ Members(loaded) = loaded
        BY <4>1, <4>2, LoadedFacts
      <4>4. QED
        BY <4>1, <4>3
    <3>3. QED
      BY <3>1, <3>2
  <2> HIDE DEF running
  <2>7. Listed(u)' \subseteq Listed(u)
    <3>1. jobToRunList'[u] = toRun /\ jobRunningList'[u] = running
      BY <2>1, <2>2 DEF TypeOK, ReconcilerTypeOK
    <3>2. QED
      BY <2>4, <2>5, <2>6, <3>1 DEF Listed, ToRunNodes, RunningNodes
  <2>8. \A w \in UIDs \ {u} : Listed(w)' = Listed(w)
    BY <2>2 DEF Listed, ToRunNodes, RunningNodes, TypeOK, ReconcilerTypeOK
  <2>9. QED
    BY <1>4, <2>1, <2>2, <2>7, <2>8
<1>10. ~ContinueListFails(n)
  BY NothingLost DEF ContinueListFails
<1>11. QED
  BY <1>6, <1>7, <1>8, <1>9, <1>10 DEF Reconcile

-----------------------------------------------------------------------------
(* Reconcile stores a version x of the Sosreport that it works on.         *)
LEMMA CopyWrites ==
    ASSUME TypeOK, ListsInv, Untouched, pc # "idle", s.uid = api[req].uid,
           NEW x \in Version, x.uid = s.uid, Writes(req, x), UNCHANGED runList
    PROVE  /\ Untouched' /\ api'[req] = x
           /\ \A m \in Names \ {req} : api'[m] = api[m]
<1>1. req \in Names /\ s.uid \in runList
  BY DEF TypeOK, ReconcilerTypeOK, ListsInv, CopyAgrees
<1>2. QED
  BY <1>1, UntouchedWrite, VersionsWritten

(* The writes of annotations leave the status alone, and the copy current. *)
LEMMA UpdateProgress ==
    ASSUME TypeOK, TypeOK', NoWriteLost, NoLoss, ListsInv, ProgressInv,
           ScheduleUpdate \/ DequeueUpdate \/ RunUpdate
    PROVE  ProgressInv'
<1>1. /\ pc \in {"scheduleUpdate", "dequeueUpdate", "runUpdate"}
      /\ pc' \in {"scheduleStatus", "run", "conclude"}
      /\ pc = "scheduleUpdate" <=> pc' = "scheduleStatus"
      /\ Update(req, s)
      /\ UNCHANGED <<cache, req, jobs, runList, jobToRunList, jobRunningList>>
  BY DEF ScheduleUpdate, DequeueUpdate, RunUpdate, memVars, childVars
<1>2. req \in Names /\ s \in Version /\ s.uid \in UIDs
  BY <1>1 DEF TypeOK, ReconcilerTypeOK
<1>3. \A u : Listed(u)' = Listed(u)
  BY <1>1 DEF Listed, ToRunNodes, RunningNodes
<1>4. ASSUME Untouched', s'.uid = s.uid,
             \A m \in Names : /\ api'[m].uid = api[m].uid
                              /\ api'[m].status = api[m].status,
             s.uid = api[req].uid /\ s.rv = api[req].rv
                 => s'.rv = api'[req].rv
      PROVE  ProgressInv'
  <2>1. \A m \in Names : Scheduling(m)' = Scheduling(m)
    BY <1>1, <1>4 DEF Scheduling
  <2>2. SchedulingCurrent'
    <3>1. ASSUME NEW m \in Names, Scheduling(m) PROVE s'.rv = api'[m].rv
      BY <1>4, <3>1 DEF ProgressInv, SchedulingCurrent, Scheduling
    <3>2. QED
      BY <1>1, <1>4, <2>1, <3>1 DEF ProgressInv, SchedulingCurrent
  <2>3. ListedInProgress'
    BY <1>3, <1>4, <2>1 DEF ProgressInv, ListedInProgress
  <2>4. QED
    BY <1>4, <2>2, <2>3 DEF ProgressInv
<1>5. CASE UNCHANGED <<api, watch>> /\ s' = s
  <2>1. Forgets
    BY <1>1, <1>5 DEF Forgets, Versions
  <2>2. Untouched'
    BY <1>1, <2>1, UntouchedForget DEF ProgressInv
  <2>3. QED
    BY <1>4, <1>5, <2>2
<1>6. ASSUME IsCurrent(req, s), NEW x \in Version, x = WithAnnotations(req, s),
             Writes(req, x), s' = x
      PROVE  ProgressInv'
  <2>1. x.uid = s.uid /\ s.uid = api[req].uid /\ x.status = api[req].status
    BY <1>6 DEF IsCurrent, WithAnnotations
  <2>2. /\ Untouched' /\ api'[req] = x
        /\ \A m \in Names \ {req} : api'[m] = api[m]
    BY <1>1, <1>6, <2>1, CopyWrites DEF ProgressInv
  <2>3. \A m \in Names : /\ api'[m].uid = api[m].uid
                         /\ api'[m].status = api[m].status
    BY <2>1, <2>2
  <2>4. s'.uid = s.uid /\ s'.rv = api'[req].rv
    BY <1>6, <2>1, <2>2
  <2>5. QED
    BY <1>4, <2>2, <2>3, <2>4
<1>7. \/ UNCHANGED <<api, watch>> /\ s' = s
      \/ /\ IsCurrent(req, s) /\ s' = WithAnnotations(req, s)
         /\ Store(req, WithAnnotations(req, s))
  BY <1>1, NothingLost DEF Update
<1>8. QED
  <2>1. WithAnnotations(req, s) \in Version
    BY <1>2, WithAnnotationsIsVersion DEF TypeOK, KubeTypeOK
  <2>2. WithAnnotations(req, s).rv = api[req].rv + 1
    BY DEF WithAnnotations
  <2>3. QED
    BY <1>1, <1>5, <1>6, <1>7, <2>1, <2>2 DEF Writes

(* The status is written when a Sosreport has been scheduled, which is     *)
(* accepted, and at the end, when it is finished.                          *)
LEMMA StatusProgress ==
    ASSUME TypeOK, TypeOK', VersionInv, NoWriteLost, NoLoss, ListsInv,
           ProgressInv, ScheduleStatus \/ Conclude
    PROVE  ProgressInv'
<1>1. /\ pc # "idle" /\ pc' = "idle"
      /\ UNCHANGED <<cache, jobs, runList, jobToRunList, jobRunningList>>
  BY DEF ScheduleStatus, Conclude, Return, memVars, childVars
<1>2. req \in Names /\ s \in Version /\ s.uid \in UIDs
  BY <1>1 DEF TypeOK, ReconcilerTypeOK
<1>3. \A u : Listed(u)' = Listed(u)
  BY <1>1 DEF Listed, ToRunNodes, RunningNodes
<1>4. SchedulingCurrent'
  BY <1>1 DEF SchedulingCurrent, Scheduling
<1>5. \A m \in Names \ {req} : ~Scheduling(m)
  BY DEF Scheduling
<1>6. ASSUME UNCHANGED <<api, watch>>,
             Scheduling(req) => api[req].status.inProgress
      PROVE  ProgressInv'
  <2>1. Forgets
    BY <1>1, <1>6 DEF Forgets, Versions
  <2>2. Untouched'
    BY <1>1, <2>1, UntouchedForget DEF ProgressInv
  <2>3. ListedInProgress'
    BY <1>3, <1>5, <1>6 DEF ProgressInv, ListedInProgress
  <2>4. QED
    BY <1>4, <2>2, <2>3 DEF ProgressInv
<1>7. ASSUME NEW v \in Version, v.uid = s.uid, v.rv = s.rv, IsCurrent(req, v),
             Store(req, WithStatus(req, v)),
             \/ v.status.inProgress
             \/ Listed(s.uid) = {}
             \/ ~api[req].status.inProgress /\ ~Scheduling(req)
      PROVE  ProgressInv'
  <2> DEFINE x == WithStatus(req, v)
  <2>1. x \in Version /\ x.uid = s.uid /\ s.uid = api[req].uid
        /\ x.status = v.status
    BY <1>2, <1>7, WithStatusIsVersion
       DEF IsCurrent, WithStatus, TypeOK, KubeTypeOK
  <2>2. Writes(req, x)
    BY <1>1, <1>7 DEF Writes, WithStatus
  <2> HIDE DEF x
  <2>3. /\ Untouched' /\ api'[req] = x
        /\ \A m \in Names \ {req} : api'[m] = api[m]
    BY <1>1, <2>1, <2>2, CopyWrites DEF ProgressInv
  <2>4. ListedInProgress'
    <3> SUFFICES ASSUME NEW m \in Names, NEW u \in UIDs,
                        api'[m].uid = u, Listed(u) # {}
                 PROVE  api'[m].status.inProgress
      BY <1>3 DEF ListedInProgress
    <3>1. CASE m = req
      BY <1>7, <2>1, <2>3, <3>1 DEF ProgressInv, ListedInProgress
    <3>2. CASE m # req
      BY <1>5, <2>3, <3>2 DEF ProgressInv, ListedInProgress
    <3>3. QED
      BY <3>1, <3>2
  <2>5. QED
    BY <1>4, <2>3, <2>4 DEF ProgressInv
<1>8. CASE ScheduleStatus
  <2> DEFINE v == [s EXCEPT !.status.inProgress = TRUE]
  <2>1. /\ v \in Version /\ v.uid = s.uid /\ v.rv = s.rv
        /\ v.status.inProgress = TRUE
    BY <1>2 DEF Version, Status
  <2>2. UpdateStatus(req, v)
    BY <1>8 DEF ScheduleStatus
  <2> HIDE DEF v
  <2>3. Scheduling(req) => IsCurrent(req, v)
    BY <1>2, <2>1 DEF ProgressInv, SchedulingCurrent, Scheduling, IsCurrent
  <2>4. \/ UNCHANGED <<api, watch>> /\ (IsCurrent(req, v) => v.status = api[req].status)
        \/ IsCurrent(req, v) /\ Store(req, WithStatus(req, v))
    BY <2>2, NothingLost DEF UpdateStatus
  <2>5. QED
    BY <1>6, <1>7, <2>1, <2>3, <2>4
<1>9. CASE Conclude
  <2> DEFINE v == Concluded(s)
             done == isSosreportJobsDone(s.uid)
  <2>1. v \in Version
    BY <1>2, ConcludedIsVersion
  <2>2. /\ v.uid = s.uid /\ v.rv = s.rv
        /\ v.status.inProgress = (s.status.inProgress /\ ~done)
    BY <1>2 DEF Concluded, Version
  <2>3. UpdateStatus(req, v) \/ Reordered(req, v)
    BY <1>9 DEF Conclude
  <2>4. done => Listed(s.uid) = {}
    BY DEF isSosreportJobsDone, Listed, ToRunNodes, RunningNodes
  <2> HIDE DEF v, done
  <2>5. ~Scheduling(req)
    BY <1>9 DEF Conclude, Scheduling
  <2>6. IsCurrent(req, v) => api[req].status = s.status
    BY <1>1, <2>2 DEF IsCurrent, VersionInv, CopyCoherent
  <2>7. \/ UNCHANGED <<api, watch>>
        \/ IsCurrent(req, v) /\ Store(req, WithStatus(req, v))
    BY <2>3 DEF UpdateStatus, Reordered
  <2>8. s.status.inProgress \in BOOLEAN /\ done \in BOOLEAN
    BY <1>2 DEF Version, Status, done, isSosreportJobsDone
  <2>9. QED
    BY <1>6, <1>7, <2>1, <2>2, <2>4, <2>5, <2>6, <2>7, <2>8
<1>10. QED
  BY <1>8, <1>9

(* The loop moves nodes from one list to the other.                        *)
LEMMA LoopProgress ==
    ASSUME TypeOK, TypeOK', ListsInv, ProgressInv, RunSosreportJobs
    PROVE  ProgressInv'
<1>1. /\ pc = "run" /\ pc' \in {"run", "conclude", "runUpdate"}
      /\ UNCHANGED <<api, watch, cache, runList>>
  BY DEF RunSosreportJobs, CreatePvc, CreateJob, EndLoop, LoopEnds, memVars,
         kubeVars
<1>2. Forgets
  BY <1>1 DEF Forgets, Versions
<1>3. Untouched'
  BY <1>1, <1>2, UntouchedForget DEF ProgressInv
<1>4. SchedulingCurrent' /\ \A m : ~Scheduling(m)
  BY <1>1 DEF SchedulingCurrent, Scheduling
<1>5. ASSUME NEW u \in UIDs PROVE Listed(u)' \subseteq Listed(u)
  <2>1. CASE EndLoop
    <3> DEFINE l == jobToRunList[u]
               toRun == IF l \in {Absent, Null} THEN l ELSE l \ started
               running == Members(jobRunningList[u]) \cup started
    <3>1. /\ started \subseteq ToRunNodes(s.uid) /\ s.uid \in UIDs
          /\ l \in NodeList /\ jobRunningList[u] \in NodeList
          /\ started \subseteq Nodes
      BY <1>1 DEF ListsInv, LoopInv, TypeOK, ReconcilerTypeOK
    <3>2. CASE u # s.uid
      BY <2>1, <3>1, <3>2 DEF EndLoop, Listed, ToRunNodes, RunningNodes, TypeOK,
                              ReconcilerTypeOK
    <3>3. CASE u = s.uid
      <4>1. jobToRunList'[u] = toRun /\ jobRunningList'[u] = running
        BY <2>1, <3>3 DEF EndLoop, TypeOK, ReconcilerTypeOK
      <4>2. Members(toRun) \subseteq Members(l)
        <5>1. CASE l \in SUBSET Nodes
          <6>1. toRun = l \ started /\ toRun \in SUBSET Nodes /\ Members(l) = l
            BY <5>1, LoadedFacts
          <6>2. Members(toRun) = toRun
            BY <6>1, LoadedFacts
          <6>3. QED
            BY <6>1, <6>2
        <5>2. QED
          BY <3>1, <5>1 DEF NodeList
      <4>3. Members(running) = running
        <5>1. running \in SUBSET Nodes
          BY <3>1, NodeListType
        <5>2. QED
          BY <5>1, LoadedFacts
      <4> HIDE DEF toRun
      <4>4. QED
        BY <3>1, <3>3, <4>1, <4>2, <4>3 DEF Listed, ToRunNodes, RunningNodes
    <3>4. QED
      BY <3>2, <3>3
  <2>2. CASE UNCHANGED <<jobToRunList, jobRunningList>>
    BY <2>2 DEF Listed, ToRunNodes, RunningNodes
  <2>3. QED
    BY <2>1, <2>2 DEF RunSosreportJobs, CreatePvc, CreateJob, memVars
<1>6. ListedInProgress'
  BY <1>1, <1>4, <1>5 DEF ProgressInv, ListedInProgress
<1>7. QED
  BY <1>3, <1>4, <1>6 DEF ProgressInv

-----------------------------------------------------------------------------
(* Every step keeps the invariant.                                         *)
LEMMA ProgressStep ==
    ASSUME TypeOK, TypeOK', VersionInv, NoWriteLost, NoLoss, CopyHasList,
           UidsGiven, RestartInv, ListsInv, ProgressInv, [Next]_vars
    PROVE  ProgressInv'
<1>1. CASE Controller
  BY <1>1, ReconcileProgress, UpdateProgress, StatusProgress, LoopProgress
     DEF Controller, ReconcilerNext
<1>2. CASE UNCHANGED vars
  <2>1. Forgets /\ jobs' \subseteq jobs /\ UNCHANGED <<localVars, memVars>>
    BY <1>2 DEF vars, kubeVars, recVars, localVars, memVars, Forgets, Versions
  <2>2. QED
    BY <2>1, OutsideProgress
<1>3. QED
  BY <1>1, <1>2, EnvironmentProgress DEF Next

(* It holds at the start: there is nothing to be in progress.              *)
LEMMA ProgressInit == Init => ProgressInv
<1> SUFFICES ASSUME Init PROVE ProgressInv
  OBVIOUS
<1>1. /\ pc = "idle" /\ cache = api /\ watch = [n \in Names |-> {}]
      /\ api = [n \in Names |-> Fresh(NoUid, 0)]
  BY DEF Init, KubeInit, ReconcilerInit
<1>2. \A n \in Names : api[n].uid = NoUid /\ Versions(n) = {api[n]}
  BY <1>1 DEF Fresh, Versions
<1>3. QED
  BY <1>1, <1>2, KubeApiAssumption
     DEF ProgressInv, Untouched, SchedulingCurrent, Scheduling,
         ListedInProgress

(* Of a Sosreport that is on the runList, either nothing is left to run,   *)
(* or its stored status shows IN PROGRESS, or it is being scheduled.       *)
THEOREM ProgressIsShown ==
    ASSUME MaxFaults["crash"] = 0, MaxFaults["lostCreate"] = 0,
           MaxFaults["fail"] = 0, MaxFaults["lostUpdate"] = 0,
           MaxFaults["touch"] = 0, MaxFaults["listJobsFail"] = 0
    PROVE  Spec => []ProgressInv
<1>1. Init => NoWriteLost /\ NoLoss
  BY DEF Init, ReconcilerInit, NoWriteLost, NoLoss
<1>2. TypeOK /\ NoWriteLost /\ NoLoss /\ [Next]_vars => NoWriteLost' /\ NoLoss'
  BY NoWriteLostStep, NoLossStep
<1>3. TypeOK /\ TypeOK' /\ UidsGiven /\ [Next]_vars => UidsGiven'
  BY UidsStep
<1>4. TypeOK /\ TypeOK' /\ VersionInv /\ NoWriteLost /\ NoLoss /\ CopyHasList
         /\ UidsGiven /\ RestartInv /\ ListsInv /\ ProgressInv /\ [Next]_vars
         => ProgressInv'
  BY ProgressStep
<1>5. Init => UidsGiven
  BY InitRefines
<1>6. QED
  BY <1>1, <1>2, <1>3, <1>4, <1>5, ProgressInit, TypeCorrect,
     VersionsCoherent, RestartsAreSafe, LoopHasList, ListsCorrect, PTL DEF Spec

(* While Jobs of a Sosreport run, its stored status shows IN PROGRESS,     *)
(* although the one write that sets it is never repeated.                  *)
THEOREM RunningIsShown ==
    ASSUME MaxFaults["crash"] = 0, MaxFaults["lostCreate"] = 0,
           MaxFaults["fail"] = 0, MaxFaults["lostUpdate"] = 0,
           MaxFaults["touch"] = 0, MaxFaults["listJobsFail"] = 0
    PROVE  Spec => []RunningShowsInProgress
<1>1. TypeOK /\ ListsInv /\ ProgressInv => RunningShowsInProgress
  <2> SUFFICES ASSUME TypeOK, ListsInv, ProgressInv, NEW n \in Names,
                      NEW j \in LiveJobs(api[n].uid)
               PROVE  api[n].status.inProgress
    BY DEF RunningShowsInProgress
  <2>1. PICK u \in UIDs : u = api[n].uid /\ j.owner = u /\ j \in jobs \ doneJobs
    BY DEF LiveJobs, TypeOK, KubeTypeOK, Job
  <2>2. j.node \in RunningNodes(u) \cup StartedNodes(u)
    BY <2>1 DEF ListsInv, JobsListed
  <2>3. StartedNodes(u) \subseteq ToRunNodes(u)
    BY DEF StartedNodes, ListsInv, LoopInv
  <2>4. Listed(u) # {}
    BY <2>2, <2>3 DEF Listed
  <2>5. ~Scheduling(n)
    BY <2>1 DEF ProgressInv, SchedulingCurrent, Scheduling
  <2>6. QED
    BY <2>1, <2>4, <2>5 DEF ProgressInv, ListedInProgress
<1>2. QED
  BY <1>1, ProgressIsShown, ListsCorrect, TypeCorrect, PTL

=============================================================================

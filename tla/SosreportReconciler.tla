------------------------- MODULE SosreportReconciler -------------------------
(***************************************************************************)
(* SosreportReconciler of controllers/sosreport_controller.go: the         *)
(* controller's memory and the method Reconcile, with everything it calls  *)
(* that changes state.                                                     *)
(*                                                                         *)
(* Reconcile runs in one worker (MaxConcurrentReconciles is 1), but it is  *)
(* not atomic: users, the Job controller and the informers go on between   *)
(* two API calls.  A step of the model therefore holds at most one API     *)
(* write, and pc names the write that comes next.  Everything up to the    *)
(* first write is one step: it reads the two informer caches only, and     *)
(* what they may show at that moment is arbitrarily old anyway.            *)
(*                                                                         *)
(* API writes may be rejected, may be stored although the caller gets an   *)
(* error, and conflict when the copy they were made from is stale.  All    *)
(* errors of update, updateStatus and Create are logged and dropped by the *)
(* code.  What the environment does wrong is paid for from budget, so a    *)
(* configuration bounds each kind of fault separately.                     *)
(***************************************************************************)
EXTENDS KubeApi

CONSTANTS
    NoName,               \* req while no request is being handled
    Selected,             \* Selected[u]: nodes matching spec.nodeSelector
    Tolerated,            \* Tolerated[u]: nodes all of whose taints u tolerates
    ConcurrencySettings,  \* values of "concurrency" in the ConfigMap
    NoSetting,            \* no ConfigMap, no such key, or not a number
    MaxFaults             \* how many faults of each kind may happen

(* crash: the manager's process ends and is started again;                 *)
(* fail: an API write is rejected; lostUpdate, lostCreate: it is stored    *)
(* but the response is lost; listFail: the List of nodes fails;            *)
(* listJobsFail: that of Jobs fails; touch, delete: a user edits or        *)
(* deletes a Sosreport; deleteJob: a user deletes a Job; configure: an     *)
(* admin changes the concurrency; churn: a status is written again because *)
(* the order of its slices changed.                                        *)
FaultKinds == {"crash", "fail", "lostUpdate", "lostCreate", "listFail",
               "listJobsFail", "touch", "delete", "deleteJob", "configure", "churn"}

ASSUME ReconcilerAssumption ==
    /\ NoName \notin Names
    /\ Selected  \in [UIDs -> SUBSET Nodes]
    /\ Tolerated \in [UIDs -> SUBSET Nodes]
    /\ ConcurrencySettings \ {NoSetting} \subseteq Int
    /\ MaxFaults \in [FaultKinds -> Nat]

VARIABLES
    queue,                \* the workqueue: names with a pending request
    pc,                   \* the API write that Reconcile makes next
    req,                  \* the request being handled
    s,                    \* Reconcile's copy of the Sosreport
    toVisit,              \* nodes the loop of runSosreportJobs has not visited
    inFlight,             \* the Job whose PVC has just been created
    started,              \* newRunningNodes
    runList, jobToRunList, jobRunningList, sosreportConcurrency,
    concurrencySetting,   \* the ConfigMap's "concurrency"
    budget                \* faults that may still happen

memVars   == <<runList, jobToRunList, jobRunningList, sosreportConcurrency>>
loopVars  == <<toVisit, inFlight, started>>
localVars == <<pc, req, s, toVisit, inFlight, started>>
envVars   == <<concurrencySetting, budget>>
recVars   == <<queue, pc, req, s, toVisit, inFlight, started, runList,
               jobToRunList, jobRunningList, sosreportConcurrency,
               concurrencySetting, budget>>

Labels == {"idle", "scheduleUpdate", "scheduleStatus", "dequeueUpdate",
           "run", "runUpdate", "conclude"}

ReconcilerTypeOK ==
    /\ queue \subseteq Names
    /\ pc \in Labels
    /\ req \in Names \cup {NoName}
    /\ (pc = "idle") = (req = NoName)
    /\ s \in Version
    /\ pc # "idle" => s.uid \in UIDs
    /\ toVisit \subseteq Nodes
    /\ inFlight \subseteq Job
    /\ started \subseteq Nodes
    /\ runList \subseteq UIDs
    /\ jobToRunList   \in [UIDs -> NodeList]
    /\ jobRunningList \in [UIDs -> NodeList]
    /\ sosreportConcurrency \in Int
    /\ concurrencySetting \in ConcurrencySettings
    /\ budget \in [FaultKinds -> Nat]

NoSosreport == Fresh(NoUid, 0)

(* The state of a process that has just been started.                      *)
ReconcilerInit ==
    /\ queue = {}
    /\ pc = "idle" /\ req = NoName /\ s = NoSosreport
    /\ toVisit = {} /\ inFlight = {} /\ started = {}
    /\ runList = {}
    /\ jobToRunList   = [u \in UIDs |-> Absent]
    /\ jobRunningList = [u \in UIDs |-> Absent]
    /\ sosreportConcurrency = 0
    /\ concurrencySetting \in ConcurrencySettings
    /\ budget = MaxFaults

-----------------------------------------------------------------------------
Spend(kind) ==
    /\ budget[kind] > 0
    /\ budget' = [budget EXCEPT ![kind] = @ - 1]

(* Reconcile returns; the worker takes the next request.                   *)
Return ==
    /\ pc' = "idle" /\ req' = NoName /\ s' = NoSosreport
    /\ toVisit' = {} /\ inFlight' = {} /\ started' = {}

(* update(): PUT of the object v, after which Reconcile's copy is s'.  The *)
(* API server stores nothing and bumps no resourceVersion when nothing     *)
(* changes.  On every error the copy stays as it is: refreshSosreport      *)
(* assigns what it has read to its own parameter, which nobody sees.       *)
Update(n, v) ==
    \/ /\ IsCurrent(n, v)
       /\ v.ann # api[n].ann
       /\ s' = WithAnnotations(n, v)
       /\ Store(n, WithAnnotations(n, v))
       /\ UNCHANGED budget
    \/ /\ IsCurrent(n, v) => v.ann = api[n].ann
       /\ s' = v
       /\ UNCHANGED <<api, watch, budget>>
    \/ /\ Spend("fail")
       /\ s' = v
       /\ UNCHANGED <<api, watch>>
    \/ /\ IsCurrent(n, v)
       /\ v.ann # api[n].ann
       /\ Spend("lostUpdate")
       /\ s' = v
       /\ Store(n, WithAnnotations(n, v))

(* updateStatus(): PUT of v's status.  Both callers return next, so a lost *)
(* response is no different from a received one.                           *)
UpdateStatus(n, v) ==
    \/ /\ IsCurrent(n, v)
       /\ v.status # api[n].status
       /\ Store(n, WithStatus(n, v))
       /\ UNCHANGED budget
    \/ /\ IsCurrent(n, v) => v.status = api[n].status
       /\ UNCHANGED <<api, watch, budget>>
    \/ /\ Spend("fail")
       /\ UNCHANGED <<api, watch>>

(* setGlobalSosreportReconcilerConfiguration, as far as the control goes.  *)
DEFAULT_SOSREPORT_CONCURRENCY == 1

Concurrency == IF concurrencySetting = NoSetting
               THEN DEFAULT_SOSREPORT_CONCURRENCY
               ELSE concurrencySetting

SetConfiguration == sosreportConcurrency' = Concurrency

-----------------------------------------------------------------------------
(* Defects.  An operator named X_... and placed before X is what X would be *)
(* with a plausible programming error; nothing refers to it.  Each shows   *)
(* that some property below depends on how the code does X.                *)

(* Without "don't look at finished sosreports, ever".                      *)
IsIgnored_EvenFinished(v) == v.uid = NoUid

(* Deleted Sosreports are skipped, and finished ones are not looked at.    *)
IsIgnored(v) == v.uid = NoUid \/ v.status.finished

ReconcileIgnored(n) ==
    /\ pc = "idle" /\ n \in queue
    /\ IsIgnored(cache[n])
    /\ queue' = queue \ {n}
    /\ UNCHANGED <<kubeVars, localVars, memVars, envVars>>

(* Reconcile takes a request for a Sosreport that it has to look at.       *)
Begin(n) ==
    /\ pc = "idle" /\ n \in queue
    /\ ~IsIgnored(cache[n])
    /\ SetConfiguration

(* Not yet running: neither on the runList nor InProgress in the cache.    *)
NotYetRunning(v) == v.uid \notin runList /\ ~v.status.inProgress

(* Nodes that scheduleSosreportJobs puts on the list.                      *)
Eligible(u) == Selected[u] \cap Tolerated[u]

(* The List of nodes fails: the request is queued again, but the Sosreport *)
(* stays on the runList.                                                   *)
ScheduleListFails(n) ==
    /\ Begin(n) /\ NotYetRunning(cache[n])
    /\ Spend("listFail")
    /\ runList' = runList \cup {cache[n].uid}
    /\ UNCHANGED <<queue, kubeVars, localVars, jobToRunList, jobRunningList,
                   concurrencySetting>>

(* A Sosreport without nodes is taken off the runList again.               *)
ScheduleNoNodes_NotOnRunList(n) ==
    /\ Begin(n) /\ NotYetRunning(cache[n])
    /\ Selected[cache[n].uid] = {}
    /\ queue' = queue \ {n}
    /\ UpdateStatus(n, [cache[n] EXCEPT !.status.inProgress = FALSE])
    /\ UNCHANGED <<cache, childVars, localVars, runList, jobToRunList,
                   jobRunningList, concurrencySetting>>

(* No node matches the selector: InProgress stays false.                   *)
ScheduleNoNodes(n) ==
    /\ Begin(n) /\ NotYetRunning(cache[n])
    /\ Selected[cache[n].uid] = {}
    /\ queue' = queue \ {n}
    /\ runList' = runList \cup {cache[n].uid}
    /\ UpdateStatus(n, [cache[n] EXCEPT !.status.inProgress = FALSE])
    /\ UNCHANGED <<cache, childVars, localVars, jobToRunList, jobRunningList,
                   concurrencySetting>>

(* The eligible nodes are put on the list in memory only.                  *)
Schedule_MemoryOnly(n) ==
    LET u == cache[n].uid IN
    /\ Begin(n) /\ NotYetRunning(cache[n])
    /\ Selected[u] # {}
    /\ queue' = queue \ {n}
    /\ runList' = runList \cup {u}
    /\ jobToRunList' = [jobToRunList EXCEPT ![u] = Eligible(u)]
    /\ pc' = "scheduleStatus" /\ req' = n
    /\ s' = cache[n]
    /\ UNCHANGED <<kubeVars, loopVars, jobRunningList, envVars>>

(* The eligible nodes are put on the list and into the annotation.         *)
Schedule(n) ==
    LET u == cache[n].uid IN
    /\ Begin(n) /\ NotYetRunning(cache[n])
    /\ Selected[u] # {}
    /\ queue' = queue \ {n}
    /\ runList' = runList \cup {u}
    /\ jobToRunList' = [jobToRunList EXCEPT ![u] = Eligible(u)]
    /\ pc' = "scheduleUpdate" /\ req' = n
    /\ s' = [cache[n] EXCEPT !.ann.toRun = Eligible(u)]
    /\ UNCHANGED <<kubeVars, loopVars, jobRunningList, envVars>>

ScheduleUpdate ==
    /\ pc = "scheduleUpdate"
    /\ Update(req, s)
    /\ pc' = "scheduleStatus"
    /\ UNCHANGED <<cache, childVars, queue, req, loopVars, memVars,
                   concurrencySetting>>

(* The result of scheduleSosreportJobs is not assigned to InProgress.      *)
ScheduleStatus_NotInProgress ==
    /\ pc = "scheduleStatus"
    /\ UpdateStatus(req, s)
    /\ Return
    /\ UNCHANGED <<cache, childVars, queue, memVars, concurrencySetting>>

ScheduleStatus ==
    /\ pc = "scheduleStatus"
    /\ UpdateStatus(req, [s EXCEPT !.status.inProgress = TRUE])
    /\ Return
    /\ UNCHANGED <<cache, childVars, queue, memVars, concurrencySetting>>

-----------------------------------------------------------------------------
(* The annotation wins over the memory.                                    *)
Loaded_AnnotationFirst(list, annotation) == annotation

(* synchronizeJobRunningCache: a list missing from memory is loaded from   *)
(* the annotation, where "null" is read as a nil map.                      *)
Loaded(list, annotation) == IF list = Absent THEN annotation ELSE list

(* All done Jobs of the namespace, whatever the UID of their owner.        *)
DoneNodes_AnyOwner(u) == {j.node : j \in seenDone}

(* dequeueSosreportJobsDone on the running list l of u; deleting keys from *)
(* a missing or nil map leaves it missing or nil.                          *)
DoneNodes(u) == {j.node : j \in {k \in seenDone : k.owner = u}}

Dequeued(l, u) == IF l \in {Absent, Null} THEN l ELSE l \ DoneNodes(u)

(* Already scheduled: load the lists, take the nodes whose Jobs are done   *)
(* off the running list, and write that list's annotation if it differs.   *)
Continue(n) ==
    LET u       == cache[n].uid
        toRun   == Loaded(jobToRunList[u], cache[n].ann.toRun)
        running == Dequeued(Loaded(jobRunningList[u], cache[n].ann.running), u)
    IN
    /\ Begin(n) /\ ~NotYetRunning(cache[n])
    /\ queue' = queue \ {n}
    /\ jobToRunList'   = [jobToRunList   EXCEPT ![u] = toRun]
    /\ jobRunningList' = [jobRunningList EXCEPT ![u] = running]
    /\ pc' = IF Marshal(running) = cache[n].ann.running
             THEN "run" ELSE "dequeueUpdate"
    /\ req' = n
    /\ s' = [cache[n] EXCEPT !.ann.running = Marshal(running)]
    /\ toVisit' = Members(toRun)
    /\ UNCHANGED <<kubeVars, inFlight, started, runList, envVars>>

(* The List of Jobs fails: the error is logged, and the loop begins with a *)
(* running list that may name nodes whose Jobs are done, and with the      *)
(* annotations as they were read.                                          *)
ContinueListFails(n) ==
    LET u     == cache[n].uid
        toRun == Loaded(jobToRunList[u], cache[n].ann.toRun)
    IN
    /\ Begin(n) /\ ~NotYetRunning(cache[n])
    /\ Spend("listJobsFail")
    /\ queue' = queue \ {n}
    /\ jobToRunList'   = [jobToRunList   EXCEPT ![u] = toRun]
    /\ jobRunningList' = [jobRunningList EXCEPT
                             ![u] = Loaded(@, cache[n].ann.running)]
    /\ pc' = "run" /\ req' = n /\ s' = cache[n]
    /\ toVisit' = Members(toRun)
    /\ UNCHANGED <<kubeVars, inFlight, started, runList, concurrencySetting>>

DequeueUpdate ==
    /\ pc = "dequeueUpdate"
    /\ Update(req, s)
    /\ pc' = "run"
    /\ UNCHANGED <<cache, childVars, queue, req, loopVars, memVars,
                   concurrencySetting>>

-----------------------------------------------------------------------------
(* runSosreportJobs.                                                       *)
(* The Jobs that run already are not subtracted.                           *)
maxNewSosreports_NoRunning == sosreportConcurrency

maxNewSosreports ==
    sosreportConcurrency - Cardinality(Members(jobRunningList[s.uid]))

MayStart == Cardinality(started) < maxNewSosreports

(* What jobForSosreport makes: Job and PVC of the same, unused name, owned *)
(* by the Sosreport.                                                       *)
jobForSosreport(node) ==
    [id |-> clock, owner |-> s.uid, name |-> req, node |-> node]

(* The loop goes over a Go map, so any node may be the next one.           *)
CreatePvc(node) ==
    /\ pc = "run" /\ inFlight = {} /\ node \in toVisit /\ MayStart
    /\ toVisit' = toVisit \ {node}
    /\ \/ /\ pvcs' = pvcs \cup {jobForSosreport(node)}
          /\ inFlight' = {jobForSosreport(node)}
          /\ clock' = clock + 1
          /\ UNCHANGED budget
       \/ /\ Spend("fail")
          /\ UNCHANGED <<pvcs, inFlight, clock>>
       \/ /\ Spend("lostCreate")
          /\ pvcs' = pvcs \cup {jobForSosreport(node)}
          /\ clock' = clock + 1
          /\ UNCHANGED inFlight
    /\ UNCHANGED <<api, watch, cache, jobs, doneJobs, seenDone, queue, pc, req,
                   s, started, memVars, concurrencySetting>>

(* The node counts as started although the Create failed.                  *)
CreateJob_NotSkipped(j) ==
    /\ pc = "run" /\ j \in inFlight
    /\ inFlight' = {} /\ started' = started \cup {j.node}
    /\ \/ jobs' = jobs \cup {j} /\ UNCHANGED budget
       \/ Spend("fail") /\ UNCHANGED jobs
    /\ UNCHANGED <<api, watch, cache, doneJobs, seenDone, pvcs, clock, queue,
                   pc, req, s, toVisit, memVars, concurrencySetting>>

CreateJob(j) ==
    /\ pc = "run" /\ j \in inFlight
    /\ inFlight' = {}
    /\ \/ /\ jobs' = jobs \cup {j}
          /\ started' = started \cup {j.node}
          /\ UNCHANGED budget
       \/ /\ Spend("fail")
          /\ UNCHANGED <<jobs, started>>
       \/ /\ Spend("lostCreate")
          /\ jobs' = jobs \cup {j}
          /\ UNCHANGED started
    /\ UNCHANGED <<api, watch, cache, doneJobs, seenDone, pvcs, clock, queue,
                   pc, req, s, toVisit, memVars, concurrencySetting>>

(* Every node has been visited, or the limit is reached.                   *)
LoopEnds == pc = "run" /\ inFlight = {} /\ (toVisit = {} \/ ~MayStart)

(* The started nodes are put on the running list, but not taken off the    *)
(* list to run.                                                            *)
EndLoop_NotDeleted ==
    LET u       == s.uid
        toRun   == jobToRunList[u]
        running == Members(jobRunningList[u]) \cup started
        ann     == [toRun |-> Marshal(toRun), running |-> running]
    IN
    /\ LoopEnds
    /\ jobRunningList' = [jobRunningList EXCEPT ![u] = running]
    /\ pc' = IF ann = s.ann THEN "conclude" ELSE "runUpdate"
    /\ s' = [s EXCEPT !.ann = ann]
    /\ toVisit' = {} /\ started' = {}
    /\ UNCHANGED <<kubeVars, queue, req, inFlight, runList,
                   jobToRunList, sosreportConcurrency, envVars>>

(* The list to run of u is deleted, instead of its started nodes.          *)
EndLoop_ListDeleted ==
    LET u       == s.uid
        toRun   == IF started = {} THEN jobToRunList[u] ELSE Absent
        running == Members(jobRunningList[u]) \cup started
        ann     == [toRun |-> Marshal(toRun), running |-> running]
    IN
    /\ LoopEnds
    /\ jobToRunList'   = [jobToRunList   EXCEPT ![u] = toRun]
    /\ jobRunningList' = [jobRunningList EXCEPT ![u] = running]
    /\ pc' = IF ann = s.ann THEN "conclude" ELSE "runUpdate"
    /\ s' = [s EXCEPT !.ann = ann]
    /\ toVisit' = {} /\ started' = {}
    /\ UNCHANGED <<kubeVars, queue, req, inFlight, runList,
                   sosreportConcurrency, envVars>>

(* After the loop: the started nodes move to the running list, and the     *)
(* annotations follow if they differ.                                      *)
EndLoop ==
    LET u       == s.uid
        toRun   == IF jobToRunList[u] \in {Absent, Null} THEN jobToRunList[u]
                   ELSE jobToRunList[u] \ started
        running == Members(jobRunningList[u]) \cup started
        ann     == [toRun |-> Marshal(toRun), running |-> running]
    IN
    /\ LoopEnds
    /\ jobToRunList'   = [jobToRunList   EXCEPT ![u] = toRun]
    /\ jobRunningList' = [jobRunningList EXCEPT ![u] = running]
    /\ pc' = IF ann = s.ann THEN "conclude" ELSE "runUpdate"
    /\ s' = [s EXCEPT !.ann = ann]
    /\ toVisit' = {} /\ started' = {}
    /\ UNCHANGED <<kubeVars, queue, req, inFlight, runList,
                   sosreportConcurrency, envVars>>

RunUpdate ==
    /\ pc = "runUpdate"
    /\ Update(req, s)
    /\ pc' = "conclude"
    /\ UNCHANGED <<cache, childVars, queue, req, loopVars, memVars,
                   concurrencySetting>>

-----------------------------------------------------------------------------
(* "&&" written as "||", as the comment in the code has it.                 *)
isSosreportJobsDone_EitherEmpty(u) ==
    Members(jobToRunList[u]) = {} \/ Members(jobRunningList[u]) = {}

(* The list of running Jobs is forgotten.                                  *)
isSosreportJobsDone_ToRunOnly(u) == Members(jobToRunList[u]) = {}

isSosreportJobsDone(u) ==
    Members(jobToRunList[u]) = {} /\ Members(jobRunningList[u]) = {}

(* synchronizeRunningStatus, then Finished if both lists are empty.        *)
Concluded(v) ==
    LET done == isSosreportJobsDone(v.uid) IN
    [v EXCEPT !.status =
        [finished   |-> v.status.finished \/ done,
         inProgress |-> v.status.inProgress /\ ~done,
         currentlyRunningNodes |-> Members(v.ann.running),
         outstandingNodes      |-> Members(v.ann.toRun)]]

(* The slices of the status are filled in the random order of a Go map:    *)
(* with two or more nodes the status written may differ from the stored    *)
(* one in their order alone.                                               *)
Reordered(n, v) ==
    /\ IsCurrent(n, v)
    /\ v.status = api[n].status
    /\ \/ Cardinality(v.status.currentlyRunningNodes) > 1
       \/ Cardinality(v.status.outstandingNodes) > 1
    /\ Spend("churn")
    /\ Store(n, WithStatus(n, v))

Conclude ==
    /\ pc = "conclude"
    /\ UpdateStatus(req, Concluded(s)) \/ Reordered(req, Concluded(s))
    /\ Return
    /\ UNCHANGED <<cache, childVars, queue, memVars, concurrencySetting>>

-----------------------------------------------------------------------------
Reconcile(n) ==
    \/ ReconcileIgnored(n)
    \/ ScheduleListFails(n)
    \/ ScheduleNoNodes(n)
    \/ Schedule(n)
    \/ Continue(n)
    \/ ContinueListFails(n)

RunSosreportJobs ==
    \/ \E node \in toVisit : CreatePvc(node)
    \/ \E j \in inFlight : CreateJob(j)
    \/ EndLoop

ReconcilerNext ==
    \/ \E n \in queue : Reconcile(n)
    \/ ScheduleUpdate \/ ScheduleStatus
    \/ DequeueUpdate \/ RunSosreportJobs \/ RunUpdate \/ Conclude

=============================================================================

-------------------------- MODULE SosreportOperator --------------------------
(***************************************************************************)
(* The operator in its cluster: the reconciler together with everything    *)
(* that acts on the same objects.  Users create, edit and delete           *)
(* Sosreports and set the concurrency; informers deliver versions and Job  *)
(* events; the Job controller finishes Jobs; the garbage collector removes *)
(* the dependents of deleted Sosreports; the manager's process may end at  *)
(* any point of Reconcile and is started again by its Deployment.          *)
(***************************************************************************)
EXTENDS SosreportReconciler

VARIABLE created      \* UIDs that have been given to a Sosreport

vars == <<kubeVars, recVars, created>>

TypeOK == KubeTypeOK /\ ReconcilerTypeOK /\ created \subseteq UIDs

Init == KubeInit /\ ReconcilerInit /\ created = {}

-----------------------------------------------------------------------------
(* Users.                                                                  *)

CreateSosreport(n, u) ==
    /\ api[n].uid = NoUid
    /\ u \notin created
    /\ Store(n, Fresh(u, api[n].rv + 1))
    /\ created' = created \cup {u}
    /\ UNCHANGED <<cache, childVars, recVars>>

(* An edit of something the controller does not read (a label): only the   *)
(* resourceVersion moves.                                                  *)
TouchSosreport(n) ==
    /\ api[n].uid # NoUid
    /\ Spend("touch")
    /\ Store(n, [api[n] EXCEPT !.rv = @ + 1])
    /\ UNCHANGED <<cache, childVars, queue, localVars, memVars,
                   concurrencySetting, created>>

DeleteSosreport(n) ==
    /\ api[n].uid # NoUid
    /\ Spend("delete")
    /\ Store(n, Fresh(NoUid, api[n].rv + 1))
    /\ UNCHANGED <<cache, childVars, queue, localVars, memVars,
                   concurrencySetting, created>>

(* A Job is deleted by hand, done or not; its deletion is an event, too.   *)
DeleteJob(j) ==
    /\ Spend("deleteJob")
    /\ RemoveJob(j)
    /\ queue' = queue \cup {j.name}
    /\ UNCHANGED <<storeVars, cache, pvcs, clock, localVars, memVars,
                   concurrencySetting, created>>

SetConcurrency(c) ==
    /\ concurrencySetting # c
    /\ Spend("configure")
    /\ concurrencySetting' = c
    /\ UNCHANGED <<kubeVars, queue, localVars, memVars, created>>

-----------------------------------------------------------------------------
(* Informers: For(Sosreport) and Owns(Job) of SetupWithManager.            *)

Deliver(n) ==
    /\ \E v \in watch[n] :
          /\ Deliverable(n, v)
          /\ cache' = [cache EXCEPT ![n] = v]
          /\ watch' = [watch EXCEPT ![n] = @ \ {v}]
    /\ queue' = queue \cup {n}
    /\ UNCHANGED <<api, childVars, localVars, memVars, envVars, created>>

(* Without Owns(Job), no request is queued.                                *)
JobEvent_NotOwned(j) ==
    /\ j \in jobs
    /\ seenDone' = seenDone \cup ({j} \cap doneJobs)
    /\ UNCHANGED <<api, watch, cache, jobs, doneJobs, pvcs, clock, queue,
                   localVars, memVars, envVars, created>>

(* isJobDone does not look at the conditions of the Job.                   *)
JobEvent_AnyCondition(j) ==
    /\ j \in jobs
    /\ queue' = queue \cup {j.name}
    /\ seenDone' = seenDone \cup {j}
    /\ UNCHANGED <<api, watch, cache, jobs, doneJobs, pvcs, clock, localVars,
                   memVars, envVars, created>>

(* Any event of Job j; a request for its owner is queued.                  *)
JobEvent(j) ==
    /\ j \in jobs
    /\ queue' = queue \cup {j.name}
    /\ seenDone' = seenDone \cup ({j} \cap doneJobs)
    /\ UNCHANGED <<api, watch, cache, jobs, doneJobs, pvcs, clock, localVars,
                   memVars, envVars, created>>

(* The event that shows j done; it comes in the end.                       *)
JobDoneEvent(j) == j \in doneJobs \ seenDone /\ JobEvent(j)

(* The informer's periodic resync sends an event for all it has cached.    *)
Resync(n) ==
    /\ cache[n].uid # NoUid
    /\ queue' = queue \cup {n}
    /\ UNCHANGED <<kubeVars, localVars, memVars, envVars, created>>

-----------------------------------------------------------------------------
(* Cluster.                                                                *)

JobCompletes(j) == JobFinishes(j) /\ UNCHANGED <<recVars, created>>

(* The deletion of a Job is an event, too; that of a PVC is not watched.    *)
GarbageCollect(u) ==
    /\ Collect(u)
    /\ queue' = queue \cup {j.name : j \in jobs \ jobs'}
    /\ UNCHANGED <<localVars, memVars, envVars, created>>

(* A new process is started, whose caches are filled by a List of what is  *)
(* stored before the first request is handled.  What others do after the   *)
(* end of the old process is no different from their doing it just before. *)
Restart ==
    /\ cache' = api
    /\ watch' = [n \in Names |-> {}]
    /\ seenDone' = doneJobs
    /\ queue' = {n \in Names : api[n].uid # NoUid}
    /\ Return
    /\ runList' = {}
    /\ jobToRunList'   = [u \in UIDs |-> Absent]
    /\ jobRunningList' = [u \in UIDs |-> Absent]
    /\ sosreportConcurrency' = 0
    /\ UNCHANGED <<api, jobs, doneJobs, pvcs, clock, concurrencySetting,
                   created>>

(* The process ends, for whatever reason outside of Reconcile.             *)
Crash == Spend("crash") /\ Restart

(* runSosreportJobs assigns to s.Annotations, which is a nil map if the    *)
(* object has no annotation, not even one of its users' own: the process   *)
(* panics with its new Jobs on no list.  Only dequeueSosreportJobsDone     *)
(* makes the map, and it has not if the List of Jobs failed.               *)
Panic ==
    /\ LoopEnds
    /\ s.ann = NoAnnotations
    /\ Restart
    /\ UNCHANGED budget

-----------------------------------------------------------------------------
Controller == ReconcilerNext /\ UNCHANGED created

Users ==
    \/ \E n \in Names : \/ \E u \in UIDs : CreateSosreport(n, u)
                        \/ TouchSosreport(n)
                        \/ DeleteSosreport(n)
    \/ \E j \in jobs : DeleteJob(j)
    \/ \E c \in ConcurrencySettings : SetConcurrency(c)

Informers ==
    \/ \E n \in Names : Deliver(n) \/ Resync(n)
    \/ \E j \in jobs : JobEvent(j)

Cluster ==
    \/ \E j \in jobs : JobCompletes(j)
    \/ \E u \in UIDs : GarbageCollect(u)
    \/ Crash
    \/ Panic

Next == Controller \/ Users \/ Informers \/ Cluster

Spec == Init /\ [][Next]_vars

(* Fairness.  The worker goes on with a request it has begun, and the      *)
(* workqueue is first in, first out, so a queued request has its turn      *)
(* (strong fairness: a busy worker disables it).  Watches deliver what was *)
(* stored, Jobs end, done Jobs are seen, the garbage collector runs.       *)
Busy == pc # "idle" /\ Controller

Handled(n) == Reconcile(n) /\ UNCHANGED created

Fairness ==
    /\ WF_vars(Busy)
    /\ \A n \in Names : SF_vars(Handled(n)) /\ WF_vars(Deliver(n))
    /\ WF_vars(\E j \in jobs : JobCompletes(j))
    /\ WF_vars(\E j \in jobs : JobDoneEvent(j))
    /\ WF_vars(\E u \in UIDs : GarbageCollect(u))

(* Progress must not have to wait for the resync ...                       *)
EventSpec == Spec /\ Fairness

(* ... unless events were lost on failed writes; it comes every ten hours. *)
ResyncSpec == EventSpec /\ \A n \in Names : WF_vars(Resync(n))

-----------------------------------------------------------------------------
(* A version that was read at some time is the stored one or is older.     *)
Coherent(v, n) == v.rv =< api[n].rv /\ (v.rv = api[n].rv => v = api[n])

(* What the informer holds is coherent with the store, and so is the copy  *)
(* of a Reconcile under way but for its annotations, which it has changed; *)
(* a copy that has not been overtaken is not finished.                     *)
InformerCoherent ==
    \A n \in Names : /\ Coherent(cache[n], n)
                     /\ \A v \in watch[n] : Coherent(v, n)

CopyCoherent ==
    pc # "idle" =>
        /\ s.rv =< api[req].rv
        /\ s.rv = api[req].rv =>
             s.uid = api[req].uid /\ s.status = api[req].status
        /\ ~s.status.finished

VersionInv == InformerCoherent /\ CopyCoherent

LiveJobs(u) == {j \in jobs \ doneJobs : j.owner = u}

IsFinished(n, u) == api[n].uid = u /\ api[n].status.finished

(* Finished is final: once the stored Sosreport is marked as finished, no  *)
(* step changes its status or annotations, whatever a Reconcile that was   *)
(* under way, or that reads a stale cache or runs after a restart, does.   *)
FinishedStep ==
    \A n \in Names : \A u \in UIDs :
        IsFinished(n, u) /\ api'[n].uid = u
            => api'[n].status = api[n].status /\ api'[n].ann = api[n].ann

FinishedStable == [][FinishedStep]_vars

(* runSosreportJobs creates no Job for a Sosreport that is stored as       *)
(* finished: the early return of Reconcile works on a cache that may not   *)
(* show Finished yet.                                                      *)
NoJobAfterFinished ==
    [][\A j \in jobs' \ jobs : ~IsFinished(j.name, j.owner)]_vars

(* A Sosreport is stored as finished only if a Job for each of its nodes   *)
(* has run to its end.                                                     *)
FinishedCoversNodes ==
    \A n \in Names : \A u \in UIDs :
        IsFinished(n, u) =>
            \A node \in Eligible(u) :
                \E j \in doneJobs : j.owner = u /\ j.node = node

(* A Sosreport is stored as finished only when none of its Jobs runs.      *)
FinishedMeansIdle ==
    \A n \in Names : \A u \in UIDs : IsFinished(n, u) => LiveJobs(u) = {}

(* No node has two Jobs of the same Sosreport, finished or not.            *)
OneJobPerNode ==
    \A j, k \in jobs : j.owner = k.owner /\ j.node = k.node => j = k

(* A Job is created only while fewer Jobs of the Sosreport run than the    *)
(* concurrency that Reconcile has read.  Jobs that run already may be more *)
(* than a limit that has been lowered since.                               *)
StartStep ==
    \A j \in jobs' \ jobs :
        Cardinality(LiveJobs(j.owner)) < sosreportConcurrency

StartWithinLimit == [][StartStep]_vars

(* While Jobs of a Sosreport run, its stored status shows IN PROGRESS.     *)
RunningShowsInProgress ==
    \A n \in Names :
        LiveJobs(api[n].uid) # {} => api[n].status.inProgress

(* Between two Creates every PVC of an existing Sosreport has its Job; the *)
(* dependents of a deleted one are collected one by one.                   *)
EveryPvcHasJob ==
    inFlight = {} =>
        \A p \in pvcs : (\E n \in Names : api[n].uid = p.owner) => p \in jobs

(* Every Sosreport is finished in the end, unless it is deleted.           *)
EventuallyFinished ==
    \A u \in UIDs :
        u \in created ~> \/ \E n \in Names : IsFinished(n, u)
                         \/ \A n \in Names : api[n].uid # u

(* Nothing of a deleted Sosreport stays behind, also not what a Reconcile  *)
(* that was under way still creates.                                       *)
DeletedIsReclaimed ==
    \A u \in UIDs :
        (u \in created /\ \A n \in Names : api[n].uid # u)
            ~> [](\A j \in jobs \cup pvcs : j.owner # u)

-----------------------------------------------------------------------------
(* How the Jobs of a Sosreport relate to the controller's lists, as long   *)
(* as the manager's process lives and every response to a Create arrives.  *)

ToRunNodes(u)   == Members(jobToRunList[u])
RunningNodes(u) == Members(jobRunningList[u])
StartedNodes(u) == IF pc # "idle" /\ s.uid = u THEN started ELSE {}

(* What is read from a version never contradicts the memory: a Sosreport   *)
(* not on the runList is not in progress, and a list missing from memory   *)
(* has not been written to an annotation.                                  *)
Agrees(v) ==
    v.uid \in UIDs =>
        /\ v.uid \notin runList => ~v.status.inProgress
        /\ jobToRunList[v.uid] = Absent => v.ann.toRun \in {Absent, Null}
        /\ jobRunningList[v.uid] = Absent => v.ann.running \in {Absent, Null}

StoredAgree ==
    \A n \in Names : /\ Agrees(api[n])
                     /\ Agrees(cache[n])
                     /\ \A v \in watch[n] : Agrees(v)

CopyAgrees == pc # "idle" => Agrees(s) /\ s.uid \in runList

(* Only scheduled Sosreports have Jobs; no node has two; the node of a Job *)
(* is off the list of nodes to run, and that of a live Job is on the list  *)
(* of running ones, both up to the nodes started in the loop under way.    *)
JobsListed ==
    /\ \A u \in UIDs \ runList : ToRunNodes(u) = {} /\ RunningNodes(u) = {}
    /\ \A j \in jobs :
          /\ j.owner \in runList
          /\ j.node \notin ToRunNodes(j.owner) \ StartedNodes(j.owner)
          /\ j \notin doneJobs =>
                j.node \in RunningNodes(j.owner) \cup StartedNodes(j.owner)
    /\ OneJobPerNode

(* The loop visits and starts nodes of the list only, each of them once.   *)
LoopInv ==
    /\ pc # "idle" =>
         /\ toVisit \subseteq ToRunNodes(s.uid) \ started
         /\ started \subseteq ToRunNodes(s.uid)
    /\ pc \notin {"run", "dequeueUpdate"} => toVisit = {}
    /\ pc # "run" => inFlight = {} /\ started = {}
    /\ \A j \in inFlight :
          /\ j.owner = s.uid /\ j.node \notin toVisit
          /\ j.node \in ToRunNodes(s.uid) \ started
          /\ MayStart

(* A finished Sosreport is on the runList and both of its lists are empty. *)
FinishedListsEmpty ==
    \A n \in Names : \A u \in UIDs :
        IsFinished(n, u) =>
            u \in runList /\ ToRunNodes(u) = {} /\ RunningNodes(u) = {}

ListsInv ==
    /\ StoredAgree /\ CopyAgrees
    /\ JobsListed /\ FinishedListsEmpty /\ LoopInv

=============================================================================

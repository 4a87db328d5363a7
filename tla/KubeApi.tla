------------------------------- MODULE KubeApi -------------------------------
(***************************************************************************)
(* The cluster as the sosreport controller sees it: the API server, the    *)
(* informer caches that controller-runtime keeps for the controller, the   *)
(* Job controller and the garbage collector.  None of this is code of the  *)
(* repository: it is modelled from the calls that                          *)
(* controllers/sosreport_controller.go makes and from the contract those   *)
(* calls have (optimistic concurrency on resourceVersion, reads served by  *)
(* a cache that lags the server, deletion of dependents by owner UID).     *)
(*                                                                         *)
(* A Sosreport is abstracted to what the controller reads and writes: its  *)
(* UID, its resourceVersion, the two annotations that persist the          *)
(* controller's lists, and its status.                                     *)
(***************************************************************************)
EXTENDS Integers, FiniteSets

CONSTANTS
    Names,      \* names of Sosreports (one namespace)
    UIDs,       \* UIDs; deleting and creating a name again gives a new one
    Nodes,      \* values of the label kubernetes.io/hostname
    NoUid,      \* stands for "no object with this name"
    Absent,     \* no such annotation, or no such key in a Go map
    Null        \* a nil map[string]struct{}, and its JSON text "null"

ASSUME KubeApiAssumption ==
    /\ NoUid \notin UIDs
    /\ IsFiniteSet(Nodes)
    /\ \A X \in SUBSET Nodes : X # Absent /\ X # Null
    /\ Absent # Null

VARIABLES
    api,        \* api[n]: the stored Sosreport named n
    watch,      \* watch[n]: versions of n the informer has not received yet
    cache,      \* cache[n]: the version of n in the informer's cache
    jobs,       \* stored Jobs
    doneJobs,   \* the Jobs with condition Complete or Failed
    seenDone,   \* the Jobs that the informer's cache shows as done
    pvcs,       \* stored PersistentVolumeClaims
    clock       \* time.Now() in the names of Jobs and PVCs

storeVars  == <<api, watch>>
childVars  == <<jobs, doneJobs, seenDone, pvcs, clock>>
kubeVars   == <<api, watch, cache, jobs, doneJobs, seenDone, pvcs, clock>>

-----------------------------------------------------------------------------
(* A list of nodes as Go map or as JSON text: absent, nil, or a set.       *)
NodeList == (SUBSET Nodes) \cup {Absent, Null}

(* The keys of a Go map; ranging over a missing or nil map yields none.    *)
Members(l) == IF l \in {Absent, Null} THEN {} ELSE l

(* json.Marshal of a map; a missing entry reads as nil, whose text is      *)
(* "null", and "{}" is a different text.                                   *)
Marshal(l) == IF l = Absent THEN Null ELSE l

Annotations == [toRun : NodeList, running : NodeList]

Status == [finished : BOOLEAN, inProgress : BOOLEAN,
           currentlyRunningNodes : SUBSET Nodes,
           outstandingNodes : SUBSET Nodes]

Version == [uid : UIDs \cup {NoUid}, rv : Nat,
            ann : Annotations, status : Status]

(* Job and PVC of one attempt share the name made by jobForSosreport.      *)
Job == [id : Nat, owner : UIDs, name : Names, node : Nodes]

NoAnnotations == [toRun |-> Absent, running |-> Absent]

NewStatus == [finished |-> FALSE, inProgress |-> FALSE,
              currentlyRunningNodes |-> {}, outstandingNodes |-> {}]

(* A version with no object (before creation, after deletion), or a newly  *)
(* created object.                                                         *)
Fresh(u, rv) == [uid |-> u, rv |-> rv, ann |-> NoAnnotations,
                 status |-> NewStatus]

KubeTypeOK ==
    /\ api   \in [Names -> Version]
    /\ watch \in [Names -> SUBSET Version]
    /\ cache \in [Names -> Version]
    /\ jobs  \subseteq Job
    /\ doneJobs \subseteq jobs
    /\ seenDone \subseteq doneJobs
    /\ pvcs  \subseteq Job
    /\ clock \in Nat

KubeInit ==
    /\ api   = [n \in Names |-> Fresh(NoUid, 0)]
    /\ watch = [n \in Names |-> {}]
    /\ cache = [n \in Names |-> Fresh(NoUid, 0)]
    /\ jobs = {} /\ doneJobs = {} /\ seenDone = {} /\ pvcs = {}
    /\ clock = 0

-----------------------------------------------------------------------------
(* Every stored version is sent to the informer.                           *)
Store(n, v) ==
    /\ api'   = [api   EXCEPT ![n] = v]
    /\ watch' = [watch EXCEPT ![n] = @ \cup {v}]

(* Optimistic concurrency: a write is accepted when the resourceVersion it *)
(* carries is the stored one, and is a conflict otherwise; so is a write   *)
(* to another object of the same name.                                     *)
IsCurrent(n, v) == v.uid = api[n].uid /\ v.rv = api[n].rv

(* PUT of the object: the status subresource is enabled, so only metadata  *)
(* changes.                                                                *)
WithAnnotations(n, v) ==
    [uid |-> api[n].uid, rv |-> api[n].rv + 1,
     ann |-> v.ann, status |-> api[n].status]

(* PUT of the status subresource.                                          *)
WithStatus(n, v) ==
    [uid |-> api[n].uid, rv |-> api[n].rv + 1,
     ann |-> api[n].ann, status |-> v.status]

(* The versions of n reach the informer in the order they were stored.     *)
Deliverable(n, v) ==
    v \in watch[n] /\ \A w \in watch[n] : v.rv =< w.rv

(* The stored Jobs and PVCs whose owner reference, set by jobForSosreport,  *)
(* is the UID u.                                                           *)
JobsOf(u) == {j \in jobs : j.owner = u}

(* A defect: the PVC gets no owner reference.                              *)
PvcsOf_NoReference(u) == {}

PvcsOf(u) == {p \in pvcs : p.owner = u}

(* A Job is deleted.  The cache that still shows it is not modelled.       *)
RemoveJob(j) ==
    /\ j \in jobs
    /\ jobs'     = jobs \ {j}
    /\ doneJobs' = doneJobs \ {j}
    /\ seenDone' = seenDone \ {j}

RemovePvc(p) == p \in pvcs /\ pvcs' = pvcs \ {p}

(* The dependents of an owner whose UID no longer exists are deleted, one  *)
(* at a time and in any order: a PVC may outlive its Job, or a Job its PVC. *)
Collect(u) ==
    /\ \A n \in Names : api[n].uid # u
    /\ \/ \E j \in JobsOf(u) : RemoveJob(j) /\ UNCHANGED pvcs
       \/ /\ \E p \in PvcsOf(u) : RemovePvc(p)
          /\ UNCHANGED <<jobs, doneJobs, seenDone>>
    /\ UNCHANGED <<api, watch, cache, clock>>

(* The Job controller sets condition Complete or Failed.                   *)
JobFinishes(j) ==
    /\ j \in jobs \ doneJobs
    /\ doneJobs' = doneJobs \cup {j}
    /\ UNCHANGED <<api, watch, cache, jobs, seenDone, pvcs, clock>>

=============================================================================

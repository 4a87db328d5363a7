------------------------------- MODULE JobLife -------------------------------
(***************************************************************************)
(* The life of Jobs: Reconcile creates them (JobSetup), and the Job        *)
(* controller runs their script in a container (Entrypoint), again if it   *)
(* fails, until it succeeds or has failed once too often.  A Job that is   *)
(* done makes room for the next one.                                       *)
(*                                                                         *)
(* The script uses nothing of the operator's state but the environment in  *)
(* its Job, which never changes, and the operator nothing of the script's  *)
(* but the end of its Job.  So a container is run while no Reconcile is    *)
(* under way, and by itself: any other interleaving has the same outcomes. *)
(***************************************************************************)
EXTENDS JobSetup, Entrypoint

CONSTANT BackoffLimit       \* of Jobs; the template leaves it at its default

VARIABLES
    failed,     \* containers that have failed
    complete    \* Jobs with condition Complete; other done Jobs are Failed

lifeVars == <<setupVars, scriptVars, failed, complete>>

LifeInit == SetupInit /\ ScriptInit /\ failed = {} /\ complete = {}

FailuresOf(j) == {c \in failed : c.job = j}

StartPod(j) ==
    /\ who = NoContainer /\ read = "idle"
    /\ who' = [job |-> j, attempt |-> Cardinality(FailuresOf(j))]
    /\ line' = "sosreport"
    /\ UNCHANGED <<setupVars, tmp, file, sent, status, failed, complete>>

Gone ==
    /\ who' = NoContainer
    /\ line' = "none" /\ tmp' = FALSE /\ file' = "none" /\ sent' = FALSE
    /\ status' = 0

(* Failures above the limit make the Job fail.                             *)
PodFails ==
    /\ failed' = failed \cup {who}
    /\ doneJobs' = IF Cardinality(FailuresOf(who.job)) >= BackoffLimit
                   THEN doneJobs \cup {who.job} ELSE doneJobs
    /\ Gone
    /\ UNCHANGED <<settingVars, read, req, toVisit, inFlight, started, toRun,
                   jobs, pvcs, second, panicked, complete>>

PodEnds ==
    /\ line = "exit"
    /\ \/ /\ status = 0
          /\ complete' = complete \cup {who.job}
          /\ doneJobs' = doneJobs \cup {who.job}
          /\ Gone
          /\ UNCHANGED <<settingVars, faults, read, req, toVisit, inFlight,
                         started, toRun, jobs, pvcs, second, panicked, failed>>
       \/ status # 0 /\ PodFails /\ UNCHANGED faults

(* The pod is evicted, or its node goes down.                              *)
PodLost == who # NoContainer /\ Fault /\ PodFails

Operator ==
    /\ who = NoContainer
    /\ UNCHANGED <<scriptVars, failed, complete>>

Pods ==
    \/ \E j \in jobs \ doneJobs : StartPod(j)
    \/ Script /\ UNCHANGED <<setupVars, failed, complete>>
    \/ PodEnds

LifeNext ==
    \/ SetupNext /\ Operator
    \/ Pods
    \/ PodLost

LifeSpec == LifeInit /\ [][LifeNext]_lifeVars

(* The worker and the commands of the container go on, events or the       *)
(* resync bring each Sosreport back to the worker, time passes, and pods   *)
(* are started.                                                            *)
LifeFairness ==
    /\ WF_lifeVars(\/ Reconcile /\ Operator
                   \/ Pods /\ who # NoContainer)
    /\ \A x \in Sosreports : SF_lifeVars(Begin(x) /\ Operator)
    /\ SF_lifeVars(Tick /\ Operator)
    /\ SF_lifeVars(\E j \in jobs \ doneJobs : StartPod(j))

FairLifeSpec == LifeSpec /\ LifeFairness

-----------------------------------------------------------------------------
(* What Complete does tell of a Job, whose script hides most failures:     *)
(* with ftp, that an archive was uploaded; with nfs, that a share was      *)
(* named; with case, that the credentials were there if a case was named.  *)
Told(j) ==
    LET Given(k) == k \in DOMAIN j.env /\ j.env[k] # Empty
        Uses(method) == Given("upload-method") /\ j.env["upload-method"] = method
    IN  /\ Uses("ftp") => sent
        /\ Uses("nfs") => Given("nfs-share")
        /\ Uses("case") /\ Given("case-number")
              => Given("username") /\ Given("password")

CompleteMeans == [][\A j \in complete' \ complete : Told(j)]_lifeVars

(* "Sosreports will be stored in dedicated Physical Volumes": a container  *)
(* that makes its Job complete, none before it having failed, has left a   *)
(* whole archive on the PV.                                                *)
CompleteIsStored ==
    [][complete' # complete
          => file = "whole" \/ FailuresOf(who.job) # {}]_lifeVars

(* In the end a Job has run on each node, unless the process panics: names *)
(* that are taken, rejected Creates and failing pods do not stop the rest. *)
EverythingCollected ==
    <>(\/ panicked
       \/ \A x \in Sosreports : \A n \in Eligible(x) :
             \E j \in doneJobs : j.owner = x /\ j.node = n)

=============================================================================

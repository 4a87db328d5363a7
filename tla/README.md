# A TLA+ model of the sosreport operator

The operator (`main.go`, `controllers/`, `api/`) runs a Job on every node a
`Sosreport` selects, a limited number at a time, and marks the `Sosreport` as
finished when all Jobs have ended.  The code is short; what is hard about it is
that it decides from **lagging caches**, keeps its progress in **maps in
memory**, mirrors them into **annotations** whose writes may fail or conflict,
drops nearly all API errors, and is expected to survive a **restart** at any
point.  That is what the first group of modules models, and what they show to
implement a short abstract specification of the operator's promise.  The second
group models what the Jobs are made of and what becomes of them: configuration,
names, volumes, and the script in the container.

Contents: [1 Inventory](#1-inventory) - [2 Modules](#2-modules-and-how-they-correspond-to-the-code) -
[3 Abstractions](#3-abstractions-and-bounds) - [4 Fairness](#4-fairness) -
[5 Runs](#5-what-each-run-shows) - [6 Disagreements](#6-where-the-code-disagrees-with-its-documentation) -
[7 Proofs](#7-what-is-proved) - [8 Not modelled](#8-not-modelled) - [9 Open](#9-open)

## 1 Inventory

| Component | State | Operations | Interacts with | What makes it correct |
|---|---|---|---|---|
| `SosreportReconciler` (`controllers/sosreport_controller.go`) | `runList`, `jobToRunList`, `jobRunningList` (by UID), `sosreportConcurrency`, configuration | `Reconcile` and what it calls: `scheduleSosreportJobs`, `synchronizeJobRunningCache`, `dequeueSosreportJobsDone`, `runSosreportJobs`, `synchronizeRunningStatus`, `isSosreportJobsDone`, `update`, `updateStatus` | reads caches, writes Sosreports, creates PVCs and Jobs through the API server | every node gets a Job, only one, at most `concurrency` at a time; Finished if and only if all have ended; Finished is final |
| Watches and workqueue (controller-runtime, set up in `SetupWithManager`) | caches, pending events, queue | deliver an event, queue a request, hand it to the one worker | API server to reconciler | every relevant change leads to a later `Reconcile` |
| API server, Job controller, garbage collector (external) | stored objects with UID and resourceVersion; Job conditions | PUT, PUT of the status, POST, conflict, delete, done | all | optimistic concurrency; dependents follow their owner |
| Manager process (`main.go`) | all of the reconciler's memory | start, stop, restart | reconciler | a restart resumes from the annotations |
| `Sosreport` type (`api/v1alpha1`) | spec, status | - | - | - |
| Configuration (`set...Configuration`, `getEnvConfiguration...`) | three ConfigMaps and a Secret of each namespace; fields of the one reconciler | read one by one at each `Reconcile` | reconciler, Job environment | a Job is made from the settings of its own namespace, read in this call |
| Node selection (`tolerates`) | nodes with labels and taints | a loop over taints and tolerations | schedule | a node gets a Job only if the Job's pod can be put there |
| Job construction (`jobForSosreport`, `jobFromTemplate`) | names in use | names, owners, affinity, volumes | reconciler, API server | valid, unused names; each Job mounts its own PVC |
| Scripts of the Job (`containers/scripts`) | files in the container and on the PV | collect, move, upload | environment, Job condition | what Complete tells; each node is collected in the end |
| Deployment, bundle, test environments | - | - | - | - |

The hard behaviours are the interleaving of `Reconcile` with users, the Job
controller and the informers; stale reads; conflicting, rejected and unanswered
writes; a crash between two writes; requests that are never repeated; the limit
at zero, lowered or reached; deletion and re-creation under the same name;
settings shared between namespaces and changed half-way; names that collide;
a script whose exit status hides failures.
`PROJECT.json` lists them as *hazards*, each with its line and the properties
that cover it.

## 2 Modules and how they correspond to the code

```
KubeApi               the cluster's objects, caches, conflict rule     (external contract)
SosreportReconciler   the controller's memory and Reconcile            (sosreport_controller.go)
SosreportOperator     + users, informers, Jobs, GC, crash, panic: Next, Spec, fairness, properties
SosreportRestart      invariants of restarts                           (state predicates)
SosreportProgress     invariants of the stored status                  (state predicates)
SosreportCollection   what the operator promises, abstractly
SosreportRefinement   refinement mapping                               (INSTANCE SosreportCollection)
MCSosreportOperator   instances for TLC, one .cfg for each question

NodeSelection         tolerates                                        (sosreport_controller.go)
JobSetup              configuration, names, PVCs, Jobs                 (sosreport_controller.go)
Entrypoint            the script of the container                      (containers/scripts)
JobLife               both, and the Job controller: LifeSpec, fairness, properties
MCJobLife             instance for TLC
```

`EXTENDS`, the extending module on the left:

```
MCSosreportOperator -> SosreportProgress -> SosreportRestart -> SosreportOperator
                    -> SosreportRefinement                   -> SosreportOperator
SosreportOperator   -> SosreportReconciler -> KubeApi
MCJobLife -> JobLife -> JobSetup -> NodeSelection
                     -> Entrypoint

theorems:
SosreportProgressProofs -> SosreportRefinementProofs -> SosreportCoverProofs
SosreportCoverProofs    -> SosreportRestartProofs, SosreportListsProofs
                        -> SosreportOperatorProofs
JobLifeProofs -> NodeSelectionProofs
```

### The controller

**State.** `api[n]` is the stored `Sosreport` of name `n`; `watch[n]` the
versions not delivered yet; `cache[n]` what `r.Get` returns.  `jobs`, `pvcs` are
stored objects, `doneJobs` the Jobs with condition Complete or Failed,
`seenDone` those whose condition `r.List` shows.  `runList`, `jobToRunList`,
`jobRunningList` and `sosreportConcurrency` are the fields of the same name.
`Absent` is a missing map key or annotation; `Null` is a nil map and its JSON
text `null`, which the code writes and reads back, and which is a different
text from `{}`.

**Actions.** `Reconcile` is cut at its API writes, because others act between
them; `pc` names the write that comes next.

| Action | Code (`sosreport_controller.go`) |
|---|---|
| `ReconcileIgnored` | deleted or finished: return (124-141) |
| `ScheduleListFails` | `List` of nodes fails after the `runList` entry was made: retry (157, 621) |
| `ScheduleNoNodes` | no node matches: InProgress stays false (624-630, 166) |
| `Schedule`, `ScheduleUpdate`, `ScheduleStatus` | list of nodes in memory and annotation (643-651), then the status (166) |
| `Continue`, `DequeueUpdate` | load lists after a restart (677-711), dequeue done Jobs, write the annotation if it differs (514-554) |
| `CreatePvc`, `CreateJob` | an iteration of the loop (728-764); each Create succeeds, is rejected, or is stored but unanswered |
| `ContinueListFails` | `List` of Jobs fails: logged, nothing is dequeued or written, on to the loop (174-177, 485-488, 515-518) |
| `EndLoop`, `RunUpdate` | move started nodes (766-773), write the annotations if they differ (775-789) |
| `Conclude` | copy annotations to the status, Finished if both lists are empty, write the status (185-194) |
| `Deliver`, `JobEvent`, `Resync` | `For(Sosreport)`, `Owns(Job)`, the periodic resync (246-252) |
| `CreateSosreport`, `TouchSosreport`, `DeleteSosreport`, `DeleteJob`, `SetConcurrency` | users and admins |
| `JobCompletes`, `GarbageCollect` | cluster; one dependent of a deleted Sosreport is deleted at a time |
| `Panic` | the assignments at 777 and 783 to a nil map of annotations, after the loop; the process starts again |
| `Crash` | the process ends, in any state, and starts with empty memory and filled caches |

`Update` and `UpdateStatus` model `update()` and `updateStatus()` with all
outcomes: stored, stored although the response was lost, rejected, conflict,
nothing to change.  On an error the caller goes on with its old copy, because
`refreshSosreport` (467-474) assigns only its own parameter.

Operators named `X_...` and placed before `X` are what `X` would be with a
plausible defect.  Nothing refers to them; substituting one for `X` makes the
property that guards against it fail in the run that checks it.

### The promise, and how the controller keeps it

`SosreportCollection` knows four variables: the phase of each Sosreport, the
nodes that wait, the nodes on which a Job runs, and the limit.  A node moves
from waiting to running when fewer than the limit run, and leaves when its Job
ends; Finished requires that nothing waits or runs, and nothing follows it.
`SosreportRefinement` reads these variables from three places that the code has
to keep together: the waiting nodes from the controller's *memory* (the list to
run without the nodes started in the loop under way; all eligible nodes while
the Sosreport is not on the `runList`, which without a crash means before it is
scheduled), the running nodes from the *stored Jobs* that are
not done, the phase from the *stored Sosreports*.  `ImplementsCollection` says
that every step of the operator is a step of the promise or invisible to it.
In particular a Sosreport cannot become finished, by a PUT made from a copy that
was read long ago, while a node waits or a Job runs.

### What the Jobs are made of

`JobSetup` models the same `Reconcile`, with what the first group leaves out and
without the lists' annotations, which it leaves to the first group.

| Action | Code |
|---|---|
| `Begin` | `Reconcile` of a Sosreport that is scheduled and not finished (117-152) |
| `ReadGlobal`, `ReadDevelopment` | `setGlobal...`, `setDevelopmentSosreportReconcilerConfiguration`: into *fields* of the reconciler that all Sosreports share |
| `ReadUpload`, `ReadDebug`, `ReadSecret` | `getEnvConfigurationFromConfigMapAndSecret`: into the environment of the Jobs |
| `CreatePvc`, `CreateJob` | the loop of `runSosreportJobs` with the names of `jobForSosreport`: a name that is taken is a Create that fails |
| `NoTemplate` | `jobFromTemplate` fails: the node is skipped |
| `Panic` | a slice with a negative bound, `resource.MustParse` of what is no quantity |
| `EndLoop` | started nodes are taken off the list to run |
| `Crash`, `Tick`, `Edit` | the process ends; the second of the names moves on; an admin changes an object |

`Entrypoint` has one action per command of `entrypoint.sh` and of the
`upload_to_*.sh` scripts; each command may fail, and what follows is decided by
bash's rules: without `-e`, only a test or the last command counts.  `JobLife`
joins the two: `StartPod` runs the script of a Job with the environment the Job
was made with, `PodEnds` and `PodLost` apply the backoff limit, a done Job makes
room for the next.

## 3 Abstractions and bounds

* *Reads up to the first write are one step.*  They read caches only, and these
  lag arbitrarily already.
* *Watches deliver versions of one Sosreport in order*, Job events in any order.
* *A crash and the restart are one step.*  What others do while no controller
  runs equals their doing it just before; one replica, no leader election.  The
  restarted informers list the current versions before the first request: that
  list is assumed to come from the store, and not from a watch cache of the API
  server that is behind.
* *Events may be spurious* (`JobEvent`, `Resync` at any time), so that safety
  covers every kind of wake-up.
* *Dependents of a deleted Sosreport are deleted one at a time*, Jobs and PVCs in
  any order.  A Job that is deleted disappears from the cache with its deletion:
  a lagging cache would show Jobs of a UID that is not reconciled any more, or,
  if a user has deleted the Job, show it as it was just before.
* *Annotations and status are sets of nodes*; the order of the status slices,
  which is that of a Go map, matters only because it makes an unchanged status
  be written again: the fault `churn`.
* *Names of Jobs and PVCs are an id that is never reused* (`clock`) in the first
  group.  Two Creates of the same name in one second are a rejected Create
  there; `JobSetup` makes the names.
* *Configuration is the concurrency only* in the first group; `Selected` and
  `Tolerated` are the sets that the node selector and the tolerations denote.
  `JobSetup` reads the configuration and evaluates the tolerations.
* *The lists are one set in the second group*: `toRun`.  The running list is
  derived (`Running`), and both survive a crash but for the nodes that the loop
  under way has started, as the annotations do in the first group.
* *A container runs while no Reconcile is under way, and by itself.*  The script
  reads nothing but its Job's environment, which never changes, and a Reconcile
  reads nothing of it but the end of its Job.  So moving its commands past those
  of others changes no outcome.
* *The second of a name moves on (`Tick`) only when a name to be made is taken.*
  Otherwise seconds cannot be told apart.
* *Strings*: values of ConfigMaps are model values or short strings; a value of
  the Secret is a line with the newlines around it (`Trim`); names are sequences
  of characters, because their lengths and where they run into each other matter.
* *Of the archive on the PV* only the one of the current attempt is kept, as
  missing, part or whole.

**Bounds.** `MaxFaults` bounds each kind of fault and the user's edits
(`budget`), which also bounds resourceVersions and `clock`.  Without faults the
state space is finite by itself.  `TwoFaults` (a CONSTRAINT of the runs
`faults` and `stable`) allows any two of the many kinds in a behaviour; each
disagreement among the first four of section 6 needs at most two.  Two nodes are what the limit, the
order of the loop and "one done, one not" need; with one node the fault-heavy
runs can afford more kinds of fault.  Two Sosreports are what mixing up UIDs or
sharing the worker needs.

In the second group `MaxFaults` is one counter for all: a Get or Create that
fails, a pod that is lost, a crash, an edit.  One of them is enough because the
script's own failures and names that are taken need none.  `BackoffLimit` is 1
where the template leaves Kubernetes' default of 6: one attempt that is
repeated, one that is the last.  `NameLimit` is 25 where Kubernetes has 63, so
that names of one and three characters leave room for 4 and 2 characters of the
node's name, and `wrk-1` and `wrk-2` are cut to the same name.  The two
Sosreports, `s` and `s-t`, live in different namespaces, so that names of one
which run into those of the other do not meet in `MCJobLife`; that case, and
every other limit, is covered by the theorems `OwnVolume` and `NamesAreShort` of
section 7 only.

Three more cases lie outside these bounds and are covered by theorems only: a
limit below the number of running Jobs while a node still waits, which needs
three nodes (`StartsWithinLimit`); Finished against the live Jobs of another
Sosreport, or of a deleted one of the same name (`FinishedIsIdle`).

## 4 Fairness

`Fairness` assumes: a `Reconcile` that has begun goes on (`WF(Busy)`; API calls
return); a queued name is handled (`SF(Handled(n))`; the workqueue is first in,
first out, and a busy worker disables the action, so weak fairness would not
say it); a stored version is delivered; Jobs end (Job controller and the
scripts); a Job's done event arrives; the garbage collector runs.  Faults,
users and spurious events are never fair.  `EventSpec` stops there: progress
must come from events.  `ResyncSpec` adds the periodic resync of the informers
(every ten hours, the default that `main.go` does not change).  It is used
where the code needs it: after a lost write or Create, and for a Sosreport
that no node matches (run `resync`).

`FairLifeSpec` assumes the same of the second group: a `Reconcile` and a script
that have begun go on (a command that hangs is a hazard no property covers), each
Sosreport that has nodes left is reconciled again (by an event or the resync),
time passes, and pods are started.  Faults are not fair; nor is it fair that a
Create succeeds: it fails only when a fault is spent or the name is taken.

## 5 What each run shows

*States* are distinct states.  `job_life` uses `MCJobLife`, the others
`MCSosreportOperator`.

| Run | Instance | Properties | States |
|---|---|---|---|
| `faults` | 1 Sosreport, 1 node, concurrency 2, any two of crash, fail, lostUpdate, lostCreate, listFail, listJobsFail, touch | `TypeOK`, `VersionInv`, `RestartInv`, `RunningHasJob`, `FinishedStable`, `NoJobAfterFinished` | 354 000 |
| `stable` | 2 nodes, concurrency 1 or 2 and reconfigured, any two of fail, touch, deleteJob, configure, churn | `OneJobPerNode`, `FinishedMeansIdle`, `StartWithinLimit`, `ListsInv`, `ImplementsCollection` | 704 000 |
| `events` | 2 nodes, a crash, `EventSpec` | `FinishedCoversNodes`, `NoNodeForgotten`, `CoverInv`, `EventuallyFinished` | 108 000 |
| `resync` | 1 node or none; crash, fail, listFail, listJobsFail; `ResyncSpec` | `EventuallyFinished` | 279 000 |
| `recreate` | one name, two UIDs, a deletion at any point, `EventSpec` | `FinishedCoversNodes`, `RunningShowsInProgress`, `ProgressInv`, `ImplementsCollection`, `DeletedIsReclaimed` | 124 000 |
| `two` | 2 Sosreports on one node | `RunningShowsInProgress`, `FinishedCoversNodes` | 323 000 |
| `job_life` | 2 Sosreports in 2 namespaces with different settings, 3 nodes, one fault or edit, `FairLifeSpec` | `MountsItsOwn`, `NamesFit`, `PodsSchedulable`, `NoNodeSkipped`, `SettingsCurrent`, `CompleteMeans`, `EverythingCollected` | 331 000 |

* `FinishedStable`: Reconciles that were under way, that read a stale cache or
  that run after a restart never change a Sosreport that is stored as finished.
* `NoJobAfterFinished`: nor do they start a Job for it.
* `RestartInv`: no version of a finished Sosreport that is stored, on its way or
  cached leads to another Job, whichever of them a restarted process reads.
* `FinishedCoversNodes`: Finished means that a Job has ended on each eligible node.
* `FinishedMeansIdle`: Finished means that no Job is running any more.
* `OneJobPerNode`, `StartWithinLimit`: no duplicate Jobs, no start above the
  limit, although caches are stale and the limit may be lowered while Jobs run.
* `RunningShowsInProgress`: while a Job runs, the stored status says so.
* `ProgressInv`: why, although the write that says so is made once and never
  repeated: the two writes of the scheduling are made from the stored version,
  and from then on a Sosreport with nodes on its lists is stored as in progress.
* `RunningHasJob`: what memory, the annotations of any version, or a `Reconcile`
  under way show as running has a Job.  So a node whose Create failed, or whose
  list is loaded from an old annotation, is not left out as if it had one.
* `NoNodeForgotten`: of an unfinished Sosreport, each node has a Job or is on the
  list to run that a Reconcile uses which reads any of the versions that the
  cache shows or may still show.  That list is the one in memory, or, where a
  crash has left none, the one in that version's annotation; only a version that
  is going to be scheduled (`NotYetRunning`) gets all nodes again.
* `CoverInv`: nor does a crash lose one before its Job has *ended*: memory, the
  annotations of each version that a restart may load, and the Jobs that have ended account for all of them.
* `ImplementsCollection`: section 2; `stable` checks it with failures, deleted
  Jobs and a changing limit, `recreate` with deleted and re-created Sosreports.
* `EventuallyFinished`, `DeletedIsReclaimed`: see the fairness above.
* `SettingsCurrent`: a PVC and its Job are made from settings that were stored in
  the Sosreport's own namespace during this very call (or could not be read),
  although they pass through fields that the previous call for another
  namespace has filled.  The fields and the environment are each made from one
  version of an object; the two may be of different versions of the development
  ConfigMap, which is read again for the environment (325, 386).
* `MountsItsOwn`: the PVC that a Job mounts by name is its own, although short
  names coincide and a restart forgets what was created.
* `PodsSchedulable`: the nested loop of `tolerates` agrees with the scheduler's
  rule, so that no Job waits for ever on a taint.
* `NoNodeSkipped`: a node is off the list to run only if it has a Job; failed
  Creates, taken names, template errors and crashes leave it on the list.
* `CompleteMeans`: what can be relied on when a Job is Complete: with `ftp`, that
  an archive was sent; with `nfs` and `case` only that the settings were there.
* `EverythingCollected`: a Job ends on every node, although names are taken for a
  second, Creates fail and pods are lost; unless the process panics.

`recreate` switches the deadlock check off: when both Sosreports are created
and deleted and their dependents are gone, there is nothing left to do.  In the
other runs the resync of an existing Sosreport is always possible.  `job_life`
and `masked_failure` switch it off because everything ends with the last Job.

`FinishedCoversNodes` is not checked with failing Lists or with writes that are
rejected before a crash, nor `FinishedMeansIdle` with crashes, because the code
violates them there (section 6).  `ImplementsCollection` excludes crashes, lost
responses to Creates and failing Lists for the same reason.  `EveryPvcHasJob`
speaks of existing Sosreports between two Creates; only `orphan_pvc` checks it.

## 6 Where the code disagrees with its documentation

Five runs expect a violation; `PROJECT.json` (*findings*) quotes the text.

| Run | Property | What happens |
|---|---|---|
| `finished_restart` | `FinishedMeansIdle` | a crash after a Create (749) and before the annotation write (788) runs the node's Job twice; the first of the two to end takes the node off the list: finished while the other runs |
| `list_fails` | `FinishedCoversNodes` | `List` of nodes fails after line 157: the retry finds no list and concludes "finished" without a Job |
| `orphan_pvc` | `EveryPvcHasJob` | the Job's Create fails after the PVC's: the PVC stays |
| `lost_in_progress` | `RunningShowsInProgress` | the status write of the scheduling conflicts and is dropped for good |
| `masked_failure` | `CompleteIsStored` | the script hides the failure of `sosreport` behind `tee` and does not look at `mv`: the Job is Complete, its node counts as collected, and its volume holds no archive, or part of one |

Three relatives have no run of their own.  The crash of `finished_restart` also
makes more Jobs run than the concurrency.

The same happens without a crash from outside, after a single failure of the
`List` of Jobs (485) alone.  Its error is logged and the loop goes on (174-177).  If the
cache still shows the `Sosreport` as it was before the scheduling, nothing has
made the map of its annotations, which `dequeueSosreportJobsDone` does only after
the `List` (542), and line 777 assigns to a nil map: the process panics after it
has created Jobs that no list names, and the restarted one creates them again.
With `MaxFaults` allowing one `listJobsFail`, TLC finds violations of `OneJobPerNode`,
`StartWithinLimit`, `FinishedMeansIdle` and `RunningShowsInProgress`.  The theorem
`PanicNeedsListFailure` says that nothing else leads to this panic.

And when the annotation write of the
scheduling (650) fails, the status write (166) does not, and the process
restarts, the list is lost and the Sosreport is finished without any Job, as in
`list_fails`: with `MaxFaults` allowing one `fail` and one `crash`, TLC finds
that violation of `FinishedCoversNodes` within seconds.

Four smaller ones are about texts only and have no run: the comment at
`sosreport_controller.go:659` says that a Sosreport is done if "either list does not
exist or [...] either list is empty", while the code below asks it of both (with
"either", TLC finds `FinishedCoversNodes` violated); `USERGUIDE.md:388-400`
shows the development keys in the ConfigMap `sosreport-global-configuration`,
while the code reads them from `sosreport-development-configuration`; the
`log-level` key of `USERGUIDE.md:360-380` is read by nobody (`debug` sets it); the comment at
`sosreport_controller.go:815` cuts the node's name at 48 characters, the code at
43 less the length of the Sosreport's name.

## 7 What is proved

For all names, UIDs, nodes, settings and budgets.  The theorems of the first
group assume `KubeApiAssumption` and `ReconcilerAssumption`, those of the second
`SetupAssumption` and `ObjectsAssumption`, which TLC evaluates for the instances.

* `SosreportOperatorProofs`: `TypeCorrect`, then `VersionsCoherent` and
  `FinishedIsFinal`.  `FinishedStable` is not inductive: it needs to know that a
  copy which could still be written is not finished.  `VersionInv` says so: all
  that caches, watches and Reconcile's copy hold is the stored version or has a
  smaller resourceVersion, and the copy of a Reconcile under way is not
  finished (the guard at line 139).  So a write for a finished Sosreport
  carries an old resourceVersion, and conflicts.
* `SosreportRestartProofs`: `RestartsAreSafe` and, from it,
  `NothingAfterFinished`, with crashes and all other faults.  Memory may be lost
  at any time and is loaded again from whatever version the cache then holds, so
  `RestartInv` speaks of all versions of a Sosreport at once.  In progress is
  never taken back from one version to a later one but by Finished
  (`ProgressKept`).  While the list to run is not in memory, all versions carry
  the same one (`SameList`): a version can only be written after its list was
  loaded.  And for each unfinished version of a finished Sosreport, `Reconcile` does
  not schedule it, and finds nothing to run (`FinishedKnown`).  `CopyBegun` and
  `LoopQuiet` say what a `Reconcile` under way has read of this.
* `SosreportCoverProofs`, with any number of crashes, conflicts, lost responses,
  edits, and Sosreports deleted and created again: `RestartsLoseNothing`, and
  from it `FinishedCoversAfterRestart`.  It assumes `MaxFaults["fail"] = 0` and
  `MaxFaults["listFail"] = 0`, without which section 6 has counterexamples, and
  `MaxFaults["deleteJob"] = 0`: a Job that a user deletes takes along what the
  property asks for.  `CoverInv` says that each node of a Sosreport is on a list
  in memory, if there is memory of it (`MemoryCovers`), and in the annotations of
  every version that is in progress (`VersionsCover`), or else a Job has ended on
  it.  Old annotations may name nodes that have been taken off the running list
  since, but only because their Jobs have ended, and until that list is loaded
  all versions agree on it (`RunningKnown`); so a conflicting write may be dropped,
  and loading after a restart may go back to a version that is behind.
  `CopyCovers` says the same of what a `Reconcile` under way will write, step by
  step.  Unlike `ListsInv`, this tolerates a second Job on a node.

  The same module proves `MemoryStaysWhole` and from it `FinishedCoversAll`, for
  the other half of the faults: without crashes and failing Lists of Jobs, writes *may* be
  rejected.
  Annotations may then lack nodes, but nobody loads them; `AliveInv` says that
  memory alone accounts for every node of a Sosreport on the `runList`, and that
  no version is in progress whose Sosreport is not on it, so that the process
  never takes a list from an annotation where it has none itself.  The two
  theorems together leave out what has a counterexample: a crash *and* a
  rejected write, a failing List of nodes, and deleted Jobs; and a panic after a
  rejected write, which is a crash as well.
* `SosreportListsProofs`, with the additional assumption that no crash, no lost
  response to a Create and no failing List of Jobs happens (`MaxFaults["crash"]`,
  `MaxFaults["lostCreate"]` and `MaxFaults["listJobsFail"]` are 0; `finished_restart`
  and the panic of section 6 are counterexamples without it): `ListsCorrect`, and
  from it `NoDuplicateJob`, `FinishedIsIdle` and `StartsWithinLimit`.  The inductive
  invariant `ListsInv` says that memory is never behind what versions show
  (`StoredAgree`), that the list to run, the running list and the nodes started in
  the loop under way account for all Jobs (`JobsListed`), that the loop visits
  nodes of the list only (`LoopInv`), and that a finished Sosreport's lists are
  empty and remain so (`FinishedListsEmpty`).

  That a failing List is all that can lead to the panic at line 777 is
  `PanicNeedsListFailure`: as long as no List of Jobs fails, the copy that enters
  the loop has a running list in its annotations (`CopyHasList`), because
  `dequeueSosreportJobsDone` puts it there and `update()` leaves it there whether or
  not its write is stored.
* `SosreportRefinementProofs`, if moreover no List of nodes fails either (else
  `list_fails` is a counterexample): `Refines`, that is
  `Spec => ImplementsCollection`.  Each action maps to a step of
  `SosreportCollection` or leaves its variables alone; the invariants used are
  those above and `UidsGiven`, that a UID is given once and to one name.

  The same module proves `ListedNodesHaveJobs`, that is `RunningHasJob` under all
  faults but deleted Jobs: each step either takes what it shows from memory, a
  version or the copy, where it was shown before (`Inherits`, `ShownByVersions`),
  or is the loop, which adds a node when its Job is there.  With `CoverInv` it
  gives `NothingForgottenAfterRestart`, under the assumptions of
  `RestartsLoseNothing`: of each version that a Reconcile may read, what its list to
  run lacks is on a running list, of memory or of that version, or done, and has
  its Job.  Where memory has lost the list, every version that is in progress
  accounts for the nodes by its own annotations.
  `NothingForgotten` is the same `Spec => []NoNodeForgotten` from `AliveInv`, under
  the assumptions of `FinishedCoversAll`.
* `SosreportProgressProofs`: `ProgressIsShown` and `RunningIsShown`, that is
  `Spec => []RunningShowsInProgress`.  Nobody writes to a Sosreport before it is on
  the `runList`, so that all the cache can show of it is the stored version
  (`Untouched`); the copy made of it stays current through both writes of the
  scheduling (`SchedulingCurrent`); and no Job is made before them.  Six faults
  are assumed away: `crash`, `listJobsFail`, `fail`, `lostCreate`, `lostUpdate` and `touch`.
  With any
  one of them alone, allowed once, TLC finds a violation of
  `RunningShowsInProgress`; `lost_in_progress` is the one of
  `touch`.  Failing Lists of nodes, deleted Jobs and Sosreports, reconfiguration and
  rewritten statuses are allowed.
* `NodeSelectionProofs`: `ToleratesMeaning`, that the nested loop of `tolerates`
  (lines 585-609), which is left by `break` and `return`, accepts a node if and only
  if each taint is tolerated by one of the tolerations; and
  `ToleratedIsSchedulable`.  The loop is a recursive function on the indices;
  in place of an induction the proof looks at the last index at which the loop
  would be wrong (`LeastNumber`, from `WFMin` of the library).
* `JobLifeProofs`, without any restriction of faults, crashes included:
  * `OwnVolume` and `NamesAreShort`, from `NamesInv`: names of PVCs are unique, a
    Job that is made next has its PVC, and what is left of a node's name after
    cutting fits (`PrefixLength`, the arithmetic of lines 815-825).
  * `SettingsAreCurrent`, from `SettingsInv`: at each stage of reading, the fields
    that have been overwritten in this call, and the environment so far, come
    from the contents recorded in `during`; what has not been overwritten yet is
    not used by any Create, because the loop comes last.
  * `WhatCompleteTells`, from `ScriptInv`: what is known at each command of the
    script of what was sent, and of the settings that led to it.
  * `PodsCanRun`, from `ToleratedIsSchedulable`, and `NothingSkipped`, both from
    `NodesInv`: a call creates PVCs and Jobs for eligible nodes of its own
    Sosreport only, and a node counts as started only when its Job is there.

Only model-checked: liveness (`EventuallyFinished`, `DeletedIsReclaimed`,
`EverythingCollected`), which is out of the prover's reach.  Every safety property
and the refinement that a passing run checks is also a theorem, with the faults
named above excluded where the code has a counterexample.

## 8 Not modelled

* Text of logs and events; the log level; metrics; generated code.
* Deployment, RBAC, bundle, build files and test environments: no behaviour of
  their own.  `config/manager` turns leader election on with one replica; two
  managers at a time are not modelled.
* What `sosreport`, `mount`, `lftp` and `redhat-support-tool` do, but that they may
  fail; a command that hangs.
* Nodes, taints or tolerations that change after the list of nodes was made (it
  is made once, at the scheduling), and users who edit the annotations.
* Jobs of other owners in the namespace: `objectGetController` reads a pointer
  that may be nil in their owner references.
* A concurrency of 0 or less, with which nothing is started.
* Memory of finished or deleted Sosreports, which is never freed.

Changing taints, other owners, a limit of 0 and the memory are listed as hazards,
with the reason why no property covers them.

## 9 Open

The plan of the first version (abstract specification and refinement, users who
delete Jobs, node selection, names, configuration, scripts) is done.  What would
add most next:

1. Two managers, while the leader's lease changes hands.
2. Nodes and taints that change between the scheduling and the start of a Job.

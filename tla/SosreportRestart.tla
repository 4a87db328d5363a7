--------------------------- MODULE SosreportRestart ---------------------------
(***************************************************************************)
(* Why restarts are harmless: a finished Sosreport does not start over,    *)
(* and one that is not finished loses no node.  ListsInv of                *)
(* SosreportOperator explains the lists in memory as long as the process   *)
(* lives; the invariants here relate all versions of a Sosreport that are  *)
(* stored, on the way to the informer or in its cache to one another and   *)
(* to memory, for memory is loaded from any of them after a restart.       *)
(***************************************************************************)
EXTENDS SosreportOperator

(* The versions under name n that Reconcile may still read or overwrite.   *)
Versions(n) == {api[n], cache[n]} \cup watch[n]

CacheOldest == \A n \in Names : \A v \in watch[n] : cache[n].rv =< v.rv

(* A UID belongs to one name, also in old versions, and has been given.    *)
NamesOfUids ==
    /\ \A n \in Names : \A v \in Versions(n) : v.uid \in created \cup {NoUid}
    /\ \A m, n \in Names : \A v \in Versions(m), w \in Versions(n) :
          v.uid = w.uid => m = n \/ v.uid = NoUid

(* In progress is not taken back but by Finished.                          *)
ProgressKept ==
    \A n \in Names : \A v, w \in Versions(n) :
        v.uid = w.uid /\ v.uid # NoUid /\ v.rv =< w.rv /\ v.status.inProgress
            => w.status.inProgress \/ w.status.finished

(* A Reconcile that reads v does not schedule its Sosreport ...            *)
Begun(v) == v.uid \in runList \/ v.status.inProgress

(* ... but goes on with these nodes.                                       *)
Left(v) == Members(Loaded(jobToRunList[v.uid], v.ann.toRun))

(* Of a finished Sosreport, no old version leads to another Job.           *)
FinishedKnown ==
    \A n \in Names : \A v \in Versions(n) :
        v.uid \in UIDs /\ IsFinished(n, v.uid) /\ ~v.status.finished
            => Begun(v) /\ Left(v) = {}

(* Before the list to run is loaded, all versions have the same.           *)
SameList ==
    \A n \in Names : \A v, w \in Versions(n) :
        v.uid = w.uid /\ v.uid \in UIDs /\ jobToRunList[v.uid] = Absent
            => Members(v.ann.toRun) = Members(w.ann.toRun)

VersionsInv ==
    /\ CacheOldest /\ NamesOfUids /\ ProgressKept
    /\ FinishedKnown /\ SameList

(* What Reconcile has read is known of all versions of its Sosreport.      *)
CopyBegun ==
    pc # "idle" =>
        /\ s.uid \in created
        /\ \A n \in Names : \A v \in Versions(n) : v.uid = s.uid => n = req
        /\ \A v \in Versions(req) :
              v.uid = s.uid => Begun(v) \/ v.status.finished
        /\ jobToRunList[s.uid] = Absent =>
              \A v \in Versions(req) :
                  v.uid = s.uid => Members(v.ann.toRun) = {}
        /\ jobToRunList[s.uid] = Absent => Members(s.ann.toRun) = {}

(* The loop has nothing to visit for a finished Sosreport.                 *)
LoopQuiet ==
    /\ pc \notin {"run", "dequeueUpdate"} => toVisit = {} /\ inFlight = {}
    /\ pc # "idle" /\ IsFinished(req, s.uid) => toVisit = {} /\ inFlight = {}
    /\ \A j \in inFlight : j.name = req /\ j.owner = s.uid

(* Together they are kept by every step, crashes and lost or rejected      *)
(* writes included: memory that is lost and loaded again from whatever     *)
(* version never makes a finished Sosreport start over.                    *)
RestartInv == VersionsInv /\ CopyBegun /\ LoopQuiet

-----------------------------------------------------------------------------
(* Where the nodes of a Sosreport are.                                     *)
DoneOn(u) == {j.node : j \in {k \in doneJobs : k.owner = u}}

(* The nodes of u are all in X, or one of its Jobs has ended on them.      *)
Covered(u, X) == Eligible(u) \subseteq X \cup DoneOn(u)

InMemory(u)  == Members(jobToRunList[u]) \cup Members(jobRunningList[u])
InVersion(v) == Members(v.ann.toRun) \cup Members(v.ann.running)

(* The controller remembers u: Reconcile does not rely on annotations.     *)
Remembered(u) ==
    u \in runList \/ jobToRunList[u] # Absent \/ jobRunningList[u] # Absent

(* Nothing is remembered of a Sosreport before it exists, and nothing is   *)
(* missing from what is remembered ...                                     *)
MemoryCovers ==
    /\ \A u \in UIDs \ created : ~Remembered(u)
    /\ \A n \in Names : \A u \in UIDs :
          api[n].uid = u /\ Remembered(u) => Covered(u, InMemory(u))

(* ... nor from the annotations of a version that is in progress.          *)
VersionsCover ==
    \A n \in Names : \A v \in Versions(n) :
        v.uid \in UIDs /\ v.uid = api[n].uid /\ v.status.inProgress
            => Covered(v.uid, InVersion(v))

(* An annotation X of running nodes may be old, but what it names is still *)
(* running or done; without a list in memory all versions have the same.   *)
RunningFits(n, u, X) ==
    IF jobRunningList[u] = Absent
    THEN \A v \in Versions(n) : v.uid = u => Members(v.ann.running) = X
    ELSE X \subseteq Members(jobRunningList[u]) \cup DoneOn(u)

RunningKnown ==
    \A n \in Names : \A v \in Versions(n) :
        v.uid \in UIDs /\ v.uid = api[n].uid
            => RunningFits(n, v.uid, Members(v.ann.running))

(* What a Reconcile under way is about to write.                           *)
CopyCovers ==
    pc # "idle" /\ api[req].uid = s.uid =>
        /\ Covered(s.uid, InMemory(s.uid))
        /\ RunningFits(req, s.uid, Members(s.ann.running))
        /\ pc \in {"dequeueUpdate", "run"} /\ jobRunningList[s.uid] = Absent
              => Members(s.ann.running) = {}
        /\ pc \in {"scheduleUpdate", "runUpdate"}
              => Covered(s.uid, InVersion(s))
        /\ pc = "dequeueUpdate" /\ s.status.inProgress
              => Covered(s.uid, InVersion(s))
        /\ pc = "scheduleStatus" /\ IsCurrent(req, s)
              => Covered(s.uid, InVersion(api[req]))

(* Of a finished Sosreport no node is left (FinishedCoversNodes).           *)
FinishedCovers ==
    \A n \in Names : \A u \in UIDs : IsFinished(n, u) => Covered(u, {})

(* If no write is rejected, no List of nodes fails and users delete no     *)
(* Jobs, these are kept by every step, crashes and lost responses          *)
(* included: wherever the lists are loaded from after a restart, they and  *)
(* the Jobs that have ended account for every node.                        *)
StoreCovers ==
    VersionsCover /\ MemoryCovers /\ RunningKnown /\ FinishedCovers

CoverInv == StoreCovers /\ CopyCovers

(* What shows that u runs on a node: memory, the annotation of a version   *)
(* that Reconcile may still load, and its own copy and loop.               *)
ShownRunning(u, node) ==
    \/ node \in Members(jobRunningList[u])
    \/ \E n \in Names : \E v \in Versions(n) :
          v.uid = u /\ node \in Members(v.ann.running)
    \/ pc # "idle" /\ s.uid = u /\ node \in Members(s.ann.running) \cup started

(* No node is taken for one that runs, or has run, without its Job: one    *)
(* whose Create failed, whose process ended in the loop, or whose list was *)
(* loaded from an old annotation, is not left out for that.                *)
RunningHasJob ==
    /\ pc # "run" => started = {}
    /\ \A u \in UIDs \ created : \A node \in Nodes : ~ShownRunning(u, node)
    /\ \A n \in Names : \A u \in UIDs : \A node \in Nodes :
          api[n].uid = u /\ ShownRunning(u, node)
              => \E j \in JobsOf(u) : j.node = node

(* The nodes that a Reconcile which reads v goes over, now or, above the   *)
(* limit, in the end: those on the list to run, in memory or, after a      *)
(* restart, in the annotation of v; all of them if it is going to schedule.*)
NodesLeft(v) == IF Begun(v) THEN Left(v) ELSE Eligible(v.uid)

(* No node is forgotten: whichever version of an existing Sosreport the    *)
(* next Reconcile reads, and whether or not the process that has written   *)
(* it still lives, each node is still to be visited or has a Job.  A list  *)
(* that is moved between memory, annotations and the loop of               *)
(* runSosreportJobs, and loaded again by synchronizeJobRunningCache, loses *)
(* nothing.                                                                *)
NoNodeForgotten ==
    \A n \in Names : \A v \in Versions(n) :
        v.uid \in UIDs /\ v.uid = api[n].uid /\ ~v.status.finished
            => Eligible(v.uid) \subseteq
                   NodesLeft(v) \cup {j.node : j \in JobsOf(v.uid)}

=============================================================================

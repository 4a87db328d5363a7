------------------------- MODULE SosreportCoverProofs -------------------------
(***************************************************************************)
(* A restart loses no node: with any number of crashes, conflicts, lost    *)
(* responses, deletions and edits of Sosreports, a Sosreport is finished   *)
(* only when a Job has ended on each of its nodes.  Rejected writes,       *)
(* failing Lists of nodes and deleted Jobs are ruled out: with a crash and *)
(* a rejected write, or with a failing List, there is a counterexample,    *)
(* and the third removes what the property asks for.  Writes may be        *)
(* rejected where there are no crashes (AliveInv).                         *)
(***************************************************************************)
EXTENDS SosreportRestartProofs, SosreportListsProofs

(* Faults that are not allowed.                                            *)
NoReject ==
    budget["fail"] = 0 /\ budget["listFail"] = 0 /\ budget["deleteJob"] = 0

(* They stay away.                                                         *)
LEMMA NoRejectStep ==
    ASSUME TypeOK, NoReject, [Next]_vars
    PROVE  NoReject'
BY BudgetStep DEF NoReject, FaultKinds

(* So they are not met by any step.                                         *)
LEMMA NothingSpent ==
    ASSUME TypeOK, NoReject
    PROVE  ~Spend("fail") /\ ~Spend("listFail") /\ ~Spend("deleteJob")
BY DEF NoReject, Spend

(* Jobs that have ended remain, but for those of deleted Sosreports.       *)
DoneKept ==
    \A n \in Names : \A u \in UIDs :
        api'[n].uid = u => DoneOn(u) \subseteq DoneOn(u)'

(* No step that only adds ended Jobs loses any.                            *)
LEMMA DoneGrows ==
    ASSUME doneJobs \subseteq doneJobs'
    PROVE  DoneKept
BY DEF DoneKept, DoneOn

-----------------------------------------------------------------------------
(* Some versions are forgotten, Jobs end.                                  *)
LEMMA ForgetCovers ==
    ASSUME StoreCovers, Forgets, DoneKept,
           UNCHANGED <<runList, jobToRunList, jobRunningList, created>>
    PROVE  StoreCovers'
<1>1. \A n \in Names : api'[n] = api[n] /\ \A v \in Versions(n)' : v \in Versions(n)
  BY DEF Forgets
<1>2. \A u \in UIDs : InMemory(u)' = InMemory(u) /\ Remembered(u)' = Remembered(u)
  BY DEF InMemory, Remembered
<1>3. VersionsCover'
  BY <1>1 DEF StoreCovers, VersionsCover, Covered, DoneKept, InVersion
<1>4. MemoryCovers'
  BY <1>1, <1>2 DEF StoreCovers, MemoryCovers, Covered, DoneKept
<1>5. RunningKnown'
  BY <1>1 DEF StoreCovers, RunningKnown, RunningFits, DoneKept
<1>6. FinishedCovers'
  BY <1>1 DEF StoreCovers, FinishedCovers, IsFinished, Covered, DoneKept
<1>7. QED
  BY <1>3, <1>4, <1>5, <1>6 DEF StoreCovers

(* A next version is stored.  What it says of its nodes is right.          *)
LEMMA WriteCovers ==
    ASSUME TypeOK, StoreCovers, NEW n \in Names, NEW v \in Version,
           Writes(n, v), v.uid = api[n].uid,
           UNCHANGED <<jobToRunList, jobRunningList, doneJobs, created>>,
           \A u \in UIDs : Remembered(u)' =>
              \/ Remembered(u)
              \/ u \in created /\ Eligible(u) = {},
           v.status.inProgress /\ v.uid \in UIDs
              => Covered(v.uid, InVersion(v)),
           v.status.finished /\ v.uid \in UIDs => Covered(v.uid, {}),
           v.uid \in UIDs => RunningFits(n, v.uid, Members(v.ann.running))
    PROVE  StoreCovers'
<1>1. /\ api'[n] = v /\ api[n] \in Versions(n)
      /\ \A m \in Names \ {n} : api'[m] = api[m] /\ Versions(m)' = Versions(m)
      /\ \A m \in Names : \A w \in Versions(m)' :
            w \in Versions(m) \/ (m = n /\ w = v)
  BY VersionsWritten, VersionsType
<1>2. \A u : DoneOn(u)' = DoneOn(u) /\ InMemory(u)' = InMemory(u)
  BY DEF DoneOn, InMemory
<1>3. \A m \in Names : api'[m].uid = api[m].uid
  BY <1>1
<1>4. VersionsCover'
  BY <1>1, <1>2, <1>3 DEF StoreCovers, VersionsCover, Covered, InVersion
<1>5. MemoryCovers'
  BY <1>2, <1>3 DEF StoreCovers, MemoryCovers, Covered
<1>6. RunningKnown'
  <2> SUFFICES ASSUME NEW m \in Names, NEW w \in Versions(m)',
                      w.uid \in UIDs, w.uid = api'[m].uid
               PROVE  RunningFits(m, w.uid, Members(w.ann.running))'
    BY DEF RunningKnown
  <2>1. RunningFits(m, w.uid, Members(w.ann.running))
    BY <1>1, <1>3 DEF StoreCovers, RunningKnown
  <2>2. CASE jobRunningList[w.uid] = Absent
    <3>1. \A x \in Versions(m) :
             x.uid = w.uid => Members(x.ann.running) = Members(w.ann.running)
      BY <2>1, <2>2 DEF RunningFits
    <3>2. m = n => Members(v.ann.running) = Members(w.ann.running)
      BY <1>1, <1>3, <2>2, <3>1 DEF RunningFits
    <3>3. \A x \in Versions(m)' :
             x.uid = w.uid => Members(x.ann.running) = Members(w.ann.running)
      BY <1>1, <3>1, <3>2
    <3>4. QED
      BY <2>2, <3>3 DEF RunningFits
  <2>3. CASE jobRunningList[w.uid] # Absent
    BY <1>2, <2>1, <2>3 DEF RunningFits
  <2>4. QED
    BY <2>2, <2>3
<1>7. FinishedCovers'
  BY <1>1, <1>2 DEF StoreCovers, FinishedCovers, IsFinished, Covered
<1>8. QED
  BY <1>4, <1>5, <1>6, <1>7 DEF StoreCovers

(* A Sosreport is created or deleted.                                      *)
LEMMA FreshCovers ==
    ASSUME TypeOK, VersionsInv, StoreCovers, NEW n \in Names,
           NEW u \in UIDs \cup {NoUid}, Writes(n, Fresh(u, api[n].rv + 1)),
           u = NoUid \/ u \notin created, created \subseteq created',
           UNCHANGED <<runList, jobToRunList, jobRunningList, doneJobs>>
    PROVE  StoreCovers'
<1> DEFINE v == Fresh(u, api[n].rv + 1)
<1>0. /\ v \in Version /\ v.uid = u
      /\ ~v.status.finished /\ ~v.status.inProgress
  <2>1. api[n].rv + 1 \in Nat
    BY VersionParts DEF TypeOK, KubeTypeOK
  <2>2. QED
    BY <2>1, FreshIsVersion DEF Fresh, NewStatus
<1> HIDE DEF v
<1>1. /\ api'[n] = v
      /\ \A m \in Names \ {n} : api'[m] = api[m] /\ Versions(m)' = Versions(m)
      /\ \A m \in Names : \A w \in Versions(m)' :
            w \in Versions(m) \/ (m = n /\ w = v)
  BY <1>0, VersionsWritten DEF v
<1>2. /\ \A w : DoneOn(w)' = DoneOn(w) /\ InMemory(w)' = InMemory(w)
      /\ \A w \in UIDs : Remembered(w)' = Remembered(w)
  BY DEF DoneOn, InMemory, Remembered
<1>3. \A m \in Names : \A w \in Versions(m) : w.uid = u => u = NoUid
  BY DEF VersionsInv, NamesOfUids
<1>4. \A m \in Names : \A w \in Versions(m)' :
         w.uid \in UIDs /\ w.uid = api'[m].uid =>
            \/ w = v /\ m = n
            \/ /\ m # n /\ w \in Versions(m) /\ w.uid = api[m].uid
               /\ api'[m] = api[m] /\ Versions(m)' = Versions(m)
  BY <1>0, <1>1, <1>3, KubeApiAssumption
<1>5. VersionsCover'
  BY <1>0, <1>2, <1>4 DEF StoreCovers, VersionsCover, Covered, InVersion
<1>6. MemoryCovers'
  BY <1>0, <1>1, <1>2, KubeApiAssumption
     DEF StoreCovers, MemoryCovers, Covered
<1>7. RunningKnown'
  <2> SUFFICES ASSUME NEW m \in Names, NEW w \in Versions(m)',
                      w.uid \in UIDs, w.uid = api'[m].uid
               PROVE  RunningFits(m, w.uid, Members(w.ann.running))'
    BY DEF RunningKnown
  <2>1. CASE w = v /\ m = n
    <3>1. u \in UIDs /\ u \notin created
      BY <1>0, <2>1, KubeApiAssumption
    <3>2. jobRunningList[u] = Absent
      BY <3>1 DEF StoreCovers, MemoryCovers, Remembered
    <3>3. \A x \in Versions(m)' : x.uid = u => x = v
      BY <1>1, <1>3, <3>1, KubeApiAssumption
    <3>4. QED
      BY <1>0, <2>1, <3>2, <3>3 DEF RunningFits
  <2>2. CASE m # n
    <3>1. RunningFits(m, w.uid, Members(w.ann.running))
      BY <1>4, <2>2 DEF StoreCovers, RunningKnown
    <3>2. QED
      BY <1>1, <1>2, <2>2, <3>1 DEF RunningFits
  <2>3. QED
    BY <1>4, <2>1, <2>2
<1>8. FinishedCovers'
  BY <1>0, <1>1, <1>2 DEF StoreCovers, FinishedCovers, IsFinished, Covered
<1>9. QED
  BY <1>5, <1>6, <1>7, <1>8 DEF StoreCovers

(* The lists of u become t and r, which account for its nodes, and for the *)
(* running nodes in the annotations that a version of it has.              *)
ListSet(n, u, t, r) ==
    /\ jobToRunList'   = [jobToRunList   EXCEPT ![u] = t]
    /\ jobRunningList' = [jobRunningList EXCEPT ![u] = r]
    /\ runList' \subseteq runList \cup {u}
    /\ UNCHANGED <<api, watch, cache, doneJobs, created>>
    /\ api[n].uid = u => Covered(u, Members(t) \cup Members(r))
    /\ r = Absent => jobRunningList[u] = Absent
    /\ r # Absent => \A v \in Versions(n) :
          v.uid = u /\ api[n].uid = u
             => Members(v.ann.running) \subseteq Members(r) \cup DoneOn(u)

(* The lists of u are set, loaded or moved, while no version changes.      *)
LEMMA ListCovers ==
    ASSUME TypeOK, StoreCovers, NEW n \in Names, NEW u \in UIDs, u \in created,
           \A m \in Names : api[m].uid = u => m = n,
           NEW t, NEW r, ListSet(n, u, t, r)
    PROVE  StoreCovers'
<1>1. \A m \in Names : Versions(m)' = Versions(m) /\ api'[m] = api[m]
  BY DEF Versions, ListSet
<1>2. /\ \A w \in UIDs : jobToRunList'[w] = IF w = u THEN t ELSE jobToRunList[w]
      /\ \A w \in UIDs : jobRunningList'[w] = IF w = u THEN r ELSE jobRunningList[w]
  BY DEF TypeOK, ReconcilerTypeOK, ListSet
<1>3. \A w : DoneOn(w)' = DoneOn(w)
  BY DEF DoneOn, ListSet
<1>4. VersionsCover'
  BY <1>1, <1>3 DEF StoreCovers, VersionsCover, Covered, InVersion
<1>8. FinishedCovers'
  BY <1>1, <1>3 DEF StoreCovers, FinishedCovers, IsFinished, Covered
<1>5. MemoryCovers'
  <2>1. InMemory(u)' = Members(t) \cup Members(r)
    BY <1>2 DEF InMemory
  <2>2. \A w \in UIDs \ {u} : /\ InMemory(w)' = InMemory(w)
                              /\ Remembered(w)' => Remembered(w)
    BY <1>2 DEF InMemory, Remembered, ListSet
  <2>3. \A w \in UIDs \ created' : ~Remembered(w)'
    BY <2>2 DEF StoreCovers, MemoryCovers, Remembered, ListSet
  <2>4. ASSUME NEW m \in Names, NEW w \in UIDs, api'[m].uid = w, Remembered(w)'
        PROVE  Covered(w, InMemory(w))'
    <3>1. CASE w = u
      <4>1. m = n /\ api[n].uid = u
        BY <1>1, <2>4, <3>1
      <4>2. QED
        BY <1>3, <2>1, <3>1, <4>1 DEF Covered, ListSet
    <3>2. CASE w # u
      BY <1>1, <1>3, <2>2, <2>4, <3>2 DEF StoreCovers, MemoryCovers, Covered
    <3>3. QED
      BY <3>1, <3>2
  <2>5. QED
    BY <2>3, <2>4 DEF MemoryCovers
<1>6. RunningKnown'
  <2> SUFFICES ASSUME NEW m \in Names, NEW w \in Versions(m),
                      w.uid \in UIDs, w.uid = api[m].uid
               PROVE  RunningFits(m, w.uid, Members(w.ann.running))'
    BY <1>1 DEF RunningKnown
  <2>1. RunningFits(m, w.uid, Members(w.ann.running))
    BY DEF StoreCovers, RunningKnown
  <2>2. CASE w.uid = u /\ r # Absent
    BY <1>2, <1>3, <2>2 DEF RunningFits, ListSet
  <2>3. CASE w.uid # u \/ r = Absent
    <3>1. jobRunningList'[w.uid] = jobRunningList[w.uid]
      BY <1>2, <2>3 DEF ListSet
    <3>2. QED
      BY <1>1, <1>3, <2>1, <3>1 DEF RunningFits
  <2>4. QED
    BY <2>2, <2>3
<1>7. QED
  BY <1>4, <1>5, <1>6, <1>8 DEF StoreCovers

-----------------------------------------------------------------------------
(* What has to be known of the copy of a Reconcile that goes on.           *)
LEMMA CopyIntro ==
    ASSUME NEW n \in Names, NEW u \in UIDs, req' = n, s'.uid = u,
           api'[n].uid = u =>
              /\ Covered(u, InMemory(u))'
              /\ jobRunningList'[u] = Absent =>
                    \A v \in Versions(n)' :
                       v.uid = u => Members(v.ann.running) = Members(s'.ann.running)
              /\ jobRunningList'[u] # Absent =>
                    Members(s'.ann.running)
                       \subseteq Members(jobRunningList'[u]) \cup DoneOn(u)'
              /\ pc' \in {"dequeueUpdate", "run"} /\ jobRunningList'[u] = Absent
                 => Members(s'.ann.running) = {}
              /\ \/ pc' \in {"scheduleUpdate", "runUpdate"}
                 \/ pc' = "dequeueUpdate" /\ s'.status.inProgress
                 => Eligible(u) \subseteq Members(s'.ann.toRun)
                                  \cup Members(s'.ann.running) \cup DoneOn(u)'
              /\ pc' = "scheduleStatus" /\ s'.rv = api'[n].rv =>
                    Eligible(u) \subseteq InVersion(api'[n]) \cup DoneOn(u)'
    PROVE  CopyCovers'
BY DEF CopyCovers, Covered, RunningFits, InVersion, InMemory, DoneOn, IsCurrent

(* The copy while others move.                                             *)
LEMMA CopyStays ==
    ASSUME TypeOK, CopyCovers, DoneKept,
           UNCHANGED <<pc, req, s, jobToRunList, jobRunningList>>,
           pc # "idle" /\ api'[req].uid = s.uid =>
              /\ api[req].uid = s.uid
              /\ \A w \in Versions(req)' :
                    w.uid = s.uid => \E x \in Versions(req) :
                                        x.uid = w.uid /\ x.ann = w.ann
              /\ s.rv = api'[req].rv => api'[req] = api[req]
    PROVE  CopyCovers'
<1>1. CASE pc = "idle"
  BY <1>1 DEF CopyCovers
<1>2. CASE pc # "idle"
  <2> SUFFICES ASSUME NEW n \in Names, NEW u \in UIDs, n = req, u = s.uid
               PROVE  CopyCovers'
    BY <1>2 DEF TypeOK, ReconcilerTypeOK
  <2>1. req' = n /\ s'.uid = u
    OBVIOUS
  <2>2. ASSUME api'[n].uid = u
        PROVE  /\ DoneOn(u) \subseteq DoneOn(u)' /\ api[n].uid = u
               /\ InMemory(u)' = InMemory(u)
    BY <1>2, <2>1, <2>2 DEF DoneKept, InMemory
  <2>3. api'[n].uid = u =>
           /\ Covered(u, InMemory(u))'
           /\ jobRunningList'[u] = Absent =>
                 \A v \in Versions(n)' :
                    v.uid = u => Members(v.ann.running) = Members(s'.ann.running)
           /\ jobRunningList'[u] # Absent =>
                 Members(s'.ann.running)
                    \subseteq Members(jobRunningList'[u]) \cup DoneOn(u)'
           /\ pc' \in {"dequeueUpdate", "run"} /\ jobRunningList'[u] = Absent
              => Members(s'.ann.running) = {}
    BY <1>2, <2>1, <2>2 DEF CopyCovers, Covered, RunningFits
  <2>4. api'[n].uid = u =>
           /\ \/ pc' \in {"scheduleUpdate", "runUpdate"}
              \/ pc' = "dequeueUpdate" /\ s'.status.inProgress
              => Eligible(u) \subseteq Members(s'.ann.toRun)
                               \cup Members(s'.ann.running) \cup DoneOn(u)'
           /\ pc' = "scheduleStatus" /\ s'.rv = api'[n].rv =>
                 Eligible(u) \subseteq InVersion(api'[n]) \cup DoneOn(u)'
    BY <1>2, <2>1, <2>2 DEF CopyCovers, Covered, InVersion, IsCurrent
  <2>5. QED
    BY <2>1, <2>3, <2>4, CopyIntro
<1>3. QED
  BY <1>1, <1>2

(* A step outside of Reconcile that forgets versions.                      *)
LEMMA ForgetCoverStep ==
    ASSUME TypeOK, CoverInv, Forgets, DoneKept,
           UNCHANGED <<pc, req, s, runList, jobToRunList, jobRunningList, created>>
    PROVE  CoverInv'
<1>1. StoreCovers'
  BY ForgetCovers DEF CoverInv
<1>2. pc # "idle" => req \in Names
  BY DEF TypeOK, ReconcilerTypeOK
<1>3. \A n \in Names : api'[n] = api[n] /\ \A v \in Versions(n)' : v \in Versions(n)
  BY DEF Forgets
<1>4. CopyCovers'
  BY <1>2, <1>3, CopyStays DEF CoverInv
<1>5. QED
  BY <1>1, <1>4 DEF CoverInv

(* A step that changes no version.                                         *)
LEMMA CoverUntouched ==
    ASSUME TypeOK, CoverInv, doneJobs \subseteq doneJobs',
           UNCHANGED <<api, watch, cache, pc, req, s, runList, jobToRunList,
                       jobRunningList, created>>
    PROVE  CoverInv'
<1>1. Forgets
  BY DEF Forgets, Versions
<1>2. QED
  BY <1>1, DoneGrows, ForgetCoverStep

(* Users.                                                                  *)
LEMMA UserCoverStep ==
    ASSUME TypeOK, VersionInv, RestartInv, CoverInv, NoReject, Users
    PROVE  CoverInv'
<1>1. ASSUME NEW n \in Names PROVE api[n] \in Version /\ api[n].rv + 1 \in Nat
  BY VersionParts DEF TypeOK, KubeTypeOK
<1>2. ASSUME NEW n \in Names, NEW u \in UIDs \cup {NoUid},
             Writes(n, Fresh(u, api[n].rv + 1)),
             u = NoUid \/ u \notin created, created \subseteq created',
             UNCHANGED <<pc, req, s, runList, jobToRunList, jobRunningList,
                         doneJobs>>
      PROVE  CoverInv'
  <2> DEFINE v == Fresh(u, api[n].rv + 1)
  <2>1. v \in Version /\ v.uid = u
    BY <1>1, FreshIsVersion DEF Fresh
  <2>2. StoreCovers'
    BY <1>2, FreshCovers DEF RestartInv, CoverInv
  <2> HIDE DEF v
  <2>3. /\ api'[n] = v
        /\ \A m \in Names \ {n} : api'[m] = api[m] /\ Versions(m)' = Versions(m)
    BY <1>2, <2>1, VersionsWritten DEF v
  <2>4. pc # "idle" => s.uid # u /\ req \in Names
    BY <1>2, KubeApiAssumption
       DEF RestartInv, CopyBegun, TypeOK, ReconcilerTypeOK
  <2>5. CopyCovers'
    BY <1>2, <2>1, <2>3, <2>4, CopyStays, DoneGrows DEF CoverInv
  <2>6. QED
    BY <2>2, <2>5 DEF CoverInv
<1>3. ASSUME NEW n \in Names, NEW u \in UIDs, CreateSosreport(n, u)
      PROVE  CoverInv'
  <2>1. /\ Writes(n, Fresh(u, api[n].rv + 1)) /\ u \notin created
        /\ created \subseteq created'
        /\ UNCHANGED <<pc, req, s, runList, jobToRunList, jobRunningList,
                       doneJobs>>
    BY <1>3 DEF CreateSosreport, Writes, Fresh, recVars, childVars
  <2>2. QED
    BY <1>2, <2>1
<1>4. ASSUME NEW n \in Names, DeleteSosreport(n) PROVE CoverInv'
  <2>1. /\ Writes(n, Fresh(NoUid, api[n].rv + 1)) /\ created' = created
        /\ UNCHANGED <<pc, req, s, runList, jobToRunList, jobRunningList,
                       doneJobs>>
    BY <1>4 DEF DeleteSosreport, Writes, Fresh, memVars, localVars, childVars
  <2>2. QED
    BY <1>2, <2>1
<1>5. ASSUME NEW n \in Names, TouchSosreport(n) PROVE CoverInv'
  <2> DEFINE v == [api[n] EXCEPT !.rv = @ + 1]
  <2>1. /\ v \in Version /\ v.rv = api[n].rv + 1 /\ v.uid = api[n].uid
        /\ v.status = api[n].status /\ v.ann = api[n].ann
    BY <1>1 DEF Version
  <2>2. Store(n, v) /\ UNCHANGED <<cache, doneJobs, pc, req, s, runList,
                                  jobToRunList, jobRunningList, created>>
    BY <1>5 DEF TouchSosreport, memVars, localVars, childVars
  <2> HIDE DEF v
  <2>3. Writes(n, v)
    BY <2>1, <2>2 DEF Writes
  <2>4. /\ api'[n] = v /\ api[n] \in Versions(n)
        /\ \A m \in Names \ {n} : api'[m] = api[m]
        /\ \A m \in Names : \A w \in Versions(m)' :
              w \in Versions(m) \/ (m = n /\ w = v)
    BY <2>1, <2>3, VersionsWritten, VersionsType
  <2>5. StoreCovers'
    <3>1. \A u \in UIDs : Remembered(u)' = Remembered(u)
      BY <2>2 DEF Remembered
    <3>2. v.uid \in UIDs => RunningFits(n, v.uid, Members(v.ann.running))
      BY <2>1, <2>4 DEF CoverInv, StoreCovers, RunningKnown
    <3>3. /\ v.status.inProgress /\ v.uid \in UIDs
               => Covered(v.uid, InVersion(v))
          /\ v.status.finished /\ v.uid \in UIDs => Covered(v.uid, {})
      BY <2>1, <2>4 DEF CoverInv, StoreCovers, VersionsCover, FinishedCovers,
                        IsFinished, InVersion
    <3>4. QED
      BY <2>1, <2>2, <2>3, <3>1, <3>2, <3>3, WriteCovers DEF CoverInv
  <2>6. CopyCovers'
    <3>1. pc # "idle" => /\ req \in Names /\ s.rv \in Nat
                         /\ s.rv =< api[req].rv /\ api[req].rv \in Nat
      BY <1>1, VersionParts
         DEF TypeOK, KubeTypeOK, ReconcilerTypeOK, VersionInv, CopyCoherent
    <3>2. pc # "idle" /\ s.rv = api'[req].rv => api'[req] = api[req]
      BY <2>1, <2>4, <3>1
    <3>3. \A m \in Names : \A w \in Versions(m)' :
             \E x \in Versions(m) : x.uid = w.uid /\ x.ann = w.ann
      BY <2>1, <2>4
    <3>4. \A m \in Names : api'[m].uid = api[m].uid
      BY <2>1, <2>4
    <3>5. QED
      BY <2>2, <3>1, <3>2, <3>3, <3>4, CopyStays, DoneGrows DEF CoverInv
  <2>7. QED
    BY <2>5, <2>6 DEF CoverInv
<1>6. ASSUME \E c \in ConcurrencySettings : SetConcurrency(c)
      PROVE  CoverInv'
  BY <1>6, CoverUntouched DEF SetConcurrency, kubeVars, localVars, memVars
<1>7. ~\E j \in jobs : DeleteJob(j)
  BY NothingSpent DEF DeleteJob
<1>8. QED
  BY <1>3, <1>4, <1>5, <1>6, <1>7 DEF Users

(* Informers.                                                              *)
LEMMA InformerCoverStep ==
    ASSUME TypeOK, CoverInv, Informers
    PROVE  CoverInv'
<1>1. ASSUME NEW n \in Names, Deliver(n) PROVE CoverInv'
  <2>1. PICK v \in watch[n] : /\ cache' = [cache EXCEPT ![n] = v]
                              /\ watch' = [watch EXCEPT ![n] = @ \ {v}]
    BY <1>1 DEF Deliver
  <2>2. UNCHANGED <<api, doneJobs, pc, req, s, runList, jobToRunList,
                    jobRunningList, created>>
    BY <1>1 DEF Deliver, memVars, localVars, childVars
  <2>3. Forgets
    BY <2>1, <2>2 DEF Forgets, Versions, TypeOK, KubeTypeOK
  <2>4. QED
    BY <2>2, <2>3, ForgetCoverStep, DoneGrows
<1>2. ASSUME NEW n \in Names, Resync(n) PROVE CoverInv'
  BY <1>2, CoverUntouched DEF Resync, kubeVars, localVars, memVars
<1>3. ASSUME NEW j \in jobs, JobEvent(j) PROVE CoverInv'
  BY <1>3, CoverUntouched DEF JobEvent, localVars, memVars
<1>4. QED
  BY <1>1, <1>2, <1>3 DEF Informers

(* The cluster.  A restart leaves what is stored, and nothing in memory.     *)
LEMMA ClusterCoverStep ==
    ASSUME TypeOK, CoverInv, Cluster
    PROVE  CoverInv'
<1>1. ASSUME NEW j \in jobs, JobCompletes(j) PROVE CoverInv'
  BY <1>1, CoverUntouched DEF JobCompletes, JobFinishes, recVars
<1>2. ASSUME NEW u \in UIDs, GarbageCollect(u) PROVE CoverInv'
  <2>1. /\ \A n \in Names : api[n].uid # u
        /\ doneJobs \ JobsOf(u) \subseteq doneJobs'
        /\ UNCHANGED <<api, watch, cache, pc, req, s, runList, jobToRunList,
                       jobRunningList, created>>
    BY <1>2 DEF GarbageCollect, Collect, RemoveJob, localVars, memVars
  <2>2. DoneKept
    BY <2>1 DEF DoneKept, DoneOn, JobsOf
  <2>3. Forgets
    BY <2>1 DEF Forgets, Versions
  <2>4. QED
    BY <2>1, <2>2, <2>3, ForgetCoverStep
<1>3. CASE Crash \/ Panic
  <2>1. /\ UNCHANGED <<api, created, doneJobs>> /\ cache' = api
        /\ watch' = [n \in Names |-> {}] /\ pc' = "idle"
        /\ runList' = {} /\ jobToRunList' = [u \in UIDs |-> Absent]
        /\ jobRunningList' = [u \in UIDs |-> Absent]
    BY <1>3 DEF Crash, Panic, Restart, Return
  <2>2. \A n \in Names : /\ Versions(n)' = {api[n]} /\ api'[n] = api[n]
                         /\ api[n] \in Versions(n)
    BY <2>1, VersionsType DEF Versions
  <2>3. \A u : DoneOn(u)' = DoneOn(u)
    BY <2>1 DEF DoneOn
  <2>4. VersionsCover'
    BY <2>2, <2>3 DEF CoverInv, StoreCovers, VersionsCover, Covered, InVersion
  <2>5. MemoryCovers'
    BY <2>1 DEF MemoryCovers, Remembered
  <2>6. RunningKnown'
    BY <2>1, <2>2 DEF RunningKnown, RunningFits
  <2>7. FinishedCovers'
    BY <2>2, <2>3 DEF CoverInv, StoreCovers, FinishedCovers, IsFinished, Covered
  <2>8. QED
    BY <2>1, <2>4, <2>5, <2>6, <2>7 DEF CoverInv, StoreCovers, CopyCovers
<1>4. QED
  BY <1>1, <1>2, <1>3 DEF Cluster

-----------------------------------------------------------------------------
(* Without rejected writes, update() fails on conflicts only.              *)
LEMMA AcceptedUpdate ==
    ASSUME TypeOK, NoReject, NEW n \in Names, NEW v \in Version, Update(n, v),
           UNCHANGED cache
    PROVE  \/ UNCHANGED <<api, watch>> /\ s' = v
              /\ (IsCurrent(n, v) => v.ann = api[n].ann)
           \/ /\ IsCurrent(n, v)
              /\ WithAnnotations(n, v) \in Version
              /\ Writes(n, WithAnnotations(n, v))
              /\ s' \in {v, WithAnnotations(n, v)}
<1>1. WithAnnotations(n, v) \in Version
  BY WithAnnotationsIsVersion DEF TypeOK, KubeTypeOK
<1>2. WithAnnotations(n, v).rv = api[n].rv + 1
  BY DEF WithAnnotations
<1>3. ~Spend("fail")
  BY NothingSpent
<1>4. QED
  BY <1>1, <1>2, <1>3 DEF Update, Writes

(* Where nothing changes, the store stays covered.                         *)
LEMMA StoreUntouched ==
    ASSUME StoreCovers, doneJobs \subseteq doneJobs',
           UNCHANGED <<api, watch, cache, runList, jobToRunList,
                       jobRunningList, created>>
    PROVE  StoreCovers'
<1>1. Forgets
  BY DEF Forgets, Versions
<1>2. QED
  BY <1>1, DoneGrows, ForgetCovers

(* The writes of annotations.                                              *)
LEMMA UpdateCoverStep ==
    ASSUME TypeOK, VersionInv, CoverInv, NoReject, UNCHANGED created,
           ScheduleUpdate \/ DequeueUpdate \/ RunUpdate
    PROVE  CoverInv'
<1>1. /\ pc \in {"scheduleUpdate", "dequeueUpdate", "runUpdate"}
      /\ pc' \in {"scheduleStatus", "run", "conclude"}
      /\ pc' = "scheduleStatus" => pc = "scheduleUpdate"
      /\ pc' = "run" => pc = "dequeueUpdate"
      /\ Update(req, s)
      /\ UNCHANGED <<cache, req, doneJobs, runList, jobToRunList,
                     jobRunningList>>
  BY DEF ScheduleUpdate, DequeueUpdate, RunUpdate, memVars, childVars
<1> SUFFICES ASSUME NEW n \in Names, NEW u \in UIDs, n = req, u = s.uid
             PROVE  CoverInv'
  BY <1>1 DEF TypeOK, ReconcilerTypeOK
<1>2. s \in Version /\ StoreCovers /\ CopyCovers
  BY DEF TypeOK, ReconcilerTypeOK, CoverInv
<1>3. \A x : DoneOn(x)' = DoneOn(x) /\ InMemory(x)' = InMemory(x)
  BY <1>1 DEF DoneOn, InMemory
<1>4. api[n].uid = u =>
         /\ Covered(u, InMemory(u))
         /\ RunningFits(n, u, Members(s.ann.running))
         /\ pc = "dequeueUpdate" /\ jobRunningList[u] = Absent
               => Members(s.ann.running) = {}
         /\ pc # "dequeueUpdate" \/ s.status.inProgress
               => Covered(u, InVersion(s))
  BY <1>1, <1>2 DEF CopyCovers
<1>5. ASSUME s'.uid = u, s'.ann = s.ann, api'[n].uid = api[n].uid,
             \A w \in Versions(n)' : w \in Versions(n) \/ w.ann = s.ann,
             api[n].uid = u /\ pc = "scheduleUpdate" /\ s'.rv = api'[n].rv
                => api'[n].ann = s.ann
      PROVE  CopyCovers'
  <2>1. api'[n].uid = u =>
           /\ Covered(u, InMemory(u))'
           /\ jobRunningList'[u] = Absent =>
                 \A v \in Versions(n)' :
                    v.uid = u => Members(v.ann.running) = Members(s'.ann.running)
           /\ jobRunningList'[u] # Absent =>
                 Members(s'.ann.running)
                    \subseteq Members(jobRunningList'[u]) \cup DoneOn(u)'
           /\ pc' \in {"dequeueUpdate", "run"} /\ jobRunningList'[u] = Absent
                 => Members(s'.ann.running) = {}
    BY <1>1, <1>3, <1>4, <1>5 DEF Covered, RunningFits
  <2>2. pc' \notin {"scheduleUpdate", "runUpdate", "dequeueUpdate"}
    BY <1>1
  <2>3. api'[n].uid = u /\ pc' = "scheduleStatus" /\ s'.rv = api'[n].rv =>
           Eligible(u) \subseteq InVersion(api'[n]) \cup DoneOn(u)'
    BY <1>1, <1>3, <1>4, <1>5 DEF Covered, InVersion
  <2>4. QED
    BY <1>1, <1>5, <2>1, <2>2, <2>3, CopyIntro
<1>6. CASE /\ UNCHANGED <<api, watch>> /\ s' = s
           /\ IsCurrent(n, s) => s.ann = api[n].ann
  <2>1. StoreCovers'
    BY <1>1, <1>2, <1>6, StoreUntouched
  <2>2. Versions(n)' = Versions(n)
    BY <1>1, <1>6 DEF Versions
  <2>3. CopyCovers'
    BY <1>5, <1>6, <2>2 DEF IsCurrent
  <2>4. QED
    BY <2>1, <2>3 DEF CoverInv
<1>7. ASSUME IsCurrent(n, s), NEW v \in Version, v = WithAnnotations(n, s),
             Writes(n, v), s' \in {s, v}
      PROVE  CoverInv'
  <2>1. /\ v.uid = u /\ v.uid = api[n].uid /\ v.ann = s.ann
        /\ v.status = s.status /\ ~v.status.finished
    BY <1>1, <1>7 DEF WithAnnotations, IsCurrent, VersionInv, CopyCoherent
  <2>2. /\ api'[n] = v
        /\ \A w \in Versions(n)' : w \in Versions(n) \/ w = v
    BY <1>7, VersionsWritten
  <2>3. \A x \in UIDs : Remembered(x)' = Remembered(x)
    BY <1>1 DEF Remembered
  <2>4. v.status.inProgress => Covered(u, InVersion(v))
    BY <1>1, <1>4, <2>1 DEF InVersion
  <2>5. StoreCovers'
    BY <1>1, <1>2, <1>4, <1>7, <2>1, <2>3, <2>4, WriteCovers
  <2>6. CopyCovers'
    BY <1>5, <1>7, <2>1, <2>2
  <2>7. QED
    BY <2>5, <2>6 DEF CoverInv
<1>8. Update(n, s) /\ UNCHANGED cache
  BY <1>1
<1>9. \/ UNCHANGED <<api, watch>> /\ s' = s
         /\ (IsCurrent(n, s) => s.ann = api[n].ann)
      \/ /\ IsCurrent(n, s)
         /\ WithAnnotations(n, s) \in Version
         /\ Writes(n, WithAnnotations(n, s))
         /\ s' \in {s, WithAnnotations(n, s)}
  BY <1>2, <1>8, AcceptedUpdate
<1>10. QED
  BY <1>6, <1>7, <1>9

(* The writes of the status.                                               *)
LEMMA StatusCoverStep ==
    ASSUME TypeOK, VersionInv, CoverInv, UNCHANGED created,
           ScheduleStatus \/ Conclude
    PROVE  CoverInv'
<1>1. /\ pc \in {"scheduleStatus", "conclude"} /\ pc' = "idle"
      /\ UNCHANGED <<cache, doneJobs, runList, jobToRunList, jobRunningList>>
  BY DEF ScheduleStatus, Conclude, Return, memVars, childVars
<1>2. /\ req \in Names /\ s \in Version /\ s.uid \in UIDs
      /\ StoreCovers /\ CopyCovers /\ s.status.finished = FALSE
      /\ IsCurrent(req, s) => s.uid = api[req].uid /\ s.status = api[req].status
  BY <1>1 DEF TypeOK, ReconcilerTypeOK, CoverInv, VersionInv, CopyCoherent,
              IsCurrent, Version, Status
<1>3. ASSUME NEW v \in Version, v.uid = s.uid, v.rv = s.rv,
             UpdateStatus(req, v) \/ Reordered(req, v),
             v.status.inProgress => s.status.inProgress \/ pc = "scheduleStatus",
             v.status.finished => isSosreportJobsDone(s.uid)
      PROVE  CoverInv'
  <2>1. CASE UNCHANGED <<api, watch>>
    BY <1>1, <1>2, <2>1, StoreUntouched DEF CoverInv, CopyCovers
  <2>2. ASSUME IsCurrent(req, v), NEW x \in Version, x = WithStatus(req, v),
               Writes(req, x)
        PROVE  CoverInv'
    <3>1. /\ x.uid = api[req].uid /\ x.ann = api[req].ann
          /\ x.status = v.status /\ IsCurrent(req, s)
          /\ api[req].status = s.status /\ x.uid = s.uid
          /\ api[req] \in Versions(req)
      BY <1>2, <1>3, <2>2, VersionsType DEF WithStatus, IsCurrent
    <3>2. x.status.inProgress => Covered(x.uid, InVersion(x))
      <4>1. CASE pc = "scheduleStatus"
        BY <1>2, <3>1, <4>1 DEF CopyCovers, InVersion
      <4>2. CASE s.status.inProgress
        BY <1>2, <3>1, <4>2 DEF StoreCovers, VersionsCover, InVersion
      <4>3. QED
        BY <1>3, <3>1, <4>1, <4>2
    <3>3. x.status.finished => Covered(x.uid, {})
      BY <1>1, <1>2, <1>3, <3>1
         DEF CopyCovers, isSosreportJobsDone, InMemory
    <3>4. RunningFits(req, x.uid, Members(x.ann.running))
      BY <1>2, <3>1 DEF StoreCovers, RunningKnown
    <3>5. \A u \in UIDs : Remembered(u)' = Remembered(u)
      BY <1>1 DEF Remembered
    <3>6. StoreCovers'
      BY <1>1, <1>2, <2>2, <3>1, <3>2, <3>3, <3>4, <3>5, WriteCovers
    <3>7. QED
      BY <1>1, <3>6 DEF CoverInv, CopyCovers
  <2>3. QED
    BY <1>1, <1>2, <1>3, <2>1, <2>2, UpdateStatusWrites
<1>4. CASE ScheduleStatus
  <2> DEFINE v == [s EXCEPT !.status.inProgress = TRUE]
  <2>1. /\ v \in Version /\ v.uid = s.uid /\ v.rv = s.rv
        /\ v.status.finished = FALSE
    BY <1>2 DEF Version, Status
  <2>2. UpdateStatus(req, v) /\ pc = "scheduleStatus"
    BY <1>4 DEF ScheduleStatus
  <2> HIDE DEF v
  <2>3. QED
    BY <1>3, <2>1, <2>2
<1>5. CASE Conclude
  <2> DEFINE v == Concluded(s)
             done == isSosreportJobsDone(s.uid)
  <2>1. v \in Version
    BY <1>2, ConcludedIsVersion
  <2>2. /\ v.uid = s.uid /\ v.rv = s.rv
        /\ v.status.finished = (s.status.finished \/ done)
        /\ v.status.inProgress = (s.status.inProgress /\ ~done)
    BY <1>2 DEF Concluded, Version
  <2>3. UpdateStatus(req, v) \/ Reordered(req, v)
    BY <1>5 DEF Conclude
  <2> HIDE DEF v, done
  <2>4. QED
    BY <1>2, <1>3, <2>1, <2>2, <2>3 DEF done
<1>6. QED
  BY <1>4, <1>5

-----------------------------------------------------------------------------
(* Dequeueing takes nodes off a list only if a Job has ended on them.      *)
LEMMA DequeuedFacts ==
    ASSUME TypeOK, NEW u \in UIDs, NEW l \in NodeList
    PROVE  /\ Dequeued(l, u) \in NodeList
           /\ Dequeued(l, u) = Absent <=> l = Absent
           /\ Members(l) \subseteq Members(Dequeued(l, u)) \cup DoneOn(u)
<1>1. DoneNodes(u) \subseteq DoneOn(u)
  BY DEF DoneNodes, DoneOn, TypeOK, KubeTypeOK
<1>2. CASE l \in {Absent, Null}
  BY <1>2 DEF Dequeued
<1>3. CASE l \notin {Absent, Null}
  <2> DEFINE r == l \ DoneNodes(u)
  <2>1. l \in SUBSET Nodes /\ Dequeued(l, u) = r
    BY <1>3 DEF NodeList, Dequeued
  <2>2. r \in SUBSET Nodes
    BY <2>1
  <2>3. Members(l) = l /\ Members(r) = r /\ r # Absent /\ r \in NodeList
    BY <2>1, <2>2, LoadedFacts, NodeListType
  <2>4. l \subseteq r \cup DoneOn(u)
    BY <1>1
  <2> HIDE DEF r
  <2>5. QED
    BY <1>3, <2>1, <2>3, <2>4
<1>4. QED
  BY <1>2, <1>3

(* The first step of Reconcile.                                            *)
LEMMA ReconcileCoverStep ==
    ASSUME TypeOK, VersionInv, RestartInv, CoverInv, NoReject,
           NEW n \in queue, Reconcile(n), UNCHANGED created
    PROVE  CoverInv'
<1>1. CASE ReconcileIgnored(n)
  BY <1>1, CoverUntouched DEF ReconcileIgnored, kubeVars, memVars, localVars
<1>2. ~ScheduleListFails(n)
  BY NothingSpent DEF ScheduleListFails
<1>3. ASSUME Begin(n)
      PROVE  /\ n \in Names /\ cache[n] \in Version /\ cache[n].uid \in UIDs
             /\ ~cache[n].status.finished /\ pc = "idle"
             /\ cache[n] \in Versions(n) /\ cache[n].uid \in created
             /\ \A m \in Names : api[m].uid = cache[n].uid => m = n
             /\ StoreCovers
  <2>1. /\ n \in Names /\ cache[n] \in Version /\ cache[n].uid \in UIDs
        /\ ~cache[n].status.finished /\ pc = "idle"
    BY <1>3, BeginType DEF Begin
  <2>2. cache[n] \in Versions(n) /\ \A m \in Names : api[m] \in Versions(m)
    BY <2>1, VersionsType
  <2>3. QED
    BY <2>1, <2>2, KubeApiAssumption
       DEF RestartInv, VersionsInv, NamesOfUids, CoverInv
<1>4. CASE ScheduleNoNodes(n)
  <2> SUFFICES ASSUME NEW u \in UIDs, u = cache[n].uid PROVE CoverInv'
    BY <1>3, <1>4 DEF ScheduleNoNodes
  <2> DEFINE v == [cache[n] EXCEPT !.status.inProgress = FALSE]
  <2>1. Begin(n) /\ UpdateStatus(n, v)
        /\ Selected[u] = {} /\ runList' = runList \cup {u}
        /\ UNCHANGED <<cache, pc, req, s, jobToRunList, jobRunningList, doneJobs>>
    BY <1>4 DEF ScheduleNoNodes, localVars, childVars
  <2>2. /\ v \in Version /\ v.rv = cache[n].rv /\ v.uid = u
        /\ v.status.finished = FALSE /\ v.status.inProgress = FALSE
    BY <1>3, <2>1 DEF Version, Status
  <2>3. Eligible(u) = {} /\ n \in Names /\ u \in created /\ StoreCovers
    BY <1>3, <2>1 DEF Eligible
  <2> HIDE DEF v
  <2>4. \A w \in UIDs : Remembered(w)' =>
           Remembered(w) \/ (w \in created /\ Eligible(w) = {})
    BY <2>1, <2>3 DEF Remembered
  <2>5. CASE UNCHANGED <<api, watch>>
    <3>1. \A m \in Names : api'[m] = api[m] /\ Versions(m)' = Versions(m)
      BY <2>1, <2>5 DEF Versions
    <3>2. \A w : DoneOn(w)' = DoneOn(w) /\ InMemory(w)' = InMemory(w)
      BY <2>1 DEF DoneOn, InMemory
    <3>3. MemoryCovers'
      BY <2>3, <2>4, <3>1, <3>2 DEF StoreCovers, MemoryCovers, Covered
    <3>4. VersionsCover'
      BY <2>3, <3>1, <3>2 DEF StoreCovers, VersionsCover, Covered, InVersion
    <3>7. RunningKnown'
      BY <2>1, <2>3, <3>1, <3>2 DEF StoreCovers, RunningKnown, RunningFits
    <3>5. FinishedCovers'
      BY <2>3, <3>1, <3>2 DEF StoreCovers, FinishedCovers, IsFinished, Covered
    <3>6. QED
      BY <1>3, <2>1, <3>3, <3>4, <3>5, <3>7
         DEF CoverInv, StoreCovers, CopyCovers
  <2>6. CASE /\ IsCurrent(n, v)
             /\ WithStatus(n, v) \in Version
             /\ Writes(n, WithStatus(n, v))
    <3> DEFINE x == WithStatus(n, v)
    <3>1. /\ x \in Version /\ x.uid = api[n].uid /\ x.ann = api[n].ann
          /\ x.uid = u
          /\ ~x.status.finished /\ ~x.status.inProgress
          /\ api[n] \in Versions(n)
      BY <2>2, <2>3, <2>6, VersionsType DEF WithStatus, IsCurrent
    <3>2. RunningFits(n, u, Members(x.ann.running))
      BY <2>3, <3>1 DEF StoreCovers, RunningKnown
    <3> HIDE DEF x
    <3>3. StoreCovers'
      BY <2>1, <2>3, <2>4, <2>6, <3>1, <3>2, WriteCovers DEF x
    <3>4. QED
      BY <1>3, <2>1, <3>3 DEF CoverInv, CopyCovers
  <2>7. QED
    BY <2>1, <2>2, <2>3, <2>5, <2>6, UpdateStatusWrites
<1>5. CASE Schedule(n)
  <2> SUFFICES ASSUME NEW u \in UIDs, u = cache[n].uid PROVE CoverInv'
    BY <1>3, <1>5 DEF Schedule
  <2>1. /\ Begin(n) /\ runList' = runList \cup {u}
        /\ jobToRunList' = [jobToRunList EXCEPT ![u] = Eligible(u)]
        /\ pc' = "scheduleUpdate" /\ req' = n
        /\ s' = [cache[n] EXCEPT !.ann.toRun = Eligible(u)]
        /\ UNCHANGED <<api, watch, cache, doneJobs, jobRunningList>>
    BY <1>5 DEF Schedule, kubeVars
  <2>2. Eligible(u) \in SUBSET Nodes
    BY ReconcilerAssumption DEF Eligible
  <2>3. Members(Eligible(u)) = Eligible(u)
    BY <2>2, LoadedFacts
  <2>4. /\ s'.uid = u /\ s'.ann.toRun = Eligible(u)
        /\ s'.ann.running = cache[n].ann.running
    BY <1>3, <2>1 DEF Version, Annotations
  <2>5. /\ jobToRunList'[u] = Eligible(u)
        /\ jobRunningList' = [jobRunningList EXCEPT ![u] = jobRunningList[u]]
    BY <2>1 DEF TypeOK, ReconcilerTypeOK
  <2>6. \A w \in Versions(n) : w.uid = u /\ api[n].uid = u
           => RunningFits(n, u, Members(w.ann.running))
    BY <1>3, <2>1 DEF StoreCovers, RunningKnown
  <2>7. Covered(u, Members(Eligible(u)) \cup Members(jobRunningList[u]))
    BY <2>3 DEF Covered
  <2>8. StoreCovers'
    <3>1. PICK t, r : t = Eligible(u) /\ r = jobRunningList[u]
      OBVIOUS
    <3>2. r # Absent => \A w \in Versions(n) : w.uid = u /\ api[n].uid = u
             => Members(w.ann.running) \subseteq Members(r) \cup DoneOn(u)
      BY <2>6, <3>1 DEF RunningFits
    <3>3. /\ StoreCovers /\ n \in Names /\ u \in created
          /\ \A m \in Names : api[m].uid = u => m = n
          /\ runList' \subseteq runList \cup {u}
      BY <1>3, <2>1
    <3>4. /\ jobToRunList'   = [jobToRunList   EXCEPT ![u] = t]
          /\ jobRunningList' = [jobRunningList EXCEPT ![u] = r]
      BY <2>1, <2>5, <3>1
    <3>5. api[n].uid = u => Covered(u, Members(t) \cup Members(r))
      BY <2>7, <3>1
    <3>6. /\ UNCHANGED <<api, watch, cache, doneJobs, created>>
          /\ r = Absent => jobRunningList[u] = Absent
      BY <2>1, <3>1
    <3>7. ListSet(n, u, t, r)
      BY <3>2, <3>3, <3>4, <3>5, <3>6 DEF ListSet
    <3>8. QED
      BY <3>3, <3>7, ListCovers
  <2>9. /\ Versions(n)' = Versions(n) /\ DoneOn(u)' = DoneOn(u)
        /\ Eligible(u) \subseteq InMemory(u)'
    BY <2>1, <2>3, <2>5 DEF Versions, DoneOn, InMemory
  <2>10. api'[n].uid = u =>
            /\ Covered(u, InMemory(u))'
            /\ jobRunningList'[u] = Absent =>
                  \A v \in Versions(n)' :
                     v.uid = u => Members(v.ann.running) = Members(s'.ann.running)
            /\ jobRunningList'[u] # Absent =>
                  Members(s'.ann.running)
                     \subseteq Members(jobRunningList'[u]) \cup DoneOn(u)'
    BY <1>3, <2>1, <2>4, <2>6, <2>9 DEF Covered, RunningFits
  <2>11. n \in Names /\ pc' \notin {"dequeueUpdate", "run", "scheduleStatus"}
    BY <1>3, <2>1
  <2>12. CopyCovers'
    BY <2>1, <2>3, <2>4, <2>10, <2>11, CopyIntro
  <2>13. QED
    BY <2>8, <2>12 DEF CoverInv
<1>6. CASE Continue(n) \/ ContinueListFails(n)
  <2> SUFFICES ASSUME NEW u \in UIDs, u = cache[n].uid PROVE CoverInv'
    BY <1>3, <1>6 DEF Continue, ContinueListFails
  <2> DEFINE t == Loaded(jobToRunList[u], cache[n].ann.toRun)
             l == Loaded(jobRunningList[u], cache[n].ann.running)
             r == IF Continue(n) THEN Dequeued(l, u) ELSE l
  <2>1. /\ Begin(n) /\ ~NotYetRunning(cache[n]) /\ runList' = runList
        /\ jobToRunList'   = [jobToRunList   EXCEPT ![u] = t]
        /\ jobRunningList' = [jobRunningList EXCEPT ![u] = r]
        /\ pc' \in {"run", "dequeueUpdate"} /\ req' = n
        /\ UNCHANGED <<api, watch, cache, doneJobs>>
    BY <1>6 DEF Continue, ContinueListFails, kubeVars
  <2>2. /\ cache[n].ann.toRun \in NodeList /\ cache[n].ann.running \in NodeList
        /\ jobToRunList[u] \in NodeList /\ jobRunningList[u] \in NodeList
    BY <1>3, <2>1, VersionParts DEF TypeOK, ReconcilerTypeOK
  <2>3. /\ s'.uid = u /\ s'.ann.toRun = cache[n].ann.toRun
        /\ s'.status = cache[n].status
        /\ \/ s'.ann.running = Marshal(r)
           \/ /\ s'.ann.running = cache[n].ann.running
              /\ r = l /\ pc' = "run"
    <3>1. CASE Continue(n)
      <4>1. s' = [cache[n] EXCEPT !.ann.running = Marshal(r)]
        BY <3>1 DEF Continue
      <4>2. QED
        BY <1>3, <2>1, <4>1 DEF Version, Annotations
    <3>2. CASE ~Continue(n)
      BY <1>6, <3>2 DEF ContinueListFails
    <3>3. QED
      BY <3>1, <3>2
  <2>4. l = IF jobRunningList[u] = Absent THEN cache[n].ann.running
            ELSE jobRunningList[u]
    BY DEF Loaded
  <2>5. t = IF jobToRunList[u] = Absent THEN cache[n].ann.toRun
            ELSE jobToRunList[u]
    BY DEF Loaded
  <2>6. /\ r \in NodeList /\ (r = Absent <=> l = Absent)
        /\ Members(l) \subseteq Members(r) \cup DoneOn(u)
    BY <2>2, <2>4, DequeuedFacts
  <2>7. Members(Marshal(r)) = Members(r)
    BY <2>6, LoadedFacts
  <2> HIDE DEF t, l, r
  <2>8. ASSUME api[n].uid = u
        PROVE  Covered(u, Members(t) \cup Members(r))
    <3>1. CASE Remembered(u)
      <4>1. Covered(u, InMemory(u))
        BY <1>3, <2>1, <2>8, <3>1 DEF StoreCovers, MemoryCovers
      <4>2. /\ Members(jobToRunList[u]) \subseteq Members(t)
            /\ Members(jobRunningList[u]) \subseteq Members(l)
        BY <2>4, <2>5, LoadedFacts
      <4>3. QED
        BY <2>6, <4>1, <4>2 DEF Covered, InMemory
    <3>2. CASE ~Remembered(u)
      <4>1. cache[n].status.inProgress
        BY <2>1, <3>2 DEF NotYetRunning, Remembered
      <4>2. Covered(u, InVersion(cache[n]))
        BY <1>3, <2>1, <2>8, <4>1 DEF StoreCovers, VersionsCover
      <4>3. t = cache[n].ann.toRun /\ l = cache[n].ann.running
        BY <2>4, <2>5, <3>2 DEF Remembered
      <4>4. QED
        BY <2>6, <4>2, <4>3 DEF Covered, InVersion
    <3>3. QED
      BY <3>1, <3>2
  <2>9. ASSUME api[n].uid = u, NEW v \in Versions(n), v.uid = u
        PROVE  Members(v.ann.running) \subseteq Members(r) \cup DoneOn(u)
    <3>1. RunningFits(n, u, Members(v.ann.running))
      BY <1>3, <2>1, <2>9 DEF StoreCovers, RunningKnown
    <3>2. Members(v.ann.running) \subseteq Members(l) \cup DoneOn(u)
      BY <1>3, <2>1, <2>4, <3>1 DEF RunningFits
    <3>3. QED
      BY <2>6, <3>2
  <2>10. StoreCovers'
    <3>1. r = Absent => jobRunningList[u] = Absent
      BY <2>4, <2>6
    <3>2. ListSet(n, u, t, r)
      BY <2>1, <2>8, <2>9, <3>1 DEF ListSet
    <3>3. QED
      BY <1>3, <2>1, <3>2, ListCovers
  <2>11. /\ Versions(n)' = Versions(n) /\ DoneOn(u)' = DoneOn(u)
         /\ jobToRunList'[u] = t /\ jobRunningList'[u] = r
    BY <2>1 DEF Versions, DoneOn, TypeOK, ReconcilerTypeOK
  <2>12. /\ r = Absent => Members(s'.ann.running) = {}
         /\ pc' = "dequeueUpdate" => Members(s'.ann.running) = Members(r)
         /\ api[n].uid = u =>
               Members(s'.ann.running) \subseteq Members(r) \cup DoneOn(u)
    <3>1. CASE s'.ann.running = Marshal(r)
      BY <2>7, <3>1, LoadedFacts
    <3>2. CASE s'.ann.running = cache[n].ann.running /\ r = l /\ pc' = "run"
      <4>1. r = Absent => cache[n].ann.running = Absent
        BY <2>4, <3>2
      <4>2. QED
        BY <1>3, <2>1, <2>9, <3>2, <4>1, LoadedFacts
    <3>3. QED
      BY <2>3, <3>1, <3>2
  <2>13. api'[n].uid = u =>
            /\ Covered(u, InMemory(u))'
            /\ jobRunningList'[u] = Absent =>
                  \A v \in Versions(n)' :
                     v.uid = u => Members(v.ann.running) = Members(s'.ann.running)
            /\ jobRunningList'[u] # Absent =>
                  Members(s'.ann.running)
                     \subseteq Members(jobRunningList'[u]) \cup DoneOn(u)'
            /\ pc' \in {"dequeueUpdate", "run"} /\ jobRunningList'[u] = Absent
                  => Members(s'.ann.running) = {}
    <3> SUFFICES ASSUME api[n].uid = u
                 PROVE  /\ Covered(u, InMemory(u))'
                        /\ r = Absent => \A v \in Versions(n) :
                              v.uid = u => Members(v.ann.running) = {}
      BY <2>1, <2>11, <2>12
    <3>1. Covered(u, InMemory(u))'
      BY <2>8, <2>11 DEF Covered, InMemory
    <3>2. ASSUME r = Absent, NEW v \in Versions(n), v.uid = u
          PROVE  Members(v.ann.running) = {}
      <4>1. jobRunningList[u] = Absent /\ Members(cache[n].ann.running) = {}
        BY <2>4, <2>6, <3>2, LoadedFacts
      <4>2. QED
        BY <1>3, <2>1, <3>2, <4>1 DEF StoreCovers, RunningKnown, RunningFits
    <3>3. QED
      BY <3>1, <3>2
  <2>14. api'[n].uid = u /\ pc' = "dequeueUpdate" /\ s'.status.inProgress
            => Eligible(u) \subseteq Members(s'.ann.toRun)
                             \cup Members(s'.ann.running) \cup DoneOn(u)'
    <3> SUFFICES ASSUME api[n].uid = u, cache[n].status.inProgress
                 PROVE  Eligible(u) \subseteq Members(cache[n].ann.toRun)
                                       \cup Members(r) \cup DoneOn(u)
      BY <2>1, <2>3, <2>11, <2>12
    <3>1. Covered(u, InVersion(cache[n]))
      BY <1>3, <2>1 DEF StoreCovers, VersionsCover
    <3>2. Members(cache[n].ann.running) \subseteq Members(r) \cup DoneOn(u)
      BY <1>3, <2>1, <2>9
    <3>3. QED
      BY <3>1, <3>2 DEF Covered, InVersion
  <2>15. n \in Names /\ pc' \notin {"scheduleUpdate", "runUpdate", "scheduleStatus"}
    BY <1>3, <2>1
  <2>16. CopyCovers'
    BY <2>1, <2>3, <2>13, <2>14, <2>15, CopyIntro
  <2>17. QED
    BY <2>10, <2>16 DEF CoverInv
<1>7. QED
  BY <1>1, <1>2, <1>4, <1>5, <1>6 DEF Reconcile

(* The loop moves nodes between the lists.                                 *)
LEMMA LoopCoverStep ==
    ASSUME TypeOK, RestartInv, CoverInv, UNCHANGED created, RunSosreportJobs
    PROVE  CoverInv'
<1>1. ASSUME NEW node \in toVisit, CreatePvc(node) PROVE CoverInv'
  BY <1>1, CoverUntouched DEF CreatePvc, memVars
<1>2. ASSUME NEW j \in inFlight, CreateJob(j) PROVE CoverInv'
  BY <1>2, CoverUntouched DEF CreateJob, memVars
<1>3. CASE EndLoop
  <2>1. pc = "run" /\ req \in Names /\ s.uid \in UIDs
    BY <1>3 DEF EndLoop, LoopEnds, TypeOK, ReconcilerTypeOK
  <2> SUFFICES ASSUME NEW n \in Names, NEW u \in UIDs, n = req, u = s.uid
               PROVE  CoverInv'
    BY <2>1
  <2> DEFINE t == IF jobToRunList[u] \in {Absent, Null} THEN jobToRunList[u]
                  ELSE jobToRunList[u] \ started
             r == Members(jobRunningList[u]) \cup started
  <2>2. /\ jobToRunList'   = [jobToRunList   EXCEPT ![u] = t]
        /\ jobRunningList' = [jobRunningList EXCEPT ![u] = r]
        /\ pc' \in {"conclude", "runUpdate"} /\ req' = n
        /\ s' = [s EXCEPT !.ann = [toRun |-> Marshal(t), running |-> r]]
        /\ UNCHANGED <<api, watch, cache, doneJobs, runList>>
    BY <1>3 DEF EndLoop, kubeVars
  <2>3. /\ jobToRunList[u] \in NodeList /\ jobRunningList[u] \in NodeList
        /\ started \in SUBSET Nodes /\ s \in Version
    BY DEF TypeOK, ReconcilerTypeOK
  <2>4. s'.uid = u /\ s'.ann.toRun = Marshal(t) /\ s'.ann.running = r
    BY <2>2, <2>3 DEF Version
  <2>5. Members(r) = r /\ r # Absent
    <3>1. r \in SUBSET Nodes
      BY <2>3, NodeListType
    <3>2. QED
      BY <3>1, LoadedFacts
  <2>6. /\ Members(Marshal(t)) = Members(t)
        /\ Members(jobToRunList[u]) \subseteq Members(t) \cup started
    <3>1. CASE jobToRunList[u] \in {Absent, Null}
      BY <2>3, <3>1, LoadedFacts
    <3>2. CASE jobToRunList[u] \notin {Absent, Null}
      <4>1. jobToRunList[u] \in SUBSET Nodes /\ t = jobToRunList[u] \ started
        BY <2>3, <3>2 DEF NodeList
      <4>2. t \in SUBSET Nodes /\ t \in NodeList
        BY <4>1, NodeListType
      <4>3. Members(jobToRunList[u]) = jobToRunList[u] /\ Members(t) = t
        BY <4>1, <4>2, LoadedFacts
      <4>4. jobToRunList[u] \subseteq t \cup started
        BY <4>1
      <4>5. QED
        BY <4>2, <4>3, <4>4, LoadedFacts
    <3>3. QED
      BY <3>1, <3>2
  <2>7. Members(jobRunningList[u]) \cup started = r
    OBVIOUS
  <2> HIDE DEF t, r
  <2>8. StoreCovers /\ u \in created /\ \A m \in Names : api[m].uid = u => m = n
    <3>1. \A m \in Names : api[m] \in Versions(m)
      BY VersionsType
    <3>2. QED
      BY <2>1, <3>1 DEF CoverInv, RestartInv, CopyBegun
  <2>9. ASSUME api[n].uid = u
        PROVE  Covered(u, Members(t) \cup Members(r))
    <3>1. Covered(u, InMemory(u))
      BY <2>1, <2>9 DEF CoverInv, CopyCovers
    <3>2. QED
      BY <2>5, <2>6, <2>7, <3>1 DEF Covered, InMemory
  <2>10. ASSUME api[n].uid = u, NEW v \in Versions(n), v.uid = u
         PROVE  Members(v.ann.running) \subseteq Members(r) \cup DoneOn(u)
    <3>1. CASE jobRunningList[u] = Absent
      <4>1. Members(s.ann.running) = {} /\ RunningFits(n, u, Members(s.ann.running))
        BY <2>1, <2>10, <3>1 DEF CoverInv, CopyCovers
      <4>2. QED
        BY <2>10, <3>1, <4>1 DEF RunningFits
    <3>2. CASE jobRunningList[u] # Absent
      <4>1. RunningFits(n, u, Members(v.ann.running))
        BY <2>8, <2>10 DEF StoreCovers, RunningKnown
      <4>2. QED
        BY <2>5, <2>7, <3>2, <4>1 DEF RunningFits
    <3>3. QED
      BY <3>1, <3>2
  <2>11. StoreCovers'
    <3>1. ListSet(n, u, t, r)
      BY <2>2, <2>5, <2>9, <2>10 DEF ListSet
    <3>2. QED
      BY <2>8, <3>1, ListCovers
  <2>12. /\ Versions(n)' = Versions(n) /\ DoneOn(u)' = DoneOn(u)
         /\ jobToRunList'[u] = t /\ jobRunningList'[u] = r
    BY <2>2 DEF Versions, DoneOn, TypeOK, ReconcilerTypeOK
  <2>13. api'[n].uid = u =>
            /\ Covered(u, InMemory(u))'
            /\ Eligible(u) \subseteq Members(s'.ann.toRun)
                  \cup Members(s'.ann.running) \cup DoneOn(u)'
    BY <2>2, <2>4, <2>6, <2>9, <2>12 DEF Covered, InMemory
  <2>14. /\ jobRunningList'[u] # Absent
         /\ Members(s'.ann.running)
               \subseteq Members(jobRunningList'[u]) \cup DoneOn(u)'
         /\ pc' \notin {"dequeueUpdate", "run", "scheduleStatus"}
    BY <2>2, <2>4, <2>5, <2>12
  <2>15. CopyCovers'
    BY <2>2, <2>4, <2>13, <2>14, CopyIntro
  <2>16. QED
    BY <2>11, <2>15 DEF CoverInv
<1>4. QED
  BY <1>1, <1>2, <1>3 DEF RunSosreportJobs

-----------------------------------------------------------------------------
(* Every step keeps the invariant.                                         *)
LEMMA CoverStep ==
    ASSUME TypeOK, VersionInv, RestartInv, CoverInv, NoReject, [Next]_vars
    PROVE  CoverInv'
<1>1. CASE Controller
  BY <1>1, ReconcileCoverStep, UpdateCoverStep, StatusCoverStep, LoopCoverStep
     DEF Controller, ReconcilerNext
<1>2. CASE UNCHANGED vars
  BY <1>2, CoverUntouched DEF vars, kubeVars, recVars
<1>3. QED
  BY <1>1, <1>2, UserCoverStep, InformerCoverStep, ClusterCoverStep DEF Next

(* It holds at the start.                                                  *)
LEMMA CoverInit == Init => CoverInv
<1> SUFFICES ASSUME Init PROVE CoverInv
  OBVIOUS
<1>1. /\ api = [n \in Names |-> Fresh(NoUid, 0)] /\ cache = api
      /\ watch = [n \in Names |-> {}] /\ pc = "idle" /\ runList = {}
      /\ jobToRunList = [u \in UIDs |-> Absent]
      /\ jobRunningList = [u \in UIDs |-> Absent]
  BY DEF Init, KubeInit, ReconcilerInit
<1>2. \A n \in Names : /\ Versions(n) = {Fresh(NoUid, 0)}
                       /\ Fresh(NoUid, 0).uid \notin UIDs
                       /\ api[n].uid \notin UIDs
  BY <1>1, KubeApiAssumption DEF Versions, Fresh
<1>3. QED
  BY <1>1, <1>2
     DEF CoverInv, StoreCovers, CopyCovers, VersionsCover, MemoryCovers,
         RunningKnown, FinishedCovers, IsFinished, Remembered

(* Memory, annotations and ended Jobs account for every node, as long as   *)
(* no write is rejected, no List of nodes fails and no Job is deleted by a *)
(* user; however often the process is started again.                       *)
THEOREM RestartsLoseNothing ==
    ASSUME MaxFaults["fail"] = 0, MaxFaults["listFail"] = 0,
           MaxFaults["deleteJob"] = 0
    PROVE  Spec => []CoverInv
<1>1. Init => NoReject
  BY DEF Init, ReconcilerInit, NoReject
<1>2. TypeOK /\ NoReject /\ [Next]_vars => NoReject'
  BY NoRejectStep
<1>3. TypeOK /\ VersionInv /\ RestartInv /\ CoverInv /\ NoReject /\ [Next]_vars
        => CoverInv'
  BY CoverStep
<1>4. QED
  BY <1>1, <1>2, <1>3, CoverInit, TypeCorrect, VersionsCoherent,
     RestartsAreSafe, PTL DEF Spec

(* Then a Sosreport is marked as finished only when a Job has ended on     *)
(* each of its nodes, with crashes at any point.                           *)
THEOREM FinishedCoversAfterRestart ==
    ASSUME MaxFaults["fail"] = 0, MaxFaults["listFail"] = 0,
           MaxFaults["deleteJob"] = 0
    PROVE  Spec => []FinishedCoversNodes
<1>1. CoverInv => FinishedCoversNodes
  BY DEF CoverInv, StoreCovers, FinishedCovers, FinishedCoversNodes, Covered,
         DoneOn
<1>2. QED
  BY <1>1, RestartsLoseNothing, PTL

-----------------------------------------------------------------------------
(* Without crashes and panics, writes may be rejected: annotations may     *)
(* then be wrong, but are not needed, as memory alone accounts for every   *)
(* node.                                                                   *)
NoCrash ==
    /\ budget["crash"] = 0 /\ budget["listJobsFail"] = 0
    /\ budget["listFail"] = 0 /\ budget["deleteJob"] = 0

(* No version is in progress whose Sosreport is not on the runList.        *)
ProgressListed ==
    \A n \in Names : \A v \in Versions(n) :
        v.uid \in UIDs /\ v.status.inProgress => v.uid \in runList

(* What memory knows of the nodes of a Sosreport on the runList.           *)
MemoryAlone ==
    \A n \in Names : \A u \in UIDs :
        api[n].uid = u /\ u \in runList => Covered(u, InMemory(u))

AliveInv ==
    /\ runList \subseteq created
    /\ pc # "idle" => s.uid \in runList
    /\ ProgressListed /\ MemoryAlone /\ FinishedCovers

(* Memory drops a node only when one of its Jobs has ended, and takes a    *)
(* Sosreport up with all its nodes.                                        *)
MemoryKept ==
    /\ runList \subseteq runList' /\ runList' \subseteq created'
    /\ pc' # "idle" => s'.uid \in runList'
    /\ \A u \in UIDs : u \in runList' =>
          \/ u \in runList /\ InMemory(u) \subseteq InMemory(u)' \cup DoneOn(u)
          \/ Eligible(u) \subseteq InMemory(u)'

(* Memory after a step that changes nothing of it.                         *)
LEMMA MemorySame ==
    ASSUME AliveInv, created \subseteq created', pc' = "idle" \/ (pc' = pc /\ s' = s),
           UNCHANGED <<runList, jobToRunList, jobRunningList>>
    PROVE  MemoryKept
BY DEF AliveInv, MemoryKept, InMemory

(* A step that stores nothing.                                             *)
LEMMA AliveForget ==
    ASSUME TypeOK, AliveInv, Forgets, DoneKept, MemoryKept
    PROVE  AliveInv'
<1>1. /\ \A n \in Names : api'[n] = api[n]
      /\ \A n \in Names : \A v \in Versions(n)' : v \in Versions(n)
  BY DEF Forgets
<1>2. ProgressListed'
  BY <1>1 DEF AliveInv, ProgressListed, MemoryKept
<1>3. ASSUME NEW n \in Names, NEW u \in UIDs, u \in runList', api'[n].uid = u
      PROVE  Covered(u, InMemory(u))'
  BY <1>1, <1>3 DEF AliveInv, MemoryAlone, Covered, MemoryKept, DoneKept
<1>4. FinishedCovers'
  BY <1>1 DEF AliveInv, FinishedCovers, IsFinished, Covered, DoneKept
<1>5. QED
  <2>1. MemoryAlone'
    BY <1>3 DEF MemoryAlone
  <2>2. QED
    BY <1>2, <1>4, <2>1 DEF AliveInv, MemoryKept

(* A step that stores a version, of the Sosreport that was there or of     *)
(* none, or the first one of another.                                      *)
LEMMA AliveWrite ==
    ASSUME TypeOK, AliveInv, UNCHANGED doneJobs, MemoryKept,
           NEW n \in Names, NEW v \in Version, Writes(n, v),
           v.uid \in UIDs /\ v.status.inProgress => v.uid \in runList',
           v.uid \in UIDs /\ v.status.finished
              => IsFinished(n, v.uid) \/ Covered(v.uid, {}),
           v.uid = api[n].uid \/ v.uid \notin runList'
    PROVE  AliveInv'
<1>1. /\ api'[n] = v
      /\ \A m \in Names \ {n} : api'[m] = api[m]
      /\ \A m \in Names : \A w \in Versions(m)' :
            w \in Versions(m) \/ (m = n /\ w = v)
  BY VersionsWritten
<1>2. \A u : DoneOn(u)' = DoneOn(u)
  BY DEF DoneOn
<1>3. ProgressListed'
  BY <1>1 DEF AliveInv, ProgressListed, MemoryKept
<1>4. ASSUME NEW m \in Names, NEW u \in UIDs, u \in runList', api'[m].uid = u
      PROVE  Covered(u, InMemory(u))'
  <2>1. api[m].uid = u
    BY <1>1, <1>4
  <2>2. QED
    BY <1>2, <1>4, <2>1 DEF AliveInv, MemoryAlone, Covered, MemoryKept
<1>5. ASSUME NEW m \in Names, NEW u \in UIDs, IsFinished(m, u)'
      PROVE  Covered(u, {})'
  <2>1. IsFinished(m, u) \/ Covered(u, {})
    BY <1>1, <1>5 DEF IsFinished
  <2>2. QED
    BY <1>2, <2>1 DEF AliveInv, FinishedCovers, Covered
<1>6. QED
  <2>1. MemoryAlone' /\ FinishedCovers'
    BY <1>4, <1>5 DEF MemoryAlone, FinishedCovers
  <2>2. QED
    BY <1>3, <2>1 DEF AliveInv, MemoryKept

(* What Reconcile has read belongs to a Sosreport that was given.          *)
LEMMA AliveBegin ==
    ASSUME TypeOK, VersionInv, RestartInv, AliveInv, NEW n \in queue, Begin(n)
    PROVE  /\ n \in Names /\ cache[n] \in Version /\ cache[n].uid \in UIDs
           /\ cache[n].uid \in created /\ ~cache[n].status.finished
           /\ cache[n].status.inProgress => cache[n].uid \in runList
           /\ pc = "idle"
<1>1. /\ n \in Names /\ cache[n] \in Version /\ cache[n].uid \in UIDs
      /\ ~cache[n].status.finished /\ pc = "idle"
  BY BeginType DEF Begin
<1>2. cache[n] \in Versions(n)
  BY <1>1, VersionsType
<1>3. QED
  BY <1>1, <1>2, KubeApiAssumption
     DEF RestartInv, VersionsInv, NamesOfUids, AliveInv, ProgressListed

(* The first step of Reconcile.                                            *)
LEMMA ReconcileAlive ==
    ASSUME TypeOK, VersionInv, RestartInv, AliveInv, NoCrash,
           NEW n \in queue, Reconcile(n), UNCHANGED created
    PROVE  AliveInv'
<1>1. CASE ReconcileIgnored(n)
  <2>1. Forgets /\ DoneKept /\ MemoryKept
    BY <1>1, MemorySame, DoneGrows
       DEF ReconcileIgnored, kubeVars, memVars, localVars, Forgets, Versions
  <2>2. QED
    BY <2>1, AliveForget
<1>2. ~ScheduleListFails(n) /\ ~ContinueListFails(n)
  BY DEF ScheduleListFails, ContinueListFails, Spend, NoCrash
<1>3. CASE ScheduleNoNodes(n)
  <2> SUFFICES ASSUME NEW u \in UIDs, u = cache[n].uid PROVE AliveInv'
    BY <1>3, AliveBegin DEF ScheduleNoNodes
  <2> DEFINE v == [cache[n] EXCEPT !.status.inProgress = FALSE]
  <2>1. Begin(n) /\ UpdateStatus(n, v)
        /\ Selected[u] = {} /\ runList' = runList \cup {u}
        /\ UNCHANGED <<cache, pc, req, s, jobToRunList, jobRunningList, doneJobs>>
    BY <1>3 DEF ScheduleNoNodes, localVars, childVars
  <2>2. /\ v \in Version /\ v.uid = u /\ n \in Names /\ u \in created
        /\ v.status.finished = FALSE /\ v.status.inProgress = FALSE
        /\ pc = "idle"
    BY <2>1, AliveBegin DEF Version, Status
  <2> HIDE DEF v
  <2>3. MemoryKept
    <3>1. Eligible(u) = {}
      BY <2>1 DEF Eligible
    <3>2. \A w \in UIDs : InMemory(w)' = InMemory(w)
      BY <2>1 DEF InMemory
    <3>3. QED
      BY <2>1, <2>2, <3>1, <3>2 DEF MemoryKept, AliveInv
  <2>4. CASE UNCHANGED <<api, watch>>
    BY <2>1, <2>3, <2>4, AliveForget, DoneGrows DEF Forgets, Versions
  <2>5. CASE /\ IsCurrent(n, v)
             /\ WithStatus(n, v) \in Version
             /\ Writes(n, WithStatus(n, v))
    <3> DEFINE x == WithStatus(n, v)
    <3>1. /\ x \in Version /\ x.uid = api[n].uid /\ Writes(n, x)
          /\ ~x.status.finished /\ ~x.status.inProgress
      BY <2>2, <2>5 DEF WithStatus, IsCurrent
    <3> HIDE DEF x
    <3>2. QED
      BY <2>1, <2>2, <2>3, <3>1, AliveWrite
  <2>6. QED
    BY <2>1, <2>2, <2>4, <2>5, UpdateStatusWrites
<1>4. CASE Schedule(n) \/ Continue(n)
  <2> SUFFICES ASSUME NEW u \in UIDs, u = cache[n].uid PROVE AliveInv'
    BY <1>4, AliveBegin DEF Schedule, Continue
  <2>1. /\ UNCHANGED <<api, watch, cache, doneJobs>> /\ Begin(n)
        /\ s'.uid = u /\ u \in created
    BY <1>4, AliveBegin DEF Schedule, Continue, kubeVars, Version
  <2>2. CASE Schedule(n)
    <3>1. /\ runList' = runList \cup {u} /\ UNCHANGED jobRunningList
          /\ jobToRunList' = [jobToRunList EXCEPT ![u] = Eligible(u)]
      BY <2>2 DEF Schedule
    <3>2. Eligible(u) \in SUBSET Nodes
      BY ReconcilerAssumption DEF Eligible
    <3>3. Eligible(u) \subseteq InMemory(u)'
      BY <3>1, <3>2, LoadedFacts DEF InMemory, TypeOK, ReconcilerTypeOK
    <3>4. \A w \in UIDs \ {u} : InMemory(w)' = InMemory(w)
      BY <3>1 DEF InMemory, TypeOK, ReconcilerTypeOK
    <3>5. MemoryKept
      BY <2>1, <3>1, <3>3, <3>4 DEF MemoryKept, AliveInv
    <3>6. QED
      BY <2>1, <3>5, AliveForget, DoneGrows DEF Forgets, Versions
  <2>3. CASE Continue(n)
    <3> DEFINE l == jobToRunList[u]
               t == Loaded(l, cache[n].ann.toRun)
               k == jobRunningList[u]
               r == Dequeued(Loaded(k, cache[n].ann.running), u)
    <3>1. /\ runList' = runList
          /\ jobToRunList' = [jobToRunList EXCEPT ![u] = t]
          /\ jobRunningList' = [jobRunningList EXCEPT ![u] = r]
          /\ u \in runList \/ cache[n].status.inProgress
      BY <2>3 DEF Continue, NotYetRunning
    <3>2. u \in runList
      BY <2>1, <3>1, AliveBegin
    <3>3. /\ l \in NodeList /\ k \in NodeList
          /\ cache[n].ann.running \in NodeList
      BY <2>1, AliveBegin DEF TypeOK, ReconcilerTypeOK, Version, Annotations
    <3>4. Members(l) \subseteq Members(t)
      BY LoadedFacts
    <3>5. Members(k) \subseteq Members(Loaded(k, cache[n].ann.running))
          /\ Loaded(k, cache[n].ann.running) \in NodeList
      BY <3>3, LoadedFacts
    <3>6. Members(k) \subseteq Members(r) \cup DoneOn(u)
      BY <3>5, DequeuedFacts
    <3> HIDE DEF t, r
    <3>7. InMemory(u) \subseteq InMemory(u)' \cup DoneOn(u)
      BY <3>1, <3>4, <3>6 DEF InMemory, TypeOK, ReconcilerTypeOK
    <3>8. \A w \in UIDs \ {u} : InMemory(w)' = InMemory(w)
      BY <3>1 DEF InMemory, TypeOK, ReconcilerTypeOK
    <3>9. MemoryKept
      BY <2>1, <3>1, <3>2, <3>7, <3>8 DEF MemoryKept, AliveInv
    <3>10. QED
      BY <2>1, <3>9, AliveForget, DoneGrows DEF Forgets, Versions
  <2>4. QED
    BY <1>4, <2>2, <2>3
<1>5. QED
  BY <1>1, <1>2, <1>3, <1>4 DEF Reconcile

(* The writes of annotations.                                              *)
LEMMA UpdateAlive ==
    ASSUME TypeOK, AliveInv, ScheduleUpdate \/ DequeueUpdate \/ RunUpdate,
           UNCHANGED created
    PROVE  AliveInv'
<1>1. /\ pc # "idle" /\ Update(req, s)
      /\ UNCHANGED <<cache, doneJobs, runList, jobToRunList, jobRunningList>>
  BY DEF ScheduleUpdate, DequeueUpdate, RunUpdate, memVars, childVars
<1>2. req \in Names /\ s \in Version /\ s.uid \in runList
  BY <1>1 DEF TypeOK, ReconcilerTypeOK, AliveInv
<1>3. ASSUME s'.uid = s.uid PROVE MemoryKept
  BY <1>1, <1>2, <1>3 DEF MemoryKept, AliveInv, InMemory
<1>4. CASE UNCHANGED <<api, watch>> /\ s' = s
  BY <1>1, <1>3, <1>4, AliveForget, DoneGrows DEF Forgets, Versions
<1>5. ASSUME NEW x \in Version, x = WithAnnotations(req, s), Writes(req, x),
             IsCurrent(req, s), s' \in {s, x}
      PROVE  AliveInv'
  <2>1. /\ x.uid = api[req].uid /\ x.status = api[req].status
        /\ x.uid = s.uid
    BY <1>5 DEF WithAnnotations, IsCurrent
  <2>2. MemoryKept
    BY <1>3, <1>5, <2>1
  <2>3. x.uid \in UIDs /\ x.status.finished => IsFinished(req, x.uid)
    BY <2>1 DEF IsFinished
  <2>4. x.uid \in runList'
    BY <1>1, <1>2, <2>1
  <2>5. QED
    BY <1>1, <1>2, <1>5, <2>1, <2>2, <2>3, <2>4, AliveWrite
<1>6. QED
  BY <1>1, <1>2, <1>4, <1>5, UpdateWrites

(* The writes of the status: Finished is only written when both lists are  *)
(* empty, and so a Job has ended on every node.                            *)
LEMMA StatusAlive ==
    ASSUME TypeOK, VersionInv, AliveInv, ScheduleStatus \/ Conclude,
           UNCHANGED created
    PROVE  AliveInv'
<1>1. /\ pc # "idle" /\ pc' = "idle"
      /\ UNCHANGED <<cache, doneJobs, runList, jobToRunList, jobRunningList>>
  BY DEF ScheduleStatus, Conclude, Return, memVars, childVars
<1>2. req \in Names /\ s \in Version /\ s.uid \in runList /\ s.uid \in UIDs
      /\ ~s.status.finished
  BY <1>1 DEF TypeOK, ReconcilerTypeOK, AliveInv, VersionInv, CopyCoherent
<1>3. Forgets \/ ~UNCHANGED <<api, watch>>
  BY <1>1 DEF Forgets, Versions
<1>4. DoneKept /\ MemoryKept
  <2>1. DoneKept
    BY <1>1, DoneGrows
  <2>2. MemoryKept
    BY <1>1 DEF MemoryKept, AliveInv, InMemory
  <2>3. QED
    BY <2>1, <2>2
<1>5. ASSUME NEW v \in Version, v.uid = s.uid,
             UpdateStatus(req, v) \/ Reordered(req, v),
             v.status.finished => (api[req].uid = s.uid => Covered(s.uid, {}))
      PROVE  AliveInv'
  <2>1. CASE UNCHANGED <<api, watch>>
    BY <1>3, <1>4, <2>1, AliveForget
  <2>2. ASSUME NEW x \in Version, x = WithStatus(req, v), Writes(req, x),
               IsCurrent(req, v)
        PROVE  AliveInv'
    <3>1. x.uid = api[req].uid /\ x.uid = s.uid /\ x.status = v.status
      BY <1>5, <2>2 DEF WithStatus, IsCurrent
    <3>2. x.status.inProgress => x.uid \in runList'
      BY <1>1, <1>2, <3>1
    <3>3. x.status.finished => Covered(x.uid, {})
      BY <1>5, <2>2, <3>1 DEF IsCurrent
    <3>4. QED
      BY <1>1, <1>4, <1>2, <2>2, <3>1, <3>2, <3>3, AliveWrite
  <2>3. QED
    BY <1>1, <1>2, <1>5, <2>1, <2>2, UpdateStatusWrites
<1>6. CASE ScheduleStatus
  <2> DEFINE v == [s EXCEPT !.status.inProgress = TRUE]
  <2>1. v \in Version /\ v.uid = s.uid /\ ~v.status.finished
    BY <1>2 DEF Version, Status
  <2>2. UpdateStatus(req, v)
    BY <1>6 DEF ScheduleStatus
  <2> HIDE DEF v
  <2>3. QED
    BY <1>5, <2>1, <2>2
<1>7. CASE Conclude
  <2> DEFINE v == Concluded(s)
  <2>1. v \in Version
    BY <1>2, ConcludedIsVersion
  <2>2. v.uid = s.uid /\ (v.status.finished => isSosreportJobsDone(s.uid))
    BY <1>2 DEF Concluded, Version
  <2>3. UpdateStatus(req, v) \/ Reordered(req, v)
    BY <1>7 DEF Conclude
  <2> HIDE DEF v
  <2>4. isSosreportJobsDone(s.uid) => InMemory(s.uid) = {}
    BY DEF isSosreportJobsDone, InMemory
  <2>5. api[req].uid = s.uid => Covered(s.uid, InMemory(s.uid))
    BY <1>2 DEF AliveInv, MemoryAlone
  <2>6. QED
    BY <1>5, <2>1, <2>2, <2>3, <2>4, <2>5
<1>8. QED
  BY <1>6, <1>7

(* The loop: what it has started it puts on the running list.              *)
LEMMA LoopAlive ==
    ASSUME TypeOK, AliveInv, RunSosreportJobs, UNCHANGED created
    PROVE  AliveInv'
<1>1. Forgets /\ DoneKept /\ UNCHANGED runList
  BY DoneGrows DEF RunSosreportJobs, CreatePvc, CreateJob, EndLoop, Forgets,
                   Versions, kubeVars, memVars
<1>2. CASE UNCHANGED <<pc, s, jobToRunList, jobRunningList>>
  BY <1>1, <1>2, MemorySame, AliveForget
<1>3. CASE EndLoop
  <2> SUFFICES ASSUME NEW u \in UIDs, u = s.uid PROVE AliveInv'
    BY <1>3 DEF EndLoop, LoopEnds, TypeOK, ReconcilerTypeOK
  <2> DEFINE l == jobToRunList[u]
             t == IF l \in {Absent, Null} THEN l ELSE l \ started
             r == Members(jobRunningList[u]) \cup started
  <2>1. /\ jobToRunList'   = [jobToRunList   EXCEPT ![u] = t]
        /\ jobRunningList' = [jobRunningList EXCEPT ![u] = r]
        /\ s'.uid = u /\ pc = "run"
    BY <1>3 DEF EndLoop, LoopEnds, TypeOK, ReconcilerTypeOK, Version
  <2>2. /\ l \in NodeList /\ jobRunningList[u] \in NodeList
        /\ started \in SUBSET Nodes
    BY DEF TypeOK, ReconcilerTypeOK
  <2>3. Members(r) = r
    <3>1. r \in SUBSET Nodes
      BY <2>2, NodeListType
    <3>2. QED
      BY <3>1, LoadedFacts
  <2>4. Members(l) \subseteq Members(t) \cup started
    <3>1. CASE l \notin {Absent, Null}
      <4>1. l \in SUBSET Nodes /\ l \ started \in SUBSET Nodes /\ t = l \ started
        BY <2>2, <3>1 DEF NodeList
      <4>2. Members(l) = l /\ Members(t) = t
        BY <4>1, LoadedFacts
      <4>3. QED
        BY <4>1, <4>2
    <3>2. QED
      BY <3>1
  <2> HIDE DEF l, t
  <2>5. InMemory(u) \subseteq Members(t) \cup r
    BY <2>4 DEF InMemory, l
  <2> HIDE DEF r
  <2>6. InMemory(u)' = Members(t) \cup r
    BY <2>1, <2>3 DEF InMemory, TypeOK, ReconcilerTypeOK
  <2>7. \A w \in UIDs \ {u} : InMemory(w)' = InMemory(w)
    BY <2>1 DEF InMemory, TypeOK, ReconcilerTypeOK
  <2>8. MemoryKept
    BY <1>1, <2>1, <2>5, <2>6, <2>7 DEF MemoryKept, AliveInv
  <2>9. QED
    BY <1>1, <2>8, AliveForget
<1>4. QED
  BY <1>2, <1>3 DEF RunSosreportJobs, CreatePvc, CreateJob, memVars

(* Users, informers and the cluster.                                       *)
LEMMA EnvironmentAlive ==
    ASSUME TypeOK, RestartInv, AliveInv, NoCrash, CopyHasList,
           Users \/ Informers \/ Cluster
    PROVE  AliveInv'
<1>1. ASSUME NEW n \in Names PROVE api[n] \in Version /\ api[n].rv + 1 \in Nat
  BY VersionParts DEF TypeOK, KubeTypeOK
<1>2. CASE Forgets /\ DoneKept /\ UNCHANGED <<pc, s, memVars, created>>
  <2>1. MemoryKept
    BY <1>2, MemorySame DEF memVars
  <2>2. QED
    BY <1>2, <2>1, AliveForget
<1>3. ASSUME NEW n \in Names, NEW v \in Version, Writes(n, v),
             UNCHANGED <<doneJobs, pc, s, memVars>>, created \subseteq created',
             \/ v.status = api[n].status /\ v.uid = api[n].uid
             \/ v.status = NewStatus /\ v.uid \notin runList
      PROVE  AliveInv'
  <2>1. MemoryKept /\ runList' = runList
    BY <1>3, MemorySame DEF memVars
  <2>2. /\ v.uid \in UIDs /\ v.status.inProgress => v.uid \in runList'
        /\ v.uid \in UIDs /\ v.status.finished
              => IsFinished(n, v.uid) \/ Covered(v.uid, {})
        /\ v.uid = api[n].uid \/ v.uid \notin runList'
    <3>1. CASE v.status = NewStatus /\ v.uid \notin runList
      BY <2>1, <3>1 DEF NewStatus
    <3>2. CASE v.status = api[n].status /\ v.uid = api[n].uid
      <4>1. api[n] \in Versions(n)
        BY VersionsType
      <4>2. v.status.inProgress /\ v.uid \in UIDs => v.uid \in runList
        BY <3>2, <4>1 DEF AliveInv, ProgressListed
      <4>3. QED
        BY <2>1, <3>2, <4>2 DEF IsFinished
    <3>3. QED
      BY <1>3, <3>1, <3>2
  <2>3. QED
    BY <1>3, <2>1, <2>2, AliveWrite
<1>4. ASSUME NEW n \in Names, NEW u \in UIDs, CreateSosreport(n, u)
      PROVE  AliveInv'
  <2> DEFINE v == Fresh(u, api[n].rv + 1)
  <2>1. /\ v \in Version /\ v.uid = u /\ v.status = NewStatus
        /\ v.rv = api[n].rv + 1
    BY <1>1, FreshIsVersion DEF Fresh
  <2>2. /\ Writes(n, v) /\ u \notin created /\ created \subseteq created'
        /\ UNCHANGED <<doneJobs, pc, s, memVars>>
    BY <1>4 DEF CreateSosreport, Writes, Fresh, recVars, childVars, memVars
  <2> HIDE DEF v
  <2>3. QED
    BY <1>3, <2>1, <2>2 DEF AliveInv
<1>5. ASSUME NEW n \in Names, DeleteSosreport(n) PROVE AliveInv'
  <2> DEFINE v == Fresh(NoUid, api[n].rv + 1)
  <2>1. /\ v \in Version /\ v.uid = NoUid /\ v.status = NewStatus
    BY <1>1, FreshIsVersion DEF Fresh
  <2>2. /\ Writes(n, v) /\ created' = created
        /\ UNCHANGED <<doneJobs, pc, s, memVars>>
    BY <1>5 DEF DeleteSosreport, Writes, Fresh, childVars, localVars
  <2>3. v.uid \notin runList
    BY <2>1, KubeApiAssumption DEF TypeOK, ReconcilerTypeOK
  <2> HIDE DEF v
  <2>4. QED
    BY <1>3, <2>1, <2>2, <2>3
<1>6. ASSUME NEW n \in Names, TouchSosreport(n) PROVE AliveInv'
  <2> DEFINE v == [api[n] EXCEPT !.rv = @ + 1]
  <2>1. /\ v \in Version /\ v.rv = api[n].rv + 1 /\ v.uid = api[n].uid
        /\ v.status = api[n].status
    BY <1>1 DEF Version
  <2>2. /\ Store(n, v) /\ UNCHANGED cache /\ created' = created
        /\ UNCHANGED <<doneJobs, pc, s, memVars>>
    BY <1>6 DEF TouchSosreport, localVars, childVars
  <2> HIDE DEF v
  <2>3. Writes(n, v)
    BY <2>1, <2>2 DEF Writes
  <2>4. /\ v \in Version /\ UNCHANGED <<doneJobs, pc, s, memVars>>
        /\ created \subseteq created'
        /\ v.status = api[n].status /\ v.uid = api[n].uid
    BY <2>1, <2>2
  <2>5. QED
    BY <1>3, <2>3, <2>4
<1>7. ASSUME NEW n \in Names, Deliver(n) PROVE AliveInv'
  <2>1. UNCHANGED <<api, doneJobs, pc, s, memVars, created>>
    BY <1>7 DEF Deliver, localVars, childVars
  <2>2. PICK v \in watch[n] : /\ cache' = [cache EXCEPT ![n] = v]
                              /\ watch' = [watch EXCEPT ![n] = @ \ {v}]
    BY <1>7 DEF Deliver
  <2>3. Forgets
    BY <2>1, <2>2 DEF Forgets, Versions, TypeOK, KubeTypeOK
  <2>4. QED
    BY <1>2, <2>1, <2>3, DoneGrows
<1>8. ASSUME NEW u \in UIDs, GarbageCollect(u) PROVE AliveInv'
  <2>1. /\ \A n \in Names : api[n].uid # u
        /\ doneJobs \ JobsOf(u) \subseteq doneJobs'
        /\ UNCHANGED <<api, watch, cache, pc, s, memVars, created>>
    BY <1>8 DEF GarbageCollect, Collect, RemoveJob, localVars
  <2>2. DoneKept
    BY <2>1 DEF DoneKept, DoneOn, JobsOf
  <2>3. Forgets
    BY <2>1 DEF Forgets, Versions
  <2>4. QED
    BY <1>2, <2>1, <2>2, <2>3
<1>9. CASE /\ UNCHANGED <<api, watch, cache, pc, s, memVars, created>>
           /\ doneJobs \subseteq doneJobs'
  <2>1. Forgets
    BY <1>9 DEF Forgets, Versions
  <2>2. QED
    BY <1>2, <1>9, <2>1, DoneGrows
<1>10. ~Crash /\ ~Panic /\ \A j \in jobs : ~DeleteJob(j)
  BY PanicNeedsNoList DEF Crash, DeleteJob, Spend, NoCrash
<1>11. ASSUME \/ \E n \in Names : Resync(n)
              \/ \E j \in jobs : JobEvent(j) \/ JobCompletes(j)
              \/ \E c \in ConcurrencySettings : SetConcurrency(c)
       PROVE  AliveInv'
  BY <1>9, <1>11 DEF Resync, JobEvent, JobCompletes, JobFinishes,
     SetConcurrency, kubeVars, recVars, localVars, memVars
<1>12. QED
  BY <1>4, <1>5, <1>6, <1>7, <1>8, <1>10, <1>11 DEF Users, Informers, Cluster

(* Every step keeps the invariant.                                         *)
LEMMA AliveStep ==
    ASSUME TypeOK, VersionInv, RestartInv, AliveInv, NoCrash, CopyHasList,
           [Next]_vars
    PROVE  AliveInv'
<1>1. CASE Controller
  BY <1>1, ReconcileAlive, UpdateAlive, StatusAlive, LoopAlive
     DEF Controller, ReconcilerNext
<1>2. CASE UNCHANGED vars
  <2>1. Forgets /\ DoneKept /\ MemoryKept
    BY <1>2, MemorySame, DoneGrows
       DEF vars, kubeVars, recVars, Forgets, Versions
  <2>2. QED
    BY <2>1, AliveForget
<1>3. QED
  BY <1>1, <1>2, EnvironmentAlive DEF Next

(* It holds at the start: nothing exists.                                  *)
LEMMA AliveInit == Init => AliveInv
<1> SUFFICES ASSUME Init PROVE AliveInv
  OBVIOUS
<1>1. /\ pc = "idle" /\ cache = api /\ watch = [n \in Names |-> {}]
      /\ api = [n \in Names |-> Fresh(NoUid, 0)] /\ runList = {}
  BY DEF Init, KubeInit, ReconcilerInit
<1>2. \A n \in Names : /\ Versions(n) = {Fresh(NoUid, 0)}
                       /\ Fresh(NoUid, 0).uid \notin UIDs
                       /\ api[n].uid \notin UIDs
  BY <1>1, KubeApiAssumption DEF Versions, Fresh
<1>3. QED
  BY <1>1, <1>2 DEF AliveInv, ProgressListed, MemoryAlone, FinishedCovers,
                    IsFinished

(* As long as the manager's process lives (no crash, and no panic after a  *)
(* failed List of Jobs), memory accounts for every node of a Sosreport     *)
(* that it has taken up.                                                   *)
THEOREM MemoryStaysWhole ==
    ASSUME MaxFaults["crash"] = 0, MaxFaults["listJobsFail"] = 0,
           MaxFaults["listFail"] = 0, MaxFaults["deleteJob"] = 0
    PROVE  Spec => []AliveInv
<1>1. Init => NoCrash
  BY DEF Init, ReconcilerInit, NoCrash
<1>2. TypeOK /\ NoCrash /\ [Next]_vars => NoCrash'
  BY BudgetStep DEF NoCrash, FaultKinds
<1>3. TypeOK /\ VersionInv /\ RestartInv /\ AliveInv /\ NoCrash /\ CopyHasList
        /\ [Next]_vars => AliveInv'
  BY AliveStep
<1>4. QED
  BY <1>1, <1>2, <1>3, AliveInit, TypeCorrect, VersionsCoherent,
     RestartsAreSafe, LoopHasList, PTL DEF Spec

(* Then a Sosreport is marked as finished only when a Job has ended on     *)
(* each of its nodes, whichever writes are rejected or unanswered: a Job   *)
(* whose Create seemed to fail is made again, and none is left out.  Only  *)
(* a failing List of nodes breaks this, and deleted Jobs are gone.         *)
THEOREM FinishedCoversAll ==
    ASSUME MaxFaults["crash"] = 0, MaxFaults["listJobsFail"] = 0,
           MaxFaults["listFail"] = 0, MaxFaults["deleteJob"] = 0
    PROVE  Spec => []FinishedCoversNodes
<1>1. AliveInv => FinishedCoversNodes
  BY DEF AliveInv, FinishedCovers, FinishedCoversNodes, Covered, DoneOn
<1>2. QED
  BY <1>1, MemoryStaysWhole, PTL

=============================================================================

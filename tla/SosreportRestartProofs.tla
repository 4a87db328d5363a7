------------------------ MODULE SosreportRestartProofs ------------------------
(***************************************************************************)
(* A finished Sosreport gets no further Job, for every value of the        *)
(* constants and with any number of crashes, conflicts, rejected writes,   *)
(* lost responses and failing Lists.                                       *)
(***************************************************************************)
EXTENDS SosreportRestart, SosreportOperatorProofs

(* Members of lists, and of what is loaded.                                *)
LEMMA LoadedFacts ==
    /\ Members(Absent) = {} /\ Members(Null) = {}
    /\ \A X \in SUBSET Nodes : Members(X) = X /\ X # Absent /\ X # Null
    /\ Absent # Null
    /\ \A l \in NodeList : Members(Marshal(l)) = Members(l)
    /\ \A a : Loaded(Absent, a) = a
    /\ \A l, a : l # Absent => Loaded(l, a) = l
    /\ \A l, a \in NodeList : Loaded(l, a) \in NodeList
BY KubeApiAssumption DEF Members, Marshal, NodeList, Loaded

-----------------------------------------------------------------------------
(* How a step changes the versions: it forgets some, or stores a next one. *)
Forgets ==
    /\ UNCHANGED api
    /\ \A n \in Names : Versions(n)' \subseteq Versions(n)

Writes(n, v) ==
    /\ v.rv = api[n].rv + 1
    /\ Store(n, v)
    /\ UNCHANGED cache

(* Versions are versions, and none is newer than the stored one.           *)
LEMMA VersionsType ==
    ASSUME TypeOK, NEW n \in Names
    PROVE  /\ Versions(n) \subseteq Version
           /\ api[n] \in Versions(n) /\ cache[n] \in Versions(n)
           /\ VersionInv => \A v \in Versions(n) : v.rv =< api[n].rv
<1>1. /\ api[n] \in Version /\ cache[n] \in Version /\ watch[n] \subseteq Version
  BY DEF TypeOK, KubeTypeOK
<1>2. api[n].rv =< api[n].rv
  BY <1>1, VersionParts
<1>3. QED
  BY <1>1, <1>2 DEF Versions, VersionInv, InformerCoherent, Coherent

(* A write adds one version of one name.                                   *)
LEMMA VersionsWritten ==
    ASSUME TypeOK, NEW n \in Names, NEW v \in Version, Writes(n, v)
    PROVE  /\ api' = [api EXCEPT ![n] = v] /\ api'[n] = v
           /\ Versions(n)' \subseteq Versions(n) \cup {v}
           /\ \A m \in Names \ {n} : api'[m] = api[m] /\ Versions(m)' = Versions(m)
           /\ \A m \in Names : \A w \in Versions(m)' :
                 w \in Versions(m) \/ (m = n /\ w = v)
BY DEF Writes, Store, Versions, TypeOK, KubeTypeOK

(* The cache stays behind the versions that are on their way to it.        *)
LEMMA CacheStaysOldest ==
    ASSUME TypeOK, VersionInv, CacheOldest,
           \/ UNCHANGED <<cache, watch>>
           \/ \E n \in Names, v \in Version : Writes(n, v)
    PROVE  CacheOldest'
<1>1. CASE UNCHANGED <<cache, watch>>
  BY <1>1 DEF CacheOldest
<1>2. ASSUME NEW n \in Names, NEW v \in Version, Writes(n, v)
      PROVE  CacheOldest'
  <2>1. cache[n].rv =< v.rv
    <3>1. cache[n].rv =< api[n].rv /\ v.rv = api[n].rv + 1
      BY <1>2 DEF VersionInv, InformerCoherent, Coherent, Writes
    <3>2. cache[n].rv \in Nat /\ api[n].rv \in Nat
      BY VersionParts DEF TypeOK, KubeTypeOK
    <3>3. QED
      BY <3>1, <3>2
  <2>2. /\ cache' = cache /\ watch' = [watch EXCEPT ![n] = @ \cup {v}]
        /\ watch \in [Names -> SUBSET Version]
    BY <1>2 DEF Writes, Store, TypeOK, KubeTypeOK
  <2>3. ASSUME NEW m \in Names, NEW w \in watch'[m]
        PROVE  cache'[m].rv =< w.rv
    <3>1. w \in watch[m] \/ (m = n /\ w = v)
      BY <2>2
    <3>2. QED
      BY <2>1, <2>2, <3>1 DEF CacheOldest
  <2>4. QED
    BY <2>3 DEF CacheOldest
<1>3. QED
  BY <1>1, <1>2

(* Forgetting versions, while the runList may grow.                        *)
LEMMA ForgetKeeps ==
    ASSUME TypeOK, VersionsInv, Forgets, created \subseteq created',
           runList \subseteq runList', UNCHANGED jobToRunList
    PROVE  NamesOfUids' /\ ProgressKept' /\ FinishedKnown' /\ SameList'
<1>1. ASSUME NEW n \in Names PROVE Versions(n)' \subseteq Versions(n)
  BY DEF Forgets
<1>2. NamesOfUids'
  BY <1>1 DEF VersionsInv, NamesOfUids
<1>3. ProgressKept'
  BY <1>1 DEF VersionsInv, ProgressKept
<1>4. FinishedKnown'
  BY <1>1 DEF VersionsInv, FinishedKnown, Forgets, IsFinished, Begun, Left
<1>5. SameList'
  BY <1>1 DEF VersionsInv, SameList
<1>6. QED
  BY <1>2, <1>3, <1>4, <1>5

(* Storing a version of the same Sosreport that keeps what has begun, and  *)
(* the list if memory does not have it; if it finishes the Sosreport,      *)
(* nothing must be left of any other version.                              *)
LEMMA WriteKeeps ==
    ASSUME TypeOK, VersionInv, VersionsInv,
           NEW n \in Names, NEW v \in Version, Writes(n, v),
           v.uid = api[n].uid, created \subseteq created',
           runList \subseteq runList', UNCHANGED jobToRunList,
           api[n].status.inProgress \/ api[n].status.finished
              => v.status.inProgress \/ v.status.finished,
           v.uid \in UIDs /\ jobToRunList[v.uid] = Absent
              => Members(v.ann.toRun) = Members(api[n].ann.toRun),
           v.uid \in UIDs /\ v.status.finished /\ ~api[n].status.finished
              => \A w \in Versions(n) :
                    w.uid = v.uid /\ ~w.status.finished
                       => Begun(w) /\ Left(w) = {}
    PROVE  VersionsInv'
<1>1. /\ api'[n] = v /\ api[n] \in Versions(n)
      /\ \A m \in Names \ {n} : api'[m] = api[m] /\ Versions(m)' = Versions(m)
      /\ \A m \in Names : \A w \in Versions(m)' :
            w \in Versions(m) \/ (m = n /\ w = v)
  BY VersionsWritten, VersionsType
<1>2. CacheOldest'
  BY CacheStaysOldest DEF VersionsInv
<1>3. NamesOfUids'
  <2>1. \A m \in Names : \A w \in Versions(m)' :
           \E x \in Versions(m) : x.uid = w.uid
    BY <1>1
  <2>2. QED
    BY <2>1 DEF VersionsInv, NamesOfUids
<1>4. ProgressKept'
  <2> SUFFICES ASSUME NEW m \in Names, NEW w \in Versions(m)',
                      NEW x \in Versions(m)',
                      w.uid = x.uid, w.uid # NoUid, w.rv =< x.rv,
                      w.status.inProgress
               PROVE  x.status.inProgress \/ x.status.finished
    BY DEF ProgressKept
  <2>1. CASE x \in Versions(m) /\ w \in Versions(m)
    BY <2>1 DEF VersionsInv, ProgressKept
  <2>2. CASE m = n /\ w = v /\ x \in Versions(m)
    <3>1. x.rv =< api[n].rv /\ v.rv = api[n].rv + 1
      BY <2>2, VersionsType DEF Writes
    <3>2. x.rv \in Nat /\ api[n].rv \in Nat
      BY <2>2, VersionsType, VersionParts DEF TypeOK, KubeTypeOK
    <3>3. QED
      BY <2>2, <3>1, <3>2
  <2>3. CASE m = n /\ x = v /\ w \in Versions(m)
    <3>1. w.rv =< api[n].rv
      BY <2>3, VersionsType
    <3>2. api[n].status.inProgress \/ api[n].status.finished
      BY <1>1, <2>3, <3>1 DEF VersionsInv, ProgressKept
    <3>3. QED
      BY <2>3, <3>2
  <2>4. CASE m = n /\ x = v /\ w = v
    BY <2>4
  <2>5. QED
    BY <1>1, <2>1, <2>2, <2>3, <2>4
<1>5. FinishedKnown'
  <2> SUFFICES ASSUME NEW m \in Names, NEW w \in Versions(m)',
                      w.uid \in UIDs, IsFinished(m, w.uid)',
                      ~w.status.finished
               PROVE  Begun(w)' /\ Left(w)' = {}
    BY DEF FinishedKnown
  <2>1. Begun(w) => Begun(w)'
    BY DEF Begun
  <2>2. Left(w)' = Left(w)
    BY DEF Left
  <2>3. CASE IsFinished(m, w.uid) /\ w \in Versions(m)
    BY <2>1, <2>2, <2>3 DEF VersionsInv, FinishedKnown
  <2>4. CASE ~IsFinished(m, w.uid) /\ w \in Versions(m)
    <3>1. m = n /\ v.uid = w.uid /\ v.status.finished /\ ~api[n].status.finished
      BY <1>1, <2>4 DEF IsFinished
    <3>2. QED
      BY <2>1, <2>2, <2>4, <3>1
  <2>5. CASE w \notin Versions(m)
    BY <1>1, <2>5 DEF IsFinished
  <2>6. QED
    BY <2>3, <2>4, <2>5
<1>6. SameList'
  <2> SUFFICES ASSUME NEW m \in Names, NEW w \in Versions(m)',
                      NEW x \in Versions(m)', w.uid = x.uid, w.uid \in UIDs,
                      jobToRunList[w.uid] = Absent
               PROVE  Members(w.ann.toRun) = Members(x.ann.toRun)
    BY DEF SameList
  <2>1. \A y \in Versions(m)' : y.uid = w.uid =>
           \E z \in Versions(m) : /\ z.uid = y.uid
                                  /\ Members(z.ann.toRun) = Members(y.ann.toRun)
    BY <1>1
  <2>2. QED
    BY <2>1 DEF VersionsInv, SameList
<1>7. QED
  BY <1>2, <1>3, <1>4, <1>5, <1>6 DEF VersionsInv

(* A Sosreport is created or deleted.                                      *)
LEMMA FreshKeeps ==
    ASSUME TypeOK, VersionInv, VersionsInv, NEW n \in Names,
           NEW u \in UIDs \cup {NoUid}, Writes(n, Fresh(u, api[n].rv + 1)),
           u = NoUid \/ u \notin created, created' = created \cup ({u} \ {NoUid}),
           UNCHANGED <<runList, jobToRunList>>
    PROVE  VersionsInv'
<1> DEFINE v == Fresh(u, api[n].rv + 1)
<1>0. /\ v \in Version /\ v.uid = u
      /\ ~v.status.finished /\ ~v.status.inProgress
  <2>1. api[n].rv + 1 \in Nat
    BY VersionParts DEF TypeOK, KubeTypeOK
  <2>2. QED
    BY <2>1, FreshIsVersion DEF Fresh, NewStatus
<1> HIDE DEF v
<1>1. /\ api'[n] = v
      /\ \A m \in Names \ {n} : api'[m] = api[m] /\ Versions(m)' = Versions(m)
      /\ \A m \in Names : \A w \in Versions(m)' :
            w \in Versions(m) \/ (m = n /\ w = v)
  BY <1>0, VersionsWritten DEF v
<1>2. CacheOldest'
  BY <1>0, CacheStaysOldest DEF VersionsInv, v
<1>3. \A m \in Names : \A w \in Versions(m) : w.uid = u => u = NoUid
  BY DEF VersionsInv, NamesOfUids
<1>4. NamesOfUids'
  <2>1. \A m \in Names : \A w \in Versions(m)' : w.uid \in created' \cup {NoUid}
    BY <1>0, <1>1 DEF VersionsInv, NamesOfUids
  <2>2. ASSUME NEW m \in Names, NEW k \in Names, NEW w \in Versions(m)',
               NEW x \in Versions(k)', w.uid = x.uid
        PROVE  m = k \/ w.uid = NoUid
    <3>1. CASE w \in Versions(m) /\ x \in Versions(k)
      BY <2>2, <3>1 DEF VersionsInv, NamesOfUids
    <3>2. CASE w \notin Versions(m) \/ x \notin Versions(k)
      BY <1>0, <1>1, <1>3, <2>2, <3>2
    <3>3. QED
      BY <3>1, <3>2
  <2>3. QED
    BY <2>1, <2>2 DEF NamesOfUids
<1>5. ProgressKept'
  <2> SUFFICES ASSUME NEW m \in Names, NEW w \in Versions(m)',
                      NEW x \in Versions(m)',
                      w.uid = x.uid, w.uid # NoUid, w.rv =< x.rv,
                      w.status.inProgress
               PROVE  x.status.inProgress \/ x.status.finished
    BY DEF ProgressKept
  <2>1. w \in Versions(m) /\ x \in Versions(m)
    BY <1>0, <1>1, <1>3
  <2>2. QED
    BY <2>1 DEF VersionsInv, ProgressKept
<1>6. FinishedKnown'
  <2> SUFFICES ASSUME NEW m \in Names, NEW w \in Versions(m)',
                      w.uid \in UIDs, IsFinished(m, w.uid)',
                      ~w.status.finished
               PROVE  Begun(w)' /\ Left(w)' = {}
    BY DEF FinishedKnown
  <2>1. m # n
    BY <1>0, <1>1 DEF IsFinished
  <2>2. QED
    BY <1>1, <2>1 DEF VersionsInv, FinishedKnown, IsFinished, Begun, Left
<1>7. SameList'
  <2> SUFFICES ASSUME NEW m \in Names, NEW w \in Versions(m)',
                      NEW x \in Versions(m)', w.uid = x.uid, w.uid \in UIDs,
                      jobToRunList[w.uid] = Absent
               PROVE  Members(w.ann.toRun) = Members(x.ann.toRun)
    BY DEF SameList
  <2>1. CASE w \in Versions(m) /\ x \in Versions(m)
    BY <2>1 DEF VersionsInv, SameList
  <2>2. CASE w \notin Versions(m) \/ x \notin Versions(m)
    BY <1>0, <1>1, <1>3, <2>2, KubeApiAssumption
  <2>3. QED
    BY <2>1, <2>2
<1>8. QED
  BY <1>2, <1>4, <1>5, <1>6, <1>7 DEF VersionsInv

(* The list to run of u is set, loaded or shortened, while no version      *)
(* changes.                                                                *)
LEMMA ListKeeps ==
    ASSUME TypeOK, VersionsInv, UNCHANGED <<api, watch, cache, created>>,
           NEW u \in UIDs, NEW l,
           jobToRunList' = [jobToRunList EXCEPT ![u] = l],
           runList \subseteq runList',
           l = Absent => jobToRunList[u] = Absent,
           \A n \in Names : \A v \in Versions(n) :
              v.uid = u /\ IsFinished(n, u) /\ ~v.status.finished
                 => Members(Loaded(l, v.ann.toRun)) = {}
    PROVE  VersionsInv'
<1>1. \A n \in Names : Versions(n)' = Versions(n)
  BY DEF Versions
<1>2. \A w \in UIDs : jobToRunList'[w] = IF w = u THEN l ELSE jobToRunList[w]
  BY DEF TypeOK, ReconcilerTypeOK
<1>3. CacheOldest' /\ NamesOfUids' /\ ProgressKept'
  BY <1>1 DEF VersionsInv, CacheOldest, NamesOfUids, ProgressKept
<1>4. FinishedKnown'
  <2> SUFFICES ASSUME NEW m \in Names, NEW w \in Versions(m),
                      w.uid \in UIDs, IsFinished(m, w.uid),
                      ~w.status.finished
               PROVE  Begun(w)' /\ Left(w)' = {}
    BY <1>1 DEF FinishedKnown, IsFinished
  <2>1. Begun(w) /\ Left(w) = {}
    BY DEF VersionsInv, FinishedKnown
  <2>2. Begun(w)'
    BY <2>1 DEF Begun
  <2>3. Left(w)' = {}
    BY <1>2, <2>1 DEF Left, Loaded
  <2>4. QED
    BY <2>2, <2>3
<1>5. SameList'
  BY <1>1, <1>2 DEF VersionsInv, SameList
<1>6. QED
  BY <1>3, <1>4, <1>5 DEF VersionsInv

(* The copy of a Reconcile under way stays right about the versions: a     *)
(* new one of its Sosreport repeats what an old one says.                  *)
LEMMA CopyKeeps ==
    ASSUME TypeOK, CopyBegun, UNCHANGED jobToRunList,
           runList \subseteq runList', created \subseteq created',
           pc' # "idle" =>
              /\ pc # "idle" /\ req' = req /\ s'.uid = s.uid
              /\ Members(s'.ann.toRun) = Members(s.ann.toRun),
           \A n \in Names : \A w \in Versions(n)' :
              w.uid = s.uid =>
                 \E x \in Versions(n) :
                    /\ x.uid = w.uid
                    /\ \/ x.status.inProgress \/ x.status.finished
                       => w.status.inProgress \/ w.status.finished
                    /\ jobToRunList[w.uid] = Absent
                       => Members(w.ann.toRun) = Members(x.ann.toRun)
    PROVE  CopyBegun'
<1> SUFFICES ASSUME pc' # "idle" PROVE CopyBegun'
  BY DEF CopyBegun
<1>1. pc # "idle" /\ req' = req /\ s'.uid = s.uid /\ req \in Names
  BY DEF TypeOK, ReconcilerTypeOK
<1>2. s'.uid \in created'
  BY <1>1 DEF CopyBegun
<1>3. \A n \in Names : \A w \in Versions(n)' : w.uid = s'.uid => n = req'
  BY <1>1 DEF CopyBegun
<1>4. ASSUME NEW w \in Versions(req)', w.uid = s'.uid
      PROVE  /\ Begun(w)' \/ w.status.finished
             /\ jobToRunList'[s'.uid] = Absent => Members(w.ann.toRun) = {}
  <2>1. PICK x \in Versions(req) :
           /\ x.uid = w.uid
           /\ x.status.inProgress \/ x.status.finished
              => w.status.inProgress \/ w.status.finished
           /\ jobToRunList[w.uid] = Absent
              => Members(w.ann.toRun) = Members(x.ann.toRun)
    BY <1>1, <1>4
  <2>2. /\ Begun(x) \/ x.status.finished
        /\ jobToRunList[s.uid] = Absent => Members(x.ann.toRun) = {}
    BY <1>1, <1>4, <2>1 DEF CopyBegun
  <2>3. QED
    BY <1>1, <1>4, <2>1, <2>2 DEF Begun
<1>5. jobToRunList'[s'.uid] = Absent => Members(s'.ann.toRun) = {}
  BY <1>1 DEF CopyBegun
<1>6. QED
  BY <1>1, <1>2, <1>3, <1>4, <1>5 DEF CopyBegun

(* A step outside of Reconcile that forgets versions.                      *)
LEMMA ForgetStep ==
    ASSUME TypeOK, RestartInv, Forgets, CacheOldest',
           UNCHANGED <<localVars, runList, jobToRunList, created>>
    PROVE  RestartInv'
<1>1. VersionsInv'
  BY ForgetKeeps DEF RestartInv, VersionsInv
<1>2. CopyBegun'
  <2>1. \A n \in Names : \A w \in Versions(n)' : w \in Versions(n)
    BY DEF Forgets
  <2>2. QED
    BY <2>1, CopyKeeps DEF RestartInv, localVars
<1>3. LoopQuiet'
  BY DEF RestartInv, LoopQuiet, IsFinished, Forgets, localVars
<1>4. QED
  BY <1>1, <1>2, <1>3 DEF RestartInv

(* A step that leaves alone what the invariant is about.                   *)
LEMMA RestartUntouched ==
    ASSUME TypeOK, RestartInv,
           UNCHANGED <<api, watch, cache, localVars, runList, jobToRunList,
                       created>>
    PROVE  RestartInv'
<1>1. Forgets /\ CacheOldest'
  BY DEF Forgets, Versions, RestartInv, VersionsInv, CacheOldest
<1>2. QED
  BY <1>1, ForgetStep

(* Users.                                                                  *)
LEMMA UserRestartStep ==
    ASSUME TypeOK, VersionInv, RestartInv, Users
    PROVE  RestartInv'
<1> USE DEF TypeOK, KubeTypeOK, ReconcilerTypeOK
<1>1. ASSUME NEW n \in Names PROVE api[n] \in Version /\ api[n].rv + 1 \in Nat
  BY VersionParts
<1>2. ASSUME NEW n \in Names, NEW u \in UIDs \cup {NoUid},
             Writes(n, Fresh(u, api[n].rv + 1)),
             u = NoUid \/ u \notin created,
             created' = created \cup ({u} \ {NoUid}),
             UNCHANGED <<localVars, runList, jobToRunList>>
      PROVE  RestartInv'
  <2> DEFINE v == Fresh(u, api[n].rv + 1)
  <2>1. v \in Version /\ v.uid = u /\ ~v.status.finished
    BY <1>1, FreshIsVersion DEF Fresh, NewStatus
  <2>2. VersionsInv'
    BY <1>2, FreshKeeps DEF RestartInv
  <2> HIDE DEF v
  <2>3. /\ api'[n] = v
        /\ \A m \in Names \ {n} : api'[m] = api[m]
        /\ \A m \in Names : \A w \in Versions(m)' :
              w \in Versions(m) \/ (m = n /\ w = v)
    BY <1>2, <2>1, VersionsWritten DEF v
  <2>4. pc # "idle" => s.uid # u
    BY <1>2, KubeApiAssumption DEF RestartInv, CopyBegun
  <2>5. CopyBegun'
    <3>1. CASE pc = "idle"
      BY <1>2, <3>1 DEF CopyBegun, localVars
    <3>2. CASE pc # "idle"
      <4>1. \A m \in Names : \A w \in Versions(m)' :
               w.uid = s.uid => w \in Versions(m)
        BY <2>1, <2>3, <2>4, <3>2
      <4>2. QED
        BY <1>2, <4>1, CopyKeeps DEF RestartInv, localVars
    <3>3. QED
      BY <3>1, <3>2
  <2>6. LoopQuiet'
    <3>1. pc # "idle" /\ IsFinished(req, s.uid)' => IsFinished(req, s.uid)
      BY <1>2, <2>1, <2>3 DEF IsFinished, localVars
    <3>2. QED
      BY <1>2, <3>1 DEF RestartInv, LoopQuiet, localVars, IsFinished
  <2>7. QED
    BY <2>2, <2>5, <2>6 DEF RestartInv
<1>3. ASSUME NEW n \in Names, NEW u \in UIDs, CreateSosreport(n, u)
      PROVE  RestartInv'
  <2>1. /\ Writes(n, Fresh(u, api[n].rv + 1)) /\ u \notin created
        /\ created' = created \cup ({u} \ {NoUid})
        /\ UNCHANGED <<localVars, runList, jobToRunList>>
    BY <1>3, KubeApiAssumption
       DEF CreateSosreport, Writes, Fresh, recVars, localVars
  <2>2. QED
    BY <1>2, <2>1
<1>4. ASSUME NEW n \in Names, DeleteSosreport(n) PROVE RestartInv'
  <2>1. /\ Writes(n, Fresh(NoUid, api[n].rv + 1))
        /\ created' = created \cup ({NoUid} \ {NoUid})
        /\ UNCHANGED <<localVars, runList, jobToRunList>>
    BY <1>4 DEF DeleteSosreport, Writes, Fresh, memVars
  <2>2. QED
    BY <1>2, <2>1
<1>5. ASSUME NEW n \in Names, TouchSosreport(n) PROVE RestartInv'
  <2> DEFINE v == [api[n] EXCEPT !.rv = @ + 1]
  <2>1. /\ v \in Version /\ v.rv = api[n].rv + 1 /\ v.uid = api[n].uid
        /\ v.status = api[n].status /\ v.ann = api[n].ann
    BY <1>1 DEF Version
  <2>2. Store(n, v) /\ UNCHANGED <<cache, localVars, runList, jobToRunList, created>>
    BY <1>5 DEF TouchSosreport, memVars
  <2> HIDE DEF v
  <2>3. Writes(n, v)
    BY <2>1, <2>2 DEF Writes
  <2>4. /\ api'[n] = v /\ api[n] \in Versions(n)
        /\ \A m \in Names \ {n} : api'[m] = api[m]
        /\ \A m \in Names : \A w \in Versions(m)' :
              w \in Versions(m) \/ (m = n /\ w = v)
    BY <2>1, <2>3, VersionsWritten, VersionsType
  <2>5. VersionsInv'
    BY <2>1, <2>2, <2>3, WriteKeeps DEF RestartInv
  <2>6. CopyBegun'
    BY <2>1, <2>2, <2>4, CopyKeeps DEF RestartInv, localVars
  <2>7. LoopQuiet'
    <3>1. pc # "idle" /\ IsFinished(req, s.uid)' => IsFinished(req, s.uid)
      BY <2>1, <2>2, <2>4 DEF IsFinished, localVars
    <3>2. QED
      BY <2>2, <3>1 DEF RestartInv, LoopQuiet, localVars, IsFinished
  <2>8. QED
    BY <2>5, <2>6, <2>7 DEF RestartInv
<1>6. ASSUME \/ \E j \in jobs : DeleteJob(j)
             \/ \E c \in ConcurrencySettings : SetConcurrency(c)
      PROVE  RestartInv'
  BY <1>6, RestartUntouched DEF DeleteJob, SetConcurrency, storeVars, kubeVars,
                                memVars
<1>7. QED
  BY <1>3, <1>4, <1>5, <1>6 DEF Users

(* Informers: a version that is delivered replaces an older one.           *)
LEMMA InformerRestartStep ==
    ASSUME TypeOK, VersionInv, RestartInv, Informers
    PROVE  RestartInv'
<1>1. ASSUME NEW n \in Names, Deliver(n) PROVE RestartInv'
  <2>1. PICK v \in watch[n] : /\ Deliverable(n, v)
                              /\ cache' = [cache EXCEPT ![n] = v]
                              /\ watch' = [watch EXCEPT ![n] = @ \ {v}]
    BY <1>1 DEF Deliver
  <2>2. UNCHANGED <<api, localVars, runList, jobToRunList, created>>
    BY <1>1 DEF Deliver, memVars
  <2>3. Forgets
    BY <2>1, <2>2 DEF Forgets, Versions, TypeOK, KubeTypeOK
  <2>4. CacheOldest'
    BY <2>1 DEF RestartInv, VersionsInv, CacheOldest, Deliverable, TypeOK,
                KubeTypeOK
  <2>5. QED
    BY <2>2, <2>3, <2>4, ForgetStep
<1>2. ASSUME NEW n \in Names, Resync(n) PROVE RestartInv'
  BY <1>2, RestartUntouched DEF Resync, kubeVars, memVars
<1>3. ASSUME NEW j \in jobs, JobEvent(j) PROVE RestartInv'
  BY <1>3, RestartUntouched DEF JobEvent, memVars
<1>4. QED
  BY <1>1, <1>2, <1>3 DEF Informers

(* The cluster.  A crash leaves the stored versions only.                  *)
LEMMA ClusterRestartStep ==
    ASSUME TypeOK, VersionInv, RestartInv, Cluster
    PROVE  RestartInv'
<1>1. ASSUME NEW j \in jobs, JobCompletes(j) PROVE RestartInv'
  BY <1>1, RestartUntouched DEF JobCompletes, JobFinishes, recVars, localVars
<1>2. ASSUME NEW u \in UIDs, GarbageCollect(u) PROVE RestartInv'
  BY <1>2, RestartUntouched DEF GarbageCollect, Collect, memVars
<1>3. CASE Crash \/ Panic
  <2>1. /\ UNCHANGED <<api, created>> /\ cache' = api
        /\ watch' = [n \in Names |-> {}]
        /\ pc' = "idle" /\ toVisit' = {} /\ inFlight' = {}
    BY <1>3 DEF Crash, Panic, Restart, Return
  <2>2. \A n \in Names : Versions(n)' = {api[n]} /\ api'[n] = api[n]
    BY <2>1 DEF Versions
  <2>3. CacheOldest' /\ ProgressKept' /\ SameList'
    BY <2>1, <2>2 DEF CacheOldest, ProgressKept, SameList
  <2>4. NamesOfUids'
    <3>1. \A n \in Names : api[n] \in Versions(n)
      BY VersionsType
    <3>2. QED
      BY <2>1, <2>2, <3>1 DEF RestartInv, VersionsInv, NamesOfUids
  <2>5. FinishedKnown'
    BY <2>2 DEF FinishedKnown, IsFinished
  <2>6. QED
    BY <2>1, <2>3, <2>4, <2>5
       DEF RestartInv, VersionsInv, CopyBegun, LoopQuiet
<1>4. QED
  BY <1>1, <1>2, <1>3 DEF Cluster

-----------------------------------------------------------------------------
(* update() and updateStatus() store a version made from a current copy,   *)
(* or nothing.                                                             *)
LEMMA UpdateWrites ==
    ASSUME TypeOK, NEW n \in Names, NEW v \in Version, Update(n, v),
           UNCHANGED cache
    PROVE  \/ UNCHANGED <<api, watch>> /\ s' = v
           \/ /\ IsCurrent(n, v)
              /\ WithAnnotations(n, v) \in Version
              /\ Writes(n, WithAnnotations(n, v))
              /\ s' \in {v, WithAnnotations(n, v)}
<1>1. WithAnnotations(n, v) \in Version
  BY WithAnnotationsIsVersion DEF TypeOK, KubeTypeOK
<1>2. WithAnnotations(n, v).rv = api[n].rv + 1
  BY DEF WithAnnotations
<1>3. QED
  BY <1>1, <1>2 DEF Update, Writes

(* The same for updateStatus(), which stores a status.                     *)
LEMMA UpdateStatusWrites ==
    ASSUME TypeOK, NEW n \in Names, NEW v \in Version,
           UpdateStatus(n, v) \/ Reordered(n, v), UNCHANGED cache
    PROVE  \/ UNCHANGED <<api, watch>>
           \/ /\ IsCurrent(n, v)
              /\ WithStatus(n, v) \in Version
              /\ Writes(n, WithStatus(n, v))
<1>1. WithStatus(n, v) \in Version
  BY WithStatusIsVersion DEF TypeOK, KubeTypeOK
<1>2. WithStatus(n, v).rv = api[n].rv + 1
  BY DEF WithStatus
<1>3. QED
  BY <1>1, <1>2 DEF UpdateStatus, Reordered, Writes

(* Where no Reconcile is under way, only the versions matter.              *)
LEMMA IdleKeeps ==
    ASSUME VersionsInv', pc' = "idle", toVisit' = {}, inFlight' = {}
    PROVE  RestartInv'
BY DEF RestartInv, CopyBegun, LoopQuiet

(* Nor is there a loop.                                                    *)
LEMMA IdleLoops ==
    ASSUME RestartInv, pc = "idle"
    PROVE  toVisit = {} /\ inFlight = {}
BY DEF RestartInv, LoopQuiet

(* The runList grows, while versions and lists stay.                       *)
LEMMA RunListKeeps ==
    ASSUME TypeOK, VersionsInv, UNCHANGED <<api, watch, cache, created>>,
           runList \subseteq runList', UNCHANGED jobToRunList
    PROVE  VersionsInv'
<1>1. Forgets /\ CacheOldest'
  BY DEF Forgets, Versions, VersionsInv, CacheOldest
<1>2. QED
  BY <1>1, ForgetKeeps DEF VersionsInv

(* The first step of Reconcile.                                            *)
LEMMA ReconcileRestartStep ==
    ASSUME TypeOK, VersionInv, RestartInv, NEW n \in queue, Reconcile(n),
           UNCHANGED created
    PROVE  RestartInv'
<1>1. CASE ReconcileIgnored(n)
  BY <1>1, RestartUntouched DEF ReconcileIgnored, kubeVars, memVars
<1>2. CASE ScheduleListFails(n)
  <2>1. /\ UNCHANGED <<api, watch, cache, localVars, jobToRunList>>
        /\ runList \subseteq runList' /\ pc = "idle"
    BY <1>2 DEF ScheduleListFails, Begin, kubeVars
  <2>2. VersionsInv'
    BY <2>1, RunListKeeps DEF RestartInv
  <2>3. QED
    BY <2>1, <2>2, IdleKeeps, IdleLoops DEF localVars
<1>3. CASE ScheduleNoNodes(n)
  <2> DEFINE v == [cache[n] EXCEPT !.status.inProgress = FALSE]
  <2>1. /\ n \in Names /\ cache[n] \in Version
        /\ cache[n].status.finished = FALSE
    BY <1>3, BeginType DEF ScheduleNoNodes
  <2>2. /\ v \in Version /\ v.rv = cache[n].rv /\ v.uid = cache[n].uid
        /\ v.status.finished = FALSE
    BY <2>1 DEF Version, Status
  <2>3. /\ UpdateStatus(n, v) /\ runList \subseteq runList' /\ pc = "idle"
        /\ UNCHANGED <<cache, localVars, jobToRunList>>
        /\ cache[n].status.inProgress = FALSE
    BY <1>3, <2>1 DEF ScheduleNoNodes, Begin, NotYetRunning, Version, Status
  <2> HIDE DEF v
  <2>4. VersionsInv'
    <3>1. CASE UNCHANGED <<api, watch>>
      BY <2>3, <3>1, RunListKeeps DEF RestartInv
    <3>2. CASE /\ IsCurrent(n, v)
               /\ WithStatus(n, v) \in Version
               /\ Writes(n, WithStatus(n, v))
      <4>1. api[n] = cache[n]
        BY <2>1, <2>2, <3>2
           DEF IsCurrent, VersionInv, InformerCoherent, Coherent
      <4>2. /\ WithStatus(n, v).uid = api[n].uid
            /\ WithStatus(n, v).ann = api[n].ann
            /\ WithStatus(n, v).status.finished = FALSE
        BY <2>2 DEF WithStatus
      <4>3. QED
        BY <2>1, <2>3, <3>2, <4>1, <4>2, WriteKeeps DEF RestartInv
    <3>3. QED
      BY <2>1, <2>2, <2>3, <3>1, <3>2, UpdateStatusWrites
  <2>5. QED
    BY <2>3, <2>4, IdleKeeps, IdleLoops DEF localVars
<1>4. ASSUME NEW u \in UIDs, u = cache[n].uid, n \in Names,
             cache[n].status.finished = FALSE,
             UNCHANGED <<api, watch, cache>>
      PROVE  /\ u \in created
             /\ \A m \in Names : \A v \in Versions(m) : v.uid = u => m = n
             /\ \A m \in Names : Versions(m)' = Versions(m)
             /\ cache[n] \in Versions(n)
             /\ IsFinished(n, u) => Begun(cache[n]) /\ Left(cache[n]) = {}
  <2>1. cache[n] \in Versions(n) /\ u # NoUid
    BY <1>4, VersionsType, KubeApiAssumption
  <2>2. QED
    BY <1>4, <2>1
       DEF RestartInv, VersionsInv, NamesOfUids, FinishedKnown, Versions
<1>5. CASE Schedule(n)
  <2> DEFINE u == cache[n].uid
  <2>1. /\ n \in Names /\ u \in UIDs /\ cache[n] \in Version
        /\ cache[n].status.finished = FALSE
    BY <1>5, BeginType DEF Schedule
  <2>2. /\ jobToRunList' = [jobToRunList EXCEPT ![u] = Eligible(u)]
        /\ runList' = runList \cup {u} /\ NotYetRunning(cache[n])
        /\ pc = "idle" /\ pc' = "scheduleUpdate" /\ req' = n
        /\ s' = [cache[n] EXCEPT !.ann.toRun = Eligible(u)]
        /\ UNCHANGED <<api, watch, cache, toVisit, inFlight>>
    BY <1>5 DEF Schedule, Begin, kubeVars, loopVars
  <2>3. s'.uid = u
    BY <2>1, <2>2 DEF Version
  <2> HIDE DEF u
  <2>4. /\ u \in created
        /\ \A m \in Names : \A v \in Versions(m) : v.uid = u => m = n
        /\ \A m \in Names : Versions(m)' = Versions(m)
        /\ ~IsFinished(n, u)
    BY <1>4, <2>1, <2>2 DEF NotYetRunning, Begun, u
  <2>5. Eligible(u) # Absent
    BY <2>1, ReconcilerAssumption, LoadedFacts DEF Eligible
  <2>6. VersionsInv'
    BY <2>1, <2>2, <2>4, <2>5, ListKeeps DEF RestartInv
  <2>7. CopyBegun'
    <3>1. jobToRunList'[u] # Absent
      BY <2>1, <2>2, <2>5 DEF TypeOK, ReconcilerTypeOK
    <3>2. QED
      BY <2>2, <2>3, <2>4, <3>1 DEF CopyBegun, Begun
  <2>8. LoopQuiet'
    BY <2>2, IdleLoops DEF LoopQuiet
  <2>9. QED
    BY <2>6, <2>7, <2>8 DEF RestartInv
<1>6. CASE Continue(n) \/ ContinueListFails(n)
  <2> DEFINE u == cache[n].uid
             l == Loaded(jobToRunList[u], cache[n].ann.toRun)
  <2>1. /\ n \in Names /\ u \in UIDs /\ cache[n] \in Version
        /\ cache[n].status.finished = FALSE
    BY <1>6, BeginType DEF Continue, ContinueListFails
  <2>2. /\ jobToRunList' = [jobToRunList EXCEPT ![u] = l]
        /\ runList' = runList /\ ~NotYetRunning(cache[n])
        /\ pc = "idle" /\ pc' \in {"run", "dequeueUpdate"} /\ req' = n
        /\ s'.uid = u /\ s'.ann.toRun = cache[n].ann.toRun
        /\ toVisit' = Members(l)
        /\ UNCHANGED <<api, watch, cache, inFlight>>
    BY <1>6, <2>1 DEF Continue, ContinueListFails, Begin, kubeVars, Version,
                      Annotations
  <2>4. l = IF jobToRunList[u] = Absent THEN cache[n].ann.toRun
            ELSE jobToRunList[u]
    BY DEF Loaded
  <2> HIDE DEF u, l
  <2>5. /\ u \in created
        /\ \A m \in Names : \A v \in Versions(m) : v.uid = u => m = n
        /\ \A m \in Names : Versions(m)' = Versions(m)
        /\ cache[n] \in Versions(n)
        /\ IsFinished(n, u) => Members(l) = {}
    <3>1. Left(cache[n]) = Members(l)
      BY DEF Left, l, u
    <3>2. QED
      BY <1>4, <2>1, <2>2, <3>1 DEF u
  <2>6. l = Absent => jobToRunList[u] = Absent /\ cache[n].ann.toRun = Absent
    BY <2>4
  <2>7. VersionsInv'
    <3>1. ASSUME NEW v \in Versions(n), v.uid = u, IsFinished(n, u),
                 ~v.status.finished
          PROVE  Members(Loaded(l, v.ann.toRun)) = {}
      <4>1. Members(Loaded(jobToRunList[u], v.ann.toRun)) = {}
        BY <2>1, <3>1 DEF RestartInv, VersionsInv, FinishedKnown, Left
      <4>2. CASE l = Absent
        BY <2>6, <4>1, <4>2
      <4>3. CASE l # Absent
        BY <2>5, <3>1, <4>3 DEF Loaded
      <4>4. QED
        BY <4>2, <4>3
    <3>2. \A m \in Names : \A v \in Versions(m) :
             v.uid = u /\ IsFinished(m, u) /\ ~v.status.finished
                => Members(Loaded(l, v.ann.toRun)) = {}
      BY <2>5, <3>1
    <3>3. runList \subseteq runList' /\ UNCHANGED <<api, watch, cache, created>>
      BY <2>2
    <3>4. QED
      BY <2>1, <2>2, <2>6, <3>2, <3>3, ListKeeps DEF RestartInv
  <2>8. ASSUME NEW v \in Versions(n), v.uid = u
        PROVE  Begun(v) \/ v.status.finished
    <3>1. cache[n].rv =< v.rv
      <4>1. cache[n].rv =< cache[n].rv
        BY <2>1, VersionParts
      <4>2. QED
        BY <2>1, <4>1 DEF Versions, RestartInv, VersionsInv, CacheOldest,
                          VersionInv, InformerCoherent, Coherent
    <3>2. CASE cache[n].status.inProgress
      <4>1. u # NoUid
        BY <2>1, KubeApiAssumption
      <4>2. v.status.inProgress \/ v.status.finished
        BY <2>1, <2>5, <2>8, <3>1, <3>2, <4>1
           DEF RestartInv, VersionsInv, ProgressKept, u
      <4>3. QED
        BY <4>2 DEF Begun
    <3>3. CASE u \in runList
      BY <2>8, <3>3 DEF Begun
    <3>4. QED
      BY <2>2, <3>2, <3>3 DEF NotYetRunning, u
  <2>9. ASSUME jobToRunList'[u] = Absent
        PROVE  /\ Members(cache[n].ann.toRun) = {}
               /\ \A v \in Versions(n) : v.uid = u => Members(v.ann.toRun) = {}
    <3>1. jobToRunList[u] = Absent /\ cache[n].ann.toRun = Absent
      BY <2>1, <2>2, <2>6, <2>9 DEF TypeOK, ReconcilerTypeOK
    <3>2. QED
      BY <2>1, <2>5, <3>1, LoadedFacts DEF RestartInv, VersionsInv, SameList, u
  <2>10. CopyBegun'
    <3>1. /\ s'.uid = u /\ req' = n /\ u \in created'
          /\ \A m \in Names : \A v \in Versions(m)' : v.uid = u => m = n
      BY <2>2, <2>5
    <3>2. \A v \in Versions(n)' : v.uid = u => Begun(v)' \/ v.status.finished
      BY <2>1, <2>2, <2>5, <2>8 DEF Begun
    <3>3. jobToRunList'[u] = Absent =>
             /\ Members(s'.ann.toRun) = {}
             /\ \A v \in Versions(n)' : v.uid = u => Members(v.ann.toRun) = {}
      BY <2>1, <2>2, <2>5, <2>9
    <3>4. QED
      BY <3>1, <3>2, <3>3 DEF CopyBegun
  <2>11. LoopQuiet'
    <3>1. IsFinished(req, s.uid)' => IsFinished(n, u)
      BY <2>2 DEF IsFinished
    <3>2. QED
      BY <2>2, <2>5, <3>1, IdleLoops DEF LoopQuiet
  <2>12. QED
    BY <2>7, <2>10, <2>11 DEF RestartInv
<1>7. QED
  BY <1>1, <1>2, <1>3, <1>5, <1>6 DEF Reconcile

(* The writes of annotations.                                              *)
LEMMA UpdateRestartStep ==
    ASSUME TypeOK, VersionInv, RestartInv, UNCHANGED created,
           ScheduleUpdate \/ DequeueUpdate \/ RunUpdate
    PROVE  RestartInv'
<1>1. /\ pc \in {"scheduleUpdate", "dequeueUpdate", "runUpdate"}
      /\ pc' # "idle"
      /\ pc = "dequeueUpdate" => pc' = "run"
      /\ pc # "dequeueUpdate" => pc' \notin {"run", "dequeueUpdate"}
      /\ Update(req, s)
      /\ UNCHANGED <<cache, req, toVisit, inFlight, runList, jobToRunList>>
  BY DEF ScheduleUpdate, DequeueUpdate, RunUpdate, loopVars, memVars
<1>2. /\ req \in Names /\ s \in Version /\ s.uid \in UIDs
      /\ CopyBegun /\ LoopQuiet /\ VersionsInv
  BY <1>1 DEF TypeOK, ReconcilerTypeOK, RestartInv
<1>3. ASSUME IsFinished(req, s.uid)' => IsFinished(req, s.uid), s'.uid = s.uid
      PROVE  LoopQuiet'
  BY <1>1, <1>2, <1>3 DEF LoopQuiet, IsFinished
<1>4. CASE UNCHANGED <<api, watch>> /\ s' = s
  <2>1. VersionsInv'
    BY <1>1, <1>2, <1>4, RunListKeeps
  <2>2. \A n \in Names : Versions(n)' = Versions(n)
    BY <1>1, <1>4 DEF Versions
  <2>3. CopyBegun'
    BY <1>1, <1>2, <1>4, <2>2, CopyKeeps
  <2>4. LoopQuiet'
    BY <1>1, <1>3, <1>4 DEF IsFinished
  <2>5. QED
    BY <2>1, <2>3, <2>4 DEF RestartInv
<1>5. ASSUME IsCurrent(req, s), NEW v \in Version, v = WithAnnotations(req, s),
             Writes(req, v), s' \in {s, v}
      PROVE  RestartInv'
  <2>1. v.uid = s.uid /\ v.uid = api[req].uid /\ v.ann = s.ann
        /\ v.status = api[req].status
    BY <1>5 DEF WithAnnotations, IsCurrent
  <2>2. /\ api'[req] = v /\ api[req] \in Versions(req)
        /\ \A m \in Names : \A w \in Versions(m)' :
              w \in Versions(m) \/ (m = req /\ w = v)
    BY <1>2, <1>5, VersionsWritten, VersionsType
  <2>3. jobToRunList[s.uid] = Absent
           => Members(v.ann.toRun) = {} /\ Members(api[req].ann.toRun) = {}
    BY <1>1, <1>2, <2>1, <2>2 DEF CopyBegun
  <2>4. VersionsInv'
    BY <1>1, <1>2, <1>5, <2>1, <2>3, WriteKeeps
  <2>5. s'.uid = s.uid /\ s'.ann = s.ann
    BY <1>5, <2>1
  <2>6. \A m \in Names : \A w \in Versions(m)' :
           \E x \in Versions(m) :
              /\ x.uid = w.uid
              /\ \/ x.status.inProgress \/ x.status.finished
                 => w.status.inProgress \/ w.status.finished
              /\ w.uid = s.uid /\ jobToRunList[w.uid] = Absent
                 => Members(w.ann.toRun) = Members(x.ann.toRun)
    BY <2>1, <2>2, <2>3
  <2>7. CopyBegun'
    BY <1>1, <1>2, <2>5, <2>6, CopyKeeps
  <2>8. LoopQuiet'
    BY <1>1, <1>3, <2>1, <2>2, <2>5 DEF IsFinished
  <2>9. QED
    BY <2>4, <2>7, <2>8 DEF RestartInv
<1>6. QED
  BY <1>1, <1>2, <1>4, <1>5, UpdateWrites

(* The writes of the status.                                               *)
LEMMA StatusRestartStep ==
    ASSUME TypeOK, VersionInv, RestartInv, UNCHANGED created,
           ScheduleStatus \/ Conclude
    PROVE  RestartInv'
<1>1. /\ pc # "idle" /\ pc' = "idle" /\ toVisit' = {} /\ inFlight' = {}
      /\ UNCHANGED <<cache, runList, jobToRunList>>
  BY DEF ScheduleStatus, Conclude, Return, memVars
<1>2. /\ req \in Names /\ s \in Version /\ s.uid \in UIDs
      /\ CopyBegun /\ VersionsInv /\ s.status.finished = FALSE
      /\ IsCurrent(req, s) => s.uid = api[req].uid /\ s.status = api[req].status
  BY <1>1 DEF TypeOK, ReconcilerTypeOK, RestartInv, VersionInv, CopyCoherent,
              IsCurrent, Version, Status
<1>3. ASSUME NEW v \in Version, v.uid = s.uid, v.rv = s.rv,
             UpdateStatus(req, v) \/ Reordered(req, v),
             s.status.inProgress => v.status.inProgress \/ v.status.finished,
             v.status.finished => isSosreportJobsDone(s.uid)
      PROVE  VersionsInv'
  <2>1. CASE UNCHANGED <<api, watch>>
    BY <1>1, <1>2, <2>1, RunListKeeps
  <2>2. ASSUME IsCurrent(req, v), NEW x \in Version, x = WithStatus(req, v),
               Writes(req, x)
        PROVE  VersionsInv'
    <3>1. /\ x.uid = api[req].uid /\ x.ann = api[req].ann
          /\ x.status = v.status
          /\ api[req].status = s.status /\ x.uid = s.uid
      BY <1>2, <1>3, <2>2 DEF WithStatus, IsCurrent
    <3>2. ASSUME x.status.finished, NEW w \in Versions(req),
                 w.uid = x.uid, ~w.status.finished
          PROVE  Begun(w) /\ Left(w) = {}
      <4>1. Begun(w)
        BY <1>1, <1>2, <3>1, <3>2 DEF CopyBegun
      <4>2. CASE jobToRunList[s.uid] = Absent
        <5>1. Members(w.ann.toRun) = {}
          BY <1>1, <1>2, <3>1, <3>2, <4>2 DEF CopyBegun
        <5>2. QED
          BY <3>1, <3>2, <4>1, <4>2, <5>1 DEF Left, Loaded
      <4>3. CASE jobToRunList[s.uid] # Absent
        <5>1. Members(jobToRunList[s.uid]) = {}
          BY <1>3, <3>1, <3>2 DEF isSosreportJobsDone
        <5>2. QED
          BY <3>1, <3>2, <4>1, <4>3, <5>1 DEF Left, Loaded
      <4>4. QED
        BY <4>2, <4>3
    <3>3. QED
      BY <1>1, <1>2, <1>3, <2>2, <3>1, <3>2, WriteKeeps
  <2>3. QED
    BY <1>1, <1>2, <1>3, <2>1, <2>2, UpdateStatusWrites
<1>4. CASE ScheduleStatus
  <2> DEFINE v == [s EXCEPT !.status.inProgress = TRUE]
  <2>1. /\ v \in Version /\ v.uid = s.uid /\ v.rv = s.rv
        /\ v.status.inProgress = TRUE /\ v.status.finished = FALSE
    BY <1>2 DEF Version, Status
  <2>2. UpdateStatus(req, v)
    BY <1>4 DEF ScheduleStatus
  <2> HIDE DEF v
  <2>3. VersionsInv'
    BY <1>3, <2>1, <2>2
  <2>4. QED
    BY <1>1, <2>3, IdleKeeps
<1>5. CASE Conclude
  <2> DEFINE v == Concluded(s)
             done == isSosreportJobsDone(s.uid)
  <2>1. v \in Version
    BY <1>2, ConcludedIsVersion
  <2>2. /\ v.uid = s.uid /\ v.rv = s.rv
        /\ v.status.finished = (s.status.finished \/ done)
        /\ v.status.inProgress = (s.status.inProgress /\ ~done)
    BY <1>2 DEF Concluded, Version
  <2>3. UpdateStatus(req, v) \/ Reordered(req, v)
    BY <1>5 DEF Conclude
  <2> HIDE DEF v, done
  <2>4. VersionsInv'
    BY <1>2, <1>3, <2>1, <2>2, <2>3 DEF done
  <2>5. QED
    BY <1>1, <2>4, IdleKeeps
<1>6. QED
  BY <1>4, <1>5

(* The loop.                                                               *)
LEMMA LoopRestartStep ==
    ASSUME TypeOK, VersionInv, RestartInv, UNCHANGED created, RunSosreportJobs
    PROVE  RestartInv'
<1>1. pc = "run" /\ UNCHANGED <<api, watch, cache, req, runList>>
  BY DEF RunSosreportJobs, CreatePvc, CreateJob, EndLoop, LoopEnds, memVars, kubeVars
<1>2. /\ req \in Names /\ s \in Version /\ s.uid \in UIDs
      /\ CopyBegun /\ LoopQuiet /\ VersionsInv
  BY <1>1 DEF TypeOK, ReconcilerTypeOK, RestartInv
<1>3. \A n \in Names : Versions(n)' = Versions(n)
  BY <1>1 DEF Versions
<1>4. ASSUME UNCHANGED <<pc, s, jobToRunList>>
      PROVE  VersionsInv' /\ CopyBegun'
  <2>1. VersionsInv'
    BY <1>1, <1>2, <1>4, RunListKeeps
  <2>2. CopyBegun'
    BY <1>1, <1>2, <1>3, <1>4, CopyKeeps
  <2>3. QED
    BY <2>1, <2>2
<1>5. ASSUME NEW node \in toVisit, CreatePvc(node) PROVE RestartInv'
  <2>1. /\ UNCHANGED <<pc, s, jobToRunList>> /\ toVisit' \subseteq toVisit
        /\ inFlight' \in {inFlight, {jobForSosreport(node)}}
    BY <1>5 DEF CreatePvc, memVars
  <2>2. LoopQuiet'
    BY <1>1, <1>2, <2>1 DEF LoopQuiet, IsFinished, jobForSosreport
  <2>3. QED
    BY <1>4, <2>1, <2>2 DEF RestartInv
<1>6. ASSUME NEW j \in inFlight, CreateJob(j) PROVE RestartInv'
  <2>1. UNCHANGED <<pc, s, jobToRunList, toVisit>> /\ inFlight' = {}
    BY <1>6 DEF CreateJob, memVars
  <2>2. LoopQuiet'
    BY <1>1, <1>2, <2>1 DEF LoopQuiet, IsFinished
  <2>3. QED
    BY <1>4, <2>1, <2>2 DEF RestartInv
<1>7. CASE EndLoop
  <2> DEFINE u == s.uid
             l == IF jobToRunList[u] \in {Absent, Null} THEN jobToRunList[u]
                  ELSE jobToRunList[u] \ started
  <2>1. /\ jobToRunList' = [jobToRunList EXCEPT ![u] = l]
        /\ pc' \in {"conclude", "runUpdate"}
        /\ s'.uid = u /\ s'.ann.toRun = Marshal(l)
        /\ toVisit' = {} /\ inFlight' = inFlight /\ inFlight = {}
    BY <1>2, <1>7 DEF EndLoop, LoopEnds, Version
  <2>2. jobToRunList[u] \in NodeList
    BY <1>2 DEF TypeOK, ReconcilerTypeOK
  <2>3. /\ l = Absent <=> jobToRunList[u] = Absent
        /\ \A a : Members(Loaded(l, a)) \subseteq Members(Loaded(jobToRunList[u], a))
    <3>1. CASE jobToRunList[u] \in {Absent, Null}
      BY <3>1
    <3>2. CASE jobToRunList[u] \notin {Absent, Null}
      <4>1. jobToRunList[u] \in SUBSET Nodes /\ l = jobToRunList[u] \ started
        BY <2>2, <3>2 DEF NodeList
      <4>2. l \in SUBSET Nodes
        BY <4>1
      <4>3. Members(l) = l /\ Members(jobToRunList[u]) = jobToRunList[u]
            /\ l # Absent
        BY <4>1, <4>2, LoadedFacts
      <4>4. QED
        BY <3>2, <4>1, <4>3 DEF Loaded
    <3>3. QED
      BY <3>1, <3>2
  <2> HIDE DEF u, l
  <2>4. \A m \in Names : \A v \in Versions(m) :
           v.uid = u /\ IsFinished(m, u) /\ ~v.status.finished
              => Members(Loaded(l, v.ann.toRun)) = {}
    BY <1>2, <2>3 DEF VersionsInv, FinishedKnown, Left, u
  <2>5. VersionsInv'
    BY <1>1, <1>2, <2>1, <2>3, <2>4, ListKeeps DEF u
  <2>6. jobToRunList'[u] = Absent => /\ jobToRunList[u] = Absent
                                     /\ Members(s'.ann.toRun) = {}
    BY <1>2, <2>1, <2>3, LoadedFacts
       DEF TypeOK, ReconcilerTypeOK, Marshal, u
  <2>7. CopyBegun'
    BY <1>1, <1>2, <1>3, <2>1, <2>6 DEF CopyBegun, Begun, u
  <2>8. LoopQuiet'
    BY <2>1 DEF LoopQuiet
  <2>9. QED
    BY <2>5, <2>7, <2>8 DEF RestartInv
<1>8. QED
  BY <1>5, <1>6, <1>7 DEF RunSosreportJobs

-----------------------------------------------------------------------------
(* Every step keeps the invariant.                                         *)
LEMMA RestartStep ==
    ASSUME TypeOK, VersionInv, RestartInv, [Next]_vars
    PROVE  RestartInv'
<1>1. CASE Controller
  BY <1>1, ReconcileRestartStep, UpdateRestartStep, StatusRestartStep,
     LoopRestartStep DEF Controller, ReconcilerNext
<1>2. CASE UNCHANGED vars
  BY <1>2, RestartUntouched DEF vars, kubeVars, recVars, localVars
<1>3. QED
  BY <1>1, <1>2, UserRestartStep, InformerRestartStep, ClusterRestartStep
     DEF Next

(* It holds at the start, when there are no versions yet.                  *)
LEMMA RestartInit == Init => RestartInv
<1> SUFFICES ASSUME Init PROVE RestartInv
  OBVIOUS
<1>1. /\ api = [n \in Names |-> Fresh(NoUid, 0)] /\ cache = api
      /\ watch = [n \in Names |-> {}] /\ pc = "idle"
      /\ toVisit = {} /\ inFlight = {}
  BY DEF Init, KubeInit, ReconcilerInit
<1>2. \A n \in Names : Versions(n) = {Fresh(NoUid, 0)} /\ Fresh(NoUid, 0).uid = NoUid
  BY <1>1 DEF Versions, Fresh
<1>3. VersionsInv
  BY <1>1, <1>2, KubeApiAssumption
     DEF VersionsInv, CacheOldest, NamesOfUids, ProgressKept, FinishedKnown,
         SameList
<1>4. QED
  BY <1>1, <1>3 DEF RestartInv, CopyBegun, LoopQuiet

(* Versions and memory stay consistent through every crash.                *)
THEOREM RestartsAreSafe == Spec => []RestartInv
<1>1. TypeOK /\ VersionInv /\ RestartInv /\ [Next]_vars => RestartInv'
  BY RestartStep
<1>2. QED
  BY <1>1, RestartInit, TypeCorrect, VersionsCoherent, PTL DEF Spec

(* runSosreportJobs creates no Job for a finished Sosreport, whichever     *)
(* version its Reconcile has read and however often the process was        *)
(* started again.                                                          *)
THEOREM NothingAfterFinished == Spec => NoJobAfterFinished
<1>1. TypeOK /\ RestartInv /\ [Next]_vars
         => [\A j \in jobs' \ jobs : ~IsFinished(j.name, j.owner)]_vars
  <2> SUFFICES ASSUME TypeOK, RestartInv, [Next]_vars,
                      NEW j \in jobs' \ jobs
               PROVE  ~IsFinished(j.name, j.owner)
    OBVIOUS
  <2>1. PICK k \in inFlight : CreateJob(k)
    <3>1. CASE RunSosreportJobs
      BY <3>1 DEF RunSosreportJobs, CreatePvc, EndLoop, LoopEnds, kubeVars
    <3>2. CASE Controller /\ ~RunSosreportJobs
      BY <3>2 DEF Controller, ReconcilerNext, Reconcile, ReconcileIgnored,
                  ScheduleListFails, ScheduleNoNodes, Schedule, Continue,
                  ContinueListFails, ScheduleUpdate, ScheduleStatus, DequeueUpdate, RunUpdate,
                  Conclude, kubeVars, childVars
    <3>3. CASE Users \/ Informers \/ Cluster \/ UNCHANGED vars
      BY <3>3 DEF Users, CreateSosreport, TouchSosreport, DeleteSosreport,
                  DeleteJob, SetConcurrency, Informers, Deliver, Resync,
                  JobEvent, Cluster, JobCompletes, JobFinishes,
                  GarbageCollect, Collect, RemoveJob, Crash, Panic, Restart,
                  vars, kubeVars, childVars
    <3>4. QED
      BY <3>1, <3>2, <3>3 DEF Next, Controller
  <2>2. j = k /\ pc = "run"
    BY <2>1 DEF CreateJob
  <2>3. QED
    BY <2>1, <2>2 DEF RestartInv, LoopQuiet
<1>2. QED
  BY <1>1, RestartsAreSafe, TypeCorrect, PTL DEF Spec, NoJobAfterFinished

=============================================================================

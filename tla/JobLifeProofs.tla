--------------------------- MODULE JobLifeProofs ---------------------------
(***************************************************************************)
(* For every number of Sosreports, nodes, faults and attempts, and every   *)
(* content of the ConfigMaps: Jobs mount their own volume, names fit, what *)
(* Complete tells of a Job, pods can be put on their nodes, and no node is *)
(* skipped.                                                                *)
(***************************************************************************)
EXTENDS JobLife, NodeSelectionProofs, SequenceTheorems, TLAPS

-----------------------------------------------------------------------------
(* Names.  A node's short name is cut so that the rest fits, provided that *)
(* there is room for a short name at all.                                  *)
LEMMA PrefixLength ==
    ASSUME NEW x \in Sosreports, NEW n \in Nodes, ~(maxLen(x) < 0)
    PROVE  Len(Prefix(x, n)) + 14 + 4 =< NameLimit
<1> DEFINE short == Head(Hostname[n])
<1>0. NameLimit \in Nat
  BY SetupAssumption
<1>1. Name[x] \in Seq(Characters) /\ Len(Name[x]) \in Nat
  BY SetupAssumption
<1>2. short \in Seq(Characters) /\ Len(short) \in Nat
  <2>1. Hostname[n] \in Seq(Seq(Characters)) /\ Hostname[n] # <<>>
    BY SetupAssumption
  <2> QED
    BY <2>1
<1>3. maxLen(x) \in Nat /\ maxLen(x) = NameLimit - 2 - Len(Name[x]) - 14 - 4
  <2> DEFINE length == Len(Name[x])
  <2>1. maxLen(x) = NameLimit - 2 - length - 14 - 4
    BY DEF maxLen
  <2>2. length \in Nat
    BY <1>1
  <2> HIDE DEF length
  <2>3. maxLen(x) \in Int
    BY <1>0, <2>1, <2>2
  <2>4. maxLen(x) \in Nat
    BY <2>3
  <2> QED
    BY <2>1, <2>4 DEF length
<1>4. shortName(x, n) \in Seq(Characters) /\ Len(shortName(x, n)) =< maxLen(x)
  <2> HIDE DEF short
  <2>1. CASE Len(short) > maxLen(x)
    <3>1. SubSeq(short, 1, maxLen(x)) \in Seq(Characters)
      BY <1>2, <1>3, <2>1
    <3>2. Len(SubSeq(short, 1, maxLen(x))) = maxLen(x)
      BY <1>2, <1>3, <2>1
    <3> QED
      BY <1>3, <2>1, <3>1, <3>2 DEF shortName, short
  <2>2. CASE ~(Len(short) > maxLen(x))
    BY <1>2, <1>3, <2>2 DEF shortName, short
  <2> QED
    BY <2>1, <2>2
<1>5. Len(shortName(x, n)) \in Nat
  BY <1>4
<1>6. Len(Prefix(x, n)) = Len(Name[x]) + 1 + Len(shortName(x, n)) + 1
  <2>1. <<"-">> \in Seq(Characters) /\ Len(<<"-">>) = 1
    <3>1. "-" \in Characters
      BY SetupAssumption
    <3>2. \A S : \A e \in S : <<e>> \in Seq(S) /\ Len(<<e>>) = 1
      OBVIOUS
    <3> QED
      BY <3>1, <3>2
  <2>2. /\ Name[x] \o <<"-">> \in Seq(Characters)
        /\ Len(Name[x] \o <<"-">>) = Len(Name[x]) + 1
    BY <1>1, <2>1
  <2>3. /\ (Name[x] \o <<"-">>) \o shortName(x, n) \in Seq(Characters)
        /\ Len((Name[x] \o <<"-">>) \o shortName(x, n))
              = Len(Name[x]) + 1 + Len(shortName(x, n))
    BY <1>4, <2>2
  <2> QED
    BY <2>1, <2>3 DEF Prefix
<1> QED
  <2> DEFINE name == Len(Name[x])
             cut  == Len(shortName(x, n))
             all  == Len(Prefix(x, n))
             max  == maxLen(x)
  <2>1. /\ name \in Nat /\ cut \in Nat /\ max \in Nat
        /\ max = NameLimit - 2 - name - 14 - 4
        /\ cut =< max /\ all = name + 1 + cut + 1
    BY <1>1, <1>3, <1>4, <1>5, <1>6
  <2> HIDE DEF name, cut, all, max
  <2>2. all + 14 + 4 =< NameLimit
    BY <1>0, <2>1
  <2> QED
    BY <2>2 DEF all

-----------------------------------------------------------------------------
(* A PVC is only made if its name is free, and a Job only with the PVC     *)
(* that was made for it just before.                                       *)
NamesInv ==
    /\ read # "idle" => req \in Sosreports
    /\ toRun \in [Sosreports -> SUBSET Nodes]
    /\ toVisit \subseteq Nodes
    /\ inFlight \subseteq pvcs
    /\ jobs \subseteq pvcs
    /\ \A p, q \in pvcs : SameName(p, q) => p = q
    /\ \A p \in pvcs : Len(p.prefix) + 14 + 4 =< NameLimit

NamesVars == <<read, req, toRun, toVisit, inFlight, jobs, pvcs>>

LEMMA NamesStutter == NamesInv /\ UNCHANGED NamesVars => NamesInv'
BY DEF NamesInv, NamesVars, SameName

LEMMA NamesInit == SetupInit => NamesInv
BY DEF SetupInit, NamesInv, Eligible

LEMMA NamesReturn ==
    NamesInv /\ Return /\ UNCHANGED <<toRun, jobs, pvcs>> => NamesInv'
BY DEF NamesInv, Return, SameName

LEMMA NamesRead ==
    ASSUME NamesInv,
           read # "idle",
           UNCHANGED <<req, toRun, inFlight, jobs, pvcs>>,
           toVisit' = toVisit \/ toVisit' = toRun[req]
    PROVE  NamesInv'
BY DEF NamesInv, SameName

LEMMA NamesCreatePvc ==
    ASSUME NamesInv, NEW node \in toVisit, CreatePvc(node)
    PROVE  NamesInv'
<1>1. /\ read' = read /\ req' = req /\ toRun' = toRun /\ jobs' = jobs
      /\ toVisit' \subseteq toVisit
  BY DEF CreatePvc
<1>2. req \in Sosreports /\ node \in Nodes
  BY DEF NamesInv, CreatePvc, MayStart
<1>3. CASE /\ ~Taken(pvcs, Child(req, node))
           /\ pvcs' = pvcs \cup {Child(req, node)}
           /\ inFlight' = {Child(req, node)}
  <2>1. Len(Child(req, node).prefix) + 14 + 4 =< NameLimit
    <3>1. ~(maxLen(req) < 0)
      BY DEF CreatePvc, Panics
    <3>2. Child(req, node).prefix = Prefix(req, node)
      BY DEF Child
    <3> QED
      BY <1>2, <3>1, <3>2, PrefixLength
  <2>2. \A p, q \in pvcs' : SameName(p, q) => p = q
    <3>1. \A p \in pvcs : /\ ~SameName(p, Child(req, node))
                          /\ ~SameName(Child(req, node), p)
      BY <1>3 DEF Taken, SameName
    <3> QED
      BY <1>3, <3>1 DEF NamesInv
  <2>3. \A p, q \in pvcs' : SameName(p, q)' <=> SameName(p, q)
    BY DEF SameName
  <2>4. \A p \in pvcs' : Len(p.prefix) + 14 + 4 =< NameLimit
    BY <1>3, <2>1 DEF NamesInv
  <2> QED
    BY <1>1, <1>3, <2>2, <2>3, <2>4 DEF NamesInv, SameName
<1>4. CASE UNCHANGED <<pvcs, inFlight>>
  BY <1>1, <1>4 DEF NamesInv, SameName
<1> QED
  BY <1>3, <1>4 DEF CreatePvc, NoTemplate

LEMMA NamesCreateJob == NamesInv /\ CreateJob => NamesInv'
<1> SUFFICES ASSUME NamesInv, CreateJob PROVE NamesInv'
  OBVIOUS
<1>1. UNCHANGED <<read, req, toRun, toVisit, pvcs>> /\ inFlight' = {}
  BY DEF CreateJob
<1>2. jobs' \subseteq jobs \cup inFlight
  BY DEF CreateJob
<1> QED
  BY <1>1, <1>2 DEF NamesInv, SameName

LEMMA NamesReconcile == NamesInv /\ Reconcile => NamesInv'
<1> SUFFICES ASSUME NamesInv, Reconcile PROVE NamesInv'
  OBVIOUS
<1>1. ASSUME NEW c, ReadGlobal(c) PROVE NamesInv'
  BY <1>1, NamesRead DEF ReadGlobal, ReadFields, childVars
<1>2. ASSUME NEW c, ReadDevelopment(c) PROVE NamesInv'
  BY <1>2, NamesRead DEF ReadDevelopment, ReadFields, childVars
<1>3. ASSUME NEW c, ReadUpload(c) \/ ReadDebug(c) \/ ReadSecret(c)
      PROVE  NamesInv'
  BY <1>3, NamesRead
     DEF ReadUpload, ReadDebug, ReadSecret, ReadEnvironment, childVars
<1>4. ASSUME NEW node \in toVisit, CreatePvc(node) PROVE NamesInv'
  BY <1>4, NamesCreatePvc
<1>5. CASE CreateJob
  BY <1>5, NamesCreateJob
<1>6. CASE EndLoop
  <2>1. toRun' \in [Sosreports -> SUBSET Nodes]
    BY <1>6 DEF EndLoop, NamesInv
  <2> QED
    BY <1>6, <2>1 DEF EndLoop, Return, NamesInv, SameName, childVars
<1>7. CASE Panic
  BY <1>7, NamesReturn DEF Panic, Restart, childVars
<1> QED
  BY <1>1, <1>2, <1>3, <1>4, <1>5, <1>6, <1>7 DEF Reconcile

LEMMA NamesStep == NamesInv /\ [LifeNext]_lifeVars => NamesInv'
<1> SUFFICES ASSUME NamesInv, [LifeNext]_lifeVars PROVE NamesInv'
  OBVIOUS
<1>1. ASSUME NEW x \in Sosreports, Begin(x) PROVE NamesInv'
  BY <1>1 DEF Begin, NamesInv, SameName, childVars
<1>2. CASE Reconcile
  BY <1>2, NamesReconcile
<1>3. CASE Crash
  BY <1>3, NamesReturn DEF Crash, Restart, childVars
<1>4. CASE Tick
  BY <1>4, NamesStutter DEF Tick, NamesVars, childVars
<1>5. ASSUME NEW ns, NEW o, NEW c, Edit(ns, o, c) PROVE NamesInv'
  BY <1>5, NamesStutter DEF Edit, NamesVars, childVars
<1>6. CASE Pods \/ PodLost \/ UNCHANGED lifeVars
  BY <1>6, NamesStutter
     DEF Pods, StartPod, PodEnds, PodLost, PodFails, setupVars, lifeVars,
         NamesVars
<1> QED
  BY <1>1, <1>2, <1>3, <1>4, <1>5, <1>6 DEF LifeNext, SetupNext

LEMMA NamesInvariant == LifeSpec => []NamesInv
<1>1. LifeInit => NamesInv
  BY NamesInit DEF LifeInit
<1> QED
  BY <1>1, NamesStep, PTL DEF LifeSpec

(* No Job mounts the volume of another node or Sosreport, and the PVC that *)
(* it names was created.                                                   *)
THEOREM OwnVolume == LifeSpec => []MountsItsOwn
<1>1. NamesInv => MountsItsOwn
  BY DEF NamesInv, MountsItsOwn
<1> QED
  BY <1>1, NamesInvariant, PTL

(* No name is longer than Kubernetes allows, whatever the Sosreport and    *)
(* the node are called.                                                    *)
THEOREM NamesAreShort == LifeSpec => []NamesFit
<1>1. NamesInv => NamesFit
  BY DEF NamesInv, NamesFit
<1> QED
  BY <1>1, NamesInvariant, PTL

-----------------------------------------------------------------------------
(* The script.  Each command of an upload is only reached with what that   *)
(* upload needs, and the last command's status is what Complete tells.     *)
ScriptInv ==
    /\ line = "attach" => /\ Var("upload-method") = "case"
                          /\ Var("username") # Empty /\ Var("password") # Empty
    /\ line \in {"mount", "cp", "umount"} => /\ Var("upload-method") = "nfs"
                                            /\ Var("nfs-share") # Empty
    /\ line = "lftp" => Var("upload-method") = "ftp"
    /\ line = "exit" /\ status = 0 => Told(who.job)

LEMMA VarStays ==
    ASSUME who' = who, NEW k
    PROVE  Var(k)' = Var(k)
BY DEF Var

LEMMA ToldStays ==
    ASSUME who' = who, sent' = sent
    PROVE  Told(who.job)' <=> Told(who.job)
BY DEF Told

LEMMA ScriptStutter ==
    ASSUME ScriptInv, UNCHANGED scriptVars
    PROVE  ScriptInv'
<1>1. UNCHANGED <<who, line, status, sent>>
  BY DEF scriptVars
<1>2. \A k : Var(k)' = Var(k)
  BY <1>1, VarStays
<1>3. Told(who.job)' <=> Told(who.job)
  BY <1>1, ToldStays
<1> QED
  BY <1>1, <1>2, <1>3 DEF ScriptInv

LEMMA ScriptStart == line' \in {"none", "sosreport", "mv", "if"} => ScriptInv'
BY DEF ScriptInv

(* A method that is not ftp, an nfs share, or credentials are enough.      *)
LEMMA ToldByVariables ==
    /\ Var("upload-method") = "ftp" => sent
    /\ Var("upload-method") = "nfs" => Var("nfs-share") # Empty
    /\ Var("upload-method") = "case" /\ Var("case-number") # Empty
          => Var("username") # Empty /\ Var("password") # Empty
    => Told(who.job)
BY DEF Told, Var

LEMMA ScriptCommands == ScriptInv /\ Script => ScriptInv'
<1> SUFFICES ASSUME ScriptInv, Script PROVE ScriptInv'
  OBVIOUS
<1> USE DEF Exit, Goto
<1>0. /\ who' = who
      /\ Var("upload-method")' = Var("upload-method")
      /\ Var("nfs-share")' = Var("nfs-share")
      /\ Var("username")' = Var("username")
      /\ Var("password")' = Var("password")
  <2>1. who' = who
    BY DEF Script, Sosreport, Mv, NoUpload, Case, Nfs, Ftp, Attach, Mount, Cp,
           Umount, Lftp
  <2> QED
    BY <2>1, VarStays
<1>1. CASE Sosreport \/ Mv
  BY <1>1, ScriptStart DEF Sosreport, Mv
<1>2. CASE NoUpload
  <2>1. Told(who.job)
    BY <1>2, ToldByVariables DEF NoUpload
  <2> QED
    BY <1>2, <2>1 DEF NoUpload, ScriptInv, Told
<1>3. CASE Case
  <2>1. CASE Var("case-number") = Empty
    <3>1. Told(who.job)
      BY <1>3, <2>1, ToldByVariables DEF Case
    <3> QED
      BY <1>3, <2>1, <3>1 DEF Case, ScriptInv, Told
  <2>2. CASE Var("case-number") # Empty
    <3>1. \/ line' = "exit" /\ status' = 1
          \/ /\ line' = "attach" /\ Var("upload-method") = "case"
             /\ Var("username") # Empty /\ Var("password") # Empty
      BY <1>3, <2>2 DEF Case
    <3> QED
      BY <1>0, <3>1 DEF ScriptInv
  <2> QED
    BY <2>1, <2>2
<1>4. CASE Nfs
  <2>1. \/ line' = "exit" /\ status' = 1
        \/ /\ line' = "mount" /\ Var("upload-method") = "nfs"
           /\ Var("nfs-share") # Empty
    BY <1>4 DEF Nfs
  <2> QED
    BY <1>0, <2>1 DEF ScriptInv
<1>5. CASE Ftp
  <2>1. \/ line' = "exit" /\ status' = 1
        \/ line' = "lftp" /\ Var("upload-method") = "ftp"
    BY <1>5 DEF Ftp
  <2> QED
    BY <1>0, <2>1 DEF ScriptInv
<1>6. CASE Attach
  <2>1. Told(who.job)
    BY <1>6, ToldByVariables DEF Attach, ScriptInv
  <2>2. Told(who.job)'
    BY <1>0, <1>6, <2>1 DEF Attach, Send, Told
  <2> QED
    BY <1>6, <2>2 DEF Attach, ScriptInv
<1>7. CASE Mount \/ Cp
  <2>1. Var("upload-method") = "nfs" /\ Var("nfs-share") # Empty
    BY <1>7 DEF Mount, Cp, ScriptInv
  <2>2. (line' = "exit" /\ status' = 1) \/ line' \in {"cp", "umount"}
    BY <1>7 DEF Mount, Cp
  <2> QED
    BY <1>0, <2>1, <2>2 DEF ScriptInv
<1>8. CASE Umount
  <2>1. Told(who.job)
    BY <1>8, ToldByVariables DEF Umount, ScriptInv
  <2> QED
    BY <1>8, <2>1 DEF Umount, ScriptInv, Told
<1>9. CASE Lftp
  <2>1. ASSUME sent' PROVE Told(who.job)'
    <3>1. "upload-method" \in DOMAIN who.job.env
             => who.job.env["upload-method"] = "ftp"
      BY <1>9 DEF Lftp, ScriptInv, Var
    <3> QED
      BY <1>0, <2>1, <3>1 DEF Told
  <2>2. line' = "exit" /\ (status' = 0 => sent')
    BY <1>9 DEF Lftp, Send
  <2> QED
    BY <2>1, <2>2 DEF ScriptInv
<1> QED
  BY <1>1, <1>2, <1>3, <1>4, <1>5, <1>6, <1>7, <1>8, <1>9 DEF Script

LEMMA ScriptStep == ScriptInv /\ [LifeNext]_lifeVars => ScriptInv'
<1> SUFFICES ASSUME ScriptInv, [LifeNext]_lifeVars PROVE ScriptInv'
  OBVIOUS
<1>1. CASE Operator \/ UNCHANGED lifeVars
  BY <1>1, ScriptStutter DEF Operator, lifeVars
<1>2. ASSUME NEW j, StartPod(j) PROVE ScriptInv'
  BY <1>2, ScriptStart DEF StartPod
<1>3. CASE Script
  BY <1>3, ScriptCommands
<1>4. CASE PodEnds \/ PodLost
  BY <1>4, ScriptStart DEF PodEnds, PodLost, PodFails, Gone
<1> QED
  BY <1>1, <1>2, <1>3, <1>4 DEF LifeNext, Pods

LEMMA ScriptInvariant == LifeSpec => []ScriptInv
<1>1. LifeInit => ScriptInv
  BY DEF LifeInit, ScriptInit, ScriptInv
<1> QED
  BY <1>1, ScriptStep, PTL DEF LifeSpec

(* What can be concluded from the condition Complete of a Job: the uploads *)
(* of the ftp method took place; for the others, that they were configured.*)
THEOREM WhatCompleteTells == LifeSpec => CompleteMeans
<1>1. ScriptInv /\ [LifeNext]_lifeVars
      => [\A j \in complete' \ complete : Told(j)]_lifeVars
  <2> SUFFICES ASSUME ScriptInv, LifeNext, NEW j \in complete' \ complete
               PROVE  Told(j)
    OBVIOUS
  <2>1. line = "exit" /\ status = 0 /\ j = who.job
    BY DEF LifeNext, Operator, Pods, StartPod, PodEnds, PodLost, PodFails
  <2> QED
    BY <2>1 DEF ScriptInv
<1> QED
  BY <1>1, ScriptInvariant, PTL DEF LifeSpec, CompleteMeans

-----------------------------------------------------------------------------
(* The settings.  After ReadGlobal the fields are wrong until              *)
(* ReadDevelopment has overwritten the rest, whatever it reads.            *)
FieldsCurrent ==
    \E g \in during["global"], d \in during["development"] :
        fields = Merge(Global(g), Development(d))

EnvCurrent ==
    \E u \in during["upload"], d \in during["development"],
       v \in during["secret"] :
        env = Merge(Merge(Environment("upload", u),
                          Environment("development", d)),
                    Environment("secret", v))

StageInv ==
    /\ read \in {"idle", "global", "development", "upload"} => env = <<>>
    /\ read = "development" =>
          \E g \in during["global"] : \A d :
             Merge(fields, Development(d)) = Merge(Global(g), Development(d))
    /\ read \in {"upload", "debug", "secret", "loop"} => FieldsCurrent
    /\ read = "debug" =>
          \E u \in during["upload"] : env = Environment("upload", u)
    /\ read = "secret" =>
          \E u \in during["upload"], d \in during["development"] :
             env = Merge(Environment("upload", u), Environment("development", d))
    /\ read = "loop" => EnvCurrent

StoredInv ==
    /\ DOMAIN fields = DOMAIN ZeroFields
    /\ DOMAIN during = Objects
    /\ DOMAIN object = Namespaces
    /\ \A ns \in Namespaces : DOMAIN object[ns] = Objects
    /\ read # "idle" =>
          \A o \in Objects : object[Namespace[req]][o] \in during[o]

LEMMA MergeDomain ==
    ASSUME NEW f, NEW g
    PROVE  DOMAIN Merge(f, g) = DOMAIN f \cup DOMAIN g
BY DEF Merge

LEMMA SettingsDomains ==
    ASSUME NEW g, NEW d
    PROVE  DOMAIN ZeroFields = DOMAIN Global(g) \cup DOMAIN Development(d)
<1>1. DOMAIN Global(g) = {"pvcStorageClass", "pvcCapacity"}
  BY Zenon DEF Global
<1>2. DOMAIN Development(d)
         = {"imageName", "sosreportCommand", "imagePullPolicy"}
  BY Zenon DEF Development
<1>3. DOMAIN ZeroFields = {"imageName", "sosreportCommand", "imagePullPolicy",
                           "pvcStorageClass", "pvcCapacity"}
  BY Zenon DEF ZeroFields
<1> QED
  BY <1>1, <1>2, <1>3

LEMMA MergeOverwrites ==
    ASSUME NEW f, NEW g, NEW h, DOMAIN f = DOMAIN g \cup DOMAIN h
    PROVE  Merge(Merge(f, g), h) = Merge(g, h)
BY DEF Merge

LEMMA MergeNothing ==
    ASSUME NEW o, NEW c
    PROVE  Merge(<<>>, Environment(o, c)) = Environment(o, c)
BY DEF Merge, Environment

(* A Get returns a value that was stored during the call, or none.         *)
LEMMA GetResult ==
    ASSUME NamesInv, StoredInv, read # "idle",
           NEW o \in Objects, NEW content, Get(o, content),
           UNCHANGED <<object, req>>
    PROVE  /\ content \in during'[o]
           /\ DOMAIN during' = Objects
           /\ \A p \in Objects : during[p] \subseteq during'[p]
           /\ \A p \in Objects : object'[Namespace[req']][p] \in during'[p]
<1>1. req \in Sosreports /\ Namespace[req] \in Namespaces
  BY DEF NamesInv, Namespaces
<1>2. CASE content = object[Namespace[req]][o] /\ UNCHANGED during
  BY <1>1, <1>2 DEF StoredInv
<1>3. CASE /\ content = Missing
           /\ during' = [during EXCEPT ![o] = @ \cup {Missing}]
  BY <1>1, <1>3 DEF StoredInv
<1> QED
  BY <1>2, <1>3 DEF Get

SettingsInv == NamesInv /\ StoredInv /\ StageInv

(* More may have been read in the end than at some time during the call.   *)
LEMMA FieldsStay ==
    ASSUME FieldsCurrent, fields' = fields,
           \A p \in Objects : during[p] \subseteq during'[p]
    PROVE  FieldsCurrent'
BY DEF FieldsCurrent, Objects

LEMMA EnvStays ==
    ASSUME EnvCurrent, env' = env,
           \A p \in Objects : during[p] \subseteq during'[p]
    PROVE  EnvCurrent'
BY DEF EnvCurrent, Objects

LEMMA StageStays ==
    ASSUME StageInv, UNCHANGED <<read, fields, env>>,
           \A p \in Objects : during[p] \subseteq during'[p]
    PROVE  StageInv'
<1>1. /\ during["global"] \subseteq during'["global"]
      /\ during["upload"] \subseteq during'["upload"]
      /\ during["development"] \subseteq during'["development"]
  BY DEF Objects
<1>2. FieldsCurrent => FieldsCurrent'
  BY FieldsStay
<1>3. EnvCurrent => EnvCurrent'
  BY EnvStays
<1> QED
  BY <1>1, <1>2, <1>3 DEF StageInv

LEMMA SettingsGlobal ==
    ASSUME NamesInv, StoredInv, StageInv, NEW c, ReadGlobal(c)
    PROVE  StoredInv' /\ StageInv'
<1>1. /\ read = "global" /\ Get("global", c) /\ read' = "development"
      /\ fields' = Merge(fields, Global(c))
      /\ UNCHANGED <<object, req, env>>
  BY DEF ReadGlobal, ReadFields
<1>2. "global" \in Objects
  BY DEF Objects
<1>3. /\ c \in during'["global"]
      /\ DOMAIN during' = Objects
      /\ \A p \in Objects : object'[Namespace[req']][p] \in during'[p]
  BY <1>1, <1>2, GetResult
<1>4. \A d : Merge(fields', Development(d)) = Merge(Global(c), Development(d))
  <2> TAKE d
  <2>1. DOMAIN fields = DOMAIN Global(c) \cup DOMAIN Development(d)
    <3>1. DOMAIN ZeroFields = DOMAIN Global(c) \cup DOMAIN Development(d)
      BY SettingsDomains
    <3> QED
      BY <3>1 DEF StoredInv
  <2>2. Merge(Merge(fields, Global(c)), Development(d))
           = Merge(Global(c), Development(d))
    BY <2>1, MergeOverwrites
  <2> QED
    BY <1>1, <2>2
<1>5. DOMAIN fields' = DOMAIN ZeroFields
  <2>1. DOMAIN Merge(fields, Global(c)) = DOMAIN fields \cup DOMAIN Global(c)
    BY MergeDomain
  <2>2. DOMAIN ZeroFields = DOMAIN Global(c) \cup DOMAIN Development(c)
    BY SettingsDomains
  <2> QED
    BY <1>1, <2>1, <2>2 DEF StoredInv
<1>6. StoredInv'
  BY <1>1, <1>3, <1>5 DEF StoredInv
<1>7. StageInv'
  BY <1>1, <1>3, <1>4 DEF StageInv
<1> QED
  BY <1>6, <1>7

LEMMA SettingsDevelopment ==
    ASSUME NamesInv, StoredInv, StageInv, NEW c, ReadDevelopment(c)
    PROVE  StoredInv' /\ StageInv'
<1>1. /\ read = "development" /\ Get("development", c) /\ read' = "upload"
      /\ fields' = Merge(fields, Development(c))
      /\ UNCHANGED <<object, req, env>>
  BY DEF ReadDevelopment, ReadFields
<1>2. "development" \in Objects /\ "global" \in Objects
  BY DEF Objects
<1>3. /\ c \in during'["development"]
      /\ DOMAIN during' = Objects
      /\ \A p \in Objects : during[p] \subseteq during'[p]
      /\ \A p \in Objects : object'[Namespace[req']][p] \in during'[p]
  BY <1>1, <1>2, GetResult
<1>4. PICK g \in during["global"] :
         \A d : Merge(fields, Development(d)) = Merge(Global(g), Development(d))
  BY <1>1 DEF StageInv
<1>5. g \in during'["global"] /\ fields' = Merge(Global(g), Development(c))
  BY <1>1, <1>2, <1>3, <1>4
<1>6. FieldsCurrent'
  BY <1>3, <1>5 DEF FieldsCurrent
<1>7. DOMAIN fields' = DOMAIN ZeroFields
  <2>1. DOMAIN Merge(Global(g), Development(c))
           = DOMAIN Global(g) \cup DOMAIN Development(c)
    BY MergeDomain
  <2>2. DOMAIN ZeroFields = DOMAIN Global(g) \cup DOMAIN Development(c)
    BY SettingsDomains
  <2> QED
    BY <1>5, <2>1, <2>2
<1>8. StoredInv'
  BY <1>1, <1>3, <1>7 DEF StoredInv
<1>9. StageInv'
  BY <1>1, <1>6 DEF StageInv
<1> QED
  BY <1>8, <1>9

(* What the three reads of the environment have in common.                 *)
LEMMA SettingsEnvironment ==
    ASSUME NamesInv, StoredInv, StageInv,
           NEW o \in Objects, NEW c, NEW label, NEW next,
           label \in {"upload", "debug", "secret"},
           ReadEnvironment(o, c, label, next)
    PROVE  /\ StoredInv' /\ FieldsCurrent'
           /\ c \in during'[o]
           /\ \A p \in Objects : during[p] \subseteq during'[p]
<1>1. /\ read = label /\ Get(o, c)
      /\ UNCHANGED <<object, req, fields>>
  BY DEF ReadEnvironment
<1>2. /\ c \in during'[o]
      /\ DOMAIN during' = Objects
      /\ \A p \in Objects : during[p] \subseteq during'[p]
      /\ \A p \in Objects : object'[Namespace[req']][p] \in during'[p]
  BY <1>1, GetResult
<1>3. FieldsCurrent'
  BY <1>1, <1>2, FieldsStay DEF StageInv
<1>4. StoredInv'
  BY <1>1, <1>2 DEF StoredInv
<1> QED
  BY <1>2, <1>3, <1>4

LEMMA SettingsUpload ==
    ASSUME NamesInv, StoredInv, StageInv, NEW c, ReadUpload(c)
    PROVE  StoredInv' /\ StageInv'
<1>1. /\ read = "upload" /\ read' = "debug"
      /\ env' = Merge(env, Environment("upload", c))
  BY DEF ReadUpload, ReadEnvironment
<1>2. StoredInv' /\ FieldsCurrent' /\ c \in during'["upload"]
  BY SettingsEnvironment DEF ReadUpload, Objects
<1>3. env' = Environment("upload", c)
  BY <1>1, MergeNothing DEF StageInv
<1>4. StageInv'
  BY <1>1, <1>2, <1>3 DEF StageInv
<1> QED
  BY <1>2, <1>4

LEMMA SettingsDebug ==
    ASSUME NamesInv, StoredInv, StageInv, NEW c, ReadDebug(c)
    PROVE  StoredInv' /\ StageInv'
<1>1. /\ read = "debug" /\ read' = "secret"
      /\ env' = Merge(env, Environment("development", c))
  BY DEF ReadDebug, ReadEnvironment
<1>2. /\ StoredInv' /\ FieldsCurrent' /\ c \in during'["development"]
      /\ \A p \in Objects : during[p] \subseteq during'[p]
  BY SettingsEnvironment DEF ReadDebug, Objects
<1>3. PICK u \in during["upload"] : env = Environment("upload", u)
  BY <1>1 DEF StageInv
<1>4. u \in during'["upload"]
  BY <1>2 DEF Objects
<1>5. StageInv'
  BY <1>1, <1>2, <1>3, <1>4 DEF StageInv
<1> QED
  BY <1>2, <1>5

LEMMA SettingsSecret ==
    ASSUME NamesInv, StoredInv, StageInv, NEW c, ReadSecret(c)
    PROVE  StoredInv' /\ StageInv'
<1>1. /\ read = "secret" /\ read' = "loop"
      /\ env' = Merge(env, Environment("secret", c))
  BY DEF ReadSecret, ReadEnvironment
<1>2. /\ StoredInv' /\ FieldsCurrent' /\ c \in during'["secret"]
      /\ \A p \in Objects : during[p] \subseteq during'[p]
  BY SettingsEnvironment DEF ReadSecret, Objects
<1>3. PICK u \in during["upload"], d \in during["development"] :
         env = Merge(Environment("upload", u), Environment("development", d))
  BY <1>1 DEF StageInv
<1>4. u \in during'["upload"] /\ d \in during'["development"]
  BY <1>2 DEF Objects
<1>5. EnvCurrent'
  BY <1>1, <1>2, <1>3, <1>4 DEF EnvCurrent
<1>6. StageInv'
  BY <1>1, <1>2, <1>5 DEF StageInv
<1> QED
  BY <1>2, <1>6

LEMMA SettingsReturn ==
    ASSUME StoredInv, Return, object' = object,
           fields' = fields \/ fields' = ZeroFields
    PROVE  StoredInv' /\ StageInv'
<1>1. read' = "idle" /\ env' = <<>> /\ DOMAIN during' = Objects
  BY DEF Return
<1> QED
  BY <1>1 DEF StoredInv, StageInv

LEMMA SettingsEdit ==
    ASSUME NamesInv, StoredInv, StageInv,
           NEW ns \in Namespaces, NEW o \in Objects, NEW c, Edit(ns, o, c)
    PROVE  StoredInv' /\ StageInv'
<1>1. /\ object' = [object EXCEPT ![ns][o] = c]
      /\ during' = IF read # "idle" /\ ns = Namespace[req]
                   THEN [during EXCEPT ![o] = @ \cup {c}] ELSE during
      /\ UNCHANGED <<read, req, fields, env>>
  BY DEF Edit
<1>2. /\ DOMAIN during' = Objects
      /\ \A p \in Objects : during[p] \subseteq during'[p]
  BY <1>1 DEF StoredInv
<1>3. DOMAIN object' = Namespaces /\ \A n \in Namespaces : DOMAIN object'[n] = Objects
  BY <1>1 DEF StoredInv
<1>4. ASSUME read # "idle", NEW p \in Objects
      PROVE  object'[Namespace[req]][p] \in during'[p]
  <2>1. Namespace[req] \in Namespaces /\ object[Namespace[req]][p] \in during[p]
    BY <1>4 DEF NamesInv, StoredInv, Namespaces
  <2>2. CASE ns = Namespace[req] /\ p = o
    BY <1>1, <1>4, <2>1, <2>2 DEF StoredInv
  <2>3. CASE ~(ns = Namespace[req] /\ p = o)
    <3>1. object'[Namespace[req]][p] = object[Namespace[req]][p]
      BY <1>1, <2>1, <2>3 DEF StoredInv
    <3> QED
      BY <1>2, <2>1, <3>1
  <2> QED
    BY <2>2, <2>3
<1>5. StoredInv'
  BY <1>1, <1>2, <1>3, <1>4 DEF StoredInv
<1>6. StageInv'
  BY <1>1, <1>2, StageStays
<1> QED
  BY <1>5, <1>6

LEMMA SettingsBegin ==
    ASSUME StoredInv, StageInv, NEW x \in Sosreports, Begin(x)
    PROVE  StoredInv' /\ StageInv'
<1>1. /\ read = "idle" /\ read' = "global" /\ req' = x
      /\ during' = [o \in Objects |-> {object[Namespace[x]][o]}]
      /\ UNCHANGED <<object, fields, env>>
  BY DEF Begin
<1>2. StoredInv'
  BY <1>1 DEF StoredInv
<1>3. StageInv'
  BY <1>1 DEF StageInv
<1> QED
  BY <1>2, <1>3

LEMMA SettingsStutter ==
    ASSUME StoredInv, StageInv, UNCHANGED <<settingVars, read, req>>
    PROVE  StoredInv' /\ StageInv'
<1>1. UNCHANGED <<object, fields, env, during, read, req>>
  BY DEF settingVars
<1>2. StoredInv'
  BY <1>1 DEF StoredInv
<1>3. StageInv'
  BY <1>1, StageStays
<1> QED
  BY <1>2, <1>3

LEMMA SettingsStep ==
    ASSUME NamesInv, StoredInv, StageInv, [LifeNext]_lifeVars
    PROVE  StoredInv' /\ StageInv'
<1>1. ASSUME NEW x \in Sosreports, Begin(x) PROVE StoredInv' /\ StageInv'
  BY <1>1, SettingsBegin
<1>2. CASE Reconcile
  <2>1. ASSUME NEW c, ReadGlobal(c) PROVE StoredInv' /\ StageInv'
    BY <2>1, SettingsGlobal
  <2>2. ASSUME NEW c, ReadDevelopment(c) PROVE StoredInv' /\ StageInv'
    BY <2>2, SettingsDevelopment
  <2>3. ASSUME NEW c, ReadUpload(c) PROVE StoredInv' /\ StageInv'
    BY <2>3, SettingsUpload
  <2>4. ASSUME NEW c, ReadDebug(c) PROVE StoredInv' /\ StageInv'
    BY <2>4, SettingsDebug
  <2>5. ASSUME NEW c, ReadSecret(c) PROVE StoredInv' /\ StageInv'
    BY <2>5, SettingsSecret
  <2>6. ASSUME NEW node \in toVisit, CreatePvc(node)
        PROVE  StoredInv' /\ StageInv'
    BY <2>6, SettingsStutter DEF CreatePvc, NoTemplate
  <2>7. CASE CreateJob
    BY <2>7, SettingsStutter DEF CreateJob
  <2>8. CASE EndLoop
    BY <2>8, SettingsReturn DEF EndLoop
  <2>9. CASE Panic
    BY <2>9, SettingsReturn DEF Panic, Restart
  <2> QED
    BY <1>2, <2>1, <2>2, <2>3, <2>4, <2>5, <2>6, <2>7, <2>8, <2>9 DEF Reconcile
<1>3. CASE Crash
  BY <1>3, SettingsReturn DEF Crash, Restart
<1>4. CASE Tick
  BY <1>4, SettingsStutter DEF Tick
<1>5. ASSUME NEW ns \in Namespaces, NEW o \in Objects, NEW c, Edit(ns, o, c)
      PROVE  StoredInv' /\ StageInv'
  BY <1>5, SettingsEdit
<1>6. CASE Pods \/ PodLost \/ UNCHANGED lifeVars
  <2>1. UNCHANGED <<settingVars, read, req>>
    BY <1>6 DEF Pods, StartPod, PodEnds, PodLost, PodFails, setupVars,
                settingVars, lifeVars
  <2> QED
    BY <2>1, SettingsStutter
<1> QED
  BY <1>1, <1>2, <1>3, <1>4, <1>5, <1>6 DEF LifeNext, SetupNext

LEMMA SettingsInvariant == LifeSpec => []SettingsInv
<1>1. LifeInit => SettingsInv
  <2> SUFFICES ASSUME LifeInit PROVE SettingsInv
    OBVIOUS
  <2>1. NamesInv
    BY NamesInit DEF LifeInit
  <2>2. StoredInv
    BY ObjectsAssumption DEF LifeInit, SetupInit, StoredInv
  <2>3. StageInv
    BY DEF LifeInit, SetupInit, StageInv
  <2> QED
    BY <2>1, <2>2, <2>3 DEF SettingsInv
<1>2. SettingsInv /\ [LifeNext]_lifeVars => SettingsInv'
  BY NamesStep, SettingsStep DEF SettingsInv
<1> QED
  BY <1>1, <1>2, PTL DEF LifeSpec

(* Jobs and PVCs are made from what the ConfigMaps and the Secret of their *)
(* namespace held during the call that made them, although the settings    *)
(* pass through fields that all Sosreports share.                          *)
THEOREM SettingsAreCurrent == LifeSpec => SettingsCurrent
<1>1. SettingsInv /\ [LifeNext]_lifeVars
      => [\A c \in pvcs' \ pvcs : SettingsOf(c)]_setupVars
  <2> SUFFICES ASSUME SettingsInv, [LifeNext]_lifeVars,
                      NEW c \in pvcs' \ pvcs
               PROVE  SettingsOf(c)
    OBVIOUS
  <2>1. PICK node \in toVisit : CreatePvc(node)
    BY DEF LifeNext, SetupNext, Operator, Reconcile, Begin, ReadGlobal,
           ReadDevelopment, ReadFields, ReadUpload, ReadDebug, ReadSecret,
           ReadEnvironment, CreateJob, EndLoop, Panic, Crash, Restart, Tick,
           Edit, Pods, StartPod, PodEnds, PodLost, PodFails, childVars,
           setupVars, lifeVars
  <2>2. read = "loop" /\ c = Child(req, node)
    BY <2>1 DEF CreatePvc, NoTemplate, MayStart
  <2>3. FieldsCurrent /\ EnvCurrent
    BY <2>2 DEF SettingsInv, StageInv
  <2>4. c.fields = fields /\ c.env = env
    BY <2>2 DEF Child
  <2> QED
    BY <2>3, <2>4 DEF SettingsOf, FieldsCurrent, EnvCurrent
<1> QED
  BY <1>1, SettingsInvariant, PTL DEF LifeSpec, SettingsCurrent

-----------------------------------------------------------------------------
(* The nodes.  While a call is under way, what it is about to create and   *)
(* has created is for its own Sosreport and for nodes that tolerates lets  *)
(* through; a node has been started only if its Job is there.              *)
ForEligible(c) == c.owner \in Sosreports /\ c.node \in Eligible(c.owner)

HasJob(x, n) == \E j \in jobs : j.owner = x /\ j.node = n

NodesInv ==
    /\ toRun \in [Sosreports -> SUBSET Nodes]
    /\ \A x \in Sosreports : toRun[x] \subseteq Eligible(x)
    /\ toVisit # {} => req \in Sosreports /\ toVisit \subseteq Eligible(req)
    /\ \A c \in inFlight \cup jobs : ForEligible(c)
    /\ \A c \in inFlight : c.owner = req
    /\ \A n \in started : HasJob(req, n)
    /\ read = "idle" => toVisit = {} /\ inFlight = {} /\ started = {}
    /\ NoNodeSkipped

NodesVars == <<read, req, toRun, toVisit, inFlight, started, jobs>>

LEMMA NodesStutter == NodesInv /\ UNCHANGED NodesVars => NodesInv'
BY DEF NodesInv, NodesVars, NoNodeSkipped, HasJob, ForEligible, Eligible

LEMMA NodesInit == SetupInit => NodesInv
<1>1. \A x \in Sosreports : Eligible(x) \in SUBSET Nodes
  BY DEF Eligible
<1>2. QED
  BY <1>1 DEF SetupInit, NodesInv, NoNodeSkipped

LEMMA NodesReturn ==
    NodesInv /\ Return /\ UNCHANGED <<toRun, jobs>> => NodesInv'
BY DEF NodesInv, Return, NoNodeSkipped, HasJob, ForEligible, Eligible

LEMMA NodesRead ==
    ASSUME NodesInv, NamesInv, read # "idle", read' # "idle",
           UNCHANGED <<req, toRun, inFlight, started, jobs>>,
           toVisit' = toVisit \/ toVisit' = toRun[req]
    PROVE  NodesInv'
<1>1. toVisit' # {} => req \in Sosreports /\ toVisit' \subseteq Eligible(req)
  BY DEF NodesInv, NamesInv
<1>2. QED
  BY <1>1 DEF NodesInv, NoNodeSkipped, HasJob, ForEligible, Eligible

LEMMA NodesCreatePvc ==
    ASSUME NodesInv, NEW node \in toVisit, CreatePvc(node)
    PROVE  NodesInv'
<1>1. /\ UNCHANGED <<read, req, toRun, started, jobs>>
      /\ toVisit' \subseteq toVisit /\ read # "idle"
  BY DEF CreatePvc, MayStart
<1>2. inFlight' \subseteq inFlight \cup {Child(req, node)}
  BY DEF CreatePvc, NoTemplate
<1>3. Child(req, node).owner = req /\ ForEligible(Child(req, node))
  BY DEF Child, ForEligible, NodesInv
<1>4. QED
  BY <1>1, <1>2, <1>3
     DEF NodesInv, NoNodeSkipped, HasJob, ForEligible, Eligible

LEMMA NodesCreateJob == NodesInv /\ CreateJob => NodesInv'
<1> SUFFICES ASSUME NodesInv, CreateJob PROVE NodesInv'
  OBVIOUS
<1>1. /\ UNCHANGED <<read, req, toRun, toVisit>> /\ inFlight' = {}
      /\ read # "idle"
  BY DEF CreateJob, NodesInv
<1>2. jobs \subseteq jobs' /\ jobs' \subseteq jobs \cup inFlight
  BY DEF CreateJob
<1>3. started' \subseteq started \cup {c.node : c \in jobs' \ jobs}
  BY DEF CreateJob
<1>4. \A n \in started' : HasJob(req, n)'
  BY <1>1, <1>2, <1>3 DEF NodesInv, HasJob
<1>5. NoNodeSkipped'
  BY <1>1, <1>2 DEF NodesInv, NoNodeSkipped, Eligible
<1>6. QED
  BY <1>1, <1>2, <1>4, <1>5 DEF NodesInv, ForEligible, Eligible

(* Only what was started, and so has its Job, is taken off the list.       *)
LEMMA NodesEndLoop == NodesInv /\ NamesInv /\ EndLoop => NodesInv'
<1> SUFFICES ASSUME NodesInv, NamesInv, EndLoop PROVE NodesInv'
  OBVIOUS
<1>1. /\ toRun' = [toRun EXCEPT ![req] = @ \ started] /\ jobs' = jobs
      /\ read' = "idle" /\ toVisit' = {} /\ inFlight' = {} /\ started' = {}
      /\ req \in Sosreports
  BY DEF EndLoop, Return, childVars, NamesInv
<1>2. /\ toRun' \in [Sosreports -> SUBSET Nodes]
      /\ \A x \in Sosreports : toRun'[x] \subseteq toRun[x]
      /\ \A x \in Sosreports : \A n \in toRun[x] \ toRun'[x] : HasJob(x, n)
  BY <1>1 DEF NodesInv
<1>3. NoNodeSkipped'
  BY <1>1, <1>2 DEF NodesInv, NoNodeSkipped, HasJob, Eligible
<1>4. QED
  BY <1>1, <1>2, <1>3 DEF NodesInv, ForEligible, Eligible

LEMMA NodesReconcile == NodesInv /\ NamesInv /\ Reconcile => NodesInv'
<1> SUFFICES ASSUME NodesInv, NamesInv, Reconcile PROVE NodesInv'
  OBVIOUS
<1>1. ASSUME NEW c, ReadGlobal(c) \/ ReadDevelopment(c) PROVE NodesInv'
  BY <1>1, NodesRead
     DEF ReadGlobal, ReadDevelopment, ReadFields, childVars
<1>2. ASSUME NEW c, ReadUpload(c) \/ ReadDebug(c) \/ ReadSecret(c)
      PROVE  NodesInv'
  BY <1>2, NodesRead
     DEF ReadUpload, ReadDebug, ReadSecret, ReadEnvironment, childVars
<1>3. ASSUME NEW node \in toVisit, CreatePvc(node) PROVE NodesInv'
  BY <1>3, NodesCreatePvc
<1>4. CASE CreateJob
  BY <1>4, NodesCreateJob
<1>5. CASE EndLoop
  BY <1>5, NodesEndLoop
<1>6. CASE Panic
  BY <1>6, NodesReturn DEF Panic, Restart, childVars
<1>7. QED
  BY <1>1, <1>2, <1>3, <1>4, <1>5, <1>6 DEF Reconcile

LEMMA NodesStep == NodesInv /\ NamesInv /\ [LifeNext]_lifeVars => NodesInv'
<1> SUFFICES ASSUME NodesInv, NamesInv, [LifeNext]_lifeVars PROVE NodesInv'
  OBVIOUS
<1>1. ASSUME NEW x \in Sosreports, Begin(x) PROVE NodesInv'
  BY <1>1 DEF Begin, NodesInv, NoNodeSkipped, HasJob, ForEligible, Eligible,
              childVars
<1>2. CASE Reconcile
  BY <1>2, NodesReconcile
<1>3. CASE Crash
  BY <1>3, NodesReturn DEF Crash, Restart, childVars
<1>4. CASE Tick
  BY <1>4, NodesStutter DEF Tick, NodesVars, childVars
<1>5. ASSUME NEW ns, NEW o, NEW c, Edit(ns, o, c) PROVE NodesInv'
  BY <1>5, NodesStutter DEF Edit, NodesVars, childVars
<1>6. CASE Pods \/ PodLost \/ UNCHANGED lifeVars
  BY <1>6, NodesStutter
     DEF Pods, StartPod, PodEnds, PodLost, PodFails, setupVars, lifeVars,
         NodesVars
<1>7. QED
  BY <1>1, <1>2, <1>3, <1>4, <1>5, <1>6 DEF LifeNext, SetupNext

LEMMA NodesInvariant == LifeSpec => []NodesInv
<1>1. LifeInit => NodesInv
  BY NodesInit DEF LifeInit
<1>2. QED
  BY <1>1, NodesStep, NamesInvariant, PTL DEF LifeSpec

(* The scheduler accepts the pod of every Job on the node that it is for,  *)
(* for all tolerations and taints: the loop of tolerates lets no other     *)
(* node through, and nothing on the way to the Job mixes up Sosreports.    *)
THEOREM PodsCanRun == LifeSpec => []PodsSchedulable
<1>1. NodesInv => PodsSchedulable
  <2> SUFFICES ASSUME NodesInv, NEW j \in jobs
               PROVE  Schedulable(Tolerations[j.owner], Taints[j.node])
    BY DEF PodsSchedulable
  <2>1. /\ j.owner \in Sosreports
        /\ tolerates(Tolerations[j.owner], Taints[j.node])
    BY DEF NodesInv, ForEligible, Eligible
  <2>2. Len(Tolerations[j.owner]) \in Nat
    BY <2>1, SetupAssumption
  <2>3. QED
    BY <2>1, <2>2, ToleratedIsSchedulable
<1>2. QED
  BY <1>1, NodesInvariant, PTL

(* No failed or rejected Create, taken name or end of the process makes    *)
(* the operator forget a node: one without a Job is still to be run.       *)
THEOREM NothingSkipped == LifeSpec => []NoNodeSkipped
<1>1. NodesInv => NoNodeSkipped
  BY DEF NodesInv
<1>2. QED
  BY <1>1, NodesInvariant, PTL

=============================================================================

------------------------------ MODULE JobSetup ------------------------------
(***************************************************************************)
(* What Reconcile reads and creates for the Jobs of a Sosreport that has   *)
(* been scheduled: the ConfigMaps and the Secret of its namespace, the     *)
(* settings that the one SosreportReconciler keeps in its fields, the      *)
(* environment, and the PVC and the Job of each node.                      *)
(*                                                                         *)
(* SosreportReconciler models the lists and the writes of the Sosreport;   *)
(* here they are reduced to toRun, which loses the nodes that were started *)
(* when the loop has ended, and not if the process ends before that.  In   *)
(* return, names are not fresh by assumption but made from the Sosreport's *)
(* and the node's name and the second, and what is read comes from         *)
(* ConfigMaps that change in between.                                      *)
(***************************************************************************)
EXTENDS NodeSelection, FiniteSets

CONSTANTS
    Sosreports,
    Namespace,          \* Namespace[x]: the namespace of Sosreport x
    Characters,
    Name,               \* Name[x]: its name, a sequence of characters
    Tolerations,        \* Tolerations[x]: its tolerations, a sequence
    Nodes,              \* the nodes that match every selector
    Hostname,           \* Hostname[n]: the labels of its name, a sequence
    Taints,             \* Taints[n]: its taints, a sequence
    NameLimit,          \* how long a name may be: 63 characters
    None,               \* no Sosreport is being handled
    Missing,            \* a ConfigMap or Secret that is not there
    Contents,           \* Contents[o]: what an admin may change object o to
    InitialObjects,     \* what may be stored at first
    Capacities,         \* pvc-capacity values that MustParse accepts
    sosreportConcurrency,
    MaxFaults           \* how often a Get or Create may fail, a pod be lost,
                        \* the process end, an admin edit, all together

ASSUME SetupAssumption ==
    /\ None \notin Sosreports
    /\ NameLimit \in Nat /\ MaxFaults \in Nat
    /\ "-" \in Characters
    /\ \A x \in Sosreports : Name[x] \in Seq(Characters)
    /\ \A x \in Sosreports : Len(Tolerations[x]) \in Nat
    /\ \A n \in Nodes : Hostname[n] \in Seq(Seq(Characters)) \ {<<>>}

Objects == {"development", "global", "upload", "secret"}

Namespaces == {Namespace[x] : x \in Sosreports}

ASSUME ObjectsAssumption ==
    \A stored \in InitialObjects :
        /\ DOMAIN stored = Namespaces
        /\ \A ns \in Namespaces : DOMAIN stored[ns] = Objects

VARIABLES
    object,     \* object[ns][o]: ConfigMap or Secret as the cache shows it
    faults,     \* faults that may still happen
    read,       \* what Reconcile reads or does next
    req,        \* the Sosreport it was called for
    fields,     \* image, command, pull policy, storage class and capacity
    env,        \* configurationMap
    toVisit, inFlight, started,     \* as in SosreportReconciler
    toRun,      \* toRun[x]: the list of nodes that have not been started
    jobs, pvcs, doneJobs,
    second,     \* time.Now() in names
    panicked,   \* the process has ended with a panic
    during      \* during[o]: what a Get of o could return since this call of
                \* Reconcile began (history)

settingVars == <<object, fields, env, during>>
childVars   == <<jobs, pvcs, doneJobs>>
setupVars == <<object, faults, read, req, fields, env, toVisit, inFlight,
               started, toRun, jobs, pvcs, doneJobs, second, panicked, during>>

Fault == faults > 0 /\ faults' = faults - 1

-----------------------------------------------------------------------------
(* The data of a ConfigMap is a function on the keys it has.               *)
Data(content) == IF content = Missing THEN <<>> ELSE content

Entry(content, key, default) ==
    IF key \in DOMAIN Data(content) THEN content[key] ELSE default

(* setDevelopmentSosreportReconcilerConfiguration; a pull policy that      *)
(* Kubernetes does not know is ignored.                                    *)
Development(content) ==
    LET policy == Entry(content, "image-pull-policy", "") IN
    [imageName |-> Entry(content, "sosreport-image", "default-image"),
     sosreportCommand |-> Entry(content, "sosreport-command", "entrypoint.sh"),
     imagePullPolicy |->
        IF policy \in {"Always", "Never", "IfNotPresent"} THEN policy ELSE ""]

(* setGlobalSosreportReconcilerConfiguration, but for the concurrency and  *)
(* the log level.                                                          *)
Global(content) ==
    [pvcStorageClass |-> Entry(content, "pvc-storage-class", ""),
     pvcCapacity |-> Entry(content, "pvc-capacity", "10Gi")]

(* getEnvConfigurationFromConfigMapAndSecret: the keys that each object    *)
(* may contribute, named here as in the object.                            *)
EnvKeys == [upload |-> {"upload-method", "case-number", "obfuscate",
                        "nfs-share", "nfs-options", "ftp-server"},
            development |-> {"simulation-mode", "debug"},
            secret |-> {"username", "password"}]

(* Values of the Secret are lines; newlines around them are cut off.       *)
Trim(value) == value.text

Environment(o, content) ==
    [k \in EnvKeys[o] \cap DOMAIN Data(content) |->
        IF o = "secret" THEN Trim(content[k]) ELSE content[k]]

Merge(f, g) == [k \in DOMAIN f \cup DOMAIN g |->
                    IF k \in DOMAIN g THEN g[k] ELSE f[k]]

ZeroFields == [imageName |-> "", sosreportCommand |-> "",
               imagePullPolicy |-> "",
               pvcStorageClass |-> "", pvcCapacity |-> ""]

-----------------------------------------------------------------------------
(* jobForSosreport: names.                                                 *)
(* The suffix "-pvc" is not accounted for.                                 *)
maxLen_NoSuffix(x) == NameLimit - 2 - Len(Name[x]) - 14

maxLen(x) == NameLimit - 2 - Len(Name[x]) - 14 - 4

shortName(x, node) ==
    LET short == Head(Hostname[node]) IN
    IF Len(short) > maxLen(x) THEN SubSeq(short, 1, maxLen(x)) ELSE short

(* The name of Job and PVC without the time, which has 14 characters.      *)
Prefix(x, node) == Name[x] \o <<"-">> \o shortName(x, node) \o <<"-">>

Child(x, node) ==
    [owner |-> x, node |-> node, prefix |-> Prefix(x, node), second |-> second,
     fields |-> fields, env |-> env]

SameName(k, c) ==
    /\ Namespace[k.owner] = Namespace[c.owner]
    /\ k.prefix = c.prefix /\ k.second = c.second

(* An object of this name exists in the namespace.                         *)
Taken(objects, c) == \E k \in objects : SameName(k, c)

Eligible(x) == {n \in Nodes : tolerates(Tolerations[x], Taints[n])}

(* The running list: nodes that were taken off toRun and have no done Job. *)
Running(x) ==
    {j.node : j \in {k \in jobs : k.owner = x}}
        \ (toRun[x] \cup {j.node : j \in {k \in doneJobs : k.owner = x}})

SetupInit ==
    /\ object \in InitialObjects
    /\ faults = MaxFaults
    /\ read = "idle" /\ req = None
    /\ fields = ZeroFields /\ env = <<>>
    /\ toVisit = {} /\ inFlight = {} /\ started = {}
    /\ toRun = [x \in Sosreports |-> Eligible(x)]
    /\ jobs = {} /\ pvcs = {} /\ doneJobs = {}
    /\ second = 0 /\ panicked = FALSE
    /\ during = [o \in Objects |-> {}]

-----------------------------------------------------------------------------
(* The admin's change of an object arrives at the cache.                   *)
Edit(ns, o, content) ==
    /\ object[ns][o] # content
    /\ Fault
    /\ object' = [object EXCEPT ![ns][o] = content]
    /\ during' = IF read # "idle" /\ ns = Namespace[req]
                 THEN [during EXCEPT ![o] = @ \cup {content}] ELSE during
    /\ UNCHANGED <<read, req, fields, env, toVisit, inFlight, started, toRun,
                   childVars, second, panicked>>

(* time.Now() moves on.  Seconds are told apart only if a name to be made  *)
(* was made before.                                                        *)
Tick ==
    /\ \E x \in Sosreports : \E n \in toRun[x] : Taken(pvcs, Child(x, n))
    /\ second' = second + 1
    /\ UNCHANGED <<settingVars, faults, read, req, toVisit, inFlight, started,
                   toRun, childVars, panicked>>

(* Reconcile is called for a Sosreport that is scheduled and not finished. *)
Begin(x) ==
    /\ read = "idle"
    /\ toRun[x] \cup Running(x) # {}
    /\ read' = "global" /\ req' = x
    /\ during' = [o \in Objects |-> {object[Namespace[x]][o]}]
    /\ UNCHANGED <<object, faults, fields, env, toVisit, inFlight, started,
                   toRun, childVars, second, panicked>>

(* A Get returns what is there.  Every error of it counts as not found.    *)
Get(o, content) ==
    \/ /\ content = object[Namespace[req]][o]
       /\ UNCHANGED <<faults, during>>
    \/ /\ content = Missing /\ content # object[Namespace[req]][o]
       /\ Fault
       /\ during' = [during EXCEPT ![o] = @ \cup {Missing}]

ReadFields(o, content, settings, next) ==
    /\ read = o
    /\ Get(o, content)
    /\ fields' = Merge(fields, settings)
    /\ read' = next
    /\ UNCHANGED <<object, req, env, toVisit, inFlight, started, toRun,
                   childVars, second, panicked>>

ReadGlobal(content) ==
    ReadFields("global", content, Global(content), "development")

(* The field keeps its value unless the ConfigMap has one.                 *)
ReadDevelopment_Leftover(content) ==
    ReadFields("development", content,
        [Development(content) EXCEPT !.imageName =
            Entry(content, "sosreport-image", fields.imageName)], "upload")

ReadDevelopment(content) ==
    ReadFields("development", content, Development(content), "upload")

ReadEnvironment(o, content, label, next) ==
    /\ read = label
    /\ Get(o, content)
    /\ env' = Merge(env, Environment(o, content))
    /\ read' = next
    /\ toVisit' = IF next = "loop" THEN toRun[req] ELSE toVisit
    /\ UNCHANGED <<object, req, fields, inFlight, started, toRun, childVars,
                   second, panicked>>

ReadUpload(content) == ReadEnvironment("upload", content, "upload", "debug")
ReadDebug(content)  == ReadEnvironment("development", content, "debug", "secret")
ReadSecret(content) == ReadEnvironment("secret", content, "secret", "loop")

(* The loop of runSosreportJobs starts the Job of another node.            *)
MayStart(node) ==
    /\ read = "loop" /\ inFlight = {} /\ node \in toVisit
    /\ Cardinality(Running(req)) + Cardinality(started) < sosreportConcurrency

(* jobForSosreport panics on a negative index or a capacity that is none.  *)
Panics == maxLen(req) < 0 \/ fields.pvcCapacity \notin Capacities

(* An existing PVC is taken for the one of a former attempt.               *)
CreatePvc_ReuseExisting(node) ==
    /\ MayStart(node) /\ ~Panics
    /\ toVisit' = toVisit \ {node}
    /\ \/ /\ pvcs' = pvcs \cup {c \in {Child(req, node)} : ~Taken(pvcs, c)}
          /\ inFlight' = {Child(req, node)}
          /\ UNCHANGED faults
       \/ /\ Fault
          /\ UNCHANGED <<pvcs, inFlight>>
    /\ UNCHANGED <<settingVars, read, req, started, toRun, jobs, doneJobs,
                   second, panicked>>

(* jobFromTemplate returns an error: the node is skipped.                  *)
NoTemplate == Fault /\ UNCHANGED <<pvcs, inFlight>>

CreatePvc(node) ==
    /\ MayStart(node) /\ ~Panics
    /\ toVisit' = toVisit \ {node}
    /\ \/ NoTemplate
       \/ /\ ~Taken(pvcs, Child(req, node))
          /\ pvcs' = pvcs \cup {Child(req, node)}
          /\ inFlight' = {Child(req, node)}
          /\ UNCHANGED faults
       \/ /\ Taken(pvcs, Child(req, node))
          /\ UNCHANGED <<pvcs, inFlight, faults>>
       \/ /\ Fault
          /\ UNCHANGED <<pvcs, inFlight>>
    /\ UNCHANGED <<settingVars, read, req, started, toRun, jobs, doneJobs,
                   second, panicked>>

CreateJob ==
    /\ inFlight # {}
    /\ inFlight' = {}
    /\ \/ /\ jobs' = jobs \cup {c \in inFlight : ~Taken(jobs, c)}
          /\ started' = started \cup {c.node : c \in jobs' \ jobs}
          /\ UNCHANGED faults
       \/ /\ Fault
          /\ UNCHANGED <<jobs, started>>
    /\ UNCHANGED <<settingVars, read, req, toVisit, toRun, pvcs, doneJobs,
                   second, panicked>>

Return ==
    /\ read' = "idle" /\ req' = None /\ env' = <<>>
    /\ toVisit' = {} /\ inFlight' = {} /\ started' = {}
    /\ during' = [o \in Objects |-> {}]

(* The nodes that were visited are taken off the list, started or not.     *)
EndLoop_Visited ==
    /\ read = "loop" /\ inFlight = {}
    /\ \A node \in toVisit : ~MayStart(node)
    /\ toRun' = [toRun EXCEPT ![req] = toVisit]
    /\ Return
    /\ UNCHANGED <<object, faults, fields, childVars, second, panicked>>

EndLoop ==
    /\ read = "loop" /\ inFlight = {}
    /\ \A node \in toVisit : ~MayStart(node)
    /\ toRun' = [toRun EXCEPT ![req] = @ \ started]
    /\ Return
    /\ UNCHANGED <<object, faults, fields, childVars, second, panicked>>

(* The process ends and is started again.                                  *)
Restart ==
    /\ Return
    /\ fields' = ZeroFields
    /\ UNCHANGED <<object, toRun, childVars, second>>

Panic ==
    /\ \E node \in toVisit : MayStart(node)
    /\ Panics
    /\ panicked' = TRUE
    /\ Restart
    /\ UNCHANGED faults

Crash == Fault /\ Restart /\ UNCHANGED panicked

Readable(o) == {Missing} \cup {object[Namespace[x]][o] : x \in Sosreports}

Reconcile ==
    \/ \E c \in Readable("global") : ReadGlobal(c)
    \/ \E c \in Readable("development") : ReadDevelopment(c) \/ ReadDebug(c)
    \/ \E c \in Readable("upload") : ReadUpload(c)
    \/ \E c \in Readable("secret") : ReadSecret(c)
    \/ \E node \in toVisit : CreatePvc(node)
    \/ CreateJob
    \/ EndLoop
    \/ Panic

SetupNext ==
    \/ \E x \in Sosreports : Begin(x)
    \/ Reconcile
    \/ Crash \/ Tick
    \/ \E ns \in Namespaces, o \in Objects :
          \E c \in Contents[o] : Edit(ns, o, c)

-----------------------------------------------------------------------------
(* What a Job and its PVC are made from was stored in the namespace of its *)
(* own Sosreport at some time during this call of Reconcile, or a Get of   *)
(* it failed: nothing is left over from an earlier call or from another    *)
(* namespace, whose settings pass through the same fields.  The fields and *)
(* the environment are read by different Gets (lines 325 and 386), so they *)
(* may be of different versions of the development ConfigMap, while each   *)
(* of the two is made from one version of every object it is read from.    *)
SettingsOf(c) ==
    /\ \E g \in during["global"], d \in during["development"] :
          c.fields = Merge(Global(g), Development(d))
    /\ \E u \in during["upload"], d \in during["development"],
          v \in during["secret"] :
          c.env = Merge(Merge(Environment("upload", u),
                              Environment("development", d)),
                        Environment("secret", v))

SettingsCurrent == [][\A c \in pvcs' \ pvcs : SettingsOf(c)]_setupVars

(* The volume that a Job mounts was made for it: although two nodes may    *)
(* have the same short name, and names of Sosreports and nodes may run     *)
(* into each other, it is not the PVC of another node or Sosreport.        *)
MountsItsOwn ==
    \A j \in jobs : j \in pvcs /\ \A p \in pvcs : SameName(p, j) => p = j

(* The names of Jobs and PVCs are no longer than Kubernetes allows.        *)
NamesFit == \A c \in pvcs \cup jobs : Len(c.prefix) + 14 + 4 =< NameLimit

(* Each Job's pod can be put on its node.                                  *)
PodsSchedulable ==
    \A j \in jobs : Schedulable(Tolerations[j.owner], Taints[j.node])

(* A node whose PVC or Job could not be made, because a Create failed, a   *)
(* name was taken or the process ended, is tried again: a node is only off *)
(* the list of those to run if it has a Job.                               *)
NoNodeSkipped ==
    \A x \in Sosreports : \A n \in Eligible(x) :
        n \in toRun[x] \/ \E j \in jobs : j.owner = x /\ j.node = n

=============================================================================

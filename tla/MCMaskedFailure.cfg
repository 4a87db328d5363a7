SPECIFICATION FairLifeSpec
CONSTANTS
    x1 = x1
    x2 = x2
    a = a
    b = b
    c = c
    Sosreports = {x1, x2}
    Namespace <- MCNamespace
    Characters <- MCCharacters
    Name <- MCName
    Tolerations <- MCTolerations
    Nodes = {a, b, c}
    Hostname <- MCHostname
    Taints <- MCTaints
    NameLimit = 25
    None = None
    Missing = Missing
    Contents <- MCContents
    InitialObjects <- MCInitialObjects
    Capacities = {"10Gi"}
    sosreportConcurrency = 1
    MaxFaults = 0
    NoContainer = NoContainer
    BackoffLimit = 1
PROPERTIES
    CompleteIsStored
CHECK_DEADLOCK FALSE

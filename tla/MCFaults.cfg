SPECIFICATION Spec
CONSTANTS
    n1 = n1
    n2 = n2
    u1 = u1
    u2 = u2
    a = a
    b = b
    Names = {n1}
    UIDs = {u1}
    Nodes = {a}
    NoUid = NoUid
    Absent = Absent
    Null = Null
    NoName = NoName
    NoSetting = NoSetting
    Selected <- AllNodes
    Tolerated <- AllNodes
    ConcurrencySettings = {2}
    MaxFaults <- AllFaults
CONSTRAINT TwoFaults
INVARIANTS
    TypeOK
    VersionInv
    RestartInv
    RunningHasJob
PROPERTIES
    FinishedStable
    NoJobAfterFinished

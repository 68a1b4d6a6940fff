SPECIFICATION FairSpec
CONSTANTS
    Callers = {u, r}
    Unlocked = {r}
    Faults = {"reset", "stall", "health", "gpus", "kube", "device", "timeout", "mgrCrash", "cfgCrash", "signal"}
    MaxFaults = 1
    MaxConfigs = 2
    MaxQueue = 1
    MaxHeartbeatFailures = 2
    u = u
    r = r
INVARIANTS
    TypeOK
    ConfigArrives
    FilesWhole
    ReadyByAnother
PROPERTIES
    NodeRecovers
    SilentNodeIsNoticed
CHECK_DEADLOCK FALSE

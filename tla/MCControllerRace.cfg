SPECIFICATION Spec
CONSTANTS
    x1 = x1
    x2 = x2
    y1 = y1
    g1 = g1
    w1 = w1
    w2 = w2
    NoPod = NoPod
    Gone = Gone
    NoKey = NoKey
    NameSets <- TwoX
    Pods <- MCPods
    GPUs = {g1}
    MIG = {}
    SMValueOnly = {}
    TypeOf <- AllFastPods
    GpuOf <- MCGpuOf
    MemOf <- MCMemOf
    SmOf <- MCMemOf
    MemTotal <- MCMemTotal
    SmTotal <- MCSmTotal
    Uses = {1}
    Cap = 3
    Size = 2
    FaSTPods <- MCFaSTPods
    Workers = {w1}
    Owner <- MCOwner
    UseOf <- MCUseOf
    Replicas <- MCReplicas
    FirstReplicas <- MCFirst
    Fresh = {}
    MaxScales = 0
    Deletable = {"x"}
    Faults = {}
    MaxFaults = 0
    MaxEvents = 2
    MaxRemovals = 1
INVARIANTS
    CollectorLeavesNothing
CHECK_DEADLOCK FALSE

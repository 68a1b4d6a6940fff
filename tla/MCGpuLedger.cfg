SPECIFICATION MCSpec
CONSTANTS
    f1 = f1
    f2 = f2
    f3 = f3
    m1 = m1
    m2 = m2
    e1 = e1
    e2 = e2
    g1 = g1
    g2 = g2
    NoPod = NoPod
    Pods <- MCPods
    GPUs <- MCGPUs
    MIG = {g1}
    SMValueOnly = {e2}
    TypeOf <- MCTypeOf
    GpuOf <- MCGpuOf
    MemOf <- MCMemOf
    SmOf <- MCSmOf
    MemTotal <- MCMemTotal
    SmTotal <- MCSmTotal
    Uses = {1, 2}
    Cap = 3
    Size = 2
    MaxDrift = 1
INVARIANTS
    TypeOK
    OneMode
    PortsDistinct
    WithinCapacity
    SelectionStaysValid
    MpsRunsWhileRecorded
PROPERTIES
    BooksStayBalanced
    BookingsAreKept

SPECIFICATION FairConfSpec
CONSTANTS
    s1 = s1
    p1 = p1
    c1 = c1
    c2 = c2
    None = None
    Slots = {s1}
    Physical = {}
    Calls = {c1, c2}
    UseMps = {TRUE}
    OneAtATime = {}
    Failures = {"instance", "compute", "query", "start", "stop", "destroyCI", "destroyGI", "crash"}
INVARIANTS
    ConfTypeOK
    InstancesAreOwned
    DevicesAreKnown
    EntriesNameTheirGpu
PROPERTIES
    CleanUpDestroysAll
    CallsReturn

CONSTANTS
    r = r
    Names = {"a", "b"}  Functions = {"f"}  Labels = {"f"}  MaxWrites = 3
    Requests = {r}  Deployed = {"a"}  UserMade = {"b"}
    Faults = {"get", "daemonset", "service", "relist", "restart"}  MaxFaults = 1
SPECIFICATION FairSpec
INVARIANTS DatabaseFollows InitContainersStarted
PROPERTIES ServiceConverges
CHECK_DEADLOCK FALSE

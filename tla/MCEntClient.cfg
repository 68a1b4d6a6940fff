CONSTANTS
    p = p  x = x  y = y  s1 = s1  s2 = s2
    Pods = {p}  Resources = {x, y}  PodValues = {1}  ResourceValues = {1, 2}
    Requests <- MCRequests  MaxCalls = 3
    Sessions = {s1, s2}  MaxDepth = 2
SPECIFICATION Spec
SYMMETRY SessionSymmetry
INVARIANTS TypeOK Consistent CallsInOrder QueriesAreRight
PROPERTIES IsARelationStore
CHECK_DEADLOCK FALSE

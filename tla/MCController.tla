---------------------------- MODULE MCController ----------------------------
(***************************************************************************)
(* Small instances of FaSTPodController: FaSTPods x and y on one physical  *)
(* GPU, with a few pod names each.                                         *)
(***************************************************************************)
EXTENDS FaSTPodController, TLC

CONSTANTS
    x1, x2, y1,    \* pod names of x and y
    g1, w1, w2,
    NameSets       \* the pod names of x, and those of y

MCPods == NameSets[1] \cup NameSets[2]
MCOwner == [p \in MCPods |-> IF p \in NameSets[1] THEN "x" ELSE "y"]
MCFaSTPods == {MCOwner[p] : p \in MCPods}
AllFastPods == [p \in MCPods |-> "FastPod"]
MCGpuOf == [p \in MCPods |-> g1]
MCMemOf == [p \in MCPods |-> 1]
MCUseOf == [x \in MCFaSTPods |-> 1]
MCMemTotal == [g \in {g1} |-> Cap]
MCSmTotal == [g \in {g1} |-> 1]
MCReplicas == [x \in MCFaSTPods |-> IF x = "x" THEN {1, 2} ELSE {1}]
ZeroToo == [x \in MCFaSTPods |-> {0, 1}]
MCFirst == [x \in MCFaSTPods |-> 1]
OneX == <<{x1}, {}>>
TwoX == <<{x1, x2}, {}>>
TwoXOneY == <<{x1, x2}, {y1}>>

\* "This is a pointer to distinguish between explicit zero and unspecified" (types.go): a FaSTPod scaled to zero loses its pods.
ExplicitZero == \A x \in FaSTPods : (want[x] = 0) ~> Reached(x, 0)

Sym == Permutations({x1, x2}) \cup Permutations(Workers)
=============================================================================

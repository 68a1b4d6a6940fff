---------------------------- MODULE MCEntClient -----------------------------
(* One pod, two resources and two sessions; every kind of operation, with at *)
(* most one call, such that it meets both rows that exist and rows that do   *)
(* not; and an update that adds a link and then clears them all.             *)
EXTENDS EntClient, TLC

CONSTANTS p, x, y, s1, s2

Add(n) == <<[call |-> "add", id |-> n]>>
OnPod ==
    {op \in Updates({p}, 1) : /\ op.val = Unset(op.ids) /\ op.calls # <<>>
                              /\ op.kind = "update" => op.calls[1].call # "remove"}
OnResource ==
    {op \in Updates({x, y}, 1) : IF op.ids = {x} /\ op.val[x] = 2 THEN op.calls \in {<<>>, Add(p)}
                                 ELSE op.val = Unset(op.ids) /\ op.calls # <<>>}
AddThenClear == Op("update", {p}, [n \in {p} |-> 0], Add(x) \o <<[call |-> "clear", id |-> 0]>>, "fail")
NewPod(v, calls, conflict) == Op("create", {p}, [n \in {p} |-> v], calls, conflict)
NewResource(n, v, calls, conflict) == Op("create", {n}, [m \in {n} |-> v], calls, conflict)
NewResources(v, w) == Op("createBulk", {x, y}, [n \in {x, y} |-> IF n = x THEN v ELSE w], <<>>, "fail")

MCRequests ==
    OnPod \cup {AddThenClear} \cup OnResource \cup Deletes({p}) \cup Deletes({x, y})
    \cup {NewPod(1, <<>>, "fail"), NewPod(1, Add(x), "fail"), NewPod(0, <<>>, "fail"),
          NewPod(1, Add(y), "update"), NewPod(1, <<>>, "nothing"),
          Op("createBulk", {p}, [n \in {p} |-> 1], Add(x), "fail")}
    \cup {NewResource(x, 1, <<>>, "fail"), NewResource(y, 1, Add(p), "fail"), NewResource(x, 0, <<>>, "fail"),
          NewResource(x, 2, Add(p), "update"), NewResource(y, 2, <<>>, "nothing"),
          NewResources(1, 2), NewResources(2, 2)}

SessionSymmetry == Permutations(Sessions)
=============================================================================

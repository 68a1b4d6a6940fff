----------------------------- MODULE Relations ------------------------------
(***************************************************************************)
(* The contents of the database, pods and resources with links between     *)
(* them, the operations that the client of internal/db/ent offers, and     *)
(* what each of them is meant to do.  A row is the value of its one field  *)
(* that matters, 0 when there is no row: the node_name of a resource,      *)
(* which is unique, and the name of a pod, which is not.                   *)
(***************************************************************************)
EXTENDS Naturals, Sequences, FiniteSets

CONSTANTS
    Pods, Resources,    \* the ids
    PodValues, ResourceValues   \* the values of their fields

ASSUME RelationsAssumption ==
    /\ Pods \cap Resources = {} /\ 0 \notin Pods \cup Resources
    /\ IsFiniteSet(Pods) /\ IsFiniteSet(Resources)
    /\ PodValues \subseteq Nat \ {0} /\ ResourceValues \subseteq Nat \ {0}

Nodes == Pods \cup Resources
Values(T) == {0} \cup (IF T = Pods THEN PodValues ELSE ResourceValues)
Rows == [Nodes -> Values(Pods) \cup Values(Resources)]
Contents == [rows : Rows, links : SUBSET (Pods \X Resources)]
Empty == [rows |-> [n \in Nodes |-> 0], links |-> {}]

Exists(d, n) == d.rows[n] # 0
Link(n, m) == IF n \in Pods THEN <<n, m>> ELSE <<m, n>>
LinksOf(S) == {l \in Pods \X Resources : l[1] \in S \/ l[2] \in S}
Neighbours(d, n) == {m \in Nodes : Link(n, m) \in d.links}

\* The unique index on node_name, and the foreign keys.
NamesDiffer(rows) == \A x, y \in Resources : x # y /\ rows[x] = rows[y] => rows[x] = 0
LinksExist(d) == \A l \in d.links : Exists(d, l[1]) /\ Exists(d, l[2])

-----------------------------------------------------------------------------
(* Operations: the ids, all of one table; the value for each of them, 0 if *)
(* it is not set; and the calls on the edge, in the order in which they    *)
(* are made.                                                               *)

\* At most k calls.
CallsOn(T, kinds, k) ==
    LET Calls == {c \in [call : kinds, id : (Nodes \ T) \cup {0}] : c.call = "clear" <=> c.id = 0}
    IN  UNION {[1..i -> Calls] : i \in 0..k}
Alike(T, ids) == {[n \in ids |-> v] : v \in Values(T)}
Unset(ids) == [n \in ids |-> 0]
Singles(T) == {{n} : n \in T}

Op(kind, ids, val, calls, conflict) ==
    [kind |-> kind, ids |-> ids, val |-> val, calls |-> calls, conflict |-> conflict]
NoOp == Op("none", {}, <<>>, <<>>, "fail")

\* One row with what to do if it is there already, or all rows.
Creates(T, k) ==
    (UNION {{Op("create", ids, v, c, x) : v \in Alike(T, ids), c \in CallsOn(T, {"add"}, k),
                                          x \in {"fail", "update", "nothing"}} : ids \in Singles(T)})
    \cup {Op("createBulk", T, v, c, "fail") : v \in [T -> Values(T)], c \in CallsOn(T, {"add"}, k)}
Updates(T, k) ==
    LET Calls == CallsOn(T, {"add", "remove", "clear"}, k) IN
    (UNION {{Op("updateOne", ids, v, c, "fail") : v \in Alike(T, ids), c \in Calls} : ids \in Singles(T)})
    \cup {Op("update", T, v, c, "fail") : v \in Alike(T, T), c \in Calls}
Deletes(T) ==
    {Op("deleteOne", ids, Unset(ids), <<>>, "fail") : ids \in Singles(T)}
    \cup {Op("delete", T, Unset(T), <<>>, "fail")}

Operations(k) == UNION {Creates(T, k) \cup Updates(T, k) \cup Deletes(T) : T \in {Pods, Resources}}

-----------------------------------------------------------------------------
(* What an operation is meant to do to contents d.                         *)

Makes(op) == op.kind \in {"create", "createBulk"}
Found(op, d) == {n \in op.ids : Exists(d, n)}
\* The rows it is about: those it makes, and those it finds.
Subjects(op, d) == IF Makes(op) THEN op.ids ELSE Found(op, d)

\* The last call that names a node decides about the link; a clear names them all.
CallsTo(op, m) == {i \in DOMAIN op.calls : op.calls[i].id \in {m, 0}}
Linked(op, d, n, m) ==
    IF CallsTo(op, m) # {}
    THEN \E i \in CallsTo(op, m) : op.calls[i].call = "add" /\ \A j \in CallsTo(op, m) : j <= i
    ELSE Link(n, m) \in d.links

Effect(op, d) ==
    IF op.kind \in {"delete", "deleteOne"}
    THEN [rows |-> [n \in Nodes |-> IF n \in op.ids THEN 0 ELSE d.rows[n]],
          links |-> d.links \ LinksOf(op.ids)]
    ELSE LET S == Subjects(op, d) IN
         [rows |-> [n \in Nodes |-> IF n \in S /\ op.val[n] # 0 THEN op.val[n] ELSE d.rows[n]],
          links |-> {l \in Pods \X Resources :
                       CASE l[1] \in S -> Linked(op, d, l[1], l[2])
                         [] l[2] \in S -> Linked(op, d, l[2], l[1])
                         [] OTHER -> l \in d.links}]

\* The builders fall short of that in one case.  A clear takes away only the links of before the
\* operation: a node that is added before it, and that no later call names, is linked all the same.
StillAdded(op) ==
    {m \in Nodes : \E i \in DOMAIN op.calls :
        /\ op.calls[i].call = "add" /\ op.calls[i].id = m
        /\ \A j \in DOMAIN op.calls : op.calls[j].id = m => j <= i
        /\ \E j \in DOMAIN op.calls : op.calls[j].call = "clear" /\ j > i}
StillLinked(op, d) == {Link(n, m) : n \in Subjects(op, d), m \in StillAdded(op)}

\* What they promise to leave.
Outcome(op, d) == [Effect(op, d) EXCEPT !.links = @ \cup StillLinked(op, d)]

\* The operation is refused unless it finds what it is about, or makes what is not there and
\* has all its fields, and leaves names unique and links between rows that exist.
Valid(op, d) ==
    /\ op.kind \in {"updateOne", "deleteOne"} => Found(op, d) # {}
    /\ Makes(op) => \A n \in op.ids : op.val[n] # 0
    /\ Makes(op) /\ op.conflict # "update" => Found(op, d) = {}
    /\ NamesDiffer(Outcome(op, d).rows) /\ LinksExist(Outcome(op, d))
=============================================================================

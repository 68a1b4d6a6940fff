------------------------------ MODULE EntQuery ------------------------------
(***************************************************************************)
(* Queries of internal/db/ent: those that want one row, and the loading of *)
(* the neighbours of all rows found with a single statement.               *)
(***************************************************************************)
EXTENDS Relations, Functions

Matching(S, d) == {n \in S : Exists(d, n)}

\* All with a limit: that many of the matching rows, in any order.
sqlAll(S, d, limit) ==
    {q \in UNION {[1..k -> Matching(S, d)] : k \in 0..limit} :
       IsInjective(q) /\ (Len(q) = limit \/ Range(q) = Matching(S, d))}

Row(n) == [err |-> "nil", id |-> n]
NotFound == [err |-> "not found"]
NotSingular == [err |-> "not singular"]
First(q) == IF q = <<>> THEN NotFound ELSE Row(q[1])
Only(q) == CASE Len(q) = 1 -> Row(q[1]) [] Len(q) = 0 -> NotFound [] OTHER -> NotSingular
firstIDs(S, d) == {First(q) : q \in sqlAll(S, d, 1)}
onlyIDs(S, d) == {Only(q) : q \in sqlAll(S, d, 2)}

\* A mutated assign: a neighbour that has been seen is passed over.
assignFirst(a, row) ==
    IF a.nids[row.in] = {}
    THEN [nids |-> [a.nids EXCEPT ![row.in] = {row.out}], neighbors |-> Append(a.neighbors, row.in)]
    ELSE a

\* A row of the join holds the node and its neighbour.  A neighbour is kept when it is seen for
\* the first time, and the nodes of which it is one are collected in nids.
assign(a, row) ==
    IF a.nids[row.in] = {}
    THEN [nids |-> [a.nids EXCEPT ![row.in] = {row.out}], neighbors |-> Append(a.neighbors, row.in)]
    ELSE [a EXCEPT !.nids[row.in] = @ \cup {row.out}]
Loaded(rows) ==
    LET a[i \in 0..Len(rows)] ==
          IF i = 0 THEN [nids |-> [n \in Nodes |-> {}], neighbors |-> <<>>] ELSE assign(a[i - 1], rows[i])
    IN  a[Len(rows)]

\* A statement returns its rows in any order.
Listings(R) == {rows \in [1..Cardinality(R) -> R] : Range(rows) = R}
loadResource(S, d) ==
    {Loaded(rows) : rows \in Listings({[out |-> l[1], in |-> l[2]] : l \in {k \in d.links : k[1] \in S}})}
loadPods(S, d) ==
    {Loaded(rows) : rows \in Listings({[out |-> l[2], in |-> l[1]] : l \in {k \in d.links : k[2] \in S}})}

\* What a node is given: places of neighbors.
Edges(a, n) == {i \in DOMAIN a.neighbors : n \in a.nids[a.neighbors[i]]}

-----------------------------------------------------------------------------
\* Every node found is given each of its neighbours once, in whatever order the rows of the
\* join come and however many nodes share a neighbour (loadResource, loadPods).
LoadsNeighbours(d) ==
    \A S \in (SUBSET Pods) \cup (SUBSET Resources) :
      \A a \in IF S \subseteq Pods THEN loadResource(S, d) ELSE loadPods(S, d) :
        \A n \in S :
          /\ {a.neighbors[i] : i \in Edges(a, n)} = Neighbours(d, n)
          /\ \A i, j \in Edges(a, n) : a.neighbors[i] = a.neighbors[j] => i = j

\* A query for the only row answers with a row only if it is the only one, and then with that
\* one; a query for the first row finds one if there is any (Only, First, Exist, Get).
AnswersTruly(d) ==
    \A S \in (SUBSET Pods) \cup (SUBSET Resources) :
      LET M == Matching(S, d) IN
      /\ \A r \in onlyIDs(S, d) : IF r.err = "nil" THEN M = {r.id} ELSE \A n \in M : M # {n}
      /\ \A r \in firstIDs(S, d) : IF r.err = "nil" THEN r.id \in M ELSE M = {}
=============================================================================

--------------------------- MODULE EntClientProofs ---------------------------
(***************************************************************************)
(* What holds of the database client for any tables, sessions, depth of    *)
(* TxWrap and number of calls: an operation does what its calls say in     *)
(* their order, queries answer truly, the contents stay consistent, and    *)
(* the client implements RelationStore.                                    *)
(*                                                                         *)
(* What a loop over calls or rows computes is proved by induction: the     *)
(* least index at which a statement fails would be preceded by one at      *)
(* which it holds.                                                         *)
(***************************************************************************)
EXTENDS EntClient, SequenceTheorems, FiniteSetTheorems, WellFoundedInduction, TLAPS

\* A set of numbers that is not empty has a least one.
LEMMA LeastNat ==
    ASSUME NEW T \in SUBSET Nat, T # {}
    PROVE  \E n \in T : \A m \in T : n <= m
<1> DEFINE R == {ss \in Nat \X Nat : ss[1] < ss[2]}
<1>1. IsWellFoundedOn(R, Nat)
  BY NatLessThanWellFounded DEF OpToRel
<1>2. PICK n \in T : \A m \in T : ~(<<m, n>> \in R)
  BY <1>1, WFMin, Zenon
<1>3. \A m \in T : ~(m < n)
  BY <1>2
<1> QED
  BY <1>3

\* Induction over the places of a sequence: nothing fails if the first place that fails does not exist.
LEMMA PlacesInduction ==
    ASSUME NEW n \in Nat, NEW Bad \in SUBSET (0..n), 0 \notin Bad,
           \A i \in 1..n : i \in Bad => i - 1 \in Bad
    PROVE  Bad = {}
<1> SUFFICES ASSUME Bad # {} PROVE FALSE
  OBVIOUS
<1>1. Bad \in SUBSET Nat
  OBVIOUS
<1>2. PICK k \in Bad : \A m \in Bad : k <= m
  BY <1>1, LeastNat
<1>3. k \in 1..n
  BY <1>2
<1>4. k - 1 \in Bad
  BY <1>3
<1>5. k <= k - 1
  BY <1>2, <1>4
<1> QED
  BY <1>3, <1>5

-----------------------------------------------------------------------------
(* Mutations.                                                              *)

\* The last of the first i calls in q that names m is an add.
LastAdds(q, i, m) ==
    \E j \in 1..i : /\ q[j].id = m /\ q[j].call = "add"
                    /\ \A h \in 1..i : q[h].id = m => h <= j

\* What the first i calls in q leave in a mutation.
Collected(q, i, mu) ==
    /\ \A m \in Nodes : m \in mu.added <=> LastAdds(q, i, m)
    /\ \A m \in Nodes : m \in mu.removed <=> \E j \in 1..i : q[j].id = m /\ q[j].call = "remove"
    /\ mu.cleared <=> \E j \in 1..i : q[j].call = "clear"

\* Calls on the edge to the nodes in M.
AreCalls(q, M) ==
    /\ Len(q) \in Nat
    /\ \A i \in 1..Len(q) :
         /\ q[i].call \in {"add", "remove", "clear"} /\ q[i].id \in M \cup {0}
         /\ q[i].call = "clear" <=> q[i].id = 0
Mutations(M) == [added : SUBSET M, removed : SUBSET M, cleared : BOOLEAN]

\* The calls can be made one after the other.
LEMMA CallsRun ==
    ASSUME NEW q, NEW n \in Nat
    PROVE  \E f : f = [i \in 0..n |-> IF i = 0 THEN newPodMutation ELSE PodCall(f[i - 1], q[i])]
<1> DEFINE Bad == {k \in 0..n :
                     ~\E f : f = [i \in 0..k |-> IF i = 0 THEN newPodMutation ELSE PodCall(f[i - 1], q[i])]}
<1>1. 0 \notin Bad
  <2> DEFINE g == [i \in 0..0 |-> newPodMutation]
  <2>1. g = [i \in 0..0 |-> IF i = 0 THEN newPodMutation ELSE PodCall(g[i - 1], q[i])]
    OBVIOUS
  <2> QED
    BY <2>1
<1>2. ASSUME NEW k \in 1..n, k - 1 \notin Bad PROVE k \notin Bad
  <2>1. k - 1 \in 0..n
    OBVIOUS
  <2>2. PICK f : f = [i \in 0..(k - 1) |-> IF i = 0 THEN newPodMutation ELSE PodCall(f[i - 1], q[i])]
    BY <1>2, <2>1
  <2> DEFINE g == [i \in 0..k |-> IF i < k THEN f[i] ELSE PodCall(f[k - 1], q[k])]
             h == [i \in 0..k |-> IF i = 0 THEN newPodMutation ELSE PodCall(g[i - 1], q[i])]
  <2>3. ASSUME NEW i \in 0..k PROVE g[i] = h[i]
    <3>1. CASE i = 0
      BY <2>2, <3>1
    <3>2. CASE i \in 1..(k - 1)
      <4>1. i \in 0..(k - 1) /\ i < k /\ i # 0 /\ i - 1 \in 0..k /\ i - 1 < k
        BY <3>2
      <4>2. g[i] = f[i] /\ g[i - 1] = f[i - 1]
        BY <4>1
      <4>3. f[i] = PodCall(f[i - 1], q[i])
        BY <2>2, <4>1
      <4> QED
        BY <4>1, <4>2, <4>3
    <3>3. CASE i = k
      <4>1. i # 0 /\ ~(i < k) /\ i - 1 \in 0..k /\ i - 1 < k
        BY <3>3
      <4> QED
        BY <3>3, <4>1
    <3> QED
      BY <3>1, <3>2, <3>3
  <2>4. g = h
    BY <2>3
  <2> QED
    BY <2>4
<1>3. Bad = {}
  <2> HIDE DEF Bad
  <2>1. Bad \in SUBSET (0..n)
    BY DEF Bad
  <2> QED
    BY <1>1, <1>2, <2>1, PlacesInduction
<1>4. n \in 0..n
  OBVIOUS
<1> QED
  BY <1>3, <1>4, Zenon

\* The mutation that results.
LEMMA PodMutationIs ==
    ASSUME NEW op, Len(op.calls) \in Nat
    PROVE  \E f : /\ PodMutation(op) = f[Len(op.calls)]
                  /\ f[0] = newPodMutation
                  /\ \A i \in 1..Len(op.calls) : f[i] = PodCall(f[i - 1], op.calls[i])
<1> DEFINE n == Len(op.calls)
           q == op.calls
           F == CHOOSE f : f = [i \in 0..n |-> IF i = 0 THEN newPodMutation ELSE PodCall(f[i - 1], q[i])]
<1>1. PodMutation(op) = F[n]
  BY DEF PodMutation
<1> HIDE DEF n, q
<1>2. n \in Nat
  BY DEF n
<1>3. F = [i \in 0..n |-> IF i = 0 THEN newPodMutation ELSE PodCall(F[i - 1], q[i])]
  BY <1>2, CallsRun
<1> HIDE DEF F
<1>4. F[0] = newPodMutation /\ \A i \in 1..n : F[i] = PodCall(F[i - 1], q[i])
  BY <1>2, <1>3
<1> QED
  BY <1>1, <1>4 DEF n, q

\* One more call: the last one that names m decides.
LEMMA LastAddsStep ==
    ASSUME NEW q, NEW i \in Nat \ {0}, NEW m
    PROVE  LastAdds(q, i, m) <=> IF q[i].id = m THEN q[i].call = "add" ELSE LastAdds(q, i - 1, m)
<1>1. CASE q[i].id = m
  <2>1. ASSUME LastAdds(q, i, m) PROVE q[i].call = "add"
    <3>1. PICK j \in 1..i : q[j].call = "add" /\ \A h \in 1..i : q[h].id = m => h <= j
      BY <2>1 DEF LastAdds
    <3>2. i \in 1..i /\ i <= j
      BY <1>1, <3>1
    <3>3. j = i
      BY <3>2
    <3> QED
      BY <3>1, <3>3
  <2>2. ASSUME q[i].call = "add" PROVE LastAdds(q, i, m)
    <3>1. i \in 1..i /\ \A h \in 1..i : h <= i
      OBVIOUS
    <3> QED
      BY <1>1, <2>2, <3>1 DEF LastAdds
  <2> QED
    BY <1>1, <2>1, <2>2
<1>2. CASE q[i].id # m
  <2>1. ASSUME LastAdds(q, i, m) PROVE LastAdds(q, i - 1, m)
    <3>1. PICK j \in 1..i : /\ q[j].id = m /\ q[j].call = "add"
                            /\ \A h \in 1..i : q[h].id = m => h <= j
      BY <2>1 DEF LastAdds
    <3>2. j # i
      BY <1>2, <3>1
    <3>3. j \in 1..(i - 1) /\ \A h \in 1..(i - 1) : h \in 1..i
      BY <3>2
    <3> QED
      BY <3>1, <3>3 DEF LastAdds
  <2>2. ASSUME LastAdds(q, i - 1, m) PROVE LastAdds(q, i, m)
    <3>1. PICK j \in 1..(i - 1) : /\ q[j].id = m /\ q[j].call = "add"
                                  /\ \A h \in 1..(i - 1) : q[h].id = m => h <= j
      BY <2>2 DEF LastAdds
    <3>2. j \in 1..i /\ \A h \in 1..i : h # i => h \in 1..(i - 1)
      OBVIOUS
    <3>3. \A h \in 1..i : q[h].id = m => h <= j
      BY <1>2, <3>1, <3>2
    <3> QED
      BY <3>1, <3>2, <3>3 DEF LastAdds
  <2> QED
    BY <1>2, <2>1, <2>2
<1> QED
  BY <1>1, <1>2

\* A call does to a mutation what it says.
LEMMA PodCallCollects ==
    ASSUME NEW M \in SUBSET Nodes, 0 \notin Nodes, NEW q, AreCalls(q, M), NEW i \in 1..Len(q),
           NEW mu \in Mutations(M), Collected(q, i - 1, mu)
    PROVE  PodCall(mu, q[i]) \in Mutations(M) /\ Collected(q, i, PodCall(mu, q[i]))
<1> DEFINE c == q[i]
           nu == PodCall(mu, q[i])
<1>1. /\ Len(q) \in Nat /\ i \in Nat \ {0} /\ i \in 1..i
      /\ c.call \in {"add", "remove", "clear"} /\ c.id \in M \cup {0} /\ (c.call = "clear" <=> c.id = 0)
  BY DEF AreCalls
<1>2. \A j \in 1..i : j = i \/ j \in 1..(i - 1)
  BY <1>1
<1>3. \A j \in 1..(i - 1) : j \in 1..i
  BY <1>1
<1>4. /\ nu.added = CASE c.call = "add" -> mu.added \cup {c.id}
                      [] c.call = "remove" -> mu.added \ {c.id}
                      [] c.call = "clear" -> mu.added
      /\ nu.removed = IF c.call = "remove" THEN mu.removed \cup {c.id} ELSE mu.removed
      /\ nu.cleared = (mu.cleared \/ c.call = "clear")
      /\ nu \in Mutations(M)
  <2>1. CASE c.call = "add"
    BY <1>1, <2>1 DEF PodCall, Added, Mutations
  <2>2. CASE c.call = "remove"
    BY <1>1, <2>2 DEF PodCall, Removed, Mutations
  <2>3. CASE c.call = "clear"
    BY <1>1, <2>3 DEF PodCall, Cleared, Mutations
  <2> QED
    BY <1>1, <2>1, <2>2, <2>3
<1> HIDE DEF nu
<1>5. \A m \in Nodes : m \in nu.added <=> LastAdds(q, i, m)
  <2> TAKE m \in Nodes
  <2>1. m \in mu.added <=> LastAdds(q, i - 1, m)
    BY DEF Collected
  <2>2. LastAdds(q, i, m) <=> IF c.id = m THEN c.call = "add" ELSE LastAdds(q, i - 1, m)
    BY <1>1, LastAddsStep
  <2>3. m # 0
    OBVIOUS
  <2> QED
    BY <1>1, <1>4, <2>1, <2>2, <2>3
<1>6. \A m \in Nodes : m \in nu.removed <=> \E j \in 1..i : q[j].id = m /\ q[j].call = "remove"
  <2> TAKE m \in Nodes
  <2>1. m \in mu.removed <=> \E j \in 1..(i - 1) : q[j].id = m /\ q[j].call = "remove"
    BY DEF Collected
  <2>2. m \in nu.removed <=> (m \in mu.removed \/ (c.call = "remove" /\ c.id = m))
    BY <1>4
  <2> QED
    BY <1>1, <1>2, <1>3, <2>1, <2>2
<1>7. nu.cleared <=> \E j \in 1..i : q[j].call = "clear"
  <2>1. mu.cleared <=> \E j \in 1..(i - 1) : q[j].call = "clear"
    BY DEF Collected
  <2>2. nu.cleared <=> (mu.cleared \/ c.call = "clear")
    BY <1>4
  <2> QED
    BY <1>1, <1>2, <1>3, <2>1, <2>2
<1> QED
  BY <1>4, <1>5, <1>6, <1>7 DEF Collected, nu

\* A mutation holds what all its calls leave in it.
LEMMA PodMutationCollects ==
    ASSUME NEW M \in SUBSET Nodes, 0 \notin Nodes, NEW op, AreCalls(op.calls, M)
    PROVE  PodMutation(op) \in Mutations(M) /\ Collected(op.calls, Len(op.calls), PodMutation(op))
<1> DEFINE q == op.calls
           n == Len(op.calls)
<1>1. n \in Nat
  BY DEF AreCalls
<1>2. PICK f : /\ PodMutation(op) = f[n]
               /\ f[0] = newPodMutation
               /\ \A i \in 1..n : f[i] = PodCall(f[i - 1], q[i])
  BY <1>1, PodMutationIs
<1> DEFINE Bad == {i \in 0..n : ~(f[i] \in Mutations(M) /\ Collected(q, i, f[i]))}
<1>3. 0 \notin Bad
  <2>1. f[0] \in Mutations(M)
    BY <1>2 DEF newPodMutation, Mutations
  <2>2. Collected(q, 0, f[0])
    BY <1>2 DEF newPodMutation, Collected, LastAdds
  <2> QED
    BY <2>1, <2>2
<1>4. ASSUME NEW i \in 1..n, i - 1 \notin Bad PROVE i \notin Bad
  <2>1. i - 1 \in 0..n
    BY <1>1
  <2>2. f[i - 1] \in Mutations(M) /\ Collected(q, i - 1, f[i - 1])
    BY <1>4, <2>1
  <2>3. f[i] = PodCall(f[i - 1], q[i])
    BY <1>2
  <2>4. PodCall(f[i - 1], q[i]) \in Mutations(M) /\ Collected(q, i, PodCall(f[i - 1], q[i]))
    BY <2>2, PodCallCollects
  <2> QED
    BY <2>3, <2>4
<1>5. Bad = {}
  <2> HIDE DEF Bad
  <2>1. Bad \in SUBSET (0..n)
    BY DEF Bad
  <2> QED
    BY <1>1, <1>3, <1>4, <2>1, PlacesInduction
<1>6. n \in 0..n
  BY <1>1
<1>7. f[n] \in Mutations(M) /\ Collected(q, n, f[n])
  BY <1>5, <1>6, Zenon
<1> QED
  BY <1>2, <1>7

\* Both tables collect calls alike.
LEMMA MutationIsOne ==
    ASSUME NEW op
    PROVE  ResourceMutation(op) = PodMutation(op)
<1>1. \A m, c : ResourceCall(m, c) = PodCall(m, c)
  BY DEF ResourceCall, PodCall
<1>2. newResourceMutation = newPodMutation
  BY DEF newResourceMutation, newPodMutation
<1> QED
  BY <1>1, <1>2 DEF ResourceMutation, PodMutation, ResourceCall, PodCall, newResourceMutation, newPodMutation

\* The same of both builders: a mutation collects what the calls say, in their order.
LEMMA MutationCollects ==
    ASSUME NEW M \in SUBSET Nodes, 0 \notin Nodes, NEW op, AreCalls(op.calls, M)
    PROVE  Mutation(op) \in Mutations(M) /\ Collected(op.calls, Len(op.calls), Mutation(op))
<1>1. Mutation(op) = PodMutation(op)
  BY MutationIsOne DEF Mutation
<1> QED
  BY <1>1, PodMutationCollects

-----------------------------------------------------------------------------
(* Operations.                                                             *)

\* What all operations on table T have in common.
OnTable(op, T) ==
    /\ op.ids \subseteq T
    /\ op.val \in [op.ids -> Values(T)]
    /\ AreCalls(op.calls, Nodes \ T)
    /\ op.kind \in {"create", "createBulk", "updateOne", "update", "deleteOne", "delete"}
    /\ op.kind \notin {"update", "updateOne"} => \A i \in 1..Len(op.calls) : op.calls[i].call = "add"
    /\ op.kind = "createBulk" => op.conflict = "fail"
    /\ op.kind = "updateOne" => op.ids \in Singles(T)
    /\ op.conflict \in {"fail", "update", "nothing"}

\* The calls of an operation are a sequence of calls on the edge.
LEMMA CallsOnAre ==
    ASSUME NEW T \in {Pods, Resources}, NEW kinds, kinds \subseteq {"add", "remove", "clear"},
           NEW k \in Nat, NEW q \in CallsOn(T, kinds, k)
    PROVE  AreCalls(q, Nodes \ T) /\ \A i \in 1..Len(q) : q[i].call \in kinds
<1> DEFINE Calls == {c \in [call : kinds, id : (Nodes \ T) \cup {0}] : c.call = "clear" <=> c.id = 0}
<1>1. PICK i \in 0..k : q \in [1..i -> Calls]
  BY DEF CallsOn
<1>2. Len(q) = i /\ i \in Nat
  BY <1>1
<1>3. \A j \in 1..i : /\ q[j].call \in kinds /\ q[j].id \in (Nodes \ T) \cup {0}
                      /\ q[j].call = "clear" <=> q[j].id = 0
  BY <1>1
<1> QED
  BY <1>2, <1>3 DEF AreCalls

\* An operation is on the table of its rows if its values and calls are.
LEMMA OpIsOnTable ==
    ASSUME NEW T, NEW kind \in {"create", "createBulk", "updateOne", "update", "deleteOne", "delete"},
           NEW ids \in SUBSET T, NEW v \in [ids -> Values(T)], NEW c, AreCalls(c, Nodes \ T),
           kind \notin {"update", "updateOne"} => \A i \in 1..Len(c) : c[i].call = "add",
           NEW x \in {"fail", "update", "nothing"}, kind = "createBulk" => x = "fail",
           kind = "updateOne" => ids \in Singles(T)
    PROVE  OnTable(Op(kind, ids, v, c, x), T)
<1> DEFINE op == Op(kind, ids, v, c, x)
<1>1. op.kind = kind /\ op.ids = ids /\ op.val = v /\ op.calls = c /\ op.conflict = x
  BY DEF Op
<1> HIDE DEF op
<1> QED
  BY <1>1 DEF OnTable, Makes, op

\* Every operation is on one of the tables.
LEMMA OperationIs ==
    ASSUME NEW k \in Nat, NEW op \in Operations(k)
    PROVE  \E T \in {Pods, Resources} : OnTable(op, T)
<1>1. PICK T \in {Pods, Resources} : op \in Creates(T, k) \cup Updates(T, k) \cup Deletes(T)
  BY DEF Operations
<1>2. \A ids \in Singles(T) : ids \in SUBSET T
  BY DEF Singles
<1>3. \A ids \in SUBSET T : \A v \in Alike(T, ids) : v \in [ids -> Values(T)]
  BY DEF Alike
<1>4. \A ids : Unset(ids) \in [ids -> Values(T)]
  BY DEF Unset, Values
<1>5. AreCalls(<<>>, Nodes \ T) /\ T \in SUBSET T /\ \A i \in 1..Len(<<>>) : <<>>[i].call = "add"
  BY DEF AreCalls
<1>6. \A q \in CallsOn(T, {"add"}, k) : AreCalls(q, Nodes \ T) /\ \A i \in 1..Len(q) : q[i].call = "add"
  <2> TAKE q \in CallsOn(T, {"add"}, k)
  <2>1. {"add"} \subseteq {"add", "remove", "clear"}
    OBVIOUS
  <2>2. AreCalls(q, Nodes \ T) /\ \A i \in 1..Len(q) : q[i].call \in {"add"}
    BY <2>1, CallsOnAre
  <2> QED
    BY <2>2
<1>7. \A q \in CallsOn(T, {"add", "remove", "clear"}, k) : AreCalls(q, Nodes \ T)
  BY CallsOnAre
<1>8. ASSUME op \in Creates(T, k) PROVE OnTable(op, T)
  <2>1. ASSUME NEW ids \in Singles(T), NEW v \in Alike(T, ids), NEW c \in CallsOn(T, {"add"}, k),
               NEW x \in {"fail", "update", "nothing"}
        PROVE  OnTable(Op("create", ids, v, c, x), T)
    BY <1>2, <1>3, <1>6, OpIsOnTable
  <2>2. ASSUME NEW v \in [T -> Values(T)], NEW c \in CallsOn(T, {"add"}, k)
        PROVE  OnTable(Op("createBulk", T, v, c, "fail"), T)
    BY <1>5, <1>6, OpIsOnTable
  <2> DEFINE One(ids) == {Op("create", ids, v, c, x) : v \in Alike(T, ids), c \in CallsOn(T, {"add"}, k),
                                                       x \in {"fail", "update", "nothing"}}
             Bulk == {Op("createBulk", T, v, c, "fail") : v \in [T -> Values(T)], c \in CallsOn(T, {"add"}, k)}
  <2>3. op \in UNION {One(ids) : ids \in Singles(T)} \/ op \in Bulk
    BY <1>8 DEF Creates
  <2>4. ASSUME NEW ids \in Singles(T), op \in One(ids) PROVE OnTable(op, T)
    BY <2>1, <2>4
  <2>5. ASSUME op \in Bulk PROVE OnTable(op, T)
    BY <2>2, <2>5
  <2> HIDE DEF One, Bulk
  <2> QED
    BY <2>3, <2>4, <2>5
<1>9. ASSUME op \in Updates(T, k) PROVE OnTable(op, T)
  <2>1. ASSUME NEW ids \in Singles(T), NEW v \in Alike(T, ids),
               NEW c \in CallsOn(T, {"add", "remove", "clear"}, k)
        PROVE  OnTable(Op("updateOne", ids, v, c, "fail"), T)
    BY <1>2, <1>3, <1>7, OpIsOnTable
  <2>2. ASSUME NEW v \in Alike(T, T), NEW c \in CallsOn(T, {"add", "remove", "clear"}, k)
        PROVE  OnTable(Op("update", T, v, c, "fail"), T)
    BY <1>3, <1>5, <1>7, OpIsOnTable
  <2> DEFINE Calls == CallsOn(T, {"add", "remove", "clear"}, k)
             One(ids) == {Op("updateOne", ids, v, c, "fail") : v \in Alike(T, ids), c \in Calls}
             Many == {Op("update", T, v, c, "fail") : v \in Alike(T, T), c \in Calls}
  <2>3. op \in UNION {One(ids) : ids \in Singles(T)} \/ op \in Many
    BY <1>9 DEF Updates
  <2>4. ASSUME NEW ids \in Singles(T), op \in One(ids) PROVE OnTable(op, T)
    BY <2>1, <2>4
  <2>5. ASSUME op \in Many PROVE OnTable(op, T)
    BY <2>2, <2>5
  <2> HIDE DEF One, Many
  <2> QED
    BY <2>3, <2>4, <2>5
<1>10. ASSUME op \in Deletes(T) PROVE OnTable(op, T)
  <2>1. ASSUME NEW ids \in Singles(T) PROVE OnTable(Op("deleteOne", ids, Unset(ids), <<>>, "fail"), T)
    BY <1>2, <1>4, <1>5, OpIsOnTable
  <2>2. OnTable(Op("delete", T, Unset(T), <<>>, "fail"), T)
    BY <1>4, <1>5, OpIsOnTable
  <2> QED
    BY <1>10, <2>1, <2>2 DEF Deletes
<1> QED
  BY <1>1, <1>8, <1>9, <1>10

\* The tables have no id in common.
LEMMA Tables ==
    /\ Pods \cap Resources = {} /\ 0 \notin Nodes
    /\ Nodes \ Pods = Resources /\ Nodes \ Resources = Pods
    /\ Values(Pods) \cup Values(Resources) \subseteq Nat
BY RelationsAssumption DEF Nodes, Values

\* Rows that are set are rows.
LEMMA SetRowsAreRows ==
    ASSUME NEW T \in {Pods, Resources}, NEW op, OnTable(op, T), NEW S \in SUBSET op.ids, NEW d \in Contents
    PROVE  SetRows(op, S, d) \in Rows
<1>1. \A n \in S : op.val[n] \in Values(Pods) \cup Values(Resources)
  BY DEF OnTable
<1>2. \A n \in Nodes : d.rows[n] \in Values(Pods) \cup Values(Resources)
  BY DEF Contents, Rows
<1> QED
  BY <1>1, <1>2 DEF SetRows, Rows

\* The links that the statements leave.
LinksLeft(d, S, e) ==
    (d.links \ (IF e.clear THEN LinksOf(S) ELSE {Link(n, m) : n \in S, m \in e.remove}))
    \cup {Link(n, m) : n \in S, m \in e.add}

\* Of the calls to a node one is the last.
LEMMA LastCall ==
    ASSUME NEW op, NEW m, DOMAIN op.calls = 1..Len(op.calls), Len(op.calls) \in Nat, CallsTo(op, m) # {}
    PROVE  \E j \in CallsTo(op, m) : \A h \in CallsTo(op, m) : h <= j
<1> DEFINE n1 == Len(op.calls)
           Later == {n1 - h : h \in CallsTo(op, m)}
<1>1. n1 \in Nat /\ \A h \in CallsTo(op, m) : h \in 1..n1
  BY DEF CallsTo
<1> HIDE DEF n1
<1>2. Later \in SUBSET Nat /\ Later # {}
  BY <1>1
<1>3. PICK b \in Later : \A x \in Later : b <= x
  BY <1>2, LeastNat
<1>4. PICK j \in CallsTo(op, m) : b = n1 - j
  BY <1>3
<1>5. \A h \in CallsTo(op, m) : n1 - j <= n1 - h
  BY <1>3, <1>4
<1> QED
  BY <1>1, <1>4, <1>5

\* Whether a node is linked once its calls have been made: the sets of the mutation and the order of
\* the statements say the same as the calls, but for the nodes that are added before a clear.
LEMMA LinkedIs ==
    ASSUME NEW M \in SUBSET Nodes, NEW op, AreCalls(op.calls, M), NEW d, NEW n, NEW m \in M
    PROVE  LET e == updateSpec(Mutation(op))
           IN  Linked(op, d, n, m) \/ m \in StillAdded(op)
                 <=> m \in e.add \/ (Link(n, m) \in d.links /\ ~e.clear /\ m \notin e.remove)
<1> DEFINE mu == Mutation(op)
           q == op.calls
           e == updateSpec(mu)
           Kept == Link(n, m) \in d.links /\ ~e.clear /\ m \notin e.remove
<1>1. mu \in Mutations(M) /\ Collected(q, Len(q), mu)
  BY MutationCollects, Tables
<1> HIDE DEF mu
<1>2. /\ e.add = mu.added /\ e.clear = mu.cleared
      /\ e.remove = IF mu.cleared THEN {} ELSE mu.removed
  BY DEF updateSpec
<1> HIDE DEF e
<1>3. m \in Nodes /\ m # 0 /\ DOMAIN q = 1..Len(q)
  BY Tables DEF AreCalls
<1>4. /\ m \in mu.added <=> LastAdds(q, Len(q), m)
      /\ m \in mu.removed <=> \E j \in 1..Len(q) : q[j].id = m /\ q[j].call = "remove"
      /\ mu.cleared <=> \E j \in 1..Len(q) : q[j].call = "clear"
  BY <1>1, <1>3 DEF Collected
<1>5. \A j \in 1..Len(q) : /\ q[j].call \in {"add", "remove", "clear"}
                           /\ q[j].id = 0 <=> q[j].call = "clear"
  BY Tables DEF AreCalls
<1>6. m \in StillAdded(op) => m \in mu.added
  BY <1>3, <1>4 DEF StillAdded, LastAdds
<1>7. ASSUME m \in mu.added PROVE Linked(op, d, n, m) \/ m \in StillAdded(op)
  <2>1. PICK i \in 1..Len(q) : q[i].id = m /\ q[i].call = "add" /\ \A h \in 1..Len(q) : q[h].id = m => h <= i
    BY <1>4, <1>7 DEF LastAdds
  <2>2. CASE \E j \in 1..Len(q) : q[j].call = "clear" /\ j > i
    BY <1>3, <2>1, <2>2 DEF StillAdded
  <2>3. CASE \A j \in 1..Len(q) : q[j].call = "clear" => j <= i
    <3>1. i \in CallsTo(op, m) /\ \A j \in CallsTo(op, m) : j <= i
      BY <1>3, <1>5, <2>1, <2>3 DEF CallsTo
    <3> QED
      BY <2>1, <3>1 DEF Linked
  <2>4. Len(q) \in Nat
    BY DEF AreCalls
  <2> QED
    BY <2>2, <2>3, <2>4
<1>8. ASSUME Kept PROVE Linked(op, d, n, m)
  <2>1. \A j \in CallsTo(op, m) : q[j].call = "add"
    BY <1>2, <1>3, <1>4, <1>5, <1>8 DEF CallsTo
  <2>2. CASE CallsTo(op, m) = {}
    BY <1>8, <2>2 DEF Linked
  <2>3. CASE CallsTo(op, m) # {}
    <3>1. PICK j \in CallsTo(op, m) : \A h \in CallsTo(op, m) : h <= j
      BY <1>3, <2>3, LastCall DEF AreCalls
    <3> QED
      BY <2>1, <2>3, <3>1 DEF Linked
  <2> QED
    BY <2>2, <2>3
<1>9. ASSUME Linked(op, d, n, m) PROVE m \in mu.added \/ Kept
  <2>1. CASE CallsTo(op, m) = {}
    <3>1. Link(n, m) \in d.links
      BY <1>9, <2>1 DEF Linked
    <3>2. \A j \in 1..Len(q) : q[j].id # m /\ q[j].call # "clear"
      BY <1>3, <1>5, <2>1 DEF CallsTo
    <3> QED
      BY <1>2, <1>4, <3>1, <3>2
  <2>2. CASE CallsTo(op, m) # {}
    <3>1. PICK i \in CallsTo(op, m) : q[i].call = "add" /\ \A j \in CallsTo(op, m) : j <= i
      BY <1>9, <2>2 DEF Linked
    <3>2. i \in 1..Len(q) /\ q[i].id = m /\ \A h \in 1..Len(q) : q[h].id = m => h <= i
      BY <1>3, <1>5, <3>1 DEF CallsTo
    <3> QED
      BY <1>4, <3>1, <3>2 DEF LastAdds
  <2> QED
    BY <2>1, <2>2
<1> QED
  BY <1>2, <1>6, <1>7, <1>8, <1>9 DEF e, mu

\* A link joins two ids, one of each table, and tells which.
LEMMA LinkIs ==
    ASSUME NEW T \in {Pods, Resources}, NEW n \in T, NEW m \in Nodes \ T
    PROVE  /\ Link(n, m) \in Pods \X Resources
           /\ \A x \in T, y \in Nodes \ T : Link(x, y) = Link(n, m) => x = n /\ y = m
           /\ {Link(n, m)[1], Link(n, m)[2]} = {n, m}
           /\ T = Pods => Link(n, m) = <<n, m>>
           /\ T = Resources => Link(n, m) = <<m, n>>
<1>1. CASE T = Pods
  BY <1>1, Tables DEF Link
<1>2. CASE T = Resources
  BY <1>2, Tables DEF Link
<1> QED
  BY <1>1, <1>2

\* Every link joins a row of the table and one of the other, whichever is the table.
LEMMA LinksAre ==
    ASSUME NEW T \in {Pods, Resources}, NEW l \in Pods \X Resources
    PROVE  \E n \in T, m \in Nodes \ T : l = Link(n, m)
<1>1. l[1] \in Pods /\ l[2] \in Resources /\ l = <<l[1], l[2]>>
  OBVIOUS
<1>2. CASE T = Pods
  BY <1>1, <1>2, Tables DEF Link
<1>3. CASE T = Resources
  BY <1>1, <1>3, Tables DEF Link
<1> QED
  BY <1>2, <1>3

\* The statements leave the links that the calls ask for and those that are still added, and no
\* others are touched.
LEMMA LinksLeftAre ==
    ASSUME NEW T \in {Pods, Resources}, NEW op, OnTable(op, T), NEW d \in Contents,
           NEW S \in SUBSET op.ids
    PROVE  LinksLeft(d, S, updateSpec(Mutation(op))) =
             {l \in Pods \X Resources : CASE l[1] \in S -> Linked(op, d, l[1], l[2])
                                          [] l[2] \in S -> Linked(op, d, l[2], l[1])
                                          [] OTHER -> l \in d.links}
             \cup {Link(n, m) : n \in S, m \in StillAdded(op)}
<1> DEFINE e == updateSpec(Mutation(op))
           M == Nodes \ T
           Asked(l) == CASE l[1] \in S -> Linked(op, d, l[1], l[2])
                         [] l[2] \in S -> Linked(op, d, l[2], l[1])
                         [] OTHER -> l \in d.links
           Still == {Link(n, m) : n \in S, m \in StillAdded(op)}
<1>1. S \subseteq T /\ T \subseteq Nodes /\ M \in SUBSET Nodes /\ AreCalls(op.calls, M)
  BY DEF OnTable, Nodes
<1>2. e.add \subseteq M /\ e.remove \subseteq M
  <2>1. Mutation(op) \in Mutations(M)
    BY <1>1, MutationCollects, Tables
  <2> QED
    BY <2>1 DEF updateSpec, Mutations
<1>3. \A n, m : m \in M =>
        (Linked(op, d, n, m) \/ m \in StillAdded(op)
           <=> m \in e.add \/ (Link(n, m) \in d.links /\ ~e.clear /\ m \notin e.remove))
  BY <1>1, LinkedIs
<1>4. d.links \subseteq Pods \X Resources
  BY DEF Contents
<1> HIDE DEF e
<1>5. StillAdded(op) \subseteq M
  BY <1>1, Tables DEF StillAdded, AreCalls
<1>6. LinksLeft(d, S, e) \subseteq Pods \X Resources /\ Still \subseteq Pods \X Resources
  <2>1. \A n \in S, m \in M : Link(n, m) \in Pods \X Resources
    BY <1>1, LinkIs
  <2> QED
    BY <1>2, <1>4, <1>5, <2>1 DEF LinksLeft
<1>7. ASSUME NEW l \in Pods \X Resources PROVE l \in LinksLeft(d, S, e) <=> Asked(l) \/ l \in Still
  <2>1. PICK n \in T, m \in M : l = Link(n, m)
    BY LinksAre
  <2>2. \A x \in T, y \in M : Link(x, y) = l => x = n /\ y = m
    BY <2>1, LinkIs
  <2>3. l \in LinksOf(S) <=> n \in S
    BY <1>1, <2>1, LinkIs, Tables DEF LinksOf
  <2>4. l \in LinksLeft(d, S, e) <=>
          (l \in d.links /\ ~(e.clear /\ n \in S) /\ ~(~e.clear /\ n \in S /\ m \in e.remove)) \/ (n \in S /\ m \in e.add)
    BY <1>1, <1>2, <2>1, <2>2, <2>3 DEF LinksLeft
  <2>5. Asked(l) <=> IF n \in S THEN Linked(op, d, n, m) ELSE l \in d.links
    <3>1. CASE T = Pods
      BY <1>1, <2>1, <3>1, LinkIs, Tables
    <3>2. CASE T = Resources
      BY <1>1, <2>1, <3>2, LinkIs, Tables
    <3> QED
      BY <3>1, <3>2
  <2>6. l \in Still <=> n \in S /\ m \in StillAdded(op)
    BY <1>1, <1>5, <2>1, <2>2
  <2>7. Linked(op, d, n, m) \/ m \in StillAdded(op) <=> m \in e.add \/ (l \in d.links /\ ~e.clear /\ m \notin e.remove)
    BY <1>3, <2>1
  <2> HIDE DEF Asked, Still
  <2> QED
    BY <2>4, <2>5, <2>6, <2>7
<1> QED
  BY <1>6, <1>7 DEF e

\* The rows and links that an operation is meant to leave, with those that are still added.
LEMMA OutcomeIs ==
    ASSUME NEW T \in {Pods, Resources}, NEW op, OnTable(op, T), NEW d \in Contents,
           op.kind \notin {"delete", "deleteOne"}
    PROVE  LET S == Subjects(op, d) IN
           /\ S \subseteq op.ids
           /\ Outcome(op, d) \in Contents
           /\ Outcome(op, d).rows = SetRows(op, S, d)
           /\ Outcome(op, d).links = LinksLeft(d, S, updateSpec(Mutation(op)))
<1> DEFINE S == Subjects(op, d)
           links == {l \in Pods \X Resources :
                       CASE l[1] \in S -> Linked(op, d, l[1], l[2])
                         [] l[2] \in S -> Linked(op, d, l[2], l[1])
                         [] OTHER -> l \in d.links}
           still == {Link(n, m) : n \in S, m \in StillAdded(op)}
<1>1. S \in SUBSET op.ids
  BY DEF Subjects, Found
<1>2. Effect(op, d) = [rows |-> SetRows(op, S, d), links |-> links] /\ StillLinked(op, d) = still
  BY DEF Effect, SetRows, StillLinked
<1>3. links \cup still = LinksLeft(d, S, updateSpec(Mutation(op)))
  BY <1>1, LinksLeftAre
<1>4. links \cup still \in SUBSET (Pods \X Resources)
  <2>1. AreCalls(op.calls, Nodes \ T) /\ S \subseteq T
    BY <1>1 DEF OnTable
  <2>2. StillAdded(op) \subseteq Nodes \ T
    BY <2>1, Tables DEF StillAdded, AreCalls
  <2>3. \A n \in S, m \in StillAdded(op) : Link(n, m) \in Pods \X Resources
    BY <2>1, <2>2, LinkIs
  <2> QED
    BY <2>3
<1> HIDE DEF links, still, S
<1>5. SetRows(op, S, d) \in Rows
  BY <1>1, SetRowsAreRows
<1>6. Outcome(op, d) = [rows |-> SetRows(op, S, d), links |-> links \cup still]
  <2> DEFINE R == SetRows(op, S, d)
             old == [rows |-> R, links |-> links]
  <2>1. Outcome(op, d) = [old EXCEPT !.links = links \cup still]
    <3>1. Effect(op, d) = old /\ old.links = links
      BY <1>2
    <3> HIDE DEF old
    <3> QED
      BY <1>2, <3>1 DEF Outcome
  <2> HIDE DEF R
  <2>2. [old EXCEPT !.links = links \cup still] = [rows |-> R, links |-> links \cup still]
    OBVIOUS
  <2> QED
    BY <2>1, <2>2 DEF R
<1>7. /\ Outcome(op, d) \in Contents /\ Outcome(op, d).rows = SetRows(op, S, d)
      /\ Outcome(op, d).links = links \cup still
  BY <1>4, <1>5, <1>6 DEF Contents
<1> QED
  BY <1>1, <1>3, <1>7 DEF S

\* A result is right if it is a success just when the operation can be done, and then its outcome.
RightResult(op, d, r) ==
    /\ r \in [ok : BOOLEAN, d : Contents]
    /\ r.ok <=> Valid(op, d)
    /\ r.ok => r.d = Outcome(op, d)

\* The statements on rows and links do what is asked, unless a constraint fails.
LEMMA StatementsAre ==
    ASSUME NEW T \in {Pods, Resources}, NEW op, OnTable(op, T), NEW d \in Contents,
           op.kind \notin {"delete", "deleteOne"}
    PROVE  LET S == Subjects(op, d)
               r == Statements(S, SetRows(op, S, d), updateSpec(Mutation(op)), d)
           IN  /\ r \in [ok : BOOLEAN, d : Contents]
               /\ r.ok <=> NamesDiffer(Outcome(op, d).rows) /\ LinksExist(Outcome(op, d))
               /\ r.ok => r.d = Outcome(op, d)
<1> DEFINE S == Subjects(op, d)
           e == updateSpec(Mutation(op))
           rows == SetRows(op, S, d)
           E == Outcome(op, d)
           d1 == [d EXCEPT !.rows = rows]
           d2 == [d1 EXCEPT !.links = @ \ (IF e.clear THEN LinksOf(S) ELSE {Link(n, m) : n \in S, m \in e.remove})]
           d3 == [d2 EXCEPT !.links = @ \cup {Link(n, m) : n \in S, m \in e.add}]
           r == Statements(S, rows, e, d)
<1>1. E \in Contents /\ E.rows = rows /\ E.links = LinksLeft(d, S, e)
  BY OutcomeIs
<1> HIDE DEF E, S, e, rows
<1>2. rows \in Rows /\ d.links \subseteq Pods \X Resources /\ d = [rows |-> d.rows, links |-> d.links]
  BY <1>1 DEF Contents
<1>3. d1 = [rows |-> rows, links |-> d.links]
  BY <1>2
<1>4. /\ d2.rows = rows /\ d2 \in Contents
      /\ d2.links = d.links \ (IF e.clear THEN LinksOf(S) ELSE {Link(n, m) : n \in S, m \in e.remove})
      /\ d2 = [rows |-> rows, links |-> d2.links]
  <2> DEFINE left == d.links \ (IF e.clear THEN LinksOf(S) ELSE {Link(n, m) : n \in S, m \in e.remove})
  <2>1. d2 = [rows |-> rows, links |-> left]
    <3> HIDE DEF d1
    <3>1. d1.rows = rows /\ d1.links = d.links
      BY <1>3
    <3> QED
      BY <1>3, <3>1
  <2>2. left \in SUBSET (Pods \X Resources)
    BY <1>2
  <2> HIDE DEF left, d2
  <2>3. d2.links = left /\ d2.rows = rows /\ d2 \in Contents
    BY <1>2, <2>1, <2>2 DEF Contents
  <2> QED
    BY <2>1, <2>3 DEF left
<1>5. d3 = [rows |-> rows, links |-> LinksLeft(d, S, e)]
  <2>1. d3 = [rows |-> d2.rows, links |-> d2.links \cup {Link(n, m) : n \in S, m \in e.add}]
    <3> HIDE DEF d2
    <3> QED
      BY <1>4
  <2> QED
    BY <1>4, <2>1 DEF LinksLeft
<1>6. d3 = E
  <2>1. E = [rows |-> E.rows, links |-> E.links]
    BY <1>1 DEF Contents
  <2> QED
    BY <1>1, <1>5, <2>1
<1>7. r = CASE ~NamesDiffer(rows) -> Failed(d)
            [] NamesDiffer(rows) /\ ~LinksExist(d3) -> Failed(d2)
            [] NamesDiffer(rows) /\ LinksExist(d3) -> Done(d3)
  BY DEF Statements
<1> HIDE DEF r, d1, d2, d3
<1>8. CASE ~NamesDiffer(rows)
  BY <1>1, <1>7, <1>8 DEF Failed, r, rows, S, e, E
<1>9. CASE NamesDiffer(rows) /\ ~LinksExist(d3)
  <2>1. r = [ok |-> FALSE, d |-> d2]
    BY <1>7, <1>9 DEF Failed
  <2> QED
    BY <1>1, <1>4, <1>6, <1>9, <2>1 DEF r, rows, S, e, E
<1>10. CASE NamesDiffer(rows) /\ LinksExist(d3)
  <2>1. r = [ok |-> TRUE, d |-> d3]
    BY <1>7, <1>10 DEF Done
  <2> QED
    BY <1>1, <1>6, <1>10, <2>1 DEF r, rows, S, e, E
<1> QED
  BY <1>8, <1>9, <1>10

\* An update and an update of one row are right (CallsInOrder).
LEMMA UpdatesAreRight ==
    ASSUME NEW T \in {Pods, Resources}, NEW op, OnTable(op, T), NEW d \in Contents,
           NamesDiffer(d.rows), LinksExist(d)
    PROVE  /\ op.kind = "update" => RightResult(op, d, update(op, d))
           /\ op.kind = "updateOne" => RightResult(op, d, updateOne(op, d))
<1> DEFINE S == Found(op, d)
           r == Statements(S, SetRows(op, S, d), updateSpec(Mutation(op)), d)
<1> SUFFICES ASSUME op.kind \in {"update", "updateOne"} PROVE 
           /\ op.kind = "update" => RightResult(op, d, update(op, d))
           /\ op.kind = "updateOne" => RightResult(op, d, updateOne(op, d))
  OBVIOUS
<1>1. ~Makes(op) /\ Subjects(op, d) = S /\ op.kind \notin {"delete", "deleteOne"}
  BY DEF Makes, Subjects
<1>2. /\ r \in [ok : BOOLEAN, d : Contents]
      /\ r.ok <=> NamesDiffer(Outcome(op, d).rows) /\ LinksExist(Outcome(op, d))
      /\ r.ok => r.d = Outcome(op, d)
  BY <1>1, StatementsAre
<1>3. Valid(op, d) <=> (op.kind = "updateOne" => S # {}) /\ NamesDiffer(Outcome(op, d).rows) /\ LinksExist(Outcome(op, d))
  BY <1>1 DEF Valid
<1> HIDE DEF r
<1>4. CASE S # {}
  <2>1. update(op, d) = r
    BY <1>4, Zenon DEF update, r
  <2>2. ASSUME op.kind = "updateOne" PROVE updateOne(op, d) = r
    <3>1. op.ids = S
      BY <1>4, <2>2 DEF OnTable, Singles, Found
    <3> QED
      BY <1>4, <3>1, Zenon DEF updateOne, r
  <2>3. RightResult(op, d, r)
    BY <1>2, <1>3, <1>4 DEF RightResult
  <2> QED
    BY <2>1, <2>2, <2>3
<1>5. CASE S = {}
  <2>1. Outcome(op, d) = d
    <3>1. Outcome(op, d) \in Contents /\ Outcome(op, d).rows = SetRows(op, {}, d)
      BY <1>1, <1>5, OutcomeIs
    <3>2. Outcome(op, d).links = d.links
      BY <1>1, <1>5 DEF Outcome, Effect, StillLinked, Contents
    <3>3. SetRows(op, {}, d) = d.rows
      BY DEF SetRows, Contents, Rows
    <3> QED
      BY <3>1, <3>2, <3>3 DEF Contents
  <2>2. update(op, d) = [ok |-> TRUE, d |-> d] /\ updateOne(op, d) = [ok |-> FALSE, d |-> d]
    BY <1>5 DEF update, updateOne, Done, Failed
  <2> QED
    BY <1>3, <1>5, <2>1, <2>2 DEF RightResult
<1> QED
  BY <1>4, <1>5

\* A create is right if all fields are set, and cannot be done otherwise (check).
LEMMA CreatesAreRight ==
    ASSUME NEW T \in {Pods, Resources}, NEW op, OnTable(op, T), NEW d \in Contents, Makes(op)
    PROVE  /\ check(op) => RightResult(op, d, create(op, d))
           /\ ~check(op) => ~Valid(op, d)
<1> DEFINE S == op.ids
           e == createSpec(Mutation(op))
           r == Statements(S, SetRows(op, S, d), e, d)
<1>1. Subjects(op, d) = S /\ op.kind \in {"create", "createBulk"} /\ op.kind \notin {"delete", "deleteOne"}
  BY DEF Makes, Subjects
<1>2. e = updateSpec(Mutation(op))
  <2>1. AreCalls(op.calls, Nodes \ T) /\ \A i \in 1..Len(op.calls) : op.calls[i].call = "add"
    BY <1>1 DEF OnTable
  <2>2. Mutation(op) \in Mutations(Nodes \ T) /\ Collected(op.calls, Len(op.calls), Mutation(op))
    BY <2>1, MutationCollects, Tables
  <2> DEFINE mu == Mutation(op)
  <2> HIDE DEF mu
  <2>3. mu.cleared = FALSE /\ mu.removed = {}
    <3>1. \A m \in Nodes : m \notin mu.removed
      BY <2>1, <2>2 DEF Collected, mu
    <3>2. ~mu.cleared
      BY <2>1, <2>2 DEF Collected, mu
    <3>3. mu.removed \subseteq Nodes /\ mu.cleared \in BOOLEAN
      BY <2>2 DEF Mutations, mu
    <3> QED
      BY <3>1, <3>2, <3>3
  <2> QED
    BY <2>3 DEF createSpec, updateSpec, mu
<1> HIDE DEF e
<1>3. /\ r \in [ok : BOOLEAN, d : Contents]
      /\ r.ok <=> NamesDiffer(Outcome(op, d).rows) /\ LinksExist(Outcome(op, d))
      /\ r.ok => r.d = Outcome(op, d)
  BY <1>1, <1>2, StatementsAre
<1>4. Valid(op, d) <=> check(op) /\ (op.conflict # "update" => Found(op, d) = {})
                       /\ NamesDiffer(Outcome(op, d).rows) /\ LinksExist(Outcome(op, d))
  BY <1>1 DEF Valid, check, Makes
<1>5. op.conflict \in {"fail", "nothing"} <=> op.conflict # "update"
  BY DEF OnTable
<1> HIDE DEF r
<1>6. ASSUME check(op), op.conflict \in {"fail", "nothing"}, Found(op, d) # {}
      PROVE  RightResult(op, d, create(op, d))
  BY <1>4, <1>5, <1>6 DEF create, RightResult, Failed
<1>7. ASSUME check(op), ~(op.conflict \in {"fail", "nothing"} /\ Found(op, d) # {})
      PROVE  RightResult(op, d, create(op, d))
  <2>1. create(op, d) = r
    BY <1>7 DEF create, r, e
  <2>2. RightResult(op, d, r)
    BY <1>3, <1>4, <1>5, <1>7 DEF RightResult
  <2> QED
    BY <2>1, <2>2
<1> QED
  BY <1>4, <1>6, <1>7

\* A delete is right: the links go with the rows (Cascade).
LEMMA DeletesAreRight ==
    ASSUME NEW T \in {Pods, Resources}, NEW op, OnTable(op, T), NEW d \in Contents,
           NamesDiffer(d.rows), LinksExist(d)
    PROVE  /\ op.kind = "delete" => RightResult(op, d, delete(op, d))
           /\ op.kind = "deleteOne" => RightResult(op, d, deleteOne(op, d))
<1> SUFFICES ASSUME op.kind \in {"delete", "deleteOne"}
             PROVE  /\ op.kind = "delete" => RightResult(op, d, delete(op, d))
                    /\ op.kind = "deleteOne" => RightResult(op, d, deleteOne(op, d))
  OBVIOUS
<1> DEFINE rows == [n \in Nodes |-> IF n \in op.ids THEN 0 ELSE d.rows[n]]
           links == d.links \ LinksOf(op.ids)
           E == [rows |-> rows, links |-> links]
<1>1. Outcome(op, d) = E /\ delete(op, d) = [ok |-> TRUE, d |-> E] /\ ~Makes(op)
  <2>1. Effect(op, d) = E /\ delete(op, d) = [ok |-> TRUE, d |-> E] /\ ~Makes(op)
    BY DEF Effect, delete, Done, Cascade, Makes
  <2>2. StillAdded(op) = {}
    <3>1. DOMAIN op.calls = 1..Len(op.calls)
      BY DEF OnTable, AreCalls
    <3>2. \A i \in 1..Len(op.calls) : op.calls[i].call # "clear"
      BY DEF OnTable
    <3> QED
      BY <3>1, <3>2 DEF StillAdded
  <2>3. StillLinked(op, d) = {}
    BY <2>2 DEF StillLinked
  <2>4. Outcome(op, d) = [rows |-> E.rows, links |-> E.links]
    <3>1. Effect(op, d).rows = E.rows /\ Effect(op, d).links = E.links
      BY <2>1
    <3> QED
      BY <2>1, <2>3, <3>1 DEF Outcome
  <2> QED
    BY <2>1, <2>4
<1>2. d.links \subseteq Pods \X Resources /\ d.rows \in Rows
  BY DEF Contents
<1>3. rows \in Rows
  BY <1>2 DEF Rows, Values
<1>4. links \in SUBSET (Pods \X Resources)
  BY <1>2
<1>5. \A l \in links : l[1] \notin op.ids /\ l[2] \notin op.ids /\ l[1] \in Nodes /\ l[2] \in Nodes /\ l \in d.links
  BY <1>2 DEF LinksOf, Nodes
<1>6. NamesDiffer(rows)
  BY DEF NamesDiffer, Nodes
<1> HIDE DEF links
<1>7. LinksExist(E)
  BY <1>5 DEF LinksExist, Exists
<1> HIDE DEF rows
<1>8. E \in Contents /\ E.rows = rows
  BY <1>3, <1>4 DEF Contents
<1> HIDE DEF E
<1>9. Valid(op, d) <=> (op.kind = "deleteOne" => Found(op, d) # {})
  BY <1>1, <1>6, <1>7, <1>8 DEF Valid
<1>10. ASSUME op.kind = "delete" \/ Found(op, d) # {} PROVE RightResult(op, d, delete(op, d))
  BY <1>1, <1>8, <1>9, <1>10 DEF RightResult
<1>11. ASSUME op.kind = "deleteOne" PROVE RightResult(op, d, deleteOne(op, d))
  <2>1. CASE Found(op, d) = {}
    BY <1>9, <1>11, <2>1 DEF RightResult, deleteOne, Failed
  <2>2. CASE Found(op, d) # {}
    BY <1>10, <2>2 DEF deleteOne
  <2> QED
    BY <2>1, <2>2
<1> QED
  BY <1>10, <1>11

-----------------------------------------------------------------------------
(* Queries.                                                                *)

\* Queries for one row answer truly (First, Only).
LEMMA QueriesAnswerTruly ==
    ASSUME NEW d \in Contents
    PROVE  AnswersTruly(d)
<1> SUFFICES ASSUME NEW S \in (SUBSET Pods) \cup (SUBSET Resources)
             PROVE  LET M == Matching(S, d) IN
                    /\ \A r \in onlyIDs(S, d) : IF r.err = "nil" THEN M = {r.id} ELSE \A n \in M : M # {n}
                    /\ \A r \in firstIDs(S, d) : IF r.err = "nil" THEN r.id \in M ELSE M = {}
  BY DEF AnswersTruly
<1> DEFINE M == Matching(S, d)
<1>1. ASSUME NEW limit \in {1, 2}, NEW q \in sqlAll(S, d, limit)
      PROVE  /\ Len(q) \in 0..limit /\ q \in [1..Len(q) -> M] /\ IsInjective(q)
             /\ Len(q) = limit \/ Range(q) = M
  <2>1. PICK k \in 0..limit : q \in [1..k -> M]
    BY DEF sqlAll
  <2>2. Len(q) = k
    BY <2>1
  <2> QED
    BY <2>1, <2>2 DEF sqlAll
<1> HIDE DEF M
<1>2. NotFound.err # "nil" /\ NotSingular.err # "nil" /\ \A n : Row(n).err = "nil" /\ Row(n).id = n
  BY DEF NotFound, NotSingular, Row
<1>3. ASSUME NEW r \in onlyIDs(S, d) PROVE IF r.err = "nil" THEN M = {r.id} ELSE \A n \in M : M # {n}
  <2>1. PICK q \in sqlAll(S, d, 2) : r = Only(q)
    BY <1>3 DEF onlyIDs
  <2>2. /\ Len(q) \in {0, 1, 2} /\ q \in [1..Len(q) -> M] /\ IsInjective(q)
        /\ Len(q) = 2 \/ Range(q) = M
    BY <1>1
  <2>3. CASE Len(q) = 0
    <3>1. M = {}
      BY <2>2, <2>3 DEF Range
    <3> QED
      BY <1>2, <2>1, <2>3, <3>1 DEF Only
  <2>4. CASE Len(q) = 1
    <3>1. M = {q[1]}
      BY <2>2, <2>4 DEF Range
    <3> QED
      BY <1>2, <2>1, <2>4, <3>1 DEF Only
  <2>5. CASE Len(q) = 2
    <3>1. q[1] # q[2] /\ q[1] \in M /\ q[2] \in M
      BY <2>2, <2>5 DEF IsInjective
    <3>2. r = NotSingular
      BY <2>1, <2>5 DEF Only
    <3> QED
      BY <1>2, <3>1, <3>2
  <2> QED
    BY <2>2, <2>3, <2>4, <2>5
<1>4. ASSUME NEW r \in firstIDs(S, d) PROVE IF r.err = "nil" THEN r.id \in M ELSE M = {}
  <2>1. PICK q \in sqlAll(S, d, 1) : r = First(q)
    BY <1>4 DEF firstIDs
  <2>2. Len(q) \in {0, 1} /\ q \in [1..Len(q) -> M] /\ (Len(q) = 1 \/ Range(q) = M)
    BY <1>1
  <2>3. CASE Len(q) = 0
    <3>1. M = {}
      BY <2>2, <2>3 DEF Range
    <3>2. q = <<>>
      BY <2>2, <2>3
    <3> QED
      BY <1>2, <2>1, <3>1, <3>2 DEF First
  <2>4. CASE Len(q) = 1
    <3>1. q[1] \in M /\ q # <<>>
      BY <2>2, <2>4
    <3> QED
      BY <1>2, <2>1, <3>1 DEF First
  <2> QED
    BY <2>2, <2>3, <2>4
<1> QED
  BY <1>3, <1>4 DEF M

NothingLoaded == [nids |-> [n \in Nodes |-> {}], neighbors |-> <<>>]

\* The rows of a join can be gone through one after the other.
LEMMA RowsRun ==
    ASSUME NEW q, NEW n \in Nat
    PROVE  \E f : f = [i \in 0..n |-> IF i = 0 THEN NothingLoaded ELSE assign(f[i - 1], q[i])]
<1> DEFINE Bad == {k \in 0..n :
                     ~\E f : f = [i \in 0..k |-> IF i = 0 THEN NothingLoaded ELSE assign(f[i - 1], q[i])]}
<1>1. 0 \notin Bad
  <2> DEFINE g == [i \in 0..0 |-> NothingLoaded]
  <2>1. g = [i \in 0..0 |-> IF i = 0 THEN NothingLoaded ELSE assign(g[i - 1], q[i])]
    OBVIOUS
  <2> QED
    BY <2>1
<1>2. ASSUME NEW k \in 1..n, k - 1 \notin Bad PROVE k \notin Bad
  <2>1. k - 1 \in 0..n
    OBVIOUS
  <2>2. PICK f : f = [i \in 0..(k - 1) |-> IF i = 0 THEN NothingLoaded ELSE assign(f[i - 1], q[i])]
    BY <1>2, <2>1
  <2> DEFINE g == [i \in 0..k |-> IF i < k THEN f[i] ELSE assign(f[k - 1], q[k])]
             h == [i \in 0..k |-> IF i = 0 THEN NothingLoaded ELSE assign(g[i - 1], q[i])]
  <2>3. ASSUME NEW i \in 0..k PROVE g[i] = h[i]
    <3>1. CASE i = 0
      BY <2>2, <3>1
    <3>2. CASE i \in 1..(k - 1)
      <4>1. i \in 0..(k - 1) /\ i < k /\ i # 0 /\ i - 1 \in 0..k /\ i - 1 < k
        BY <3>2
      <4>2. g[i] = f[i] /\ g[i - 1] = f[i - 1]
        BY <4>1
      <4>3. f[i] = assign(f[i - 1], q[i])
        BY <2>2, <4>1
      <4> QED
        BY <4>1, <4>2, <4>3
    <3>3. CASE i = k
      <4>1. i # 0 /\ ~(i < k) /\ i - 1 \in 0..k /\ i - 1 < k
        BY <3>3
      <4> QED
        BY <3>3, <4>1
    <3> QED
      BY <3>1, <3>2, <3>3
  <2>4. g = h
    BY <2>3
  <2> QED
    BY <2>4
<1>3. Bad = {}
  <2> HIDE DEF Bad
  <2>1. Bad \in SUBSET (0..n)
    BY DEF Bad
  <2> QED
    BY <1>1, <1>2, <2>1, PlacesInduction
<1>4. n \in 0..n
  OBVIOUS
<1> QED
  BY <1>3, <1>4, Zenon

\* What loadPods and loadResource have assigned after all rows of the join.
LEMMA LoadedIs ==
    ASSUME NEW rows, Len(rows) \in Nat
    PROVE  \E f : /\ Loaded(rows) = f[Len(rows)]
                  /\ f[0] = NothingLoaded
                  /\ \A i \in 1..Len(rows) : f[i] = assign(f[i - 1], rows[i])
<1> DEFINE n == Len(rows)
           F == CHOOSE f : f = [i \in 0..n |-> IF i = 0 THEN NothingLoaded ELSE assign(f[i - 1], rows[i])]
<1>1. Loaded(rows) = F[n]
  BY DEF Loaded, NothingLoaded
<1> HIDE DEF n
<1>2. n \in Nat
  BY DEF n
<1>3. F = [i \in 0..n |-> IF i = 0 THEN NothingLoaded ELSE assign(F[i - 1], rows[i])]
  BY <1>2, RowsRun
<1> HIDE DEF F
<1>4. F[0] = NothingLoaded /\ \A i \in 1..n : F[i] = assign(F[i - 1], rows[i])
  BY <1>2, <1>3
<1> QED
  BY <1>1, <1>4 DEF n

\* What i rows leave: in nids the nodes that a neighbour was seen with, in neighbors each
\* neighbour that was seen, once.
GatheredIn(rows, i, nids, neighbors) ==
    /\ nids \in [Nodes -> SUBSET Nodes] /\ neighbors \in Seq(Nodes)
    /\ \A m, n \in Nodes : n \in nids[m] <=> \E j \in 1..i : rows[j].in = m /\ rows[j].out = n
    /\ \A m \in Nodes : nids[m] # {} => \E x \in 1..Len(neighbors) : neighbors[x] = m
    /\ \A x \in 1..Len(neighbors) : nids[neighbors[x]] # {}
    /\ \A x, y \in 1..Len(neighbors) : neighbors[x] = neighbors[y] => x = y
Gathered(rows, i, a) == GatheredIn(rows, i, a.nids, a.neighbors)

\* A row adds what it says.
LEMMA AssignGathers ==
    ASSUME NEW rows, NEW i \in Nat \ {0}, rows[i].in \in Nodes, rows[i].out \in Nodes,
           NEW a, \E x, y : a = [nids |-> x, neighbors |-> y], Gathered(rows, i - 1, a)
    PROVE  /\ Gathered(rows, i, assign(a, rows[i]))
           /\ \E x, y : assign(a, rows[i]) = [nids |-> x, neighbors |-> y]
<1> DEFINE p == rows[i].in
           r == rows[i].out
           nids == a.nids
           neighbors == a.neighbors
<1>0. a = [nids |-> nids, neighbors |-> neighbors]
  OBVIOUS
<1> HIDE DEF nids, neighbors
<1>1. /\ nids \in [Nodes -> SUBSET Nodes] /\ neighbors \in Seq(Nodes) /\ Len(neighbors) \in Nat
      /\ \A m, n \in Nodes : n \in nids[m] <=> \E j \in 1..(i - 1) : rows[j].in = m /\ rows[j].out = n
      /\ \A m \in Nodes : nids[m] # {} => \E x \in 1..Len(neighbors) : neighbors[x] = m
      /\ \A x \in 1..Len(neighbors) : nids[neighbors[x]] # {} /\ neighbors[x] \in Nodes
      /\ \A x, y \in 1..Len(neighbors) : neighbors[x] = neighbors[y] => x = y
  BY DEF Gathered, GatheredIn, nids, neighbors
<1>2. i \in 1..i /\ \A j \in 1..i : j = i \/ j \in 1..(i - 1)
  OBVIOUS
<1>3. \A j \in 1..(i - 1) : j \in 1..i
  OBVIOUS
<1> DEFINE nn == [nids EXCEPT ![p] = nids[p] \cup {r}]
<1>4. nn \in [Nodes -> SUBSET Nodes] /\ nn[p] = nids[p] \cup {r} /\ \A m \in Nodes : m # p => nn[m] = nids[m]
  BY <1>1
<1> HIDE DEF nn
<1>5. \A m, n \in Nodes : n \in nn[m] <=> \E j \in 1..i : rows[j].in = m /\ rows[j].out = n
  <2> TAKE m, n \in Nodes
  <2>1. n \in nids[m] <=> \E j \in 1..(i - 1) : rows[j].in = m /\ rows[j].out = n
    BY <1>1
  <2>2. n \in nn[m] <=> n \in nids[m] \/ (m = p /\ n = r)
    BY <1>4
  <2> QED
    BY <1>2, <1>3, <2>1, <2>2
<1>6. CASE nids[p] = {}
  <2>1. assign(a, rows[i]) = [nids |-> nn, neighbors |-> Append(neighbors, p)]
    BY <1>0, <1>6 DEF assign, nn
  <2> DEFINE t == Append(neighbors, p)
  <2>2. /\ t \in Seq(Nodes) /\ Len(t) = Len(neighbors) + 1 /\ t[Len(neighbors) + 1] = p
        /\ \A x \in 1..Len(neighbors) : t[x] = neighbors[x]
    BY <1>1
  <2> HIDE DEF t
  <2>3. \A x \in 1..Len(t) : x \in 1..Len(neighbors) \/ x = Len(neighbors) + 1
    BY <1>1, <2>2
  <2>4. \A x \in 1..Len(neighbors) : x \in 1..Len(t) /\ neighbors[x] # p
    BY <1>1, <1>6, <2>2
  <2>5. Len(neighbors) + 1 \in 1..Len(t)
    BY <1>1, <2>2
  <2>6. \A m \in Nodes : nn[m] # {} => \E x \in 1..Len(t) : t[x] = m
    <3> SUFFICES ASSUME NEW m \in Nodes, nn[m] # {} PROVE \E x \in 1..Len(t) : t[x] = m
      OBVIOUS
    <3>1. CASE m = p
      BY <2>2, <2>5, <3>1
    <3>2. CASE m # p
      <4>1. PICK x \in 1..Len(neighbors) : neighbors[x] = m
        BY <1>1, <1>4, <3>2
      <4> QED
        BY <2>2, <2>4, <4>1
    <3> QED
      BY <3>1, <3>2
  <2>7. \A x \in 1..Len(t) : nn[t[x]] # {}
    <3> TAKE x \in 1..Len(t)
    <3>1. CASE x = Len(neighbors) + 1
      BY <1>4, <2>2, <3>1
    <3>2. CASE x \in 1..Len(neighbors)
      BY <1>1, <1>4, <2>2, <2>4, <3>2
    <3> QED
      BY <2>3, <3>1, <3>2
  <2>8. \A x, y \in 1..Len(t) : t[x] = t[y] => x = y
    BY <1>1, <2>2, <2>3, <2>4
  <2> DEFINE b == [nids |-> nn, neighbors |-> t]
  <2>9. b.nids = nn /\ b.neighbors = t
    OBVIOUS
  <2>10. GatheredIn(rows, i, nn, t)
    BY <1>4, <1>5, <2>2, <2>6, <2>7, <2>8 DEF GatheredIn
  <2>11. Gathered(rows, i, b)
    BY <2>9, <2>10 DEF Gathered
  <2> QED
    BY <2>1, <2>11 DEF t
<1>7. CASE nids[p] # {}
  <2>1. assign(a, rows[i]) = [nids |-> nn, neighbors |-> neighbors]
    BY <1>0, <1>7 DEF assign, nn
  <2>2. \A m \in Nodes : nn[m] # {} => \E x \in 1..Len(neighbors) : neighbors[x] = m
    BY <1>1, <1>4, <1>7
  <2>3. \A x \in 1..Len(neighbors) : nn[neighbors[x]] # {}
    BY <1>1, <1>4
  <2> DEFINE b == [nids |-> nn, neighbors |-> neighbors]
  <2>4. b.nids = nn /\ b.neighbors = neighbors
    OBVIOUS
  <2>5. GatheredIn(rows, i, nn, neighbors)
    BY <1>1, <1>4, <1>5, <2>2, <2>3 DEF GatheredIn
  <2>6. Gathered(rows, i, b)
    BY <2>4, <2>5 DEF Gathered
  <2> QED
    BY <2>1, <2>6
<1> QED
  BY <1>6, <1>7

\* However the rows are ordered, they leave what they say.
LEMMA LoadedGathers ==
    ASSUME NEW rows, Len(rows) \in Nat,
           \A i \in 1..Len(rows) : rows[i].in \in Nodes /\ rows[i].out \in Nodes
    PROVE  Gathered(rows, Len(rows), Loaded(rows))
<1> DEFINE n == Len(rows)
<1>1. n \in Nat
  OBVIOUS
<1>2. PICK f : /\ Loaded(rows) = f[n]
               /\ f[0] = NothingLoaded
               /\ \A i \in 1..n : f[i] = assign(f[i - 1], rows[i])
  BY LoadedIs
<1> DEFINE Good(i) == Gathered(rows, i, f[i]) /\ \E x, y : f[i] = [nids |-> x, neighbors |-> y]
           Bad == {i \in 0..n : ~Good(i)}
<1>3. 0 \notin Bad
  <2>1. Gathered(rows, 0, NothingLoaded)
    BY DEF Gathered, GatheredIn, NothingLoaded
  <2>2. \E x, y : NothingLoaded = [nids |-> x, neighbors |-> y]
    BY DEF NothingLoaded
  <2> QED
    BY <1>2, <2>1, <2>2
<1>4. ASSUME NEW i \in 1..n, i - 1 \notin Bad PROVE i \notin Bad
  <2>1. i - 1 \in 0..n /\ i \in Nat \ {0}
    BY <1>1
  <2>2. Good(i - 1)
    BY <1>4, <2>1
  <2>4. f[i] = assign(f[i - 1], rows[i]) /\ rows[i].in \in Nodes /\ rows[i].out \in Nodes
    BY <1>2
  <2>5. /\ Gathered(rows, i, assign(f[i - 1], rows[i]))
        /\ \E u, v : assign(f[i - 1], rows[i]) = [nids |-> u, neighbors |-> v]
    <3> DEFINE b == f[i - 1]
    <3>1. (\E u, v : b = [nids |-> u, neighbors |-> v]) /\ Gathered(rows, i - 1, b)
      BY <2>2
    <3> HIDE DEF b
    <3>2. Gathered(rows, i, assign(b, rows[i])) /\ \E u, v : assign(b, rows[i]) = [nids |-> u, neighbors |-> v]
      BY <2>1, <2>4, <3>1, AssignGathers
    <3> QED
      BY <3>2 DEF b
  <2> QED
    BY <2>4, <2>5
<1>5. Bad = {}
  <2> HIDE DEF Bad
  <2>1. Bad \in SUBSET (0..n)
    BY DEF Bad
  <2> QED
    BY <1>1, <1>3, <1>4, <2>1, PlacesInduction
<1>6. n \in 0..n
  BY <1>1
<1>7. Good(n)
  <2> HIDE DEF Good
  <2> QED
    BY <1>5, <1>6, Zenon
<1> QED
  BY <1>2, <1>7

\* The result of a join over the links between S and their neighbours, whatever its order.
LEMMA JoinLoads ==
    ASSUME NEW R, NEW rows \in Listings(R),
           \A r \in R : r.in \in Nodes /\ r.out \in Nodes, Cardinality(R) \in Nat
    PROVE  LET a == Loaded(rows) IN
           \A n \in Nodes :
             /\ {a.neighbors[i] : i \in Edges(a, n)} = {m \in Nodes : \E r \in R : r.in = m /\ r.out = n}
             /\ \A i, j \in Edges(a, n) : a.neighbors[i] = a.neighbors[j] => i = j
<1> DEFINE a == Loaded(rows)
           k == Len(rows)
<1>1. rows \in [1..Cardinality(R) -> R] /\ Range(rows) = R
  BY DEF Listings
<1>2. k = Cardinality(R) /\ k \in Nat /\ rows \in [1..k -> R] /\ \A i \in 1..k : rows[i] \in R
  BY <1>1
<1>3. \A r \in R : \E i \in 1..k : rows[i] = r
  BY <1>1, <1>2 DEF Range
<1>4. Gathered(rows, k, a)
  BY <1>2, LoadedGathers
<1> HIDE DEF a, k
<1> DEFINE nids == a.nids
           nb == a.neighbors
<1>5. /\ nb \in Seq(Nodes) /\ nids \in [Nodes -> SUBSET Nodes]
      /\ \A m, n \in Nodes : n \in nids[m] <=> \E j \in 1..k : rows[j].in = m /\ rows[j].out = n
      /\ \A m \in Nodes : nids[m] # {} => \E x \in 1..Len(nb) : nb[x] = m
      /\ \A x, y \in 1..Len(nb) : nb[x] = nb[y] => x = y
  BY <1>4 DEF Gathered, GatheredIn
<1>6. DOMAIN nb = 1..Len(nb) /\ \A x \in DOMAIN nb : nb[x] \in Nodes
  BY <1>5
<1>7. \A n : Edges(a, n) = {i \in DOMAIN nb : n \in nids[nb[i]]}
  BY DEF Edges
<1> HIDE DEF nb, nids
<1> SUFFICES ASSUME NEW n \in Nodes
             PROVE  /\ {nb[i] : i \in Edges(a, n)} = {m \in Nodes : \E r \in R : r.in = m /\ r.out = n}
                    /\ \A i, j \in Edges(a, n) : nb[i] = nb[j] => i = j
  BY DEF nb, a
<1>8. \A m \in Nodes : n \in nids[m] <=> \E r \in R : r.in = m /\ r.out = n
  BY <1>2, <1>3, <1>5
<1>9. \A m \in Nodes : m \in {nb[i] : i \in Edges(a, n)} <=> n \in nids[m]
  <2> TAKE m \in Nodes
  <2>1. ASSUME n \in nids[m] PROVE m \in {nb[i] : i \in Edges(a, n)}
    <3>1. PICK x \in DOMAIN nb : nb[x] = m
      BY <1>5, <1>6, <2>1
    <3> QED
      BY <1>7, <2>1, <3>1
  <2> QED
    BY <1>7, <2>1
<1>10. {nb[i] : i \in Edges(a, n)} \subseteq Nodes
  BY <1>6, <1>7
<1> QED
  BY <1>5, <1>6, <1>7, <1>8, <1>9, <1>10

\* Every node is given each of its neighbours once (loadResource, loadPods).
LEMMA QueriesLoadNeighbours ==
    ASSUME NEW d \in Contents
    PROVE  LoadsNeighbours(d)
<1> SUFFICES ASSUME NEW S \in (SUBSET Pods) \cup (SUBSET Resources),
                    NEW a \in IF S \subseteq Pods THEN loadResource(S, d) ELSE loadPods(S, d),
                    NEW n \in S
             PROVE  /\ {a.neighbors[i] : i \in Edges(a, n)} = Neighbours(d, n)
                    /\ \A i, j \in Edges(a, n) : a.neighbors[i] = a.neighbors[j] => i = j
  BY DEF LoadsNeighbours
<1>1. d.links \subseteq Pods \X Resources /\ IsFiniteSet(d.links)
  <2>1. IsFiniteSet(Pods \X Resources)
    BY FS_Product, RelationsAssumption
  <2> QED
    BY <2>1, FS_Subset DEF Contents
<1>2. \A l \in d.links : l[1] \in Pods /\ l[2] \in Resources /\ l = <<l[1], l[2]>>
  BY <1>1
<1>3. CASE S \subseteq Pods
  <2> DEFINE L == {k \in d.links : k[1] \in S}
             F(l) == [out |-> l[1], in |-> l[2]]
             R == {F(l) : l \in L}
  <2>1. PICK rows \in Listings(R) : a = Loaded(rows)
    BY <1>3 DEF loadResource
  <2>2. IsFiniteSet(R)
    <3>1. IsFiniteSet(L)
      BY <1>1, FS_Subset
    <3>2. [l \in L |-> F(l)] \in Surjection(L, R)
      BY DEF Surjection
    <3> HIDE DEF L, F, R
    <3> QED
      BY <3>1, <3>2, FS_Surjection
  <2>3. Cardinality(R) \in Nat /\ \A r \in R : r.in \in Nodes /\ r.out \in Nodes
    BY <1>2, <2>2, FS_CardinalityType DEF Nodes
  <2>4. n \in Pods /\ n \in Nodes
    BY <1>3 DEF Nodes
  <2>5. {m \in Nodes : \E r \in R : r.in = m /\ r.out = n} = Neighbours(d, n)
    <3>1. ASSUME NEW m, NEW r \in R, r.in = m, r.out = n PROVE <<n, m>> \in d.links
      <4>1. PICK l \in L : r = F(l)
        OBVIOUS
      <4> QED
        BY <1>2, <3>1, <4>1
    <3>2. ASSUME NEW m, <<n, m>> \in d.links PROVE \E r \in R : r.in = m /\ r.out = n
      <4>1. F(<<n, m>>) \in R /\ F(<<n, m>>).in = m /\ F(<<n, m>>).out = n
        BY <3>2
      <4> QED
        BY <4>1
    <3> HIDE DEF R, L, F
    <3> QED
      BY <2>4, <3>1, <3>2 DEF Neighbours, Link
  <2> HIDE DEF R
  <2> QED
    BY <2>1, <2>3, <2>4, <2>5, JoinLoads
<1>4. CASE ~(S \subseteq Pods)
  <2> DEFINE L == {k \in d.links : k[2] \in S}
             F(l) == [out |-> l[2], in |-> l[1]]
             R == {F(l) : l \in L}
  <2>1. PICK rows \in Listings(R) : a = Loaded(rows)
    BY <1>4 DEF loadPods
  <2>2. IsFiniteSet(R)
    <3>1. IsFiniteSet(L)
      BY <1>1, FS_Subset
    <3>2. [l \in L |-> F(l)] \in Surjection(L, R)
      BY DEF Surjection
    <3> HIDE DEF L, F, R
    <3> QED
      BY <3>1, <3>2, FS_Surjection
  <2>3. Cardinality(R) \in Nat /\ \A r \in R : r.in \in Nodes /\ r.out \in Nodes
    BY <1>2, <2>2, FS_CardinalityType DEF Nodes
  <2>4. n \in Resources /\ n \notin Pods /\ n \in Nodes
    <3>1. S \subseteq Resources
      BY <1>4
    <3> QED
      BY <3>1, Tables DEF Nodes
  <2>5. {m \in Nodes : \E r \in R : r.in = m /\ r.out = n} = Neighbours(d, n)
    <3>1. ASSUME NEW m, NEW r \in R, r.in = m, r.out = n PROVE <<m, n>> \in d.links
      <4>1. PICK l \in L : r = F(l)
        OBVIOUS
      <4> QED
        BY <1>2, <3>1, <4>1
    <3>2. ASSUME NEW m, <<m, n>> \in d.links PROVE \E r \in R : r.in = m /\ r.out = n
      <4>1. F(<<m, n>>) \in R /\ F(<<m, n>>).in = m /\ F(<<m, n>>).out = n
        BY <3>2
      <4> QED
        BY <4>1
    <3> HIDE DEF R, L, F
    <3> QED
      BY <2>4, <3>1, <3>2 DEF Neighbours, Link
  <2> HIDE DEF R
  <2> QED
    BY <2>1, <2>3, <2>4, <2>5, JoinLoads
<1> QED
  BY <1>3, <1>4

-----------------------------------------------------------------------------
(* The client.                                                             *)

Sound(d) == NamesDiffer(d.rows) /\ LinksExist(d)

TxRecords == [depth : 0..MaxDepth, err : BOOLEAN, lock : {"none", "read", "write"}, view : Contents]

\* What keeps the contents consistent.  A session saves only what it has not failed before, a
\* transaction that has written is alone, one that has read still sees the database, and what a
\* transaction shows is sound until it fails: then it may hold half of an operation.
ClientInv ==
    /\ TypeOK /\ Sound(db)
    /\ \A s \in Sessions :
         /\ asked[s] # NoOp => ~tx[s].err
         /\ tx[s].lock = "write" => \A t \in Others(s) : tx[t].lock = "none"
         /\ tx[s].lock = "read" => tx[s].view = db
         /\ ~tx[s].err /\ tx[s].lock # "none" => Sound(tx[s].view)

\* An empty database is consistent.
LEMMA EmptyIsSound == Empty \in Contents /\ Sound(Empty) /\ (MaxDepth \in Nat \ {0} => NoTx \in TxRecords)
<1>1. [n \in Nodes |-> 0] \in Rows
  BY DEF Rows, Values
<1>2. Empty \in Contents /\ Sound(Empty)
  BY <1>1 DEF Empty, Contents, Sound, NamesDiffer, LinksExist, Nodes
<1> QED
  BY <1>2 DEF NoTx, TxRecords

\* A session moves: its transaction becomes w and what it asks for o.
Moves(s, w, o) ==
    /\ schema' \in BOOLEAN /\ db' \in Contents /\ Sound(db')
    /\ w \in TxRecords /\ (w.depth = 0 => w = NoTx) /\ tx' = [tx EXCEPT ![s] = w]
    /\ o \in Requests \cup {NoOp} /\ asked' = [asked EXCEPT ![s] = o]
    /\ o # NoOp => ~w.err
    /\ db' # db => \A t \in Others(s) : tx[t].lock # "read"
    /\ w.lock = "write" => \A t \in Others(s) : tx[t].lock = "none"
    /\ w.lock # "none" => \A t \in Others(s) : tx[t].lock # "write"
    /\ w.lock = "read" => w.view = db'
    /\ ~w.err /\ w.lock # "none" => Sound(w.view)

\* A move keeps the invariant.
LEMMA MovesKeep ==
    ASSUME ClientInv, NEW s \in Sessions, NEW w, NEW o, Moves(s, w, o)
    PROVE  ClientInv'
<1>1. /\ tx \in [Sessions -> TxRecords] /\ asked \in [Sessions -> Requests \cup {NoOp}]
      /\ w \in TxRecords /\ o \in Requests \cup {NoOp}
      /\ tx' = [tx EXCEPT ![s] = w] /\ asked' = [asked EXCEPT ![s] = o]
  BY DEF ClientInv, TypeOK, TxRecords, Moves
<1>2. /\ tx' \in [Sessions -> TxRecords] /\ asked' \in [Sessions -> Requests \cup {NoOp}]
      /\ tx'[s] = w /\ asked'[s] = o
      /\ \A t \in Sessions : t # s => tx'[t] = tx[t] /\ asked'[t] = asked[t]
  BY <1>1
<1>3. TypeOK'
  <2>1. \A t \in Sessions : tx'[t].depth = 0 => tx'[t] = NoTx
    BY <1>2 DEF ClientInv, TypeOK, Moves
  <2> QED
    BY <1>2, <2>1 DEF TypeOK, TxRecords, Moves
<1>4. \A t \in Sessions : asked'[t] # NoOp => ~tx'[t].err
  BY <1>2 DEF ClientInv, Moves
<1>5. \A t \in Sessions : tx'[t].lock = "write" => \A u \in Others(t) : tx'[u].lock = "none"
  <2> SUFFICES ASSUME NEW t \in Sessions, tx'[t].lock = "write", NEW u \in Sessions, u # t
               PROVE  tx'[u].lock = "none"
    BY DEF Others
  <2>1. CASE t = s
    BY <1>2, <2>1 DEF Moves, Others
  <2>2. CASE u = s
    <3>1. tx[t].lock = "write" /\ t \in Others(s)
      BY <1>2, <2>2 DEF Others
    <3>2. w.lock = "none"
      BY <3>1 DEF Moves
    <3> QED
      BY <1>2, <2>2, <3>2
  <2>3. CASE t # s /\ u # s
    BY <1>2, <2>3 DEF ClientInv, Others
  <2> QED
    BY <2>1, <2>2, <2>3
<1>6. \A t \in Sessions : tx'[t].lock = "read" => tx'[t].view = db'
  <2> SUFFICES ASSUME NEW t \in Sessions, tx'[t].lock = "read" PROVE tx'[t].view = db'
    OBVIOUS
  <2>1. CASE t = s
    BY <1>2, <2>1 DEF Moves
  <2>2. CASE t # s
    <3>1. tx[t].lock = "read" /\ t \in Others(s)
      BY <1>2, <2>2 DEF Others
    <3>2. db' = db
      BY <3>1 DEF Moves
    <3> QED
      BY <1>2, <2>2, <3>1, <3>2 DEF ClientInv
  <2> QED
    BY <2>1, <2>2
<1>7. \A t \in Sessions : ~tx'[t].err /\ tx'[t].lock # "none" => Sound(tx'[t].view)
  BY <1>2 DEF ClientInv, Moves
<1>8. Sound(db)'
  BY DEF Moves, Sound, NamesDiffer, LinksExist, Exists
<1>9. \A t \in Sessions : (~tx[t].err /\ tx[t].lock # "none" => Sound(tx[t].view))'
  BY <1>7 DEF Sound, NamesDiffer, LinksExist, Exists
<1> QED
  BY <1>3, <1>4, <1>5, <1>6, <1>8, <1>9 DEF ClientInv, Others

\* What is asked for is an operation that gives a right result on what the session sees.
LEMMA SavesAreRight ==
    ASSUME ClientInv, NEW s \in Sessions, PodStep(s) \/ ResourceStep(s)
    PROVE  /\ asked[s] \in Requests /\ asked[s] # NoOp /\ ~tx[s].err
           /\ Seen(s) \in Contents /\ Sound(Seen(s))
           /\ \/ \E r : RightResult(asked[s], Seen(s), r) /\ Save(s, r)
              \/ CheckFails(s) /\ ~Valid(asked[s], Seen(s))
<1> DEFINE op == asked[s]
           d == Seen(s)
<1>1. op.kind \in {"create", "createBulk", "update", "updateOne", "delete", "deleteOne"}
  BY DEF PodStep, ResourceStep, Asks, PodCreate, PodUpsertOne, PodCreateBulk, PodUpdate, PodUpdateOne,
         PodDelete, PodDeleteOne, ResourceCreate, ResourceUpsertOne, ResourceCreateBulk,
         ResourceUpdate, ResourceUpdateOne, ResourceDelete, ResourceDeleteOne
<1>2. op # NoOp /\ op \in Requests /\ ~tx[s].err
  <2>1. op \in Requests \cup {NoOp}
    BY DEF ClientInv, TypeOK
  <2>2. NoOp.kind = "none"
    BY DEF NoOp, Op
  <2> QED
    BY <1>1, <2>1, <2>2 DEF ClientInv
<1>3. PICK T \in {Pods, Resources} : OnTable(op, T)
  BY <1>2, OperationIs, ClientAssumption
<1>4. d \in Contents /\ Sound(d)
  BY <1>2 DEF ClientInv, TypeOK, Seen
<1> HIDE DEF op, d
<1>5. CASE Makes(op)
  <2>1. SaveCreate(s)
    BY <1>5 DEF PodStep, ResourceStep, Asks, PodCreate, PodUpsertOne, PodCreateBulk, PodUpdate, PodUpdateOne,
                PodDelete, PodDeleteOne, ResourceCreate, ResourceUpsertOne, ResourceCreateBulk, ResourceUpdate,
                ResourceUpdateOne, ResourceDelete, ResourceDeleteOne, Makes, op
  <2>2. (check(op) => RightResult(op, d, create(op, d))) /\ (~check(op) => ~Valid(op, d))
    BY <1>3, <1>4, <1>5, CreatesAreRight
  <2> QED
    BY <1>2, <1>4, <2>1, <2>2 DEF SaveCreate, CheckFails, op, d
<1>6. CASE ~Makes(op)
  <2>1. \/ op.kind = "update" /\ Save(s, update(op, d))
        \/ op.kind = "updateOne" /\ Save(s, updateOne(op, d))
        \/ op.kind = "delete" /\ Save(s, delete(op, d))
        \/ op.kind = "deleteOne" /\ Save(s, deleteOne(op, d))
    BY <1>6 DEF PodStep, ResourceStep, Asks, PodCreate, PodUpsertOne, PodCreateBulk, PodUpdate, PodUpdateOne,
                PodDelete, PodDeleteOne, ResourceCreate, ResourceUpsertOne, ResourceCreateBulk, ResourceUpdate,
                ResourceUpdateOne, ResourceDelete, ResourceDeleteOne, Makes, op, d
  <2>2. /\ op.kind = "update" => RightResult(op, d, update(op, d))
        /\ op.kind = "updateOne" => RightResult(op, d, updateOne(op, d))
    BY <1>3, <1>4, UpdatesAreRight DEF Sound
  <2>3. /\ op.kind = "delete" => RightResult(op, d, delete(op, d))
        /\ op.kind = "deleteOne" => RightResult(op, d, deleteOne(op, d))
    BY <1>3, <1>4, DeletesAreRight DEF Sound
  <2> QED
    BY <1>2, <1>4, <2>1, <2>2, <2>3 DEF op, d
<1> QED
  BY <1>5, <1>6

\* The store means by an operation what the client does.
LEMMA StoreOperations ==
    /\ Store!Empty = Empty /\ Store!NoOp = NoOp
    /\ \A op, d : Store!Outcome(op, d) = Outcome(op, d)
    /\ \A op, d : Store!Valid(op, d) <=> Valid(op, d)
<1>1. Store!Nodes = Nodes
  BY DEF Store!Nodes, Nodes
<1>2. Store!Empty = Empty
  BY <1>1 DEF Store!Empty, Empty
<1>3. Store!NoOp = NoOp
  BY DEF Store!NoOp, NoOp, Store!Op, Op
<1>4. \A d, n : Store!Exists(d, n) <=> Exists(d, n)
  BY DEF Store!Exists, Exists
<1>5. \A n, m : Store!Link(n, m) = Link(n, m)
  BY DEF Store!Link, Link
<1>6. \A S : Store!LinksOf(S) = LinksOf(S)
  BY DEF Store!LinksOf, LinksOf
<1>7. \A op : Store!Makes(op) <=> Makes(op)
  BY DEF Store!Makes, Makes
<1>8. \A op, d : Store!Found(op, d) = Found(op, d)
  BY <1>4 DEF Store!Found, Found
<1>9. \A op, d : Store!Subjects(op, d) = Subjects(op, d)
  BY <1>7, <1>8 DEF Store!Subjects, Subjects
<1>10. \A op, m : Store!CallsTo(op, m) = CallsTo(op, m)
  BY DEF Store!CallsTo, CallsTo
<1>11. \A op, d, n, m : Store!Linked(op, d, n, m) <=> Linked(op, d, n, m)
  BY <1>5, <1>10 DEF Store!Linked, Linked
<1>12. \A rows : Store!NamesDiffer(rows) <=> NamesDiffer(rows)
  BY DEF Store!NamesDiffer, NamesDiffer
<1>13. \A d : Store!LinksExist(d) <=> LinksExist(d)
  BY <1>4 DEF Store!LinksExist, LinksExist
<1>14. ASSUME NEW op, NEW d PROVE Store!Effect(op, d) = Effect(op, d)
  <2>1. CASE op.kind \in {"delete", "deleteOne"}
    BY <1>1, <1>6, <2>1 DEF Store!Effect, Effect
  <2>2. CASE op.kind \notin {"delete", "deleteOne"}
    <3> DEFINE S == Subjects(op, d)
               L == {l \in Pods \X Resources :
                       CASE l[1] \in S -> Linked(op, d, l[1], l[2])
                         [] l[2] \in S -> Linked(op, d, l[2], l[1])
                         [] OTHER -> l \in d.links}
               K == {l \in Pods \X Resources :
                       CASE l[1] \in S -> Store!Linked(op, d, l[1], l[2])
                         [] l[2] \in S -> Store!Linked(op, d, l[2], l[1])
                         [] OTHER -> l \in d.links}
    <3>1. K = L
      BY <1>11
    <3>2. Effect(op, d) =
            [rows |-> [n \in Nodes |-> IF n \in S /\ op.val[n] # 0 THEN op.val[n] ELSE d.rows[n]], links |-> L]
      BY <2>2 DEF Effect
    <3>3. Store!Effect(op, d) =
            [rows |-> [n \in Nodes |-> IF n \in S /\ op.val[n] # 0 THEN op.val[n] ELSE d.rows[n]], links |-> K]
      BY <1>1, <1>9, <2>2 DEF Store!Effect
    <3> HIDE DEF K, L
    <3> QED
      BY <3>1, <3>2, <3>3
  <2> QED
    BY <2>1, <2>2
<1>15. ASSUME NEW op, NEW d PROVE Store!Outcome(op, d) = Outcome(op, d)
  <2>1. Store!StillAdded(op) = StillAdded(op)
    BY <1>1 DEF Store!StillAdded, StillAdded
  <2>2. Store!StillLinked(op, d) = StillLinked(op, d)
    BY <1>5, <1>9, <2>1 DEF Store!StillLinked, StillLinked
  <2> QED
    BY <1>14, <2>2 DEF Store!Outcome, Outcome
<1>16. \A op, d : Store!Valid(op, d) <=> Valid(op, d)
  BY <1>7, <1>8, <1>12, <1>13, <1>15 DEF Store!Valid, Valid
<1> QED
  BY <1>2, <1>3, <1>15, <1>16

\* What a transaction shows, and what all show.
Shown(w) ==
    CASE ~(w.depth > 0) -> [state |-> "closed", d |-> Empty]
      [] w.depth > 0 /\ w.err -> [state |-> "broken", d |-> Empty]
      [] w.depth > 0 /\ ~w.err /\ w.lock = "none" -> [state |-> "fresh", d |-> Empty]
      [] OTHER -> [state |-> "open", d |-> w.view]
Views == [s \in Sessions |-> ViewOf(s)]

\* What a transaction shows to RelationStore, case by case.
LEMMA ShownIs ==
    ASSUME NEW w \in TxRecords, w.depth = 0 => w = NoTx
    PROVE  /\ w.depth = 0 => Shown(w) = Store!Closed
           /\ w.depth > 0 /\ w.err => Shown(w) = Store!Broken
           /\ w.depth > 0 /\ ~w.err /\ w.lock = "none" => Shown(w) = Store!Fresh
           /\ w.depth > 0 /\ ~w.err /\ w.lock # "none" => Shown(w) = Store!Opened(w.view)
           /\ w.depth = 0 \/ w.depth > 0
           /\ w.lock # "none" => w.depth > 0
<1>1. w.depth \in Nat /\ w.err \in BOOLEAN
  BY ClientAssumption DEF TxRecords
<1>2. NoTx.lock = "none"
  BY DEF NoTx
<1> QED
  BY <1>1, <1>2, StoreOperations DEF Shown, Store!Closed, Store!Broken, Store!Fresh, Store!Opened

\* The four views of RelationStore differ.
LEMMA ViewsDiffer ==
    /\ Store!Closed.state = "closed" /\ Store!Broken.state = "broken" /\ Store!Fresh.state = "fresh"
    /\ \A d : Store!Opened(d).state = "open" /\ Store!Opened(d).d = d
    /\ Store!Closed # Store!Broken /\ Store!Closed # Store!Fresh /\ Store!Broken # Store!Fresh
    /\ \A d : Store!Opened(d) # Store!Closed /\ Store!Opened(d) # Store!Broken /\ Store!Opened(d) # Store!Fresh
<1>1. /\ Store!Closed.state = "closed" /\ Store!Broken.state = "broken" /\ Store!Fresh.state = "fresh"
      /\ \A d : Store!Opened(d).state = "open" /\ Store!Opened(d).d = d
  BY DEF Store!Closed, Store!Broken, Store!Fresh, Store!Opened
<1> QED
  BY <1>1

\* A move is a move of the view.
LEMMA ViewsMove ==
    ASSUME ClientInv, NEW s \in Sessions, NEW w, NEW o, Moves(s, w, o)
    PROVE  /\ \A t \in Sessions : Views[t] = Shown(tx[t]) /\ tx[t] \in TxRecords /\ (tx[t].depth = 0 => tx[t] = NoTx)
           /\ w \in TxRecords /\ (w.depth = 0 => w = NoTx)
           /\ Views' = [Views EXCEPT ![s] = Shown(w)]
<1>1. tx \in [Sessions -> TxRecords] /\ \A t \in Sessions : tx[t].depth = 0 => tx[t] = NoTx
  BY DEF ClientInv, TypeOK, TxRecords
<1>2. w \in TxRecords /\ (w.depth = 0 => w = NoTx) /\ tx' = [tx EXCEPT ![s] = w]
  BY DEF Moves
<1>3. Views = [t \in Sessions |-> Shown(tx[t])]
  BY DEF Views, ViewOf, Shown, InTx
<1>4. Views' = [t \in Sessions |-> Shown(tx'[t])]
  BY DEF Views, ViewOf, Shown, InTx
<1>5. tx'[s] = w /\ \A t \in Sessions : t # s => tx'[t] = tx[t]
  BY <1>1, <1>2
<1>6. Views' = [Views EXCEPT ![s] = Shown(w)]
  BY <1>3, <1>4, <1>5
<1> QED
  BY <1>1, <1>2, <1>3, <1>6

\* A step of the abstract store, or none.
StoreStep == Store!Next \/ UNCHANGED Store!vars

\* What a move must do for each abstract step.
LEMMA MovesAreSteps ==
    ASSUME ClientInv, NEW s \in Sessions, NEW w, NEW o, Moves(s, w, o), schema' = schema
    PROVE  LET v == Shown(tx[s])
               u == Shown(w)
           IN
           /\ v = u /\ o = asked[s] /\ db' = db => StoreStep
           /\ v = Store!Closed /\ u = Store!Fresh /\ o = asked[s] /\ db' = db => StoreStep
           /\ v = Store!Fresh /\ u = Store!Opened(db) /\ o = asked[s] /\ db' = db => StoreStep
           /\ v # Store!Closed /\ u \in {Store!Broken, Store!Closed} /\ o = asked[s] /\ db' = db => StoreStep
           /\ v = u /\ v # Store!Broken /\ asked[s] = NoOp /\ o \in Requests /\ db' = db => StoreStep
<1> DEFINE v == Shown(tx[s])
           u == Shown(w)
<1>1. Views[s] = v /\ Views' = [Views EXCEPT ![s] = u] /\ Views \in [Sessions -> {Views[t] : t \in Sessions}]
  BY ViewsMove DEF Views
<1>2. asked' = [asked EXCEPT ![s] = o] /\ asked \in [Sessions -> Requests \cup {NoOp}]
  BY DEF Moves, ClientInv, TypeOK
<1> HIDE DEF v, u
<1>3. ASSUME v = u PROVE Views' = Views
  BY <1>1, <1>3
<1>4. ASSUME o = asked[s] PROVE asked' = asked
  BY <1>2, <1>4
<1>5. ASSUME v = u, o = asked[s], db' = db PROVE StoreStep
  BY <1>3, <1>4, <1>5 DEF StoreStep, Store!vars, Views
<1>6. ASSUME v = Store!Closed, u = Store!Fresh, o = asked[s], db' = db PROVE StoreStep
  <2>1. Store!Begin(s)
    BY <1>1, <1>4, <1>6 DEF Store!Begin, Views
  <2> QED
    BY <2>1 DEF StoreStep, Store!Next
<1>7. ASSUME v = Store!Fresh, u = Store!Opened(db), o = asked[s], db' = db PROVE StoreStep
  <2>1. Store!Look(s)
    BY <1>1, <1>4, <1>7 DEF Store!Look, Views
  <2> QED
    BY <2>1 DEF StoreStep, Store!Next
<1>8. ASSUME v # Store!Closed, u = Store!Broken, o = asked[s], db' = db PROVE StoreStep
  <2>1. Store!Break(s)
    BY <1>1, <1>4, <1>8 DEF Store!Break, Views
  <2> QED
    BY <2>1 DEF StoreStep, Store!Next
<1>9. ASSUME v # Store!Closed, u = Store!Closed, o = asked[s], db' = db PROVE StoreStep
  <2>1. Store!GiveUp(s)
    BY <1>1, <1>4, <1>9 DEF Store!GiveUp, Views
  <2> QED
    BY <2>1 DEF StoreStep, Store!Next
<1>10. ASSUME v = u, v # Store!Broken, asked[s] = NoOp, o \in Requests, db' = db PROVE StoreStep
  <2>1. Store!Ask(s)
    BY <1>1, <1>2, <1>3, <1>10 DEF Store!Ask, Views, NoOp, Op, Store!NoOp, Store!Op
  <2> QED
    BY <2>1 DEF StoreStep, Store!Next
<1> QED
  BY <1>5, <1>6, <1>7, <1>8, <1>9, <1>10 DEF v, u

\* The view of a session that has not failed is what it sees.
LEMMA SeenIs ==
    ASSUME ClientInv, NEW s \in Sessions, ~tx[s].err
    PROVE  /\ Store!Seen(s) = Seen(s) /\ Seen(s) \in Contents /\ Sound(Seen(s))
           /\ Views[s] # Store!Broken
           /\ Views[s] = Store!Closed <=> tx[s].depth = 0
<1>1. /\ tx[s] \in TxRecords /\ (tx[s].depth = 0 => tx[s] = NoTx) /\ Views[s] = Shown(tx[s])
  BY DEF ClientInv, TypeOK, TxRecords, Views, ViewOf, Shown, InTx
<1>2. /\ Views[s] = Store!Closed <=> tx[s].depth = 0
      /\ Views[s] # Store!Broken
      /\ tx[s].lock = "none" => Views[s].state # "open"
      /\ tx[s].lock # "none" => Views[s] = Store!Opened(tx[s].view)
  BY <1>1, ShownIs, ViewsDiffer DEF NoTx
<1>3. Store!Seen(s) = IF Views[s].state = "open" THEN Views[s].d ELSE db
  BY DEF Store!Seen, Views
<1>4. Store!Seen(s) = Seen(s)
  BY <1>2, <1>3, ViewsDiffer DEF Seen
<1>5. Seen(s) \in Contents /\ Sound(Seen(s))
  BY DEF Seen, ClientInv, TypeOK
<1> QED
  BY <1>2, <1>4, <1>5

\* An operation is done, or refused for a reason.
LEMMA MovesDo ==
    ASSUME ClientInv, NEW s \in Sessions, NEW w, Moves(s, w, NoOp), asked[s] # NoOp, ~tx[s].err,
           schema' = schema, NEW d
    PROVE  LET u == Shown(w) IN
           /\ /\ CanWrite(s) /\ Valid(asked[s], Seen(s)) /\ d = Outcome(asked[s], Seen(s))
              /\ IF tx[s].depth = 0 THEN db' = d /\ w = tx[s] ELSE u = Store!Opened(d) /\ db' = db
              => StoreStep
           /\ /\ ~CanWrite(s) \/ ~Valid(asked[s], Seen(s))
              /\ db' = db /\ IF tx[s].depth = 0 THEN w = tx[s] ELSE u = Store!Broken
              => StoreStep
<1> DEFINE u == Shown(w)
           op == asked[s]
<1>1. /\ \A t \in Sessions : /\ Views[t] = Shown(tx[t]) /\ tx[t] \in TxRecords
                             /\ (tx[t].depth = 0 => tx[t] = NoTx)
      /\ Views' = [Views EXCEPT ![s] = u]
  BY ViewsMove
<1>2. /\ Store!Seen(s) = Seen(s) /\ (Views[s] = Store!Closed <=> tx[s].depth = 0)
  BY SeenIs
<1>3. asked' = [asked EXCEPT ![s] = Store!NoOp] /\ asked[s] # Store!NoOp
  BY StoreOperations DEF Moves
<1>4. \A t \in Sessions : Views[t].state \in {"open", "broken"} <=> tx[t].lock # "none" \/ (tx[t].depth > 0 /\ tx[t].err)
  <2> TAKE t \in Sessions
  <2>1. tx[t] \in TxRecords /\ (tx[t].depth = 0 => tx[t] = NoTx) /\ Views[t] = Shown(tx[t])
    BY <1>1
  <2>2. tx[t].err \in BOOLEAN
    BY <2>1 DEF TxRecords
  <2> QED
    BY <2>1, <2>2, ShownIs, ViewsDiffer
<1>5. \A t \in Sessions : Views[t].state = "open" => tx[t].lock # "none"
  <2> TAKE t \in Sessions
  <2>1. tx[t] \in TxRecords /\ (tx[t].depth = 0 => tx[t] = NoTx) /\ Views[t] = Shown(tx[t])
    BY <1>1
  <2>2. tx[t].err \in BOOLEAN
    BY <2>1 DEF TxRecords
  <2> QED
    BY <2>1, <2>2, ShownIs, ViewsDiffer
<1>6. ASSUME w = tx[s] PROVE Views' = Views
  <2>1. u = Views[s] /\ Views = [t \in Sessions |-> Views[t]]
    BY <1>1, <1>6 DEF Views
  <2> HIDE DEF u
  <2> QED
    BY <1>1, <2>1
<1> HIDE DEF u
<1>7. ASSUME CanWrite(s), Valid(op, Seen(s)), d = Outcome(op, Seen(s)),
             IF tx[s].depth = 0 THEN db' = d /\ w = tx[s] ELSE u = Store!Opened(d) /\ db' = db
      PROVE  StoreStep
  <2>1. schema /\ \A t \in Sessions \ {s} : Views[t].state # "open"
    BY <1>5, <1>7 DEF CanWrite, Others
  <2>2. Store!Alone(s)
    BY <2>1 DEF Store!Alone, Views
  <2>3. Store!Valid(op, Store!Seen(s)) /\ Store!Outcome(op, Store!Seen(s)) = d
    BY <1>2, <1>7, StoreOperations
  <2>4. IF Views[s] = Store!Closed THEN db' = d /\ UNCHANGED Views
        ELSE Views' = [Views EXCEPT ![s] = Store!Opened(d)] /\ UNCHANGED db
    BY <1>1, <1>2, <1>6, <1>7
  <2>5. Store!Do(s)
    BY <1>3, <2>1, <2>2, <2>3, <2>4 DEF Store!Do, Views
  <2> QED
    BY <2>5 DEF StoreStep, Store!Next
<1>8. ASSUME ~CanWrite(s) \/ ~Valid(op, Seen(s)), db' = db,
             IF tx[s].depth = 0 THEN w = tx[s] ELSE u = Store!Broken
      PROVE  StoreStep
  <2>1. \/ ~schema \/ ~Store!Valid(op, Store!Seen(s))
        \/ \E t \in Sessions \ {s} : Views[t].state \in {"open", "broken"}
    BY <1>2, <1>4, <1>8, StoreOperations DEF CanWrite, Others
  <2>2. Views' = IF Views[s] = Store!Closed THEN Views ELSE [Views EXCEPT ![s] = Store!Broken]
    BY <1>1, <1>2, <1>6, <1>8
  <2>3. Store!Refuse(s)
    BY <1>3, <1>8, <2>1, <2>2 DEF Store!Refuse, Views
  <2> QED
    BY <2>3 DEF StoreStep, Store!Next
<1> QED
  BY <1>7, <1>8 DEF u

\* A transaction and the locks of the others.
LEMMA TxIs ==
    ASSUME ClientInv, NEW s \in Sessions
    PROVE  /\ tx \in [Sessions -> TxRecords] /\ tx[s] \in TxRecords /\ asked[s] \in Requests \cup {NoOp}
           /\ tx[s].depth \in 0..MaxDepth /\ tx[s].err \in BOOLEAN /\ tx[s].view \in Contents
           /\ tx[s].lock \in {"none", "read", "write"}
           /\ tx[s].depth = 0 => tx[s] = NoTx
           /\ tx[s].depth \in Nat /\ MaxDepth \in Nat \ {0} /\ (InTx(s) <=> tx[s].depth # 0)
           /\ tx[s].lock = "write" => \A t \in Others(s) : tx[t].lock = "none"
           /\ tx[s].lock # "none" => \A t \in Others(s) : tx[t].lock # "write"
           /\ tx[s].lock = "read" => tx[s].view = db
           /\ ~tx[s].err /\ tx[s].lock # "none" => Sound(tx[s].view)
           /\ asked \in [Sessions -> Requests \cup {NoOp}] /\ (asked[s] # NoOp => ~tx[s].err)
           /\ schema \in BOOLEAN /\ db \in Contents /\ Sound(db)
<1>1. /\ tx \in [Sessions -> TxRecords] /\ asked \in [Sessions -> Requests \cup {NoOp}]
      /\ (tx[s].depth = 0 => tx[s] = NoTx) /\ schema \in BOOLEAN /\ db \in Contents /\ Sound(db)
  BY DEF ClientInv, TypeOK, TxRecords
<1>2. tx[s] \in TxRecords /\ asked[s] \in Requests \cup {NoOp}
  BY <1>1
<1>3. /\ tx[s].depth \in 0..MaxDepth /\ tx[s].err \in BOOLEAN /\ tx[s].view \in Contents
      /\ tx[s].lock \in {"none", "read", "write"}
  BY <1>2 DEF TxRecords
<1>4. tx[s].depth \in Nat /\ MaxDepth \in Nat \ {0} /\ (InTx(s) <=> tx[s].depth # 0)
  BY <1>3, ClientAssumption DEF InTx
<1>5. tx[s].lock # "none" => \A t \in Others(s) : tx[t].lock # "write"
  <2> SUFFICES ASSUME tx[s].lock # "none", NEW t \in Others(s), tx[t].lock = "write" PROVE FALSE
    OBVIOUS
  <2>1. t \in Sessions /\ s \in Others(t)
    BY DEF Others
  <2> QED
    BY <2>1 DEF ClientInv
<1> QED
  BY <1>1, <1>2, <1>3, <1>4, <1>5 DEF ClientInv

\* Changes of a transaction, field by field.
LEMMA TxErr ==
    ASSUME NEW x \in TxRecords, NEW e
    PROVE  [x EXCEPT !.err = e] = [depth |-> x.depth, err |-> e, lock |-> x.lock, view |-> x.view]
<1>1. DOMAIN x = {"depth", "err", "lock", "view"}
  BY DEF TxRecords
<1> QED
  BY <1>1 DEF TxRecords

\* A transaction with another depth (TxWrap).
LEMMA TxDepth ==
    ASSUME NEW x \in TxRecords, NEW n
    PROVE  [x EXCEPT !.depth = n] = [depth |-> n, err |-> x.err, lock |-> x.lock, view |-> x.view]
<1>1. DOMAIN x = {"depth", "err", "lock", "view"}
  BY DEF TxRecords
<1> QED
  BY <1>1 DEF TxRecords

\* A transaction with another lock and another view.
LEMMA TxRead ==
    ASSUME NEW x \in TxRecords, NEW l, NEW v
    PROVE  [x EXCEPT !.lock = l, !.view = v] = [depth |-> x.depth, err |-> x.err, lock |-> l, view |-> v]
<1> DEFINE y == [x EXCEPT !.lock = l, !.view = v]
<1>1. DOMAIN x = {"depth", "err", "lock", "view"}
  BY DEF TxRecords
<1>2. y = [f \in {"depth", "err", "lock", "view"} |->
             IF f = "view" THEN v ELSE IF f = "lock" THEN l ELSE x[f]]
  BY <1>1, Zenon
<1> HIDE DEF y
<1> QED
  BY <1>2 DEF y

\* A transaction with another lock, view and error (Save).
LEMMA TxWritten ==
    ASSUME NEW x \in TxRecords, NEW l, NEW v, NEW e
    PROVE  [x EXCEPT !.lock = l, !.view = v, !.err = e] =
             [depth |-> x.depth, err |-> e, lock |-> l, view |-> v]
<1> DEFINE y == [x EXCEPT !.lock = l, !.view = v, !.err = e]
<1>1. DOMAIN x = {"depth", "err", "lock", "view"}
  BY DEF TxRecords
<1>2. y = [f \in {"depth", "err", "lock", "view"} |->
             IF f = "err" THEN e ELSE IF f = "view" THEN v ELSE IF f = "lock" THEN l ELSE x[f]]
  BY <1>1, Zenon
<1> HIDE DEF y
<1> QED
  BY <1>2 DEF y

\* An error in a transaction breaks it.
LEMMA ErrorMoves ==
    ASSUME ClientInv, NEW s \in Sessions, InTx(s), Error(s), asked' = [asked EXCEPT ![s] = NoOp],
           schema' = schema, db' = db
    PROVE  \E w : Moves(s, w, NoOp) /\ Shown(w) = Store!Broken
<1> DEFINE w == [depth |-> tx[s].depth, err |-> TRUE, lock |-> tx[s].lock, view |-> tx[s].view]
<1>0. tx[s].depth # 0 /\ tx[s].depth \in Nat
  BY TxIs
<1>1. tx' = [tx EXCEPT ![s] = w]
  <2>1. tx' = [tx EXCEPT ![s].err = TRUE]
    BY DEF Error
  <2>2. [tx[s] EXCEPT !.err = TRUE] = w
    BY TxIs, TxErr
  <2> HIDE DEF w
  <2> QED
    BY <2>1, <2>2
<1>2. w \in TxRecords /\ w.depth = tx[s].depth /\ w.err = TRUE /\ w.lock = tx[s].lock /\ w.view = tx[s].view
  BY TxIs DEF TxRecords
<1> HIDE DEF w
<1>3. w.depth # 0 /\ w.depth \in Nat
  BY <1>0, <1>2
<1>4. Moves(s, w, NoOp)
  BY <1>1, <1>2, <1>3, TxIs DEF Moves
<1>5. Shown(w) = Store!Broken
  BY <1>2, <1>3, ShownIs
<1> QED
  BY <1>4, <1>5

\* A Save does the operation, or refuses it for a reason.
LEMMA SaveStep ==
    ASSUME ClientInv, NEW s \in Sessions, asked[s] \in Requests, asked[s] # NoOp, ~tx[s].err,
           NEW r, RightResult(asked[s], Seen(s), r), Save(s, r)
    PROVE  ClientInv' /\ StoreStep
<1> DEFINE op == asked[s]
           d == Seen(s)
<1>1. /\ asked' = [asked EXCEPT ![s] = NoOp] /\ schema' = schema /\ d \in Contents /\ Sound(d)
      /\ r.ok \in BOOLEAN /\ r.d \in Contents /\ (r.ok <=> Valid(op, d)) /\ (r.ok => r.d = Outcome(op, d))
  BY SeenIs DEF Save, RightResult
<1>2. r.ok => Sound(r.d)
  BY <1>1 DEF Valid, Sound
<1>3. CASE CanWrite(s) /\ InTx(s)
  <2> DEFINE w == [depth |-> tx[s].depth, err |-> ~r.ok, lock |-> "write", view |-> r.d]
  <2>1. tx' = [tx EXCEPT ![s] = w] /\ db' = db
    <3>1. tx' = [tx EXCEPT ![s].lock = "write", ![s].view = r.d, ![s].err = ~r.ok] /\ db' = db
      BY <1>3 DEF Save
    <3>2. [tx[s] EXCEPT !.lock = "write", !.view = r.d, !.err = ~r.ok] = w
      <4>1. tx[s] \in TxRecords
        BY TxIs
      <4> DEFINE e == ~r.ok
      <4> HIDE DEF e
      <4>2. [tx[s] EXCEPT !.lock = "write", !.view = r.d, !.err = e] =
              [depth |-> tx[s].depth, err |-> e, lock |-> "write", view |-> r.d]
        BY <4>1, TxWritten, Zenon
      <4> QED
        BY <4>2, Zenon DEF e
    <3> HIDE DEF w
    <3> QED
      BY <3>1, <3>2
  <2>2. w \in TxRecords /\ w.depth = tx[s].depth /\ w.err = ~r.ok /\ w.lock = "write" /\ w.view = r.d
    BY <1>1, TxIs DEF TxRecords
  <2> HIDE DEF w
  <2>3. w.depth # 0 /\ w.depth \in Nat /\ w.depth > 0 /\ tx[s].depth # 0
    <3>1. tx[s].depth # 0 /\ tx[s].depth \in Nat
      BY <1>3, TxIs
    <3> QED
      BY <2>2, <3>1
  <2>4. \A t \in Others(s) : tx[t].lock = "none"
    BY <1>3 DEF CanWrite
  <2>5. Moves(s, w, NoOp)
    BY <1>1, <1>2, <2>1, <2>2, <2>3, <2>4, TxIs DEF Moves
  <2>6. ClientInv'
    BY <2>5, MovesKeep
  <2>7. CASE r.ok
    <3>1. Shown(w) = Store!Opened(r.d)
      BY <2>2, <2>3, <2>7, ShownIs
    <3> QED
      BY <1>1, <1>3, <2>1, <2>3, <2>5, <2>6, <2>7, <3>1, MovesDo
  <2>8. CASE ~r.ok
    <3>1. Shown(w) = Store!Broken
      BY <2>2, <2>3, <2>8, ShownIs
    <3> QED
      BY <1>1, <1>3, <2>1, <2>3, <2>5, <2>6, <2>8, <3>1, MovesDo
  <2> QED
    BY <1>1, <2>7, <2>8
<1>4. CASE CanWrite(s) /\ ~InTx(s)
  <2>1. db' = (IF r.ok THEN r.d ELSE db) /\ tx' = [tx EXCEPT ![s] = tx[s]] /\ tx[s] = NoTx /\ tx[s].depth = 0
    <3>1. db' = (IF r.ok THEN r.d ELSE db) /\ tx' = tx
      BY <1>4 DEF Save
    <3> QED
      BY <1>4, <3>1, TxIs
  <2>2. \A t \in Others(s) : tx[t].lock = "none"
    BY <1>4 DEF CanWrite
  <2>3. db' \in Contents /\ Sound(db')
    BY <1>1, <1>2, <2>1, TxIs
  <2>4. tx[s].lock = "none"
    BY <2>1 DEF NoTx
  <2>5. Moves(s, tx[s], NoOp)
    BY <1>1, <2>1, <2>2, <2>3, <2>4, TxIs DEF Moves
  <2>6. ClientInv'
    BY <2>5, MovesKeep
  <2>7. CASE r.ok
    BY <1>1, <1>4, <2>1, <2>5, <2>6, <2>7, MovesDo
  <2>8. CASE ~r.ok
    BY <1>1, <1>4, <2>1, <2>5, <2>6, <2>8, MovesDo
  <2> QED
    BY <1>1, <2>7, <2>8
<1>5. CASE ~CanWrite(s)
  <2>1. Error(s) /\ db' = db
    BY <1>5 DEF Save
  <2>2. CASE InTx(s)
    <3>1. PICK w : Moves(s, w, NoOp) /\ Shown(w) = Store!Broken
      BY <1>1, <2>1, <2>2, ErrorMoves
    <3>2. tx[s].depth # 0
      BY <2>2, TxIs
    <3> QED
      BY <1>1, <1>5, <2>1, <3>1, <3>2, MovesDo, MovesKeep
  <2>3. CASE ~InTx(s)
    <3>1. tx' = [tx EXCEPT ![s] = tx[s]] /\ tx[s].depth = 0
      BY <2>1, <2>3, TxIs DEF Error
    <3>2. Moves(s, tx[s], NoOp)
      BY <1>1, <2>1, <3>1, TxIs DEF Moves
    <3> QED
      BY <1>1, <1>5, <2>1, <3>1, <3>2, MovesDo, MovesKeep
  <2> QED
    BY <2>2, <2>3
<1> QED
  BY <1>3, <1>4, <1>5

\* A create without all its fields is refused before any statement.
LEMMA CheckFailsStep ==
    ASSUME ClientInv, NEW s \in Sessions, asked[s] # NoOp, ~tx[s].err,
           ~Valid(asked[s], Seen(s)), CheckFails(s)
    PROVE  ClientInv' /\ StoreStep
<1>1. Error(s) /\ asked' = [asked EXCEPT ![s] = NoOp] /\ schema' = schema /\ db' = db
  BY DEF CheckFails
<1>2. CASE InTx(s)
  <2>1. PICK w : Moves(s, w, NoOp) /\ Shown(w) = Store!Broken
    BY <1>1, <1>2, ErrorMoves
  <2>2. tx[s].depth # 0
    BY <1>2, TxIs
  <2> QED
    BY <1>1, <2>1, <2>2, MovesDo, MovesKeep
<1>3. CASE ~InTx(s)
  <2>1. tx' = [tx EXCEPT ![s] = tx[s]] /\ tx[s].depth = 0
    BY <1>1, <1>3, TxIs DEF Error
  <2>2. Moves(s, tx[s], NoOp)
    BY <1>1, <2>1, TxIs DEF Moves
  <2> QED
    BY <1>1, <2>1, <2>2, MovesDo, MovesKeep
<1> QED
  BY <1>2, <1>3

\* A query in a transaction reads the database for the rest of it.
LEMMA QueryStep ==
    ASSUME ClientInv, NEW s \in Sessions, Query(s)
    PROVE  ClientInv' /\ StoreStep
<1>1. /\ asked[s] = NoOp /\ ~tx[s].err /\ InTx(s) /\ tx[s].lock = "none" /\ schema' = schema /\ db' = db
      /\ asked' = [asked EXCEPT ![s] = NoOp] /\ tx[s].depth # 0 /\ tx[s].depth > 0
  <2>1. /\ asked[s] = NoOp /\ ~tx[s].err /\ InTx(s) /\ tx[s].lock = "none"
        /\ schema' = schema /\ db' = db /\ asked' = asked
    BY DEF Query, Idle
  <2> QED
    BY <2>1, TxIs
<1>2. Shown(tx[s]) = Store!Fresh
  BY <1>1, TxIs, ShownIs
<1>3. CASE CanRead(s) /\ tx' = [tx EXCEPT ![s].lock = "read", ![s].view = db]
  <2> DEFINE w == [depth |-> tx[s].depth, err |-> tx[s].err, lock |-> "read", view |-> db]
  <2>1. tx' = [tx EXCEPT ![s] = w]
    <3>1. [tx[s] EXCEPT !.lock = "read", !.view = db] = w
      <4>1. tx[s] \in TxRecords
        BY TxIs
      <4> QED
        BY <4>1, TxRead, Zenon
    <3> HIDE DEF w
    <3> QED
      BY <1>3, <3>1
  <2>2. w \in TxRecords /\ w.depth = tx[s].depth /\ w.err = tx[s].err /\ w.lock = "read" /\ w.view = db
    BY TxIs DEF TxRecords
  <2> HIDE DEF w
  <2>3. \A t \in Others(s) : tx[t].lock # "write"
    BY <1>3 DEF CanRead
  <2>4. Moves(s, w, NoOp)
    BY <1>1, <2>1, <2>2, <2>3, TxIs DEF Moves
  <2>5. Shown(w) = Store!Opened(db)
    BY <1>1, <2>2, ShownIs
  <2> QED
    BY <1>1, <1>2, <2>4, <2>5, MovesKeep, MovesAreSteps
<1>4. CASE ~CanRead(s) /\ Error(s)
  <2>1. PICK w : Moves(s, w, NoOp) /\ Shown(w) = Store!Broken
    BY <1>1, <1>4, ErrorMoves
  <2> QED
    BY <1>1, <1>2, <2>1, ViewsDiffer, MovesKeep, MovesAreSteps
<1> QED
  BY <1>3, <1>4 DEF Query

\* An error of the function breaks the transaction.
LEMMA ErrorStep ==
    ASSUME ClientInv, NEW s \in Sessions, Idle(s), InTx(s), Error(s), UNCHANGED <<schema, db, asked>>
    PROVE  ClientInv' /\ StoreStep
<1>1. /\ asked[s] = NoOp /\ ~tx[s].err /\ schema' = schema /\ db' = db
      /\ asked' = [asked EXCEPT ![s] = NoOp]
  BY TxIs DEF Idle
<1>2. PICK w : Moves(s, w, NoOp) /\ Shown(w) = Store!Broken
  BY <1>1, ErrorMoves
<1>3. Shown(tx[s]) # Store!Closed
  BY <1>1, TxIs, ShownIs, ViewsDiffer
<1> QED
  BY <1>1, <1>2, <1>3, MovesKeep, MovesAreSteps

\* A new transaction has not touched the database.
LEMMA BeginStep ==
    ASSUME ClientInv, NEW s \in Sessions, Idle(s), ~InTx(s), BeginTx(s), UNCHANGED <<schema, db, asked>>
    PROVE  ClientInv' /\ StoreStep
<1> DEFINE w == [depth |-> 1, err |-> tx[s].err, lock |-> tx[s].lock, view |-> tx[s].view]
<1>1. /\ asked[s] = NoOp /\ ~tx[s].err /\ schema' = schema /\ db' = db
      /\ asked' = [asked EXCEPT ![s] = NoOp] /\ tx[s].depth = 0
  BY TxIs DEF Idle
<1>0. tx[s].lock = "none" /\ tx[s].err \in BOOLEAN /\ tx[s].view \in Contents /\ 1 \in 0..MaxDepth
  BY <1>1, TxIs DEF NoTx
<1>2. tx' = [tx EXCEPT ![s] = w]
  <2>1. [tx[s] EXCEPT !.depth = 1] = w
    BY TxIs, TxDepth
  <2> HIDE DEF w
  <2> QED
    BY <2>1 DEF BeginTx
<1>3. w \in TxRecords /\ w.depth = 1 /\ w.err = tx[s].err /\ w.lock = "none"
  BY <1>0 DEF TxRecords
<1> HIDE DEF w
<1>4. Moves(s, w, NoOp)
  <2>1. schema' \in BOOLEAN /\ db' \in Contents /\ Sound(db') /\ db' = db
    BY <1>1, TxIs
  <2>2. w.depth # 0 /\ w.lock # "write" /\ w.lock # "read"
    BY <1>3
  <2> QED
    BY <1>1, <1>2, <1>3, <2>1, <2>2 DEF Moves
<1>5. Shown(w) = Store!Fresh /\ Shown(tx[s]) = Store!Closed
  BY <1>1, <1>3, TxIs, ShownIs
<1> QED
  BY <1>1, <1>4, <1>5, MovesKeep, MovesAreSteps

\* Another level of a transaction, or one less, shows the same.
LEMMA LevelStep ==
    ASSUME ClientInv, NEW s \in Sessions, asked[s] = NoOp, InTx(s), NEW n \in 1..MaxDepth,
           tx' = [tx EXCEPT ![s].depth = n], UNCHANGED <<schema, db, asked>>
    PROVE  ClientInv' /\ StoreStep
<1> DEFINE w == [depth |-> n, err |-> tx[s].err, lock |-> tx[s].lock, view |-> tx[s].view]
<1>1. /\ schema' = schema /\ db' = db
      /\ asked' = [asked EXCEPT ![s] = NoOp] /\ tx[s].depth # 0 /\ tx[s].depth > 0
  BY TxIs
<1>2. tx' = [tx EXCEPT ![s] = w]
  <2>1. [tx[s] EXCEPT !.depth = n] = w
    BY TxIs, TxDepth
  <2> HIDE DEF w
  <2> QED
    BY <2>1
<1>3. /\ w \in TxRecords /\ w.depth = n /\ w.err = tx[s].err /\ w.lock = tx[s].lock /\ w.view = tx[s].view
      /\ w.depth # 0 /\ w.depth > 0
  BY TxIs DEF TxRecords
<1> HIDE DEF w
<1>4. Moves(s, w, NoOp)
  BY <1>1, <1>2, <1>3, TxIs DEF Moves
<1>5. Shown(w) = Shown(tx[s])
  BY <1>1, <1>3, TxIs DEF Shown
<1> QED
  BY <1>1, <1>4, <1>5, MovesKeep, MovesAreSteps

\* The end of a transaction, with or without what it did.
LEMMA EndStep ==
    ASSUME ClientInv, NEW s \in Sessions, asked[s] = NoOp, InTx(s), tx' = [tx EXCEPT ![s] = NoTx],
           UNCHANGED <<schema, asked>>, db' = db \/ (~tx[s].err /\ db' = Seen(s))
    PROVE  ClientInv' /\ StoreStep
<1>1. /\ asked' = [asked EXCEPT ![s] = NoOp] /\ tx[s].depth # 0 /\ tx[s].depth > 0 /\ schema' = schema
      /\ NoTx \in TxRecords /\ NoTx.depth = 0 /\ NoTx.lock = "none"
  BY TxIs, EmptyIsSound DEF NoTx
<1>2. ~tx[s].err => Seen(s) \in Contents /\ Sound(Seen(s))
  BY SeenIs
<1>3. db' # db => \A t \in Others(s) : tx[t].lock = "none"
  BY TxIs DEF Seen
<1>4. Moves(s, NoTx, NoOp)
  BY <1>1, <1>2, <1>3, TxIs DEF Moves
<1>5. Shown(NoTx) = Store!Closed /\ Shown(tx[s]) # Store!Closed
  BY <1>1, TxIs, ShownIs, ViewsDiffer
<1>6. CASE db' = db
  BY <1>1, <1>4, <1>5, <1>6, MovesKeep, MovesAreSteps
<1>7. CASE db' # db
  <2>1. /\ Views' = [Views EXCEPT ![s] = Store!Closed] /\ Views[s] = Shown(tx[s])
        /\ \A t \in Sessions : /\ Views[t] = Shown(tx[t]) /\ tx[t] \in TxRecords
                               /\ (tx[t].depth = 0 => tx[t] = NoTx)
    BY <1>4, <1>5, ViewsMove
  <2>2. ~tx[s].err /\ db' = Seen(s) /\ Store!Seen(s) = Seen(s)
    BY <1>7, SeenIs
  <2>3. Views[s].state \in {"fresh", "open"}
    BY <1>1, <2>1, <2>2, TxIs, ShownIs, ViewsDiffer
  <2>4. \A t \in Sessions \ {s} : Views[t].state # "open"
    <3> TAKE t \in Sessions \ {s}
    <3>1. tx[t].lock = "none" /\ t \in Sessions
      BY <1>3, <1>7 DEF Others
    <3>2. tx[t].err \in BOOLEAN /\ tx[t] \in TxRecords /\ Views[t] = Shown(tx[t]) /\ (tx[t].depth = 0 => tx[t] = NoTx)
      BY <2>1, <3>1 DEF TxRecords
    <3> QED
      BY <3>1, <3>2, ShownIs, ViewsDiffer
  <2>5. Store!Alone(s)
    BY <2>4 DEF Store!Alone, Views
  <2>6. Store!Commit(s)
    BY <2>1, <2>2, <2>3, <2>5, StoreOperations DEF Store!Commit, Views
  <2> QED
    BY <1>4, <2>6, MovesKeep DEF StoreStep, Store!Next
<1> QED
  BY <1>6, <1>7

\* Every step keeps the invariant and is a step of the store, or none of its.
LEMMA ClientSteps ==
    ASSUME ClientInv, [Next]_vars
    PROVE  ClientInv' /\ StoreStep
<1>1. ASSUME SchemaCreate PROVE ClientInv' /\ StoreStep
  <2>1. ~schema /\ schema' = TRUE /\ db' = db /\ asked' = asked /\ tx' = tx
    BY <1>1 DEF SchemaCreate
  <2>2. ClientInv'
    BY <2>1 DEF ClientInv, TypeOK, Sound, NamesDiffer, LinksExist, Exists, Others
  <2>3. Store!Prepare
    BY <2>1 DEF Store!Prepare, ViewOf, InTx
  <2> QED
    BY <2>2, <2>3 DEF StoreStep, Store!Next
<1>2. ASSUME NEW s \in Sessions, PodStep(s) \/ ResourceStep(s) PROVE ClientInv' /\ StoreStep
  <2>1. /\ asked[s] \in Requests /\ asked[s] # NoOp /\ ~tx[s].err
        /\ \/ \E r : RightResult(asked[s], Seen(s), r) /\ Save(s, r)
           \/ CheckFails(s) /\ ~Valid(asked[s], Seen(s))
    BY <1>2, SavesAreRight
  <2>2. CASE \E r : RightResult(asked[s], Seen(s), r) /\ Save(s, r)
    BY <2>1, <2>2, SaveStep
  <2>3. CASE CheckFails(s) /\ ~Valid(asked[s], Seen(s))
    BY <2>1, <2>3, CheckFailsStep
  <2> QED
    BY <2>1, <2>2, <2>3
<1>3. ASSUME NEW s \in Sessions, TxWrap(s) PROVE ClientInv' /\ StoreStep
  <2>1. Idle(s) /\ asked[s] = NoOp /\ UNCHANGED <<schema, db, asked>>
    BY <1>3 DEF TxWrap, Idle
  <2>2. CASE ~InTx(s) /\ BeginTx(s)
    BY <2>1, <2>2, BeginStep
  <2>3. CASE InTx(s) /\ tx[s].depth < MaxDepth /\ tx' = [tx EXCEPT ![s].depth = @ + 1]
    <3>1. tx[s].depth + 1 \in 1..MaxDepth
      BY <2>3, TxIs
    <3> QED
      BY <2>1, <2>3, <3>1, LevelStep
  <2> QED
    BY <1>3, <2>2, <2>3 DEF TxWrap
<1>4. ASSUME NEW s \in Sessions, TxWrapWithOptions(s) PROVE ClientInv' /\ StoreStep
  BY <1>4, BeginStep, ErrorStep DEF TxWrapWithOptions
<1>5. ASSUME NEW s \in Sessions, FnFails(s) PROVE ClientInv' /\ StoreStep
  BY <1>5, ErrorStep DEF FnFails
<1>6. ASSUME NEW s \in Sessions, wrapTxReturns(s) PROVE ClientInv' /\ StoreStep
  <2>1. InTx(s) /\ asked[s] = NoOp /\ UNCHANGED <<schema, asked>>
    BY <1>6 DEF wrapTxReturns
  <2>2. CASE tx[s].depth > 1 /\ tx' = [tx EXCEPT ![s].depth = @ - 1] /\ db' = db
    <3>1. tx[s].depth - 1 \in 1..MaxDepth
      BY <2>2, TxIs
    <3> QED
      BY <2>1, <2>2, <3>1, LevelStep
  <2>3. CASE tx[s].depth = 1 /\ tx[s].err /\ Rollback(s)
    BY <2>1, <2>3, EndStep DEF Rollback
  <2>4. CASE tx[s].depth = 1 /\ ~tx[s].err /\ Commit(s)
    BY <2>1, <2>4, EndStep DEF Commit, Rollback
  <2> QED
    BY <1>6, <2>2, <2>3, <2>4 DEF wrapTxReturns
<1>7. ASSUME NEW s \in Sessions, Query(s) PROVE ClientInv' /\ StoreStep
  BY <1>7, QueryStep
<1>8. ASSUME NEW s \in Sessions, NEW op \in Requests, Build(s, op) PROVE ClientInv' /\ StoreStep
  <2>1. /\ asked[s] = NoOp /\ ~tx[s].err /\ asked' = [asked EXCEPT ![s] = op]
        /\ schema' = schema /\ db' = db /\ tx' = tx
    BY <1>8 DEF Build, Idle
  <2>2. tx' = [tx EXCEPT ![s] = tx[s]]
    BY <2>1, TxIs
  <2>3. Moves(s, tx[s], op)
    BY <2>1, <2>2, TxIs DEF Moves
  <2>4. Shown(tx[s]) # Store!Broken
    BY <2>1, <2>3, SeenIs, ViewsMove
  <2> QED
    BY <2>1, <2>3, <2>4, MovesKeep, MovesAreSteps
<1>9. ASSUME UNCHANGED vars PROVE ClientInv' /\ StoreStep
  <2>1. schema' = schema /\ db' = db /\ asked' = asked /\ tx' = tx
    BY <1>9 DEF vars
  <2>2. ClientInv'
    BY <2>1 DEF ClientInv, TypeOK, Sound, NamesDiffer, LinksExist, Exists, Others
  <2>3. UNCHANGED Store!vars
    BY <2>1 DEF Store!vars, ViewOf, InTx
  <2> QED
    BY <2>2, <2>3 DEF StoreStep
<1> QED
  BY <1>1, <1>2, <1>3, <1>4, <1>5, <1>6, <1>7, <1>8, <1>9 DEF Next, TxStep

\* Nothing has been stored at first.
LEMMA ClientStarts ==
    ASSUME Init
    PROVE  ClientInv /\ Store!Init
<1>1. /\ schema = FALSE /\ db = Empty /\ asked = [s \in Sessions |-> NoOp] /\ tx = [s \in Sessions |-> NoTx]
  BY DEF Init
<1>2. Empty \in Contents /\ Sound(Empty) /\ NoTx \in TxRecords /\ NoTx.depth = 0 /\ NoTx.lock = "none"
  BY EmptyIsSound, ClientAssumption DEF NoTx
<1>3. TypeOK
  BY <1>1, <1>2 DEF TypeOK, TxRecords
<1>4. ClientInv
  BY <1>1, <1>2, <1>3 DEF ClientInv
<1>5. [s \in Sessions |-> ViewOf(s)] = [s \in Sessions |-> Store!Closed]
  BY <1>1, <1>2, StoreOperations DEF ViewOf, InTx, Store!Closed
<1>6. Store!Init
  BY <1>1, <1>5, StoreOperations DEF Store!Init
<1> QED
  BY <1>4, <1>6

\* The client's state is what its parts say it is, and the invariant holds in every state
\* (Save, txDriver, TxWrap).
THEOREM ClientInvariance == Spec => []ClientInv
<1>1. Init => ClientInv
  BY ClientStarts
<1>2. ClientInv /\ [Next]_vars => ClientInv'
  BY ClientSteps
<1> QED
  BY <1>1, <1>2, PTL DEF Spec

\* The state has its type, and no transaction outlives its outermost function (wrapTxReturns).
THEOREM ClientTypes == Spec => []TypeOK
<1>1. ClientInv => TypeOK
  BY DEF ClientInv
<1> QED
  BY <1>1, ClientInvariance, PTL

\* Names stay unique and links join rows that exist, whatever fails and however transactions are
\* nested and interleaved (the schema, Save, delete, TxWrap).
THEOREM ContentsAreConsistent == Spec => []Consistent
<1>1. ClientInv => Consistent
  BY DEF ClientInv, Consistent, Sound
<1> QED
  BY <1>1, ClientInvariance, PTL

\* An update of any number of calls does what they say in their order, but for the nodes that are
\* added before a clear, or fails (PodMutation, ResourceMutation, sqlSave).
THEOREM CallsAreInOrder == Spec => []CallsInOrder
<1>1. ClientInv => CallsInOrder
  <2> SUFFICES ASSUME ClientInv, NEW op \in LongUpdates
               PROVE  LET r == IF op.kind = "update" THEN update(op, db) ELSE updateOne(op, db)
                      IN  /\ r.ok = Valid(op, db)
                          /\ r.ok => /\ r.d.rows = Effect(op, db).rows
                                     /\ r.d.links = Effect(op, db).links \cup StillLinked(op, db)
    BY DEF CallsInOrder
  <2> DEFINE r == IF op.kind = "update" THEN update(op, db) ELSE updateOne(op, db)
  <2>1. db \in Contents /\ NamesDiffer(db.rows) /\ LinksExist(db)
    BY DEF ClientInv, TypeOK, Sound
  <2>2. PICK S \in {Pods, Resources} : op \in Updates(S, MaxCalls)
    BY DEF LongUpdates
  <2>3. op \in Operations(MaxCalls)
    BY <2>2 DEF Operations
  <2>4. PICK T \in {Pods, Resources} : OnTable(op, T)
    BY <2>3, OperationIs, ClientAssumption
  <2>5. op.kind \in {"update", "updateOne"}
    <3> DEFINE Calls == CallsOn(S, {"add", "remove", "clear"}, MaxCalls)
               One(ids) == {Op("updateOne", ids, v, c, "fail") : v \in Alike(S, ids), c \in Calls}
               Many == {Op("update", S, v, c, "fail") : v \in Alike(S, S), c \in Calls}
    <3>1. op \in UNION {One(ids) : ids \in Singles(S)} \/ op \in Many
      BY <2>2 DEF Updates
    <3>2. ASSUME NEW ids \in Singles(S), op \in One(ids) PROVE op.kind = "updateOne"
      BY <3>2 DEF Op
    <3>3. ASSUME op \in Many PROVE op.kind = "update"
      BY <3>3 DEF Op
    <3> HIDE DEF One, Many
    <3> QED
      BY <3>1, <3>2, <3>3
  <2>6. RightResult(op, db, r)
    BY <2>1, <2>4, <2>5, UpdatesAreRight
  <2> HIDE DEF r
  <2>7. r.ok \in BOOLEAN /\ (r.ok <=> Valid(op, db)) /\ (r.ok => r.d = Outcome(op, db))
    BY <2>6 DEF RightResult
  <2>8. Valid(op, db) \in BOOLEAN
    BY DEF Valid
  <2>9. /\ Outcome(op, db).rows = Effect(op, db).rows
        /\ Outcome(op, db).links = Effect(op, db).links \cup StillLinked(op, db)
    <3>1. Effect(op, db) = [rows |-> Effect(op, db).rows, links |-> Effect(op, db).links]
      BY DEF Effect
    <3> QED
      BY <3>1 DEF Outcome
  <2> QED
    BY <2>7, <2>8, <2>9 DEF r
<1> QED
  BY <1>1, ClientInvariance, PTL

\* Queries answer truly and give every row each of its neighbours once, in whatever order the
\* database returns the rows (Only, First, loadPods, loadResource).
THEOREM QueriesStayRight == Spec => []QueriesAreRight
<1>1. ClientInv => QueriesAreRight
  BY QueriesAnswerTruly, QueriesLoadNeighbours DEF ClientInv, TypeOK, QueriesAreRight
<1> QED
  BY <1>1, ClientInvariance, PTL

\* The client keeps the promises of RelationStore, step by step (Save, txDriver, TxWrap).
THEOREM ClientIsARelationStore == Spec => IsARelationStore
<1>1. Init => Store!Init
  BY ClientStarts
<1>2. ClientInv /\ [Next]_vars => [Store!Next]_Store!vars
  BY ClientSteps DEF StoreStep
<1> QED
  BY <1>1, <1>2, ClientInvariance, PTL DEF Spec, IsARelationStore, Store!Spec

=============================================================================

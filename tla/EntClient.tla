------------------------------ MODULE EntClient ------------------------------
(***************************************************************************)
(* The database client of internal/db/ent: builders that collect calls in  *)
(* a mutation, Save, which turns the mutation into statements, and TxWrap, *)
(* which runs a function in a transaction, in that of the caller if there  *)
(* is one.  Each session is a goroutine.  Behind the client are the        *)
(* library sqlgraph and an SQLite database shared by all connections.      *)
(*                                                                         *)
(* Save consists of several statements.  Outside of a transaction sqlgraph *)
(* opens one for them and rolls it back on an error; inside of one that    *)
(* roll back does nothing (txDriver) and what was done stays.              *)
(***************************************************************************)
EXTENDS EntQuery

CONSTANTS
    Sessions,
    MaxDepth,   \* bound on the nesting of TxWrap
    Requests,   \* the operations that sessions build
    MaxCalls    \* bound on the calls on the edge in one operation

ASSUME ClientAssumption ==
    MaxDepth \in Nat \ {0} /\ MaxCalls \in Nat /\ Requests \subseteq Operations(MaxCalls)

VARIABLES
    schema,     \* Schema.Create has been called
    db,         \* the contents that everyone sees
    asked,      \* the operation that each session has built
    tx          \* its transaction: [depth, err, lock, view]

vars == <<schema, db, asked, tx>>

LongUpdates == Updates(Pods, MaxCalls) \cup Updates(Resources, MaxCalls)

NoTx == [depth |-> 0, err |-> FALSE, lock |-> "none", view |-> Empty]

TypeOK ==
    /\ schema \in BOOLEAN /\ db \in Contents
    /\ asked \in [Sessions -> Requests \cup {NoOp}]
    /\ tx \in [Sessions -> [depth : 0..MaxDepth, err : BOOLEAN, lock : {"none", "read", "write"},
                            view : Contents]]
    /\ \A s \in Sessions : tx[s].depth = 0 => tx[s] = NoTx

Init ==
    /\ schema = FALSE /\ db = Empty
    /\ asked = [s \in Sessions |-> NoOp] /\ tx = [s \in Sessions |-> NoTx]

-----------------------------------------------------------------------------
(* Mutations.                                                              *)

newPodMutation == [added |-> {}, removed |-> {}, cleared |-> FALSE]
newResourceMutation == [added |-> {}, removed |-> {}, cleared |-> FALSE]

Added(m, id) == [m EXCEPT !.added = @ \cup {id}]
\* A mutated Removed: the id stays among the added ones.
RemovedOnly(m, id) == [m EXCEPT !.removed = @ \cup {id}]

Removed(m, id) == [m EXCEPT !.added = @ \ {id}, !.removed = @ \cup {id}]
Cleared(m) == [m EXCEPT !.cleared = TRUE]

\* AddResourceIDs, RemoveResourceIDs and ClearResource.
PodCall(m, c) ==
    CASE c.call = "add" -> Added(m, c.id)
      [] c.call = "remove" -> Removed(m, c.id)
      [] c.call = "clear" -> Cleared(m)

\* AddPodIDs, RemovePodIDs and ClearPods.
ResourceCall(m, c) ==
    CASE c.call = "add" -> Added(m, c.id)
      [] c.call = "remove" -> Removed(m, c.id)
      [] c.call = "clear" -> Cleared(m)

\* The calls one after the other.
PodMutation(op) ==
    LET m[i \in 0..Len(op.calls)] == IF i = 0 THEN newPodMutation ELSE PodCall(m[i - 1], op.calls[i])
    IN  m[Len(op.calls)]
ResourceMutation(op) ==
    LET m[i \in 0..Len(op.calls)] ==
          IF i = 0 THEN newResourceMutation ELSE ResourceCall(m[i - 1], op.calls[i])
    IN  m[Len(op.calls)]
Mutation(op) == IF op.ids \subseteq Pods THEN PodMutation(op) ELSE ResourceMutation(op)

-----------------------------------------------------------------------------
(* The statements of sqlgraph, and what they leave in contents d.          *)

Done(d) == [ok |-> TRUE, d |-> d]
Failed(d) == [ok |-> FALSE, d |-> d]

\* First the rows, then the links to clear, then the links to add.  To add one that is there
\* already does nothing.
Statements(S, rows, edges, d) ==
    LET d1 == [d EXCEPT !.rows = rows]
        d2 == [d1 EXCEPT !.links =
                 @ \ (IF edges.clear THEN LinksOf(S) ELSE {Link(n, m) : n \in S, m \in edges.remove})]
        d3 == [d2 EXCEPT !.links = @ \cup {Link(n, m) : n \in S, m \in edges.add}]
    IN  CASE ~NamesDiffer(rows) -> Failed(d)
          [] NamesDiffer(rows) /\ ~LinksExist(d3) -> Failed(d2)
          [] NamesDiffer(rows) /\ LinksExist(d3) -> Done(d3)

SetRows(op, S, d) == [n \in Nodes |-> IF n \in S /\ op.val[n] # 0 THEN op.val[n] ELSE d.rows[n]]

\* A clear leaves the removed ones aside.
updateSpec(m) == [clear |-> m.cleared, remove |-> IF m.cleared THEN {} ELSE m.removed, add |-> m.added]
createSpec(m) == [clear |-> FALSE, remove |-> {}, add |-> m.added]

\* An insert that does nothing in case of a conflict returns no row, which is an error.
create(op, d) ==
    IF op.conflict \in {"fail", "nothing"} /\ Found(op, d) # {} THEN Failed(d)
    ELSE Statements(op.ids, SetRows(op, op.ids, d), createSpec(Mutation(op)), d)

updateOne(op, d) ==
    IF Found(op, d) = {} THEN Failed(d)
    ELSE Statements(op.ids, SetRows(op, op.ids, d), updateSpec(Mutation(op)), d)

update(op, d) ==
    LET S == Found(op, d) IN
    IF S = {} THEN Done(d) ELSE Statements(S, SetRows(op, S, d), updateSpec(Mutation(op)), d)

\* A mutated Cascade: the foreign keys do not cascade.
NoCascade(S, d) == d.links \ LinksOf({})

\* The foreign keys of pod_resource cascade.
Cascade(S, d) == d.links \ LinksOf(S)
delete(op, d) ==
    Done([rows |-> [n \in Nodes |-> IF n \in op.ids THEN 0 ELSE d.rows[n]], links |-> Cascade(op.ids, d)])
deleteOne(op, d) == IF Found(op, d) = {} THEN Failed(d) ELSE delete(op, d)

-----------------------------------------------------------------------------
(* The connections to SQLite: a transaction that has read keeps others     *)
(* from writing, one that has written keeps them from reading as well.     *)
(* Who meets a lock gets an error.                                         *)

Others(s) == Sessions \ {s}
CanRead(s) == schema /\ \A t \in Others(s) : tx[t].lock # "write"
CanWrite(s) == schema /\ \A t \in Others(s) : tx[t].lock = "none"
Seen(s) == IF tx[s].lock = "none" THEN db ELSE tx[s].view

InTx(s) == tx[s].depth > 0
Idle(s) == asked[s] = NoOp /\ ~tx[s].err

\* The error goes to the function in the transaction, if there is one.
Error(s) == tx' = IF InTx(s) THEN [tx EXCEPT ![s].err = TRUE] ELSE tx

\* The statements come to r, if they can be run.
Save(s, r) ==
    /\ asked' = [asked EXCEPT ![s] = NoOp]
    /\ \/ /\ CanWrite(s) /\ InTx(s)
          /\ tx' = [tx EXCEPT ![s].lock = "write", ![s].view = r.d, ![s].err = ~r.ok]
          /\ UNCHANGED db
       \/ /\ CanWrite(s) /\ ~InTx(s)
          /\ db' = (IF r.ok THEN r.d ELSE db) /\ UNCHANGED tx
       \/ ~CanWrite(s) /\ Error(s) /\ UNCHANGED db
    /\ UNCHANGED schema

Asks(s, T, kind) == asked[s].kind = kind /\ asked[s].ids \subseteq T

check(op) == \A n \in op.ids : op.val[n] # 0
\* Before any statement.
CheckFails(s) ==
    /\ ~check(asked[s]) /\ Error(s)
    /\ asked' = [asked EXCEPT ![s] = NoOp] /\ UNCHANGED <<schema, db>>
SaveCreate(s) == (check(asked[s]) /\ Save(s, create(asked[s], Seen(s)))) \/ CheckFails(s)

PodCreate(s) == Asks(s, Pods, "create") /\ asked[s].conflict = "fail" /\ SaveCreate(s)
PodUpsertOne(s) == Asks(s, Pods, "create") /\ asked[s].conflict # "fail" /\ SaveCreate(s)
PodCreateBulk(s) == Asks(s, Pods, "createBulk") /\ SaveCreate(s)
PodUpdate(s) == Asks(s, Pods, "update") /\ Save(s, update(asked[s], Seen(s)))
PodUpdateOne(s) == Asks(s, Pods, "updateOne") /\ Save(s, updateOne(asked[s], Seen(s)))
PodDelete(s) == Asks(s, Pods, "delete") /\ Save(s, delete(asked[s], Seen(s)))
PodDeleteOne(s) == Asks(s, Pods, "deleteOne") /\ Save(s, deleteOne(asked[s], Seen(s)))

ResourceCreate(s) == Asks(s, Resources, "create") /\ asked[s].conflict = "fail" /\ SaveCreate(s)
ResourceUpsertOne(s) == Asks(s, Resources, "create") /\ asked[s].conflict # "fail" /\ SaveCreate(s)
ResourceCreateBulk(s) == Asks(s, Resources, "createBulk") /\ SaveCreate(s)
ResourceUpdate(s) == Asks(s, Resources, "update") /\ Save(s, update(asked[s], Seen(s)))
ResourceUpdateOne(s) == Asks(s, Resources, "updateOne") /\ Save(s, updateOne(asked[s], Seen(s)))
ResourceDelete(s) == Asks(s, Resources, "delete") /\ Save(s, delete(asked[s], Seen(s)))
ResourceDeleteOne(s) == Asks(s, Resources, "deleteOne") /\ Save(s, deleteOne(asked[s], Seen(s)))

\* An operation is built.  A builder belongs to its goroutine, so that it can be thought of as
\* built just before it is saved.
Build(s, op) ==
    /\ Idle(s) /\ \A t \in Sessions : asked[t] = NoOp
    /\ asked' = [asked EXCEPT ![s] = op] /\ UNCHANGED <<schema, db, tx>>

\* A query; outside of a transaction it leaves no trace.
Query(s) ==
    /\ Idle(s) /\ InTx(s) /\ tx[s].lock = "none"
    /\ \/ CanRead(s) /\ tx' = [tx EXCEPT ![s].lock = "read", ![s].view = db]
       \/ ~CanRead(s) /\ Error(s)
    /\ UNCHANGED <<schema, db, asked>>

-----------------------------------------------------------------------------
(* Transactions.                                                           *)

SchemaCreate ==
    /\ ~schema /\ \A s \in Sessions : tx[s].lock = "none"
    /\ schema' = TRUE /\ UNCHANGED <<db, asked, tx>>

BeginTx(s) == tx' = [tx EXCEPT ![s].depth = 1]

\* A new transaction, or another level of the one there is.
TxWrap(s) ==
    /\ Idle(s)
    /\ \/ ~InTx(s) /\ BeginTx(s)
       \/ InTx(s) /\ tx[s].depth < MaxDepth /\ tx' = [tx EXCEPT ![s].depth = @ + 1]
    /\ UNCHANGED <<schema, db, asked>>

\* With options there must be none.
TxWrapWithOptions(s) ==
    /\ Idle(s)
    /\ \/ ~InTx(s) /\ BeginTx(s)
       \/ InTx(s) /\ Error(s)
    /\ UNCHANGED <<schema, db, asked>>

\* The function fails by itself or panics.
FnFails(s) ==
    /\ Idle(s) /\ InTx(s) /\ Error(s) /\ UNCHANGED <<schema, db, asked>>

\* A mutated Rollback: only the wrapper forgets the transaction.
RollbackForgotten(s) == tx' = [tx EXCEPT ![s].depth = 0, ![s].err = FALSE] /\ UNCHANGED db

Rollback(s) == tx' = [tx EXCEPT ![s] = NoTx] /\ UNCHANGED db
\* It may fail, and is then rolled back by the driver.
Commit(s) ==
    \/ tx' = [tx EXCEPT ![s] = NoTx] /\ db' = Seen(s)
    \/ Rollback(s)

\* A mutated wrapTxReturns: the error of the function is not looked at.
wrapTxCommits(s) ==
    /\ InTx(s) /\ asked[s] = NoOp
    /\ \/ tx[s].depth > 1 /\ tx' = [tx EXCEPT ![s].depth = @ - 1] /\ UNCHANGED db
       \/ tx[s].depth = 1 /\ Commit(s)
    /\ UNCHANGED <<schema, asked>>

\* The function returns, with its error if it has met one.  An inner function leaves the
\* transaction to the outer one, which returns the error too.
wrapTxReturns(s) ==
    /\ InTx(s) /\ asked[s] = NoOp
    /\ \/ tx[s].depth > 1 /\ tx' = [tx EXCEPT ![s].depth = @ - 1] /\ UNCHANGED db
       \/ tx[s].depth = 1 /\ tx[s].err /\ Rollback(s)
       \/ tx[s].depth = 1 /\ ~tx[s].err /\ Commit(s)
    /\ UNCHANGED <<schema, asked>>

PodStep(s) ==
    PodCreate(s) \/ PodUpsertOne(s) \/ PodCreateBulk(s) \/ PodUpdate(s) \/ PodUpdateOne(s)
    \/ PodDelete(s) \/ PodDeleteOne(s)
ResourceStep(s) ==
    ResourceCreate(s) \/ ResourceUpsertOne(s) \/ ResourceCreateBulk(s) \/ ResourceUpdate(s)
    \/ ResourceUpdateOne(s) \/ ResourceDelete(s) \/ ResourceDeleteOne(s)
TxStep(s) == TxWrap(s) \/ TxWrapWithOptions(s) \/ FnFails(s) \/ wrapTxReturns(s) \/ Query(s)

Next ==
    \/ SchemaCreate
    \/ \E s \in Sessions :
         PodStep(s) \/ ResourceStep(s) \/ TxStep(s) \/ \E op \in Requests : Build(s, op)

Spec == Init /\ [][Next]_vars

-----------------------------------------------------------------------------
\* Names are unique and links join rows that exist, whatever fails (the schema, delete).
Consistent == NamesDiffer(db.rows) /\ LinksExist(db)

Quiet == \A s \in Sessions : asked[s] = NoOp /\ tx[s] = NoTx

\* Queries on the contents answer truly and load each neighbour once (see EntQuery).
QueriesAreRight == Quiet => LoadsNeighbours(db) /\ AnswersTruly(db)

\* By itself, an update does what its calls say, in their order, or fails: the sets of a mutation
\* and the order of the statements lose nothing (PodMutation, ResourceMutation, sqlSave).  The one
\* exception are the nodes that are added before a clear: they stay linked (see StillAdded).
CallsInOrder ==
    Quiet =>
      \A op \in LongUpdates :
        LET r == IF op.kind = "update" THEN update(op, db) ELSE updateOne(op, db)
        IN  /\ r.ok = Valid(op, db)
            /\ r.ok => /\ r.d.rows = Effect(op, db).rows
                       /\ r.d.links = Effect(op, db).links \cup StillLinked(op, db)

ViewOf(s) ==
    CASE ~InTx(s) -> [state |-> "closed", d |-> Empty]
      [] InTx(s) /\ tx[s].err -> [state |-> "broken", d |-> Empty]
      [] InTx(s) /\ ~tx[s].err /\ tx[s].lock = "none" -> [state |-> "fresh", d |-> Empty]
      [] OTHER -> [state |-> "open", d |-> tx[s].view]

Store ==
    INSTANCE RelationStore WITH ready <- schema, view <- [s \in Sessions |-> ViewOf(s)]

\* The client keeps the promises of RelationStore (the builders, Save, txDriver, TxWrap): each
\* operation has its outcome, or does nothing that is ever visible; and transactions are atomic,
\* nested ones as part of the outermost.
IsARelationStore == Store!Spec
=============================================================================

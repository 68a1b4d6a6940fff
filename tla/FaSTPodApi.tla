----------------------------- MODULE FaSTPodApi -----------------------------
(***************************************************************************)
(* The FaSTPods in the API server as the typed client sees them, and the   *)
(* watch from which an informer learns of their changes.  Every write has  *)
(* a revision; an object carries the revisions of its creation (its UID)   *)
(* and of its last write (its resource version, which stands for the       *)
(* contents of its spec as well: writes of the status are left out).       *)
(***************************************************************************)
EXTENDS Naturals, Sequences

CONSTANTS
    Names,      \* names of FaSTPods
    Functions,  \* values of the label fast_function
    Labels,     \* what a deployment may carry: such a value or NoLabel
    MaxWrites   \* bound on the number of writes

NoLabel == "no label"
NoName == ""   \* of an object that is empty, as a failed read leaves it

ASSUME ApiAssumption ==
    /\ NoName \notin Names
    /\ NoLabel \notin Functions /\ Labels \subseteq Functions \cup {NoLabel}
    /\ MaxWrites \in Nat

VARIABLES
    rev,        \* the revision of the last write
    fp,         \* the FaSTPods; one that does not exist has UID 0
    watch       \* for each name, the changes that the informer has not been sent yet

apiVars == <<rev, fp, watch>>

NoObject ==
    [uid |-> 0, rv |-> 0, fn |-> NoLabel, replicas |-> FALSE, init |-> FALSE, added |-> FALSE]
\* replicas: spec.replicas is set; init: there are init containers; added, a history: an
\* update has added them.
Objects ==
    [uid : 0..MaxWrites, rv : 0..MaxWrites, fn : Functions \cup {NoLabel},
     replicas : BOOLEAN, init : BOOLEAN, added : BOOLEAN]

ApiTypeOK ==
    /\ rev \in 0..MaxWrites
    /\ fp \in [Names -> Objects]
    /\ \A n \in Names : watch[n] \in Seq(Objects) /\ Len(watch[n]) <= MaxWrites

ApiInit ==
    /\ rev = 0
    /\ fp = [n \in Names |-> NoObject]
    /\ watch = [n \in Names |-> <<>>]

Exists(n) == fp[n].uid # 0

Write(n, o) ==
    /\ rev < MaxWrites /\ rev' = rev + 1
    /\ fp' = [fp EXCEPT ![n] = o]
    /\ watch' = [watch EXCEPT ![n] = Append(@, o)]

\* Create is refused when the name is taken.
CanCreate(n) == ~Exists(n)
Create(n, o) ==
    /\ CanCreate(n)
    /\ Write(n, [o EXCEPT !.uid = rev + 1, !.rv = rev + 1])

\* Update is refused when the object is not the one that was read, of resource version rv.
CanUpdate(n, rv) == Exists(n) /\ fp[n].rv = rv
Update(n, rv, o) == CanUpdate(n, rv) /\ Write(n, [o EXCEPT !.rv = rev + 1])

Delete(n) == Exists(n) /\ Write(n, NoObject)
=============================================================================

--------------------------- MODULE RelationStore ----------------------------
(***************************************************************************)
(* What the database client promises: operations take effect as a whole or *)
(* not at all, a transaction becomes visible as a whole when it is         *)
(* committed, and no transaction is committed over the work of another.    *)
(***************************************************************************)
EXTENDS Relations

CONSTANTS
    Sessions,
    Requests    \* the operations that may be asked for

VARIABLES
    ready,      \* the schema has been created
    db,         \* the contents
    asked,      \* the operation that each session has asked for
    view        \* the transaction of each session: [state, d]

vars == <<ready, db, asked, view>>

Closed == [state |-> "closed", d |-> Empty]
Fresh == [state |-> "fresh", d |-> Empty]       \* it has not touched the database
Broken == [state |-> "broken", d |-> Empty]     \* it can only be given up
Opened(d) == [state |-> "open", d |-> d]

Init ==
    /\ ready = FALSE /\ db = Empty
    /\ asked = [s \in Sessions |-> NoOp] /\ view = [s \in Sessions |-> Closed]

Alone(s) == \A t \in Sessions \ {s} : view[t].state # "open"
Seen(s) == IF view[s].state = "open" THEN view[s].d ELSE db

Prepare == ~ready /\ ready' = TRUE /\ UNCHANGED <<db, asked, view>>

Ask(s) ==
    /\ asked[s] = NoOp /\ view[s] # Broken
    /\ \E op \in Requests : asked' = [asked EXCEPT ![s] = op]
    /\ UNCHANGED <<ready, db, view>>

Begin(s) ==
    /\ view[s] = Closed /\ view' = [view EXCEPT ![s] = Fresh]
    /\ UNCHANGED <<ready, db, asked>>

Look(s) ==
    /\ view[s] = Fresh /\ view' = [view EXCEPT ![s] = Opened(db)]
    /\ UNCHANGED <<ready, db, asked>>

\* Outside of a transaction the outcome is visible at once.
Do(s) ==
    /\ asked[s] # NoOp /\ asked' = [asked EXCEPT ![s] = NoOp]
    /\ ready /\ Alone(s) /\ Valid(asked[s], Seen(s))
    /\ LET d == Outcome(asked[s], Seen(s)) IN
       IF view[s] = Closed THEN db' = d /\ UNCHANGED view
       ELSE view' = [view EXCEPT ![s] = Opened(d)] /\ UNCHANGED db
    /\ UNCHANGED ready

\* An operation is refused only for a reason.
Refuse(s) ==
    /\ asked[s] # NoOp /\ asked' = [asked EXCEPT ![s] = NoOp]
    /\ \/ ~ready \/ ~Valid(asked[s], Seen(s))
       \/ \E t \in Sessions \ {s} : view[t].state \in {"open", "broken"}
    /\ view' = IF view[s] = Closed THEN view ELSE [view EXCEPT ![s] = Broken]
    /\ UNCHANGED <<ready, db>>

Break(s) ==
    /\ view[s] # Closed /\ view' = [view EXCEPT ![s] = Broken]
    /\ UNCHANGED <<ready, db, asked>>

Commit(s) ==
    /\ view[s].state \in {"fresh", "open"} /\ asked[s] = NoOp
    /\ Alone(s) \/ Seen(s) = db
    /\ db' = Seen(s) /\ view' = [view EXCEPT ![s] = Closed]
    /\ UNCHANGED <<ready, asked>>

GiveUp(s) ==
    /\ view[s] # Closed /\ view' = [view EXCEPT ![s] = Closed]
    /\ UNCHANGED <<ready, db, asked>>

Next ==
    \/ Prepare
    \/ \E s \in Sessions :
         Begin(s) \/ Look(s) \/ Do(s) \/ Refuse(s) \/ Break(s) \/ Commit(s) \/ GiveUp(s) \/ Ask(s)

Spec == Init /\ [][Next]_vars
=============================================================================

----------------------------- MODULE LogChannel -----------------------------
(***************************************************************************)
(* What a log query promises: one bounded channel, from the readers of the *)
(* pods to the HTTP handler.  What is sent is received once and in order,  *)
(* and nothing is sent once the channel is closed.                         *)
(***************************************************************************)
EXTENDS Naturals, Sequences

CONSTANTS Message, Capacity

VARIABLES
    queue,      \* the messages under way
    closed,     \* the channel is closed
    out         \* the messages that have been received

vars == <<queue, closed, out>>

Init == queue = <<>> /\ closed = FALSE /\ out = <<>>

Send(m) ==
    /\ ~closed /\ Len(queue) < Capacity
    /\ queue' = Append(queue, m)
    /\ UNCHANGED <<closed, out>>

Receive ==
    /\ queue # <<>>
    /\ queue' = Tail(queue) /\ out' = Append(out, Head(queue))
    /\ UNCHANGED closed

Close ==
    /\ ~closed /\ closed' = TRUE
    /\ UNCHANGED <<queue, out>>

Next == (\E m \in Message : Send(m)) \/ Receive \/ Close

Spec == Init /\ [][Next]_vars
=============================================================================

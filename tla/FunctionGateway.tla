-------------------------- MODULE FunctionGateway ---------------------------
(***************************************************************************)
(* The handlers of the OpenFaaS gateway that change FaSTPods: deploy       *)
(* (makeApplyHandler) and delete (makeDeleteHandler).  The other handlers  *)
(* only read.                                                              *)
(***************************************************************************)
EXTENDS FaSTPodApi

CONSTANTS
    Requests,   \* deployments under way at a time
    Deployed    \* the names they are for

VARIABLE req        \* each request: [pc, name, label, rv]

Idle == [pc |-> "idle", name |-> NoName, label |-> NoLabel, rv |-> 0]

GatewayTypeOK ==
    req \in [Requests -> [pc : {"idle", "write"}, name : Names \cup {NoName}, label : Labels \cup {NoLabel},
                          rv : 0..MaxWrites]]

GatewayInit == req = [r \in Requests |-> Idle]

Answer(r) == req' = [req EXCEPT ![r] = Idle]

\* The FaSTPod is read.  An error other than "not found" is answered at once, as is a body
\* that is not JSON, and a request without labels ends in a panic of toFastpod: these change
\* nothing.
ApplyGet(r, n, l) ==
    /\ req[r] = Idle
    /\ req' = [req EXCEPT ![r] = [pc |-> "write", name |-> n, label |-> l, rv |-> fp[n].rv]]
    /\ UNCHANGED apiVars

\* What a request makes of FaSTPod o: it has neither replicas nor init containers.
toFastpod(o, l) ==
    [o EXCEPT !.fn = l, !.replicas = FALSE, !.init = FALSE, !.added = FALSE]

\* What was found is updated, what was not found is created; either may be refused.
ApplyWrite(r) ==
    LET n == req[r].name rv == req[r].rv IN
    /\ req[r].pc = "write" /\ Answer(r)
    /\ \/ rv = 0 /\ Create(n, toFastpod(NoObject, req[r].label))
       \/ rv = 0 /\ ~CanCreate(n) /\ UNCHANGED apiVars
       \/ rv # 0 /\ Update(n, rv, toFastpod(fp[n], req[r].label))
       \/ rv # 0 /\ ~CanUpdate(n, rv) /\ UNCHANGED apiVars

\* A single call.
DeleteFunction(n) == Delete(n) /\ UNCHANGED req

GatewayStep(r) ==
    \/ \E n \in Deployed, l \in Labels : ApplyGet(r, n, l)
    \/ ApplyWrite(r)
=============================================================================

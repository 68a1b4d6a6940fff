-------------------------- MODULE FunctionOperator --------------------------
(***************************************************************************)
(* The operator process of main.go: the gateway and the function           *)
(* controller over the same FaSTPods, which users and the auto-scaler      *)
(* change as well.                                                         *)
(***************************************************************************)
EXTENDS FunctionGateway, FunctionController

CONSTANT UserMade   \* the names of FaSTPods that users create

ASSUME NamesAssumption == UserMade \subseteq Names /\ Deployed \subseteq Names

vars == <<apiVars, req, ctrVars>>

OperatorTypeOK == ApiTypeOK /\ GatewayTypeOK /\ ControllerTypeOK

Init == ApiInit /\ GatewayInit /\ ControllerInit

\* A user makes a FaSTPod that has replicas and init containers.
UserCreates(n, l) == Create(n, [NoObject EXCEPT !.fn = l, !.replicas = TRUE, !.init = TRUE])
\* A user edits a FaSTPod: it has another function, or init containers where it had none.
UserEdits(n, l, init) ==
    Update(n, fp[n].rv, [fp[n] EXCEPT !.fn = l, !.init = init,
                                      !.added = init /\ (@ \/ ~fp[n].init)])
\* The auto-scaler sets the replicas.
AutoscalerScales(n) == Update(n, fp[n].rv, [fp[n] EXCEPT !.replicas = TRUE])

Others ==
    \/ \E n \in UserMade, l \in Labels : UserCreates(n, l)
    \/ \E n \in Names, l \in Labels, init \in BOOLEAN : UserEdits(n, l, init)
    \/ \E n \in Names : AutoscalerScales(n)

Next ==
    \/ (\E r \in Requests : GatewayStep(r)) /\ UNCHANGED ctrVars
    \/ (\E n \in Names : DeleteFunction(n)) /\ UNCHANGED ctrVars
    \/ Others /\ UNCHANGED <<req, ctrVars>>
    \/ (\E n \in Names : InformerStep(n) \/ HandlerStep(n)) /\ UNCHANGED req
    \/ SyncStep /\ UNCHANGED req
    \/ (\E f \in ServiceNames : ServiceCollected(f)) /\ UNCHANGED req
    \/ Restart /\ req' = [r \in Requests |-> Idle]

Spec == Init /\ [][Next]_vars

\* The informer delivers and resyncs, handlers and worker run, the collector collects.
\* Nothing is assumed of requests, users and faults.
Fairness ==
    /\ \A n \in Names : /\ WF_vars(InformerSees(n) /\ UNCHANGED req) /\ WF_vars(Resync(n) /\ UNCHANGED req)
                        /\ WF_vars(HandlerStep(n) /\ UNCHANGED req)
                        /\ WF_vars(SyncBegins(n) /\ UNCHANGED req)
    /\ WF_vars((SyncGetsService \/ SyncCreatesService \/ SyncUpdatesService) /\ UNCHANGED req)
    /\ \A f \in ServiceNames : WF_vars(ServiceCollected(f) /\ UNCHANGED req)

FairSpec == Spec /\ Fairness

-----------------------------------------------------------------------------
Caught == events = <<>> /\ \A n \in Names : watch[n] = <<>>

\* When the handlers have caught up, the database holds exactly the FaSTPods that exist,
\* unless a read failed or a list skipped changes (addFaSTPod, handleDeletedFaSTPod).
DatabaseFollows ==
    Caught /\ seen \cap {"get", "relist"} = {} => database \ {NoName} = {n \in Names : Exists(n)}

\* And every FaSTPod with init containers has its DaemonSet, be it that of an earlier FaSTPod
\* of the same name (addFaSTPod, newDaemonset): the handler may come to it only after several
\* updates.  One to which an update has added them need not have one: an update makes none
\* (enqueueFaSTPod).
InitContainersStarted ==
    Caught /\ seen \cap {"get", "relist", "daemonset"} = {} =>
      \A n \in Names : fp[n].init /\ ~fp[n].added => daemonset[n] # 0

HasFaSTPod(f) == \E n \in Names : Exists(n) /\ funcname(n, fp[n]) = f

\* A function with a FaSTPod has a Service in the end and keeps it, with the annotations of
\* one of its FaSTPods as it is now: although the Service dies with the FaSTPod that owns it, a Service whose
\* owner is gone counts as existing, the worker looks at cached objects and a sync that fails
\* is not repeated (syncHandler, newService, makeAnnotations, the resync of the informer).
ServiceConverges ==
    \A f \in ServiceNames :
      <>[]HasFaSTPod(f) =>
        <>[](\E n \in Names : Exists(n) /\ funcname(n, fp[n]) = f /\ service[f].spec = fp[n].rv)
=============================================================================

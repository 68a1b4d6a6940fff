------------------------- MODULE FunctionController -------------------------
(***************************************************************************)
(* The controller of pkg/controller, which shares its process with the     *)
(* gateway: for every FaSTPod an entry in the database of functions, a     *)
(* DaemonSet for its init containers, and a Service for its function.      *)
(* Several FaSTPods may carry the same fast_function label and then share  *)
(* one Service, which is owned by the one for which it was made.           *)
(***************************************************************************)
EXTENDS FaSTPodApi

CONSTANTS Faults, MaxFaults   \* the kinds of fault that may happen, and how many

ControllerFaults == {"get", "daemonset", "service", "relist", "restart"}
ASSUME FaultsAssumption == Faults \subseteq ControllerFaults /\ MaxFaults \in Nat

VARIABLES
    lister,     \* the informer's cache
    events,     \* the events that wait for their handlers: [kind, name]
    adding,     \* the FaSTPod that addFaSTPod has read, before it makes the DaemonSet
    database,   \* the functions with an entry in the database
    daemonset,  \* for each name, the UID of the FaSTPod its DaemonSet was made for, or 0
    queue,      \* the workqueue
    worker,     \* the worker in syncHandler: [pc, name, obj]
    service,    \* the Service of each function: [owner, spec], owner 0 for none
    faults,     \* the faults so far
    seen        \* history: their kinds

ctrVars == <<lister, events, adding, database, daemonset, queue, worker, service, faults, seen>>
handlerVars == <<adding, database, daemonset>>
workVars == <<worker, service>>

\* The function of FaSTPod o with name n.
funcname(n, o) == IF o.fn = NoLabel THEN n ELSE o.fn
ServiceNames == Functions \cup Names
NoService == [owner |-> 0, spec |-> 0]
AtRest == [pc |-> "idle", name |-> NoName, obj |-> NoObject]
Kinds == {"add", "update", "delete", "unknown"}

ControllerTypeOK ==
    /\ lister \in [Names -> Objects]
    /\ \A i \in 1..Len(events) : events[i] \in [kind : Kinds, name : Names]
    /\ adding \in Objects
    /\ database \subseteq Names \cup {NoName}
    /\ daemonset \in [Names -> 0..MaxWrites]
    /\ queue \subseteq Names
    /\ worker \in [pc : {"idle", "get", "create", "update"}, name : Names \cup {NoName}, obj : Objects]
    /\ service \in [ServiceNames -> [owner : 0..MaxWrites, spec : 0..MaxWrites]]
    /\ faults \in 0..MaxFaults /\ seen \subseteq Faults

ControllerInit ==
    /\ lister = [n \in Names |-> NoObject] /\ events = <<>>
    /\ adding = NoObject /\ database = {} /\ daemonset = [n \in Names |-> 0]
    /\ queue = {} /\ worker = AtRest
    /\ service = [f \in ServiceNames |-> NoService]
    /\ faults = 0 /\ seen = {}

Fault(k) == k \in Faults /\ faults < MaxFaults /\ faults' = faults + 1 /\ seen' = seen \cup {k}
NoFault == UNCHANGED <<faults, seen>>

-----------------------------------------------------------------------------
(* The informer.                                                           *)

Event(kind, n) == events' = Append(events, [kind |-> kind, name |-> n])

\* The next change from the watch.
InformerSees(n) ==
    /\ watch[n] # <<>> /\ watch' = [watch EXCEPT ![n] = Tail(@)]
    /\ lister' = [lister EXCEPT ![n] = Head(watch[n])]
    /\ \/ lister[n].uid = 0 /\ Event("add", n)
       \/ lister[n].uid # 0 /\ Head(watch[n]).uid # 0 /\ Event("update", n)
       \/ lister[n].uid # 0 /\ Head(watch[n]).uid = 0 /\ Event("delete", n)
    /\ UNCHANGED <<rev, fp, handlerVars, queue, workVars, faults, seen>>

\* The watch has broken, and the list that follows skips the changes in between.  An object
\* that is missing from the list is reported as deleted with an unknown final state.
Relist(n) ==
    /\ watch[n] # <<>> /\ watch' = [watch EXCEPT ![n] = <<>>]
    /\ Fault("relist")
    /\ lister' = [lister EXCEPT ![n] = fp[n]]
    /\ \/ lister[n].uid = 0 /\ Exists(n) /\ Event("add", n)
       \/ lister[n].uid # 0 /\ Exists(n) /\ Event("update", n)
       \/ lister[n].uid # 0 /\ ~Exists(n) /\ Event("unknown", n)
       \/ lister[n].uid = 0 /\ ~Exists(n) /\ UNCHANGED events
    /\ UNCHANGED <<rev, fp, handlerVars, queue, workVars>>

\* Every defaultResync the informer reports what is in its cache as updated.  The event would
\* wait behind all others and only matters for a FaSTPod that is not queued.
Resync(n) ==
    /\ lister[n].uid # 0 /\ n \notin queue /\ events = <<>>
    /\ Event("update", n)
    /\ UNCHANGED <<apiVars, lister, handlerVars, queue, workVars, faults, seen>>

-----------------------------------------------------------------------------
(* The event handlers, one event after the other.                          *)

Handling(kind, n) == events # <<>> /\ Head(events) = [kind |-> kind, name |-> n]
Handled == events' = Tail(events)
AddFunc(n) == database' = database \cup {n}

\* A mutated addFaSTPod: the init containers are not looked at.
addFaSTPodNoDaemonset(n) ==
    /\ Handling("add", n)
    /\ \/ Exists(n) /\ AddFunc(n) /\ NoFault
       \/ ~Exists(n) /\ AddFunc(NoName) /\ NoFault
       \/ Exists(n) /\ Fault("get") /\ AddFunc(NoName)
    /\ Handled /\ queue' = queue \cup {n}
    /\ UNCHANGED <<apiVars, lister, adding, daemonset, workVars>>

\* addFaSTPod reads the FaSTPod anew.  When that fails it goes on with an empty object.
addFaSTPod(n) ==
    /\ Handling("add", n) /\ adding = NoObject
    /\ \/ /\ Exists(n) /\ AddFunc(n) /\ NoFault
          /\ IF fp[n].init THEN adding' = fp[n] /\ UNCHANGED <<events, queue>>
             ELSE Handled /\ queue' = queue \cup {n} /\ UNCHANGED adding
       \/ /\ \/ ~Exists(n) /\ NoFault
             \/ Exists(n) /\ Fault("get")
          /\ AddFunc(NoName) /\ Handled /\ queue' = queue \cup {n} /\ UNCHANGED adding
    /\ UNCHANGED <<apiVars, lister, daemonset, workVars>>

\* newDaemonset: without an owner, and refused if there is one of that name.
newDaemonset(n) ==
    /\ Handling("add", n) /\ adding # NoObject
    /\ \/ daemonset[n] = 0 /\ daemonset' = [daemonset EXCEPT ![n] = adding.uid] /\ NoFault
       \/ daemonset[n] # 0 /\ UNCHANGED daemonset /\ NoFault
       \/ Fault("daemonset") /\ UNCHANGED daemonset
    /\ adding' = NoObject /\ Handled /\ queue' = queue \cup {n}
    /\ UNCHANGED <<apiVars, lister, database, workVars>>

\* A mutated enqueueFaSTPod: the event is taken for one that changes nothing.
enqueueNothing(n) ==
    /\ Handling("update", n) /\ Handled
    /\ UNCHANGED <<apiVars, lister, handlerVars, queue, workVars, faults, seen>>

enqueueFaSTPod(n) ==
    /\ Handling("update", n) /\ Handled /\ queue' = queue \cup {n}
    /\ UNCHANGED <<apiVars, lister, handlerVars, workVars, faults, seen>>

\* A mutated handleDeletedFaSTPod: the function stays in the database.
handleDeletedKeeps(n) ==
    /\ Handling("delete", n) \/ Handling("unknown", n)
    /\ Handled
    /\ UNCHANGED <<apiVars, lister, handlerVars, queue, workVars, faults, seen>>

\* An unknown final state is not a FaSTPod, and is ignored.
handleDeletedFaSTPod(n) ==
    /\ \/ Handling("delete", n) /\ database' = database \ {n}
       \/ Handling("unknown", n) /\ UNCHANGED database
    /\ Handled
    /\ UNCHANGED <<apiVars, lister, adding, daemonset, queue, workVars, faults, seen>>

-----------------------------------------------------------------------------
(* The worker: processNextWorkItem and syncHandler.  A sync that fails is  *)
(* forgotten like one that succeeds.                                       *)

Service(o) == funcname(worker.name, o)
At(pc) == worker.pc = pc
Go(pc) == worker' = [worker EXCEPT !.pc = pc]
SyncEnds == worker' = AtRest

SyncBegins(n) ==
    /\ At("idle") /\ n \in queue /\ queue' = queue \ {n}
    /\ worker' = IF lister[n].uid = 0 THEN AtRest
                 ELSE [pc |-> "get", name |-> n, obj |-> lister[n]]
    /\ UNCHANGED <<apiVars, lister, events, handlerVars, service, faults, seen>>

\* Only "not found" leads to Create; any other error is passed over.
SyncGetsService ==
    /\ At("get")
    /\ \/ service[Service(worker.obj)].owner = 0 /\ Go("create") /\ NoFault
       \/ service[Service(worker.obj)].owner # 0 /\ Go("update") /\ NoFault
       \/ Fault("service") /\ Go("update")
    /\ UNCHANGED <<apiVars, lister, events, handlerVars, queue, service>>

newService(o) == [owner |-> o.uid, spec |-> 0]

SyncCreatesService ==
    /\ At("create")
    /\ \/ /\ service' = [service EXCEPT ![Service(worker.obj)] = newService(worker.obj)]
          /\ Go("update") /\ NoFault
       \/ Fault("service") /\ SyncEnds /\ UNCHANGED service
    /\ UNCHANGED <<apiVars, lister, events, handlerVars, queue>>

\* The annotations, which hold the spec, are set; the owner stays.
makeAnnotations(s, o) == [s EXCEPT !.spec = o.rv]

SyncUpdatesService ==
    /\ At("update") /\ SyncEnds
    /\ LET f == Service(worker.obj) IN
       \/ /\ service[f].owner # 0 /\ NoFault
          /\ service' = [service EXCEPT ![f] = makeAnnotations(@, worker.obj)]
       \/ service[f].owner = 0 /\ UNCHANGED service /\ NoFault
       \/ Fault("service") /\ UNCHANGED service
    /\ UNCHANGED <<apiVars, lister, events, handlerVars, queue>>

\* The garbage collector of Kubernetes removes a Service whose owner is gone.
ServiceCollected(f) ==
    /\ service[f].owner # 0 /\ \A n \in Names : fp[n].uid # service[f].owner
    /\ service' = [service EXCEPT ![f] = NoService]
    /\ UNCHANGED <<apiVars, lister, events, handlerVars, queue, worker, faults, seen>>

\* The process ends and starts again; the informer lists all FaSTPods.
Restart ==
    /\ Fault("restart")
    /\ lister' = [n \in Names |-> NoObject] /\ events' = <<>> /\ adding' = NoObject
    /\ database' = {} /\ queue' = {} /\ worker' = AtRest
    /\ watch' = [n \in Names |-> IF Exists(n) THEN <<fp[n]>> ELSE <<>>]
    /\ UNCHANGED <<rev, fp, daemonset, service>>

InformerStep(n) == InformerSees(n) \/ Relist(n) \/ Resync(n)
HandlerStep(n) == addFaSTPod(n) \/ newDaemonset(n) \/ enqueueFaSTPod(n) \/ handleDeletedFaSTPod(n)
SyncStep == (\E n \in Names : SyncBegins(n)) \/ SyncGetsService \/ SyncCreatesService \/ SyncUpdatesService
=============================================================================

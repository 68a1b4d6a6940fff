----------------------- MODULE FunctionOperatorProofs -----------------------
(***************************************************************************)
(* What holds of the operator process for every set of FaSTPods, requests  *)
(* and faults: its types, and that the database of functions and the       *)
(* DaemonSets of the init containers have followed the FaSTPods whenever   *)
(* the handlers have caught up.                                            *)
(*                                                                         *)
(* The argument follows a change of a FaSTPod on its way: it waits in the  *)
(* watch, is put into the informer's cache, waits as an event, and is      *)
(* handled.  A handler reads the FaSTPod anew and so may see a later state *)
(* than the one its event tells of; it is then a deletion that still waits *)
(* in the watch that puts things right.                                    *)
(***************************************************************************)
EXTENDS FunctionOperator, SequenceTheorems, TLAPS

Events == [kind : Kinds, name : Names]

\* The types, with the bounds from which they follow.
OperatorTyped ==
    /\ rev \in 0..MaxWrites
    /\ fp \in [Names -> Objects]
    /\ watch \in [Names -> Seq(Objects)]
    /\ \A n \in Names : fp[n].uid <= rev /\ Len(watch[n]) <= rev
    /\ req \in [Requests -> [pc : {"idle", "write"}, name : Names \cup {NoName},
                             label : Labels \cup {NoLabel}, rv : 0..MaxWrites]]
    /\ \A r \in Requests : req[r].pc = "write" => req[r].name \in Names
    /\ lister \in [Names -> Objects]
    /\ events \in Seq(Events)
    /\ adding \in Objects
    /\ database \subseteq Names \cup {NoName}
    /\ daemonset \in [Names -> 0..MaxWrites]
    /\ queue \subseteq Names
    /\ worker \in [pc : {"idle", "get", "create", "update"}, name : Names \cup {NoName}, obj : Objects]
    /\ worker.pc # "idle" => worker.name \in Names
    /\ service \in [ServiceNames -> [owner : 0..MaxWrites, spec : 0..MaxWrites]]
    /\ faults \in 0..MaxFaults /\ seen \subseteq Faults

\* What waits in the watch of FaSTPod n leads from the cache to the FaSTPod as it is.
WatchLeadsOn(n) ==
    /\ fp[n].uid = 0 => fp[n] = NoObject
    /\ watch[n] = <<>> => lister[n] = fp[n]
    /\ watch[n] # <<>> => watch[n][Len(watch[n])] = fp[n]
    /\ watch[n] # <<>> /\ lister[n].uid = 0 => watch[n][1].uid # 0
    /\ \A i \in 1..Len(watch[n]) : i # Len(watch[n]) /\ watch[n][i].uid = 0 => watch[n][i + 1].uid # 0

\* Between the two halves of addFaSTPod its event is the first, and the function is recorded.
AddingOK ==
    adding # NoObject =>
        adding.uid # 0 /\ events # <<>> /\ events[1].kind = "add" /\ events[1].name \in database

\* Event i is a coming or a going of FaSTPod n.
Tells(i, n) == events[i].name = n /\ events[i].kind \in {"add", "delete"}
Pending(n) == \E i \in 1..Len(events) : Tells(i, n)
\* A deletion of n that the informer has not been sent.
Deleted(n) == \E i \in 1..Len(watch[n]) : watch[n][i].uid = 0

\* The last such event tells what the cache holds.
LastEvent(n) ==
    \A i \in 1..Len(events) :
        Tells(i, n) /\ (\A j \in 1..Len(events) : Tells(j, n) => j <= i) =>
            (events[i].kind = "add" <=> lister[n].uid # 0)

\* With no such event waiting, the database holds what the cache holds, unless a deletion
\* is on its way.
Recorded(n) ==
    ~Pending(n) =>
        /\ n \in database => lister[n].uid # 0
        /\ lister[n].uid # 0 => n \in database \/ Deleted(n)

\* A FaSTPod has its init containers from the beginning.
Owed(o) == o.init /\ ~o.added

\* Then also such a FaSTPod has its DaemonSet, unless its coming or an earlier deletion is on
\* its way.
Started(n) ==
    ~Pending(n) /\ Owed(fp[n]) => daemonset[n] # 0 \/ Deleted(n) \/ lister[n].uid = 0

OperatorInv ==
    /\ OperatorTyped
    /\ AddingOK
    /\ \A n \in Names : WatchLeadsOn(n)
    /\ seen \cap {"get", "relist"} = {} => \A n \in Names : LastEvent(n) /\ Recorded(n)
    /\ seen \cap {"get", "relist", "daemonset"} = {} => \A n \in Names : Started(n)

-----------------------------------------------------------------------------
(* The queue of events.                                                    *)

\* The first of a sequence that is not empty, and what follows it.
LEMMA FirstAndRest ==
    ASSUME NEW S, NEW s \in Seq(S), s # <<>>
    PROVE  /\ Len(s) \in Nat \ {0} /\ Head(s) = s[1] /\ s[1] \in S
           /\ Tail(s) \in Seq(S) /\ Len(Tail(s)) = Len(s) - 1
           /\ \A i \in 1..(Len(s) - 1) : Tail(s)[i] = s[i + 1]
<1>1. Len(s) \in Nat \ {0}
  BY EmptySeq
<1>2. /\ Tail(s) \in Seq(S) /\ Len(Tail(s)) = Len(s) - 1
      /\ \A i \in 1..(Len(s) - 1) : Tail(s)[i] = s[i + 1]
  BY HeadTailProperties
<1>3. s[1] \in S
  BY <1>1, ElementOfSeq
<1>4. Head(s) = s[1]
  OBVIOUS
<1> QED
  BY <1>1, <1>2, <1>3, <1>4

\* When an event has been handled, the last event of each FaSTPod is the same, unless it was
\* the one handled, and that one told what the cache holds.
LEMMA EventHandled ==
    ASSUME events \in Seq(Events), events # <<>>, events' = Tail(events), lister' = lister,
           NEW m \in Names, LastEvent(m)
    PROVE  /\ LastEvent(m)'
           /\ ~Pending(m)' /\ ~Tells(1, m) => ~Pending(m)
           /\ ~Pending(m)' /\ Tells(1, m) => (events[1].kind = "add" <=> lister[m].uid # 0)
<1>1. /\ Len(events) \in Nat \ {0} /\ Len(events') = Len(events) - 1
      /\ \A i \in 1..(Len(events) - 1) : events'[i] = events[i + 1]
  BY FirstAndRest
<1>2. LastEvent(m)'
  <2>1. SUFFICES ASSUME NEW i \in 1..Len(events'),
                        events'[i].name = m /\ events'[i].kind \in {"add", "delete"},
                        \A j \in 1..Len(events') :
                            events'[j].name = m /\ events'[j].kind \in {"add", "delete"} => j <= i
                 PROVE  events'[i].kind = "add" <=> lister[m].uid # 0
    BY DEF LastEvent, Tells
  <2>2. i + 1 \in 1..Len(events) /\ events[i + 1] = events'[i]
    BY <1>1
  <2>3. \A j \in 1..Len(events) : Tells(j, m) => j <= i + 1
    <3>1. SUFFICES ASSUME NEW j \in 1..Len(events), Tells(j, m), j # 1 PROVE j <= i + 1
      BY <1>1
    <3>2. j - 1 \in 1..Len(events') /\ events'[j - 1] = events[(j - 1) + 1] /\ (j - 1) + 1 = j
      BY <1>1, <3>1
    <3> QED
      BY <2>1, <3>1, <3>2 DEF Tells
  <2> QED
    BY <2>1, <2>2, <2>3 DEF LastEvent, Tells
<1>3. ASSUME ~Pending(m)' PROVE \A j \in 1..Len(events) : Tells(j, m) => j = 1
  <2>1. SUFFICES ASSUME NEW j \in 1..Len(events), Tells(j, m), j # 1 PROVE FALSE
    OBVIOUS
  <2>2. j - 1 \in 1..Len(events') /\ events'[j - 1] = events[(j - 1) + 1] /\ (j - 1) + 1 = j
    BY <1>1, <2>1
  <2> QED
    BY <1>3, <2>1, <2>2 DEF Pending, Tells
<1>4. 1 \in 1..Len(events)
  BY <1>1
<1> QED
  BY <1>2, <1>3, <1>4 DEF Pending, LastEvent

\* A new event tells what the cache then holds, or the cache holds no more and no less.
LEMMA EventAdded ==
    ASSUME events \in Seq(Events), NEW e \in Events, events' = Append(events, e),
           NEW m \in Names, LastEvent(m),
           e.name = m /\ e.kind \in {"add", "delete"} => (e.kind = "add" <=> lister'[m].uid # 0),
           ~(e.name = m /\ e.kind \in {"add", "delete"}) => (lister'[m].uid = 0 <=> lister[m].uid = 0)
    PROVE  /\ LastEvent(m)'
           /\ Pending(m)' <=> Pending(m) \/ (e.name = m /\ e.kind \in {"add", "delete"})
<1>1. /\ Len(events) \in Nat /\ Len(events') = Len(events) + 1 /\ events'[Len(events) + 1] = e
      /\ \A i \in 1..Len(events) : events'[i] = events[i]
  BY AppendProperties, LenProperties
<1>2. CASE e.name = m /\ e.kind \in {"add", "delete"}
  <2>1. Len(events) + 1 \in 1..Len(events')
    BY <1>1
  <2>2. Pending(m)'
    BY <1>1, <1>2, <2>1 DEF Pending, Tells
  <2>3. LastEvent(m)'
    <3>1. SUFFICES ASSUME NEW i \in 1..Len(events'),
                          \A j \in 1..Len(events') :
                            events'[j].name = m /\ events'[j].kind \in {"add", "delete"} => j <= i
                   PROVE  events'[i].kind = "add" <=> lister'[m].uid # 0
      BY DEF LastEvent, Tells
    <3>2. i = Len(events) + 1
      BY <1>1, <1>2, <2>1, <3>1
    <3> QED
      BY <1>1, <1>2, <3>2
  <2> QED
    BY <1>2, <2>2, <2>3
<1>3. CASE ~(e.name = m /\ e.kind \in {"add", "delete"})
  <2>1. \A i \in 1..Len(events') :
           (events'[i].name = m /\ events'[i].kind \in {"add", "delete"}) <=>
           (i \in 1..Len(events) /\ Tells(i, m))
    BY <1>1, <1>3 DEF Tells
  <2>2. \A i \in 1..Len(events) : i \in 1..Len(events')
    BY <1>1
  <2>3. Pending(m)' <=> Pending(m)
    BY <2>1, <2>2 DEF Pending, Tells
  <2>4. LastEvent(m)'
    <3>1. SUFFICES ASSUME NEW i \in 1..Len(events'),
                          events'[i].name = m /\ events'[i].kind \in {"add", "delete"},
                          \A j \in 1..Len(events') :
                            events'[j].name = m /\ events'[j].kind \in {"add", "delete"} => j <= i
                   PROVE  events'[i].kind = "add" <=> lister'[m].uid # 0
      BY DEF LastEvent, Tells
    <3>2. i \in 1..Len(events) /\ Tells(i, m) /\ events'[i] = events[i]
      BY <1>1, <2>1, <3>1
    <3>3. \A j \in 1..Len(events) : Tells(j, m) => j <= i
      BY <2>1, <2>2, <3>1
    <3> QED
      BY <1>3, <3>2, <3>3 DEF LastEvent
  <2> QED
    BY <1>3, <2>3, <2>4
<1> QED
  BY <1>2, <1>3

-----------------------------------------------------------------------------
(* Writes to the API server.                                               *)

\* A write is the last change in the watch of its FaSTPod.
LEMMA WatchGrows ==
    ASSUME OperatorTyped, NEW n \in Names, NEW o \in Objects, Write(n, o), lister' = lister,
           o.uid = 0 => o = NoObject /\ fp[n].uid # 0,
           NEW m \in Names, WatchLeadsOn(m)
    PROVE  /\ WatchLeadsOn(m)'
           /\ Deleted(m) => Deleted(m)'
<1>1. /\ fp \in [Names -> Objects] /\ watch \in [Names -> Seq(Objects)]
      /\ fp' = [fp EXCEPT ![n] = o] /\ watch' = [watch EXCEPT ![n] = Append(@, o)]
  BY DEF OperatorTyped, Write
<1>2. CASE m # n
  <2>1. fp'[m] = fp[m] /\ watch'[m] = watch[m]
    BY <1>1, <1>2
  <2> QED
    BY <2>1 DEF WatchLeadsOn, Deleted
<1>3. CASE m = n
  <2>1. /\ fp'[m] = o /\ watch'[m] = Append(watch[m], o) /\ watch[m] \in Seq(Objects)
    BY <1>1, <1>3
  <2>2. /\ Len(watch[m]) \in Nat /\ Len(watch'[m]) = Len(watch[m]) + 1 /\ watch'[m] # <<>>
        /\ \A i \in 1..Len(watch[m]) : watch'[m][i] = watch[m][i]
        /\ watch'[m][Len(watch[m]) + 1] = o
    BY <2>1, AppendProperties, LenProperties
  <2>3. watch[m] # <<>> => Len(watch[m]) # 0
    BY <2>1, EmptySeq
  <2>4. watch[m] = <<>> => Len(watch[m]) = 0
    OBVIOUS
  <2>5. Deleted(m) => Deleted(m)'
    BY <2>2 DEF Deleted
  <2>6. fp'[m].uid = 0 => fp'[m] = NoObject
    BY <2>1
  <2>7. lister'[m].uid = 0 => watch'[m][1].uid # 0
    <3>1. CASE watch[m] = <<>>
      BY <1>3, <2>2, <2>4, <3>1 DEF WatchLeadsOn
    <3>2. CASE watch[m] # <<>>
      BY <2>2, <2>3, <3>2 DEF WatchLeadsOn
    <3> QED
      BY <3>1, <3>2
  <2>8. ASSUME NEW i \in 1..Len(watch'[m]), i # Len(watch'[m]), watch'[m][i].uid = 0
        PROVE  watch'[m][i + 1].uid # 0
    <3>1. i \in 1..Len(watch[m]) /\ watch'[m][i] = watch[m][i] /\ watch[m] # <<>>
      BY <2>2, <2>4, <2>8
    <3>2. CASE i = Len(watch[m])
      BY <1>3, <2>2, <2>8, <3>1, <3>2 DEF WatchLeadsOn
    <3>3. CASE i # Len(watch[m])
      <4>1. i + 1 \in 1..Len(watch[m])
        BY <2>2, <3>1, <3>3
      <4> QED
        BY <2>2, <2>8, <3>1, <3>3, <4>1 DEF WatchLeadsOn
    <3> QED
      BY <3>2, <3>3
  <2>9. watch'[m][Len(watch'[m])] = fp'[m]
    BY <2>1, <2>2
  <2> QED
    BY <2>2, <2>5, <2>6, <2>7, <2>8, <2>9 DEF WatchLeadsOn
<1> QED
  BY <1>2, <1>3

\* Every write preserves the invariant: what makes a FaSTPod makes one that is new, and
\* no update gives it init containers that it has from the beginning.
LEMMA WriteKeeps ==
    ASSUME OperatorInv, NEW n \in Names, NEW o \in Objects, Write(n, o), UNCHANGED ctrVars,
           o.uid = 0 => o = NoObject /\ fp[n].uid # 0,
           o.uid <= rev + 1,
           Owed(o) => fp[n].uid = 0 \/ Owed(fp[n]),
           req' \in [Requests -> [pc : {"idle", "write"}, name : Names \cup {NoName},
                                  label : Labels \cup {NoLabel}, rv : 0..MaxWrites]],
           \A r \in Requests : req'[r].pc = "write" => req'[r].name \in Names
    PROVE  OperatorInv'
<1>1. /\ OperatorTyped /\ AddingOK /\ \A m \in Names : WatchLeadsOn(m)
  BY DEF OperatorInv
<1>2. /\ lister' = lister /\ events' = events /\ adding' = adding /\ database' = database
      /\ daemonset' = daemonset /\ queue' = queue /\ worker' = worker /\ service' = service
      /\ faults' = faults /\ seen' = seen
  BY DEF ctrVars
<1>3. /\ rev' = rev + 1 /\ rev' \in 0..MaxWrites
      /\ fp' = [fp EXCEPT ![n] = o] /\ watch' = [watch EXCEPT ![n] = Append(@, o)]
  BY <1>1, ApiAssumption DEF Write, OperatorTyped
<1>4. OperatorTyped'
  <2>1. Append(watch[n], o) \in Seq(Objects) /\ Len(Append(watch[n], o)) = Len(watch[n]) + 1
    BY <1>1, AppendProperties DEF OperatorTyped
  <2>2. fp' \in [Names -> Objects] /\ watch' \in [Names -> Seq(Objects)]
    BY <1>1, <1>3, <2>1 DEF OperatorTyped
  <2>3. ASSUME NEW m \in Names PROVE fp'[m].uid <= rev' /\ Len(watch'[m]) <= rev'
    <3>1. fp[m].uid \in Nat /\ fp[m].uid <= rev /\ Len(watch[m]) \in Nat /\ Len(watch[m]) <= rev
      <4>1. fp[m] \in Objects /\ watch[m] \in Seq(Objects)
        BY <1>1 DEF OperatorTyped
      <4> QED
        BY <1>1, <4>1, ApiAssumption, LenProperties DEF OperatorTyped, Objects
    <3>2. rev \in Nat
      BY <1>1, ApiAssumption DEF OperatorTyped
    <3> QED
      BY <1>1, <1>3, <2>1, <3>1, <3>2 DEF OperatorTyped
  <2> QED
    BY <1>1, <1>2, <1>3, <2>2, <2>3 DEF OperatorTyped
<1>5. AddingOK'
  BY <1>1, <1>2 DEF AddingOK
<1>6. \A m \in Names : WatchLeadsOn(m)' /\ (Deleted(m) => Deleted(m)')
  BY <1>1, <1>2, WatchGrows
<1>7. ASSUME NEW m \in Names, LastEvent(m), Recorded(m) PROVE (LastEvent(m) /\ Recorded(m))'
  BY <1>2, <1>6, <1>7 DEF LastEvent, Recorded, Pending, Tells
<1>8. ASSUME NEW m \in Names, Started(m) PROVE Started(m)'
  <2>1. CASE Owed(fp'[m]) => Owed(fp[m])
    BY <1>2, <1>6, <1>8, <2>1 DEF Started, Pending, Tells
  <2>2. CASE ~(Owed(fp'[m]) => Owed(fp[m]))
    <3>1. m = n /\ fp[n].uid = 0
      BY <1>1, <1>3, <2>2 DEF OperatorTyped
    <3>2. CASE watch[n] = <<>>
      BY <1>1, <1>2, <3>1, <3>2 DEF WatchLeadsOn, Started
    <3>3. CASE watch[n] # <<>>
      <4>1. Len(watch[n]) \in 1..Len(watch[n]) /\ watch[n][Len(watch[n])].uid = 0
        BY <1>1, <3>1, <3>3, EmptySeq DEF WatchLeadsOn, OperatorTyped
      <4>2. Deleted(n)
        BY <4>1 DEF Deleted
      <4> QED
        BY <1>6, <3>1, <4>2 DEF Started
    <3> QED
      BY <3>2, <3>3
  <2> QED
    BY <2>1, <2>2
<1> QED
  BY <1>2, <1>4, <1>5, <1>6, <1>7, <1>8 DEF OperatorInv

\* The gateway, the users and the auto-scaler preserve it.
LEMMA CallersKeep ==
    ASSUME OperatorInv, UNCHANGED ctrVars,
           \/ \E r \in Requests : GatewayStep(r)
           \/ \E n \in Names : DeleteFunction(n)
           \/ Others /\ UNCHANGED req
    PROVE  OperatorInv'
<1>1. OperatorTyped /\ rev \in Nat
  BY ApiAssumption DEF OperatorInv, OperatorTyped
<1> DEFINE ReqType == [pc : {"idle", "write"}, name : Names \cup {NoName},
                       label : Labels \cup {NoLabel}, rv : 0..MaxWrites]
<1>2. req \in [Requests -> ReqType] /\ (\A r \in Requests : req[r].pc = "write" => req[r].name \in Names)
  BY <1>1 DEF OperatorTyped
<1>3. ASSUME UNCHANGED apiVars, req' \in [Requests -> ReqType],
             \A r \in Requests : req'[r].pc = "write" => req'[r].name \in Names
      PROVE  OperatorInv'
  <2>1. /\ rev' = rev /\ fp' = fp /\ watch' = watch /\ lister' = lister /\ events' = events
        /\ adding' = adding /\ database' = database /\ daemonset' = daemonset /\ queue' = queue
        /\ worker' = worker /\ service' = service /\ faults' = faults /\ seen' = seen
    BY <1>3 DEF apiVars, ctrVars
  <2>2. OperatorTyped'
    BY <1>1, <1>3, <2>1 DEF OperatorTyped
  <2> QED
    BY <2>1, <2>2 DEF OperatorInv, AddingOK, WatchLeadsOn, LastEvent, Recorded, Started, Pending,
                      Deleted, Tells
<1>4. ASSUME NEW n \in Names, NEW o \in Objects, Create(n, o), req' \in [Requests -> ReqType],
             \A r \in Requests : req'[r].pc = "write" => req'[r].name \in Names
      PROVE  OperatorInv'
  <2> DEFINE q == [o EXCEPT !.uid = rev + 1, !.rv = rev + 1]
  <2>1. fp[n].uid = 0 /\ Write(n, q) /\ rev + 1 \in 0..MaxWrites
    BY <1>1, <1>4, ApiAssumption DEF Create, CanCreate, Exists, Write
  <2>2. q \in Objects /\ q.uid = rev + 1
    BY <2>1 DEF Objects
  <2>3. rev + 1 # 0 /\ q.uid <= rev + 1
    BY <1>1, <2>2
  <2> HIDE DEF q
  <2> QED
    BY <1>1, <1>4, <2>1, <2>2, <2>3, WriteKeeps
<1>5. ASSUME NEW n \in Names, NEW o \in Objects, NEW v, Update(n, v, o), o.uid = fp[n].uid,
             Owed(o) => Owed(fp[n]), req' \in [Requests -> ReqType],
             \A r \in Requests : req'[r].pc = "write" => req'[r].name \in Names
      PROVE  OperatorInv'
  <2> DEFINE q == [o EXCEPT !.rv = rev + 1]
  <2>1. fp[n].uid # 0 /\ Write(n, q) /\ rev + 1 \in 0..MaxWrites
    BY <1>1, <1>5, ApiAssumption DEF Update, CanUpdate, Exists, Write
  <2>2. q \in Objects /\ q.uid = fp[n].uid /\ (Owed(q) <=> Owed(o))
    BY <1>5, <2>1 DEF Objects, Owed
  <2>3. q.uid <= rev + 1
    <3>1. fp[n] \in Objects /\ fp[n].uid <= rev
      BY <1>1 DEF OperatorTyped
    <3>2. fp[n].uid \in Nat
      BY <3>1, ApiAssumption DEF Objects
    <3> HIDE DEF q
    <3> QED
      BY <1>1, <2>2, <3>1, <3>2
  <2> HIDE DEF q
  <2> QED
    BY <1>5, <2>1, <2>2, <2>3, WriteKeeps
<1>6. /\ NoObject \in Objects
      /\ \A n \in Names : fp[n] \in Objects
      /\ \A o \in Objects, l \in Labels \cup {NoLabel} :
            /\ toFastpod(o, l) \in Objects
            /\ toFastpod(o, l).uid = o.uid /\ ~Owed(toFastpod(o, l))
  <2>1. NoLabel \in Functions \cup {NoLabel} /\ 0 \in 0..MaxWrites
    BY ApiAssumption
  <2>2. NoObject \in Objects
    BY <2>1 DEF NoObject, Objects
  <2>3. \A n \in Names : fp[n] \in Objects
    BY <1>1 DEF OperatorTyped
  <2>4. ASSUME NEW o \in Objects, NEW l \in Labels \cup {NoLabel}
        PROVE  /\ toFastpod(o, l) \in Objects
               /\ toFastpod(o, l).uid = o.uid /\ ~Owed(toFastpod(o, l))
    <3>1. l \in Functions \cup {NoLabel}
      BY ApiAssumption
    <3> QED
      BY <3>1 DEF toFastpod, Objects, Owed
  <2> QED
    BY <2>2, <2>3, <2>4
<1>7. CASE \E r \in Requests : GatewayStep(r)
  <2>1. PICK r \in Requests : GatewayStep(r)
    BY <1>7
  <2>2. ASSUME NEW n \in Deployed, NEW l \in Labels, ApplyGet(r, n, l) PROVE OperatorInv'
    <3> DEFINE q == [pc |-> "write", name |-> n, label |-> l, rv |-> fp[n].rv]
    <3>1. req' = [req EXCEPT ![r] = q] /\ UNCHANGED apiVars
      BY <2>2 DEF ApplyGet
    <3>2. q \in ReqType /\ q.name \in Names
      BY <1>6, NamesAssumption DEF Objects
    <3> HIDE DEF q
    <3>3. req' \in [Requests -> ReqType] /\ \A s \in Requests : req'[s].pc = "write" => req'[s].name \in Names
      BY <1>2, <3>1, <3>2
    <3> QED
      BY <1>3, <3>1, <3>3
  <2>3. CASE ApplyWrite(r)
    <3> DEFINE n == req[r].name
               l == req[r].label
    <3>1. n \in Names /\ l \in Labels \cup {NoLabel} /\ req' = [req EXCEPT ![r] = Idle]
      BY <1>2, <2>3 DEF ApplyWrite, Answer
    <3>2. Idle \in ReqType /\ Idle.pc # "write"
      BY ApiAssumption DEF Idle
    <3>3. req' \in [Requests -> ReqType] /\ \A s \in Requests : req'[s].pc = "write" => req'[s].name \in Names
      BY <1>2, <3>1, <3>2
    <3>4. \/ Create(n, toFastpod(NoObject, l))
          \/ Update(n, req[r].rv, toFastpod(fp[n], l))
          \/ UNCHANGED apiVars
      BY <2>3 DEF ApplyWrite
    <3> HIDE DEF n, l
    <3>5. CASE Create(n, toFastpod(NoObject, l))
      <4>1. toFastpod(NoObject, l) \in Objects
        BY <1>6, <3>1
      <4> QED
        BY <1>4, <3>1, <3>3, <3>5, <4>1
    <3>6. CASE Update(n, req[r].rv, toFastpod(fp[n], l))
      <4>1. /\ toFastpod(fp[n], l) \in Objects /\ toFastpod(fp[n], l).uid = fp[n].uid
            /\ ~Owed(toFastpod(fp[n], l))
        BY <1>6, <3>1
      <4> QED
        BY <1>5, <3>1, <3>3, <3>6, <4>1
    <3> QED
      BY <1>3, <3>3, <3>4, <3>5, <3>6
  <2> QED
    BY <2>1, <2>2, <2>3 DEF GatewayStep
<1>8. CASE \E n \in Names : DeleteFunction(n)
  <2>1. PICK n \in Names : Delete(n) /\ req' = req
    BY <1>8 DEF DeleteFunction
  <2>2. fp[n].uid # 0 /\ Write(n, NoObject)
    BY <2>1 DEF Delete, Exists
  <2>3. NoObject.uid <= rev + 1 /\ ~Owed(NoObject)
    BY <1>1 DEF NoObject, Owed
  <2> QED
    BY <1>2, <1>6, <2>1, <2>2, <2>3, WriteKeeps
<1>9. CASE Others /\ UNCHANGED req
  <2>1. ASSUME NEW n \in UserMade, NEW l \in Labels, UserCreates(n, l) PROVE OperatorInv'
    <3> DEFINE o == [NoObject EXCEPT !.fn = l, !.replicas = TRUE, !.init = TRUE]
    <3>1. n \in Names /\ o \in Objects /\ Create(n, o)
      BY <1>6, <2>1, NamesAssumption, ApiAssumption DEF UserCreates, Objects, NoObject
    <3> HIDE DEF o
    <3> QED
      BY <1>2, <1>4, <1>9, <3>1
  <2>2. ASSUME NEW n \in Names, AutoscalerScales(n) PROVE OperatorInv'
    <3> DEFINE o == [fp[n] EXCEPT !.replicas = TRUE]
    <3>1. /\ o \in Objects /\ o.uid = fp[n].uid /\ (Owed(o) => Owed(fp[n]))
          /\ Update(n, fp[n].rv, o)
      BY <1>6, <2>2 DEF AutoscalerScales, Objects, Owed
    <3> HIDE DEF o
    <3> QED
      BY <1>2, <1>5, <1>9, <3>1
  <2>3. ASSUME NEW n \in Names, NEW l \in Labels, NEW init \in BOOLEAN, UserEdits(n, l, init)
        PROVE  OperatorInv'
    <3> DEFINE added == init /\ (fp[n].added \/ ~fp[n].init)
               o == [fp[n] EXCEPT !.fn = l, !.init = init, !.added = added]
    <3>1. Update(n, fp[n].rv, o)
      BY <2>3 DEF UserEdits
    <3>2. fp[n] \in Objects /\ l \in Functions \cup {NoLabel}
      BY <1>6, ApiAssumption
    <3>3. added \in BOOLEAN
      BY <3>2 DEF Objects
    <3>4. init /\ ~added => Owed(fp[n])
      BY <3>2 DEF Objects, Owed
    <3> HIDE DEF added
    <3>5. o \in Objects /\ o.uid = fp[n].uid /\ (Owed(o) => Owed(fp[n]))
      BY <3>2, <3>3, <3>4 DEF Objects, Owed
    <3> HIDE DEF o
    <3> QED
      BY <1>2, <1>5, <1>9, <3>1, <3>5
  <2> QED
    BY <1>9, <2>1, <2>2, <2>3 DEF Others
<1> QED
  BY <1>7, <1>8, <1>9

-----------------------------------------------------------------------------
(* The informer.                                                           *)

\* The kinds of fault only grow, and what was ruled out before a step is ruled out after it.
LEMMA SeenGrows ==
    ASSUME OperatorTyped, NoFault \/ \E k \in ControllerFaults : Fault(k)
    PROVE  /\ seen \subseteq seen' /\ seen' \subseteq Faults
           /\ faults' \in 0..MaxFaults
<1>1. seen \subseteq Faults /\ faults \in 0..MaxFaults
  BY DEF OperatorTyped
<1>2. CASE NoFault
  BY <1>1, <1>2 DEF NoFault
<1>3. ASSUME NEW k \in ControllerFaults, Fault(k)
      PROVE  seen \subseteq seen' /\ seen' \subseteq Faults /\ faults' \in 0..MaxFaults
  BY <1>1, <1>3, FaultsAssumption DEF Fault
<1> QED
  BY <1>2, <1>3

\* The next change goes from the watch to the cache and, as an event, to the handlers.
LEMMA InformerSeesKeeps ==
    ASSUME OperatorInv, NEW n \in Names, InformerSees(n), UNCHANGED req
    PROVE  OperatorInv'
<1>1. /\ OperatorTyped /\ AddingOK /\ \A m \in Names : WatchLeadsOn(m)
  BY DEF OperatorInv
<1>2. /\ watch[n] # <<>> /\ watch' = [watch EXCEPT ![n] = Tail(@)]
      /\ lister' = [lister EXCEPT ![n] = Head(watch[n])]
      /\ rev' = rev /\ fp' = fp /\ adding' = adding /\ database' = database
      /\ daemonset' = daemonset /\ queue' = queue /\ worker' = worker /\ service' = service
      /\ faults' = faults /\ seen' = seen /\ req' = req
  BY DEF InformerSees, handlerVars, workVars
<1>3. /\ watch[n] \in Seq(Objects) /\ Len(watch[n]) \in Nat \ {0} /\ Head(watch[n]) = watch[n][1]
      /\ watch[n][1] \in Objects
      /\ Tail(watch[n]) \in Seq(Objects) /\ Len(Tail(watch[n])) = Len(watch[n]) - 1
      /\ \A i \in 1..(Len(watch[n]) - 1) : Tail(watch[n])[i] = watch[n][i + 1]
  <2>1. watch[n] \in Seq(Objects)
    BY <1>1 DEF OperatorTyped
  <2> QED
    BY <1>2, <2>1, FirstAndRest
<1>4. /\ watch'[n] = Tail(watch[n]) /\ lister'[n] = watch[n][1]
      /\ \A m \in Names : m # n => watch'[m] = watch[m] /\ lister'[m] = lister[m]
  BY <1>1, <1>2, <1>3 DEF OperatorTyped
<1>5. PICK e \in Events :
        /\ events' = Append(events, e) /\ e.name = n
        /\ \/ lister[n].uid = 0 /\ e.kind = "add"
           \/ lister[n].uid # 0 /\ lister'[n].uid # 0 /\ e.kind = "update"
           \/ lister[n].uid # 0 /\ lister'[n].uid = 0 /\ e.kind = "delete"
  <2>1. \A k \in Kinds : /\ [kind |-> k, name |-> n] \in Events
                         /\ [kind |-> k, name |-> n].name = n /\ [kind |-> k, name |-> n].kind = k
    BY DEF Events
  <2>2. "add" \in Kinds /\ "update" \in Kinds /\ "delete" \in Kinds
    BY DEF Kinds
  <2>3. CASE lister[n].uid = 0 /\ Event("add", n)
    BY <2>1, <2>2, <2>3 DEF Event
  <2>4. CASE lister[n].uid # 0 /\ Head(watch[n]).uid # 0 /\ Event("update", n)
    BY <1>3, <1>4, <2>1, <2>2, <2>4 DEF Event
  <2>5. CASE lister[n].uid # 0 /\ Head(watch[n]).uid = 0 /\ Event("delete", n)
    BY <1>3, <1>4, <2>1, <2>2, <2>5 DEF Event
  <2> QED
    BY <2>3, <2>4, <2>5 DEF InformerSees
<1>6. lister[n].uid = 0 => lister'[n].uid # 0
  BY <1>1, <1>2, <1>4 DEF WatchLeadsOn
<1>7. /\ events \in Seq(Events) /\ events' \in Seq(Events) /\ events' # <<>>
      /\ events # <<>> => events'[1] = events[1]
  <2>1. events \in Seq(Events)
    BY <1>1 DEF OperatorTyped
  <2>2. events # <<>> => 1 \in 1..Len(events)
    BY <2>1, EmptySeq
  <2> QED
    BY <1>5, <2>1, <2>2, AppendProperties
<1>8. OperatorTyped'
  <2>1. watch' \in [Names -> Seq(Objects)] /\ lister' \in [Names -> Objects]
    BY <1>1, <1>2, <1>3 DEF OperatorTyped
  <2>2. \A m \in Names : Len(watch'[m]) <= rev
    <3>1. rev \in Nat /\ Len(watch[n]) <= rev /\ \A m \in Names : Len(watch[m]) <= rev
      BY <1>1, ApiAssumption DEF OperatorTyped
    <3>2. Len(watch'[n]) <= rev
      BY <1>3, <1>4, <3>1
    <3> QED
      BY <1>4, <3>1, <3>2
  <2> QED
    BY <1>1, <1>2, <1>7, <2>1, <2>2 DEF OperatorTyped
<1>9. AddingOK'
  BY <1>1, <1>2, <1>7 DEF AddingOK
<1>10. ASSUME NEW m \in Names PROVE WatchLeadsOn(m)'
  <2>1. CASE m # n
    <3>1. fp'[m] = fp[m] /\ watch'[m] = watch[m] /\ lister'[m] = lister[m]
      BY <1>2, <1>4, <2>1
    <3> QED
      BY <1>1, <3>1 DEF WatchLeadsOn
  <2>2. CASE m = n
    <3>1. /\ fp[n].uid = 0 => fp[n] = NoObject
          /\ watch[n][Len(watch[n])] = fp[n]
          /\ \A i \in 1..Len(watch[n]) :
                i # Len(watch[n]) /\ watch[n][i].uid = 0 => watch[n][i + 1].uid # 0
      BY <1>1, <1>2 DEF WatchLeadsOn
    <3>2. CASE Len(watch[n]) = 1
      <4>1. lister'[n] = fp[n]
        BY <1>4, <3>1, <3>2
      <4>2. watch'[n] \in Seq(Objects) /\ Len(watch'[n]) = 0
        BY <1>3, <1>4, <3>2
      <4>3. watch'[n] = <<>>
        BY <4>2, EmptySeq
      <4> QED
        BY <1>2, <2>2, <3>1, <4>1, <4>2, <4>3 DEF WatchLeadsOn
    <3>3. CASE Len(watch[n]) # 1
      <4>1. Len(watch'[n]) = Len(watch[n]) - 1 /\ Len(watch[n]) - 1 \in Nat \ {0}
        BY <1>3, <1>4, <3>3
      <4>0. /\ 1 \in 1..(Len(watch[n]) - 1) /\ 1 \in 1..Len(watch[n])
            /\ Len(watch[n]) - 1 \in 1..(Len(watch[n]) - 1) /\ (Len(watch[n]) - 1) + 1 = Len(watch[n])
        <5>1. \A k \in Nat \ {0} : k # 1 => /\ 1 \in 1..(k - 1) /\ 1 \in 1..k
                                            /\ k - 1 \in 1..(k - 1) /\ (k - 1) + 1 = k
          OBVIOUS
        <5> QED
          BY <1>3, <3>3, <5>1
      <4>2. watch'[n] # <<>>
        BY <4>1
      <4>3. watch'[n][Len(watch'[n])] = fp'[n]
        BY <1>2, <1>3, <1>4, <3>1, <4>0, <4>1
      <4>4. lister'[n].uid = 0 => watch'[n][1].uid # 0
        BY <1>3, <1>4, <3>1, <3>3, <4>0
      <4>5. ASSUME NEW i \in 1..Len(watch'[n]), i # Len(watch'[n]), watch'[n][i].uid = 0
            PROVE  watch'[n][i + 1].uid # 0
        <5>1. /\ i \in 1..(Len(watch[n]) - 1) /\ i + 1 \in 1..(Len(watch[n]) - 1)
              /\ i + 1 \in 1..Len(watch[n]) /\ i + 1 # Len(watch[n])
          BY <4>1, <4>5
        <5>2. watch'[n][i] = watch[n][i + 1] /\ watch'[n][i + 1] = watch[n][(i + 1) + 1]
          BY <1>3, <1>4, <5>1
        <5> QED
          BY <3>1, <4>5, <5>1, <5>2
      <4> QED
        BY <1>2, <2>2, <3>1, <4>2, <4>3, <4>4, <4>5 DEF WatchLeadsOn
    <3> QED
      BY <3>2, <3>3
  <2> QED
    BY <2>1, <2>2
\* A deletion is taken only with an event of its own.
<1>11. ASSUME NEW m \in Names, Deleted(m), ~Deleted(m)' PROVE m = n /\ lister'[n].uid = 0
  <2>1. m = n
    BY <1>4, <1>11 DEF Deleted
  <2>2. PICK i \in 1..Len(watch[n]) : watch[n][i].uid = 0
    BY <1>11, <2>1 DEF Deleted
  <2>3. i = 1
    <3>1. SUFFICES ASSUME i # 1 PROVE FALSE
      OBVIOUS
    <3>2. i - 1 \in 1..(Len(watch[n]) - 1) /\ (i - 1) + 1 = i /\ i - 1 \in 1..Len(watch'[n])
      BY <1>3, <1>4, <2>2, <3>1
    <3>3. watch'[n][i - 1].uid = 0
      BY <1>3, <1>4, <2>2, <3>2
    <3> QED
      BY <1>11, <2>1, <3>2, <3>3 DEF Deleted
  <2> QED
    BY <1>4, <2>1, <2>2, <2>3
<1>12. ASSUME NEW m \in Names, LastEvent(m)
       PROVE  /\ LastEvent(m)'
              /\ Pending(m)' <=> Pending(m) \/ (m = n /\ e.kind \in {"add", "delete"})
  <2>1. e.name = m /\ e.kind \in {"add", "delete"} => (e.kind = "add" <=> lister'[m].uid # 0)
    BY <1>5, <1>6
  <2>2. ~(e.name = m /\ e.kind \in {"add", "delete"}) => (lister'[m].uid = 0 <=> lister[m].uid = 0)
    BY <1>4, <1>5
  <2>3. /\ LastEvent(m)'
        /\ Pending(m)' <=> Pending(m) \/ (e.name = m /\ e.kind \in {"add", "delete"})
    BY <1>5, <1>7, <1>12, <2>1, <2>2, EventAdded
  <2> QED
    BY <1>5, <2>3
<1>13. ASSUME NEW m \in Names, LastEvent(m), Recorded(m) PROVE Recorded(m)'
  <2>1. SUFFICES ASSUME ~Pending(m)'
                 PROVE  /\ m \in database => lister'[m].uid # 0
                        /\ lister'[m].uid # 0 => m \in database \/ Deleted(m)'
    BY <1>2 DEF Recorded
  <2>2. ~Pending(m) /\ (lister'[m].uid # 0 <=> lister[m].uid # 0)
    BY <1>4, <1>5, <1>12, <1>13, <2>1
  <2> QED
    BY <1>11, <1>13, <2>2 DEF Recorded
<1>14. ASSUME NEW m \in Names, LastEvent(m), Started(m) PROVE Started(m)'
  <2>1. SUFFICES ASSUME ~Pending(m)', Owed(fp[m])
                 PROVE  daemonset[m] # 0 \/ Deleted(m)' \/ lister'[m].uid = 0
    BY <1>2 DEF Started
  <2>2. ~Pending(m) /\ (lister'[m].uid # 0 <=> lister[m].uid # 0)
    BY <1>4, <1>5, <1>12, <1>14, <2>1
  <2> QED
    BY <1>11, <1>14, <2>1, <2>2 DEF Started
<1> QED
  BY <1>2, <1>8, <1>9, <1>10, <1>12, <1>13, <1>14 DEF OperatorInv

\* A list that skips changes keeps the order of what waits, and is among the faults seen.
LEMMA RelistKeeps ==
    ASSUME OperatorInv, NEW n \in Names, Relist(n), UNCHANGED req
    PROVE  OperatorInv'
<1>1. /\ OperatorTyped /\ AddingOK /\ \A m \in Names : WatchLeadsOn(m)
  BY DEF OperatorInv
<1>2. /\ watch' = [watch EXCEPT ![n] = <<>>] /\ lister' = [lister EXCEPT ![n] = fp[n]]
      /\ rev' = rev /\ fp' = fp /\ adding' = adding /\ database' = database
      /\ daemonset' = daemonset /\ queue' = queue /\ worker' = worker /\ service' = service
      /\ seen' = seen \cup {"relist"} /\ Fault("relist") /\ req' = req
  BY DEF Relist, handlerVars, workVars, apiVars, Fault
<1>3. /\ events \in Seq(Events) /\ events' \in Seq(Events)
      /\ events # <<>> => events' # <<>> /\ events'[1] = events[1]
  <2>1. events \in Seq(Events)
    BY <1>1 DEF OperatorTyped
  <2>2. events # <<>> => 1 \in 1..Len(events)
    BY <2>1, EmptySeq
  <2>3. events' = events \/ \E e \in Events : events' = Append(events, e)
    <3>1. \A k \in Kinds : [kind |-> k, name |-> n] \in Events
      BY DEF Events
    <3>2. "add" \in Kinds /\ "update" \in Kinds /\ "unknown" \in Kinds
      BY DEF Kinds
    <3>3. Event("add", n) \/ Event("update", n) \/ Event("unknown", n) \/ UNCHANGED events
      BY DEF Relist
    <3> QED
      BY <3>1, <3>2, <3>3 DEF Event
  <2> QED
    BY <2>1, <2>2, <2>3, AppendProperties
<1>4. OperatorTyped'
  <2>1. <<>> \in Seq(Objects) /\ Len(<<>>) = 0
    BY EmptySeq
  <2>2. watch' \in [Names -> Seq(Objects)] /\ lister' \in [Names -> Objects]
    BY <1>1, <1>2, <2>1 DEF OperatorTyped
  <2>3. \A m \in Names : Len(watch'[m]) <= rev
    <3>1. watch'[n] = <<>> /\ \A m \in Names : m # n => watch'[m] = watch[m]
      BY <1>1, <1>2 DEF OperatorTyped
    <3>2. rev \in Nat /\ \A m \in Names : Len(watch[m]) <= rev
      BY <1>1, ApiAssumption DEF OperatorTyped
    <3>3. Len(watch'[n]) <= rev
      BY <2>1, <3>1, <3>2
    <3> QED
      BY <3>1, <3>2, <3>3
  <2>4. seen' \subseteq Faults /\ faults' \in 0..MaxFaults
    BY <1>1, <1>2, SeenGrows DEF ControllerFaults
  <2> QED
    BY <1>1, <1>2, <1>3, <2>2, <2>3, <2>4 DEF OperatorTyped
<1>5. AddingOK'
  BY <1>1, <1>2, <1>3 DEF AddingOK
<1>6. ASSUME NEW m \in Names PROVE WatchLeadsOn(m)'
  <2>1. CASE m # n
    <3>1. fp'[m] = fp[m] /\ watch'[m] = watch[m] /\ lister'[m] = lister[m]
      BY <1>1, <1>2, <2>1 DEF OperatorTyped
    <3> QED
      BY <1>1, <3>1 DEF WatchLeadsOn
  <2>2. CASE m = n
    <3>1. fp'[m] = fp[m] /\ watch'[m] = <<>> /\ lister'[m] = fp[m] /\ Len(watch'[m]) = 0
      BY <1>1, <1>2, <2>2, EmptySeq DEF OperatorTyped
    <3> QED
      BY <1>1, <3>1 DEF WatchLeadsOn
  <2> QED
    BY <2>1, <2>2
<1> QED
  BY <1>2, <1>4, <1>5, <1>6 DEF OperatorInv

\* A resync is an event that changes nothing of this.
LEMMA ResyncKeeps ==
    ASSUME OperatorInv, NEW n \in Names, Resync(n), UNCHANGED req
    PROVE  OperatorInv'
<1>1. OperatorTyped /\ AddingOK
  BY DEF OperatorInv
<1>2. /\ lister' = lister /\ rev' = rev /\ fp' = fp /\ watch' = watch /\ adding' = adding
      /\ database' = database /\ daemonset' = daemonset /\ queue' = queue /\ worker' = worker
      /\ service' = service /\ faults' = faults /\ seen' = seen /\ req' = req /\ events = <<>>
  BY DEF Resync, apiVars, handlerVars, workVars
<1>3. PICK e \in Events : events' = Append(events, e) /\ e.kind = "update"
  BY DEF Resync, Event, Events, Kinds
<1>4. events \in Seq(Events)
  BY <1>1 DEF OperatorTyped
<1>5. OperatorTyped'
  <2>1. events' \in Seq(Events)
    BY <1>3, <1>4, AppendProperties
  <2> QED
    BY <1>1, <1>2, <2>1 DEF OperatorTyped
<1>6. AddingOK'
  BY <1>1, <1>2 DEF AddingOK
<1>7. ASSUME NEW m \in Names, LastEvent(m) PROVE LastEvent(m)' /\ (Pending(m)' <=> Pending(m))
  <2>1. /\ LastEvent(m)'
        /\ Pending(m)' <=> Pending(m) \/ (e.name = m /\ e.kind \in {"add", "delete"})
    BY <1>2, <1>3, <1>4, <1>7, EventAdded
  <2> QED
    BY <1>3, <2>1
<1> QED
  BY <1>2, <1>5, <1>6, <1>7 DEF OperatorInv, WatchLeadsOn, Recorded, Started, Deleted

-----------------------------------------------------------------------------
(* The handlers.                                                           *)

\* The first event, of FaSTPod n, has been handled: what that must leave behind for n.
Settles(n) ==
    /\ events # <<>> /\ events[1].name = n /\ events' = Tail(events)
    /\ rev' = rev /\ fp' = fp /\ watch' = watch /\ lister' = lister /\ worker' = worker
    /\ service' = service /\ req' = req /\ adding' = NoObject
    /\ queue' \subseteq Names /\ database' \subseteq Names \cup {NoName}
    /\ daemonset' \in [Names -> 0..MaxWrites]
    /\ faults' \in 0..MaxFaults /\ seen \subseteq seen' /\ seen' \subseteq Faults
    /\ \A m \in Names : m # n => /\ m \in database' <=> m \in database
                                 /\ daemonset'[m] = daemonset[m]
    /\ events[1].kind \notin {"add", "delete"} => database' = database /\ daemonset' = daemonset

\* That step keeps the invariant, if it settles what the event was about.
LEMMA HandlingKeeps ==
    ASSUME OperatorInv, NEW n \in Names, Settles(n),
           seen' \cap {"get", "relist"} = {} =>
              /\ events[1].kind = "add" => n \in database' \/ fp[n].uid = 0
              /\ events[1].kind = "delete" => n \notin database',
           seen' \cap {"get", "relist", "daemonset"} = {} =>
              (events[1].kind = "add" /\ Owed(fp[n]) => daemonset'[n] # 0 \/ Deleted(n))
    PROVE  OperatorInv'
<1>1. /\ OperatorTyped /\ \A m \in Names : WatchLeadsOn(m)
  BY DEF OperatorInv
<1>2. events \in Seq(Events) /\ events' \in Seq(Events) /\ 1 \in 1..Len(events)
  <2>1. events \in Seq(Events)
    BY <1>1 DEF OperatorTyped
  <2> QED
    BY <2>1, FirstAndRest DEF Settles
<1>3. OperatorTyped'
  <2>1. NoObject \in Objects
    BY ApiAssumption DEF NoObject, Objects
  <2> QED
    BY <1>1, <1>2, <2>1 DEF OperatorTyped, Settles
<1>4. AddingOK'
  BY DEF AddingOK, Settles
<1>5. \A m \in Names : WatchLeadsOn(m)'
  BY <1>1 DEF WatchLeadsOn, Settles
<1>6. ASSUME NEW m \in Names, LastEvent(m)
      PROVE  /\ LastEvent(m)'
             /\ ~Pending(m)' /\ ~Tells(1, m) => ~Pending(m)
             /\ ~Pending(m)' /\ Tells(1, m) => (events[1].kind = "add" <=> lister[m].uid # 0)
  BY <1>2, <1>6, EventHandled DEF Settles
\* A FaSTPod that is gone but still in the cache has its deletion in the watch.
<1>7. lister[n].uid # 0 /\ fp[n].uid = 0 => Deleted(n)
  <2>1. SUFFICES ASSUME lister[n].uid # 0, fp[n].uid = 0 PROVE Deleted(n)
    OBVIOUS
  <2>2. watch[n] # <<>> /\ watch[n][Len(watch[n])].uid = 0
    BY <1>1, <2>1 DEF WatchLeadsOn
  <2>3. Len(watch[n]) \in 1..Len(watch[n])
    BY <1>1, <2>2, EmptySeq DEF OperatorTyped
  <2> QED
    BY <2>2, <2>3 DEF Deleted
<1>8. /\ \A m \in Names : Deleted(m)' <=> Deleted(m)
      /\ lister' = lister /\ fp' = fp
  BY DEF Deleted, Settles
<1>9. ASSUME seen' \cap {"get", "relist"} = {}, NEW m \in Names PROVE LastEvent(m)' /\ Recorded(m)'
  <2>1. LastEvent(m) /\ Recorded(m)
    BY <1>9 DEF OperatorInv, Settles
  <2>2. ASSUME ~Pending(m)'
        PROVE  /\ m \in database' => lister[m].uid # 0
               /\ lister[m].uid # 0 => m \in database' \/ Deleted(m)
    <3>1. CASE Tells(1, m)
      <4>1. m = n /\ events[1].kind \in {"add", "delete"}
        BY <3>1 DEF Tells, Settles
      <4>2. events[1].kind = "add" <=> lister[m].uid # 0
        BY <1>6, <2>1, <2>2, <3>1
      <4> QED
        BY <1>7, <1>9, <4>1, <4>2
    <3>2. CASE ~Tells(1, m)
      <4>1. m \in database' <=> m \in database
        BY <3>2 DEF Tells, Settles
      <4> QED
        BY <1>6, <2>1, <2>2, <3>2, <4>1 DEF Recorded
    <3> QED
      BY <3>1, <3>2
  <2> QED
    BY <1>6, <1>8, <2>1, <2>2 DEF Recorded
<1>10. ASSUME seen' \cap {"get", "relist", "daemonset"} = {}, NEW m \in Names PROVE Started(m)'
  <2>1. LastEvent(m) /\ Started(m)
    BY <1>10 DEF OperatorInv, Settles
  <2>2. SUFFICES ASSUME ~Pending(m)', Owed(fp[m])
                 PROVE  daemonset'[m] # 0 \/ Deleted(m) \/ lister[m].uid = 0
    BY <1>8 DEF Started
  <2>3. CASE Tells(1, m)
    <3>1. m = n /\ events[1].kind \in {"add", "delete"}
      BY <2>3 DEF Tells, Settles
    <3>2. events[1].kind = "add" <=> lister[m].uid # 0
      BY <1>6, <2>1, <2>2, <2>3
    <3> QED
      BY <1>10, <2>2, <3>1, <3>2
  <2>4. CASE ~Tells(1, m)
    <3>1. daemonset'[m] = daemonset[m]
      BY <2>4 DEF Tells, Settles
    <3> QED
      BY <1>6, <2>1, <2>2, <2>4, <3>1 DEF Started
  <2> QED
    BY <2>3, <2>4
<1> QED
  BY <1>3, <1>4, <1>5, <1>9, <1>10 DEF OperatorInv

\* addFaSTPod records the FaSTPod and, when it has init containers, keeps what it has read.
LEMMA AddKeeps ==
    ASSUME OperatorInv, NEW n \in Names, addFaSTPod(n), UNCHANGED req
    PROVE  OperatorInv'
<1>1. /\ OperatorTyped /\ \A m \in Names : WatchLeadsOn(m)
  BY DEF OperatorInv
<1>2. /\ events \in Seq(Events) /\ events # <<>> /\ events[1] = [kind |-> "add", name |-> n]
      /\ events[1].kind = "add" /\ events[1].name = n
  <2>1. events \in Seq(Events) /\ events # <<>> /\ Head(events) = [kind |-> "add", name |-> n]
    BY <1>1 DEF OperatorTyped, addFaSTPod, Handling
  <2> QED
    BY <2>1, FirstAndRest
<1>3. /\ rev' = rev /\ fp' = fp /\ watch' = watch /\ lister' = lister /\ daemonset' = daemonset
      /\ worker' = worker /\ service' = service /\ req' = req /\ adding = NoObject
  BY DEF addFaSTPod, apiVars, workVars
<1>4. /\ NoFault \/ \E k \in ControllerFaults : Fault(k)
      /\ seen \subseteq seen' /\ seen' \subseteq Faults /\ faults' \in 0..MaxFaults
  <2>1. NoFault \/ \E k \in ControllerFaults : Fault(k)
    BY DEF addFaSTPod, ControllerFaults
  <2> QED
    BY <1>1, <2>1, SeenGrows
<1>5. CASE Exists(n) /\ AddFunc(n) /\ NoFault /\ fp[n].init /\ adding' = fp[n] /\ UNCHANGED <<events, queue>>
  <2>1. /\ database' = database \cup {n} /\ seen' = seen /\ fp[n].uid # 0
        /\ events' = events /\ queue' = queue /\ adding' = fp[n]
    BY <1>5 DEF AddFunc, NoFault, Exists
  <2>2. OperatorTyped'
    BY <1>1, <1>3, <1>4, <2>1 DEF OperatorTyped
  <2>3. AddingOK'
    BY <1>2, <2>1 DEF AddingOK
  <2>4. \A m \in Names : WatchLeadsOn(m)'
    BY <1>1, <1>3, <2>1 DEF WatchLeadsOn
  <2>5. 1 \in 1..Len(events)
    BY <1>2, EmptySeq
  <2>6. ASSUME NEW m \in Names, LastEvent(m), Recorded(m) PROVE LastEvent(m)' /\ Recorded(m)'
    <3>1. LastEvent(m)'
      BY <1>3, <2>1, <2>6 DEF LastEvent, Tells
    <3>2. Pending(n)
      BY <1>2, <2>5 DEF Pending, Tells
    <3>3. Recorded(m)'
      BY <1>3, <2>1, <2>6, <3>2 DEF Recorded, Pending, Tells, Deleted
    <3> QED
      BY <3>1, <3>3
  <2>7. ASSUME NEW m \in Names, Started(m) PROVE Started(m)'
    BY <1>3, <2>1, <2>7 DEF Started, Pending, Tells, Deleted
  <2> QED
    BY <2>1, <2>2, <2>3, <2>4, <2>6, <2>7 DEF OperatorInv
<1>6. CASE Exists(n) /\ AddFunc(n) /\ NoFault /\ ~fp[n].init /\ Handled /\ queue' = queue \cup {n} /\ UNCHANGED adding
  <2>1. /\ database' = database \cup {n} /\ events' = Tail(events) /\ queue' = queue \cup {n}
        /\ adding' = NoObject
    BY <1>3, <1>6 DEF AddFunc, Handled
  <2>2. Settles(n)
    BY <1>1, <1>2, <1>3, <1>4, <2>1 DEF Settles, OperatorTyped
  <2>3. ~Owed(fp[n])
    BY <1>6 DEF Owed
  <2> QED
    BY <1>2, <2>1, <2>2, <2>3, HandlingKeeps
<1>7. CASE /\ \/ ~Exists(n) /\ NoFault
              \/ Exists(n) /\ Fault("get")
           /\ AddFunc(NoName) /\ Handled /\ queue' = queue \cup {n} /\ UNCHANGED adding
  <2>1. /\ database' = database \cup {NoName} /\ events' = Tail(events) /\ queue' = queue \cup {n}
        /\ adding' = NoObject
    BY <1>3, <1>7 DEF AddFunc, Handled
  <2>2. \A m \in Names : m # NoName
    BY ApiAssumption
  <2>3. Settles(n)
    BY <1>1, <1>2, <1>3, <1>4, <2>1, <2>2 DEF Settles, OperatorTyped
  <2>4. fp[n].uid = 0 \/ "get" \in seen'
    BY <1>7 DEF Exists, Fault
  <2>5. fp[n].uid = 0 => ~Owed(fp[n])
    BY <1>1 DEF WatchLeadsOn, NoObject, Owed
  <2> QED
    BY <1>2, <2>3, <2>4, <2>5, HandlingKeeps
<1> QED
  BY <1>5, <1>6, <1>7 DEF addFaSTPod

\* The DaemonSet is there afterwards, made for this FaSTPod or an earlier one of its name.
LEMMA NewDaemonsetKeeps ==
    ASSUME OperatorInv, NEW n \in Names, newDaemonset(n), UNCHANGED req
    PROVE  OperatorInv'
<1>1. /\ OperatorTyped /\ AddingOK
  BY DEF OperatorInv
<1>2. /\ events \in Seq(Events) /\ events # <<>>
      /\ events[1].kind = "add" /\ events[1].name = n
  <2>1. events \in Seq(Events) /\ events # <<>> /\ Head(events) = [kind |-> "add", name |-> n]
    BY <1>1 DEF OperatorTyped, newDaemonset, Handling
  <2>2. events[1] = [kind |-> "add", name |-> n]
    BY <2>1, FirstAndRest
  <2> QED
    BY <2>1, <2>2
<1>3. /\ rev' = rev /\ fp' = fp /\ watch' = watch /\ lister' = lister /\ database' = database
      /\ worker' = worker /\ service' = service /\ req' = req /\ adding' = NoObject
      /\ events' = Tail(events) /\ queue' = queue \cup {n}
  BY DEF newDaemonset, apiVars, workVars, Handled
<1>4. seen \subseteq seen' /\ seen' \subseteq Faults /\ faults' \in 0..MaxFaults
  <2>1. NoFault \/ \E k \in ControllerFaults : Fault(k)
    BY DEF newDaemonset, ControllerFaults
  <2> QED
    BY <1>1, <2>1, SeenGrows
<1>5. adding.uid # 0 /\ n \in database /\ adding.uid \in 0..MaxWrites
  BY <1>1, <1>2 DEF AddingOK, newDaemonset, OperatorTyped, Objects
<1>6. /\ daemonset' = daemonset \/ daemonset' = [daemonset EXCEPT ![n] = adding.uid]
      /\ daemonset'[n] # 0 \/ "daemonset" \in seen'
  BY <1>1, <1>5 DEF newDaemonset, OperatorTyped, Fault
<1>7. Settles(n)
  BY <1>1, <1>2, <1>3, <1>4, <1>5, <1>6 DEF Settles, OperatorTyped
<1> QED
  BY <1>2, <1>3, <1>5, <1>6, <1>7, HandlingKeeps

\* Updates only queue their FaSTPod; a deletion removes it from the database.
LEMMA OtherHandlersKeep ==
    ASSUME OperatorInv, NEW n \in Names, enqueueFaSTPod(n) \/ handleDeletedFaSTPod(n), UNCHANGED req
    PROVE  OperatorInv'
<1>1. /\ OperatorTyped /\ AddingOK
  BY DEF OperatorInv
<1>2. /\ events \in Seq(Events) /\ events # <<>> /\ events' = Tail(events) /\ events[1].name = n
      /\ \/ events[1].kind = "update" /\ database' = database
         \/ events[1].kind = "delete" /\ database' = database \ {n}
         \/ events[1].kind = "unknown" /\ database' = database
  <2>1. /\ events \in Seq(Events) /\ events' = Tail(events) /\ events # <<>>
        /\ \/ Head(events) = [kind |-> "update", name |-> n] /\ database' = database
           \/ Head(events) = [kind |-> "delete", name |-> n] /\ database' = database \ {n}
           \/ Head(events) = [kind |-> "unknown", name |-> n] /\ database' = database
    BY <1>1 DEF OperatorTyped, enqueueFaSTPod, handleDeletedFaSTPod, Handling, Handled, handlerVars
  <2>2. Head(events) = events[1]
    BY <2>1, FirstAndRest
  <2> QED
    BY <2>1, <2>2
<1>3. /\ rev' = rev /\ fp' = fp /\ watch' = watch /\ lister' = lister /\ daemonset' = daemonset
      /\ worker' = worker /\ service' = service /\ req' = req /\ adding' = adding
      /\ faults' = faults /\ seen' = seen /\ queue' \subseteq Names
  BY <1>1 DEF enqueueFaSTPod, handleDeletedFaSTPod, apiVars, handlerVars, workVars, OperatorTyped
<1>4. adding = NoObject
  BY <1>1, <1>2 DEF AddingOK
<1>5. Settles(n)
  BY <1>1, <1>2, <1>3, <1>4 DEF Settles, OperatorTyped
<1> QED
  BY <1>2, <1>5, HandlingKeeps

-----------------------------------------------------------------------------
(* The worker, the garbage collector and a restart.                        *)

\* Steps that touch only the queue, the worker and the Services preserve it, if they keep the types.
LEMMA WorkKeeps ==
    ASSUME OperatorInv, OperatorTyped',
           UNCHANGED <<fp, watch, lister, events, adding, database, daemonset>>,
           seen \subseteq seen'
    PROVE  OperatorInv'
<1>1. /\ fp' = fp /\ watch' = watch /\ lister' = lister /\ events' = events /\ adding' = adding
      /\ database' = database /\ daemonset' = daemonset
  OBVIOUS
<1>2. AddingOK' /\ \A m \in Names : WatchLeadsOn(m)'
  BY <1>1 DEF OperatorInv, AddingOK, WatchLeadsOn
<1>3. ASSUME seen' \cap {"get", "relist"} = {}, NEW m \in Names PROVE LastEvent(m)' /\ Recorded(m)'
  <2>1. LastEvent(m) /\ Recorded(m)
    BY <1>3 DEF OperatorInv
  <2> QED
    BY <1>1, <2>1 DEF LastEvent, Recorded, Pending, Tells, Deleted
<1>4. ASSUME seen' \cap {"get", "relist", "daemonset"} = {}, NEW m \in Names PROVE Started(m)'
  <2>1. Started(m)
    BY <1>4 DEF OperatorInv
  <2> QED
    BY <1>1, <2>1 DEF Started, Pending, Tells, Deleted
<1> QED
  BY <1>2, <1>3, <1>4 DEF OperatorInv

\* The worker and the Services keep the invariant.
LEMMA SyncKeeps ==
    ASSUME OperatorInv, SyncStep, UNCHANGED req
    PROVE  OperatorInv'
<1>1. OperatorTyped
  BY DEF OperatorInv
<1>2. /\ rev' = rev /\ fp' = fp /\ watch' = watch /\ lister' = lister /\ events' = events
      /\ adding' = adding /\ database' = database /\ daemonset' = daemonset /\ req' = req
      /\ queue' \subseteq Names
  BY <1>1 DEF SyncStep, SyncBegins, SyncGetsService, SyncCreatesService, SyncUpdatesService, apiVars,
              handlerVars, OperatorTyped
<1>3. seen \subseteq seen' /\ seen' \subseteq Faults /\ faults' \in 0..MaxFaults
  <2>1. NoFault \/ \E k \in ControllerFaults : Fault(k)
    BY DEF SyncStep, SyncBegins, SyncGetsService, SyncCreatesService, SyncUpdatesService, NoFault,
           ControllerFaults
  <2> QED
    BY <1>1, <2>1, SeenGrows
<1> DEFINE WorkerType == [pc : {"idle", "get", "create", "update"}, name : Names \cup {NoName}, obj : Objects]
           ServiceType == [ServiceNames -> [owner : 0..MaxWrites, spec : 0..MaxWrites]]
<1>4. /\ worker \in WorkerType /\ service \in ServiceType
      /\ \A n \in Names : lister[n] \in Objects
      /\ worker.pc # "idle" => worker.name \in Names
  BY <1>1 DEF OperatorTyped
<1>5. AtRest \in WorkerType /\ AtRest.pc = "idle"
  <2>1. NoObject \in Objects
    BY ApiAssumption DEF NoObject, Objects
  <2> QED
    BY <2>1 DEF AtRest
<1>6. worker.pc # "idle" => Service(worker.obj) \in ServiceNames
  BY <1>4 DEF Service, funcname, ServiceNames, Objects
<1>7. worker' \in WorkerType /\ service' \in ServiceType /\ (worker'.pc # "idle" => worker'.name \in Names)
  <2>1. ASSUME NEW n \in Names, SyncBegins(n)
        PROVE  worker' \in WorkerType /\ service' = service /\ (worker'.pc # "idle" => worker'.name \in Names)
    <3>1. [pc |-> "get", name |-> n, obj |-> lister[n]] \in WorkerType
      BY <1>4
    <3> QED
      BY <1>5, <2>1, <3>1 DEF SyncBegins
  <2>2. CASE SyncGetsService
    <3>1. worker.pc = "get" /\ service' = service /\ (Go("create") \/ Go("update"))
      BY <2>2 DEF SyncGetsService, At
    <3> QED
      BY <1>4, <3>1 DEF Go
  <2>3. CASE SyncCreatesService
    <3>1. newService(worker.obj) \in [owner : 0..MaxWrites, spec : 0..MaxWrites]
      BY <1>4, ApiAssumption DEF newService, Objects
    <3>2. worker.pc = "create" /\ worker.pc # "idle"
      BY <2>3 DEF SyncCreatesService, At
    <3>3. worker' \in WorkerType /\ (worker'.pc # "idle" => worker'.name \in Names)
      BY <1>4, <1>5, <2>3, <3>2 DEF SyncCreatesService, Go, SyncEnds
    <3>4. service' \in ServiceType
      BY <1>4, <1>6, <2>3, <3>1, <3>2 DEF SyncCreatesService
    <3> QED
      BY <3>3, <3>4
  <2>4. CASE SyncUpdatesService
    <3>1. worker.pc # "idle" /\ worker' = AtRest
      BY <2>4 DEF SyncUpdatesService, SyncEnds, At
    <3>2. \A s \in [owner : 0..MaxWrites, spec : 0..MaxWrites] :
             makeAnnotations(s, worker.obj) \in [owner : 0..MaxWrites, spec : 0..MaxWrites]
      BY <1>4 DEF makeAnnotations, Objects
    <3>3. service' \in ServiceType
      BY <1>4, <1>6, <2>4, <3>1, <3>2 DEF SyncUpdatesService
    <3> QED
      BY <1>5, <3>1, <3>3
  <2> QED
    BY <1>4, <2>1, <2>2, <2>3, <2>4 DEF SyncStep
<1>8. OperatorTyped'
  BY <1>1, <1>2, <1>3, <1>7 DEF OperatorTyped
<1> QED
  BY <1>2, <1>3, <1>8, WorkKeeps

\* The garbage collector takes a Service.
LEMMA CollectedKeeps ==
    ASSUME OperatorInv, NEW f \in ServiceNames, ServiceCollected(f), UNCHANGED req
    PROVE  OperatorInv'
<1>1. OperatorTyped
  BY DEF OperatorInv
<1>2. /\ rev' = rev /\ fp' = fp /\ watch' = watch /\ lister' = lister /\ events' = events
      /\ adding' = adding /\ database' = database /\ daemonset' = daemonset /\ req' = req
      /\ queue' = queue /\ worker' = worker /\ faults' = faults /\ seen' = seen
      /\ service' = [service EXCEPT ![f] = NoService]
  BY DEF ServiceCollected, apiVars, handlerVars
<1>3. NoService \in [owner : 0..MaxWrites, spec : 0..MaxWrites]
  BY ApiAssumption DEF NoService
<1>4. OperatorTyped'
  BY <1>1, <1>2, <1>3 DEF OperatorTyped
<1> QED
  BY <1>2, <1>4, WorkKeeps

\* A new process lists all FaSTPods, and its database is empty.
LEMMA RestartKeeps ==
    ASSUME OperatorInv, Restart, req' = [r \in Requests |-> Idle]
    PROVE  OperatorInv'
<1>1. /\ OperatorTyped /\ \A m \in Names : WatchLeadsOn(m)
  BY DEF OperatorInv
<1>2. /\ rev' = rev /\ fp' = fp /\ daemonset' = daemonset /\ service' = service
      /\ lister' = [n \in Names |-> NoObject] /\ events' = <<>> /\ adding' = NoObject
      /\ database' = {} /\ queue' = {} /\ worker' = AtRest
      /\ watch' = [n \in Names |-> IF Exists(n) THEN <<fp[n]>> ELSE <<>>]
  BY DEF Restart
<1>3. /\ NoObject \in Objects /\ NoObject.uid = 0 /\ AtRest.pc = "idle"
      /\ AtRest \in [pc : {"idle", "get", "create", "update"}, name : Names \cup {NoName}, obj : Objects]
      /\ Idle \in [pc : {"idle", "write"}, name : Names \cup {NoName},
                   label : Labels \cup {NoLabel}, rv : 0..MaxWrites]
      /\ Idle.pc # "write"
  <2>1. NoObject \in Objects /\ NoObject.uid = 0
    BY ApiAssumption DEF NoObject, Objects
  <2>2. /\ AtRest \in [pc : {"idle", "get", "create", "update"}, name : Names \cup {NoName}, obj : Objects]
        /\ AtRest.pc = "idle"
    BY <2>1 DEF AtRest
  <2>3. /\ Idle \in [pc : {"idle", "write"}, name : Names \cup {NoName},
                     label : Labels \cup {NoLabel}, rv : 0..MaxWrites]
        /\ Idle.pc # "write"
    BY ApiAssumption DEF Idle
  <2> QED
    BY <2>1, <2>2, <2>3
<1>4. seen \subseteq seen' /\ seen' \subseteq Faults /\ faults' \in 0..MaxFaults
  <2>1. \E k \in ControllerFaults : Fault(k)
    BY DEF Restart, ControllerFaults
  <2> QED
    BY <1>1, <2>1, SeenGrows
<1>5. ASSUME NEW n \in Names
      PROVE  /\ fp[n].uid # 0 => /\ watch'[n] = <<fp[n]>> /\ watch'[n] \in Seq(Objects)
                                 /\ Len(watch'[n]) = 1 /\ watch'[n][1] = fp[n]
             /\ fp[n].uid = 0 => /\ watch'[n] = <<>> /\ watch'[n] \in Seq(Objects)
                                 /\ Len(watch'[n]) = 0
             /\ lister'[n] = NoObject
  BY <1>1, <1>2 DEF Exists, OperatorTyped
<1>6. OperatorTyped'
  <2>1. watch' \in [Names -> Seq(Objects)]
    BY <1>2, <1>5
  <2>2. ASSUME NEW n \in Names PROVE fp[n].uid <= rev /\ Len(watch'[n]) <= rev
    <3>1. fp[n].uid \in Nat /\ fp[n].uid <= rev /\ rev \in Nat
      <4>1. fp[n] \in Objects
        BY <1>1 DEF OperatorTyped
      <4> QED
        BY <1>1, <4>1, ApiAssumption DEF OperatorTyped, Objects
    <3>2. Len(watch'[n]) = 0 \/ (Len(watch'[n]) = 1 /\ fp[n].uid # 0)
      BY <1>5
    <3>3. \A a, b \in Nat : a <= b => 0 <= b /\ (a # 0 => 1 <= b)
      OBVIOUS
    <3>4. 0 <= rev /\ (fp[n].uid # 0 => 1 <= rev)
      BY <3>1, <3>3
    <3>5. Len(watch'[n]) <= rev
      BY <3>2, <3>4
    <3> QED
      BY <3>1, <3>5
  <2>3. <<>> \in Seq(Events)
    BY EmptySeq
  <2>4. req' \in [Requests -> [pc : {"idle", "write"}, name : Names \cup {NoName},
                               label : Labels \cup {NoLabel}, rv : 0..MaxWrites]]
        /\ \A r \in Requests : req'[r].pc = "write" => req'[r].name \in Names
    BY <1>3
  <2> QED
    BY <1>1, <1>2, <1>3, <1>4, <2>1, <2>2, <2>3, <2>4 DEF OperatorTyped
<1>7. AddingOK'
  BY <1>2 DEF AddingOK
<1>8. ASSUME NEW n \in Names PROVE WatchLeadsOn(n)'
  <2>1. fp[n].uid = 0 => fp[n] = NoObject
    BY <1>1 DEF WatchLeadsOn
  <2>2. CASE fp[n].uid = 0
    BY <1>2, <1>5, <2>1, <2>2 DEF WatchLeadsOn
  <2>3. CASE fp[n].uid # 0
    <3>1. /\ watch'[n] # <<>> /\ Len(watch'[n]) = 1 /\ watch'[n][1] = fp[n]
      BY <1>5, <2>3
    <3> QED
      BY <1>2, <2>3, <3>1 DEF WatchLeadsOn
  <2> QED
    BY <2>2, <2>3
<1>9. ASSUME NEW n \in Names PROVE LastEvent(n)' /\ Recorded(n)' /\ Started(n)'
  <2>1. LastEvent(n)'
    BY <1>2 DEF LastEvent
  <2>2. Recorded(n)' /\ Started(n)'
    BY <1>2, <1>3, <1>5 DEF Recorded, Started
  <2> QED
    BY <2>1, <2>2
<1> QED
  BY <1>6, <1>7, <1>8, <1>9 DEF OperatorInv

-----------------------------------------------------------------------------
(* The theorems.                                                           *)

\* There is nothing at first.
LEMMA InitOK ==
    ASSUME Init
    PROVE  OperatorInv
<1>1. /\ rev = 0 /\ fp = [n \in Names |-> NoObject] /\ watch = [n \in Names |-> <<>>]
      /\ req = [r \in Requests |-> Idle]
      /\ lister = [n \in Names |-> NoObject] /\ events = <<>>
      /\ adding = NoObject /\ database = {} /\ daemonset = [n \in Names |-> 0]
      /\ queue = {} /\ worker = AtRest
      /\ service = [f \in ServiceNames |-> NoService]
      /\ faults = 0 /\ seen = {}
  BY DEF Init, ApiInit, GatewayInit, ControllerInit
<1>2. /\ NoObject \in Objects /\ NoObject.uid = 0 /\ ~Owed(NoObject)
      /\ NoService \in [owner : 0..MaxWrites, spec : 0..MaxWrites]
  BY ApiAssumption DEF NoObject, Objects, NoService, Owed
<1>3. /\ AtRest \in [pc : {"idle", "get", "create", "update"}, name : Names \cup {NoName}, obj : Objects]
      /\ AtRest.pc = "idle"
  BY <1>2 DEF AtRest
<1>4. /\ Idle \in [pc : {"idle", "write"}, name : Names \cup {NoName},
                   label : Labels \cup {NoLabel}, rv : 0..MaxWrites]
      /\ Idle.pc # "write"
  BY ApiAssumption DEF Idle
<1>5. /\ <<>> \in Seq(Objects) /\ <<>> \in Seq(Events) /\ Len(<<>>) = 0
      /\ 0 \in 0..MaxWrites /\ 0 \in 0..MaxFaults
  BY EmptySeq, ApiAssumption, FaultsAssumption
<1>6. OperatorTyped
  <2>1. /\ fp \in [Names -> Objects] /\ watch \in [Names -> Seq(Objects)]
        /\ lister \in [Names -> Objects] /\ events \in Seq(Events)
        /\ \A n \in Names : fp[n].uid <= rev /\ Len(watch[n]) <= rev
    BY <1>1, <1>2, <1>5
  <2>2. /\ req \in [Requests -> [pc : {"idle", "write"}, name : Names \cup {NoName},
                                 label : Labels \cup {NoLabel}, rv : 0..MaxWrites]]
        /\ \A r \in Requests : req[r].pc = "write" => req[r].name \in Names
    BY <1>1, <1>4
  <2>3. service \in [ServiceNames -> [owner : 0..MaxWrites, spec : 0..MaxWrites]]
    BY <1>1, <1>2
  <2> QED
    BY <1>1, <1>2, <1>3, <1>5, <2>1, <2>2, <2>3 DEF OperatorTyped
<1>7. AddingOK
  BY <1>1 DEF AddingOK
<1>8. ASSUME NEW n \in Names
      PROVE  WatchLeadsOn(n) /\ LastEvent(n) /\ Recorded(n) /\ Started(n)
  <2>1. fp[n] = NoObject /\ lister[n] = NoObject /\ watch[n] = <<>> /\ Len(watch[n]) = 0
    BY <1>1, <1>5
  <2> QED
    BY <1>1, <1>2, <2>1 DEF WatchLeadsOn, LastEvent, Recorded, Started
<1> QED
  BY <1>6, <1>7, <1>8 DEF OperatorInv

\* Every step of the operator process preserves the invariant.
LEMMA OperatorStep ==
    ASSUME OperatorInv, [Next]_vars
    PROVE  OperatorInv'
<1>1. CASE UNCHANGED vars
  <2>1. /\ rev' = rev /\ fp' = fp /\ watch' = watch /\ lister' = lister /\ events' = events
        /\ adding' = adding /\ database' = database /\ daemonset' = daemonset /\ req' = req
        /\ queue' = queue /\ worker' = worker /\ service' = service
        /\ faults' = faults /\ seen' = seen
    BY <1>1 DEF vars, apiVars, ctrVars
  <2>2. OperatorTyped'
    BY <2>1 DEF OperatorInv, OperatorTyped
  <2> QED
    BY <2>1, <2>2, WorkKeeps
<1>2. CASE (\E r \in Requests : GatewayStep(r)) /\ UNCHANGED ctrVars
  BY <1>2, CallersKeep
<1>3. CASE (\E n \in Names : DeleteFunction(n)) /\ UNCHANGED ctrVars
  BY <1>3, CallersKeep
<1>4. CASE Others /\ UNCHANGED <<req, ctrVars>>
  BY <1>4, CallersKeep
<1>5. ASSUME NEW n \in Names, InformerStep(n) \/ HandlerStep(n), UNCHANGED req
      PROVE  OperatorInv'
  BY <1>5, InformerSeesKeeps, RelistKeeps, ResyncKeeps, AddKeeps, NewDaemonsetKeeps, OtherHandlersKeep
     DEF InformerStep, HandlerStep
<1>6. CASE SyncStep /\ UNCHANGED req
  BY <1>6, SyncKeeps
<1>7. CASE (\E f \in ServiceNames : ServiceCollected(f)) /\ UNCHANGED req
  BY <1>7, CollectedKeeps
<1>8. CASE Restart /\ req' = [r \in Requests |-> Idle]
  BY <1>8, RestartKeeps
<1> QED
  BY <1>1, <1>2, <1>3, <1>4, <1>5, <1>6, <1>7, <1>8 DEF Next

\* The invariant on which the properties of the operator process rest holds of every behaviour
\* of the gateway, the controller and its informer.
THEOREM OperatorInvariance == Spec => []OperatorInv
<1>1. Init => OperatorInv
  BY InitOK
<1>2. OperatorInv /\ [Next]_vars => OperatorInv'
  BY OperatorStep
<1> QED
  BY <1>1, <1>2, PTL DEF Spec

\* The API server, the gateway and the controller keep their types; the watch of a FaSTPod
\* never holds more changes than there were writes.
THEOREM OperatorTypeCorrect == Spec => []OperatorTypeOK
<1>1. OperatorInv => OperatorTypeOK
  <2>1. ASSUME OperatorInv PROVE OperatorTypeOK
    <3>1. OperatorTyped
      BY <2>1 DEF OperatorInv
    <3>2. ASSUME NEW n \in Names PROVE watch[n] \in Seq(Objects) /\ Len(watch[n]) <= MaxWrites
      <4>1. watch[n] \in Seq(Objects) /\ Len(watch[n]) <= rev /\ rev \in 0..MaxWrites
        BY <3>1 DEF OperatorTyped
      <4>2. Len(watch[n]) \in Nat
        BY <4>1, LenProperties
      <4> QED
        BY <4>1, <4>2, ApiAssumption
    <3>3. \A i \in 1..Len(events) : events[i] \in [kind : Kinds, name : Names]
      <4>1. events \in Seq(Events)
        BY <3>1 DEF OperatorTyped
      <4> QED
        BY <4>1, ElementOfSeq DEF Events
    <3> QED
      BY <3>1, <3>2, <3>3 DEF OperatorTyped, OperatorTypeOK, ApiTypeOK, GatewayTypeOK, ControllerTypeOK
  <2> QED
    BY <2>1
<1> QED
  BY <1>1, OperatorInvariance, PTL

\* Whenever the handlers have caught up, the database of functions holds exactly the FaSTPods
\* that exist (addFaSTPod, which reads anew, against handleDeletedFaSTPod), whatever restarts
\* and failures of other calls there were.
THEOREM DatabaseFollowsFaSTPods == Spec => []DatabaseFollows
<1>1. OperatorInv => DatabaseFollows
  <2>1. ASSUME OperatorInv, Caught, seen \cap {"get", "relist"} = {}
        PROVE  database \ {NoName} = {n \in Names : Exists(n)}
    <3>1. OperatorTyped /\ database \subseteq Names \cup {NoName}
      BY <2>1 DEF OperatorInv, OperatorTyped
    <3>2. ASSUME NEW n \in Names PROVE n \in database <=> Exists(n)
      <4>1. WatchLeadsOn(n) /\ Recorded(n) /\ watch[n] = <<>> /\ events = <<>>
        BY <2>1 DEF OperatorInv, Caught
      <4>2. ~Pending(n) /\ ~Deleted(n) /\ lister[n] = fp[n]
        BY <4>1, EmptySeq DEF Pending, Deleted, WatchLeadsOn
      <4> QED
        BY <4>1, <4>2 DEF Recorded, Exists
    <3>3. \A n \in Names : n # NoName
      BY ApiAssumption
    <3> QED
      BY <3>1, <3>2, <3>3
  <2> QED
    BY <2>1 DEF DatabaseFollows
<1> QED
  BY <1>1, OperatorInvariance, PTL

\* And every FaSTPod that has had its init containers since it was created has its DaemonSet,
\* whatever is updated before its handler reads it (newDaemonset after addFaSTPod).
THEOREM InitContainersAreStarted == Spec => []InitContainersStarted
<1>1. OperatorInv => InitContainersStarted
  <2>1. ASSUME OperatorInv, Caught, seen \cap {"get", "relist", "daemonset"} = {},
               NEW n \in Names, Owed(fp[n])
        PROVE  daemonset[n] # 0
    <3>1. WatchLeadsOn(n) /\ Started(n) /\ watch[n] = <<>> /\ events = <<>>
      BY <2>1 DEF OperatorInv, Caught
    <3>2. ~Pending(n) /\ ~Deleted(n) /\ lister[n] = fp[n]
      BY <3>1, EmptySeq DEF Pending, Deleted, WatchLeadsOn
    <3>3. fp[n].uid # 0
      BY <2>1, <3>1 DEF WatchLeadsOn, NoObject, Owed
    <3> QED
      BY <2>1, <3>1, <3>2, <3>3 DEF Started
  <2> QED
    BY <2>1 DEF InitContainersStarted, Owed
<1> QED
  BY <1>1, OperatorInvariance, PTL

=============================================================================

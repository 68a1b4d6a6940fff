------------------------ MODULE NodeConnectionProofs -------------------------
(***************************************************************************)
(* Proofs about the connection of a node, for any number of connections,   *)
(* faults, callers and configurations: what arrives in the two files of    *)
(* the node, and whose word it is that a node is ready.                    *)
(***************************************************************************)
EXTENDS NodeConnection, FiniteSetTheorems, TLAPS

Messages == {"hello", "beat"}
Links == [up : BOOLEAN, q : Seq(Messages), ack : BOOLEAN]
ConnPcs == {"dial", "hello", "ack", "beat", "ended"}
Open == {"hello", "ack", "beat"}

\* A connection carries at most the hello and the heartbeats that its queue takes.
LinkOK(l) == l \in Links /\ Len(l.q) <= MaxQueue + 1

\* The configurator's goroutine has a connection where it uses one, and the hello is the first message in it.
ConnectionOK ==
    /\ cg \in [pc : ConnPcs, conn : Conns \cup {0}, fails : 0..(MaxHeartbeatFailures - 1)]
    /\ cg.pc \in Open => cg.conn \in Conns
    /\ link \in [Conns -> Links]
    /\ \A c \in Conns : LinkOK(link[c])
    /\ cg.pc = "hello" => link[cg.conn].q = <<>>

ProcessesOK ==
    /\ faults \in 0..MaxFaults
    /\ cfg \in {"up", "stalled", "stopping", "down"}
    /\ other \in BOOLEAN /\ sig \in BOOLEAN /\ doomed \in BOOLEAN /\ mgr \in BOOLEAN

FilesOK ==
    /\ conf \subseteq Versions /\ ports \subseteq Versions
    /\ writer \in [Versions -> {"none", "create", "conf", "ports", "done"}]
    /\ lost \subseteq {"missed", "mixed"}

\* A call that is under way has a configuration that has been made.
CallersOK ==
    /\ config \in 0..MaxConfigs
    /\ caller \in [Callers -> [pc : {"idle", "send", "wait"}, v : 0..MaxConfigs]]
    /\ \A w \in Callers : caller[w].pc # "idle" => caller[w].v \in 1..config

HandlerPcs == {"none", "hello", "ack", "rpc", "register", "live", "loop", "close", "done"}
Liveness == [conn : Conns \cup {0}, status : {"none", "Ready", "NotReady"},
             last : {"zero", "recent", "old"}]

\* A client is closed by its handler, last of all, and a node that counts as ready has a handler that reads its heartbeats.
HandlersOK ==
    /\ hdl \in [Conns -> HandlerPcs]
    /\ name \in [Conns -> Names]
    /\ client \in [Names -> Conns \cup {0}]
    /\ closed \subseteq Conns
    /\ live \in [Names -> Liveness]
    /\ \A c \in closed : hdl[c] = "done"
    /\ \A n \in Names : live[n].status = "Ready" => \E c \in Conns : name[c] = n /\ hdl[c] = "loop"

\* What the files hold while one writer is at it, or none: the files are truncated before either is written.
WrittenBy(v) ==
    /\ writer[v] = "conf" => conf = {} /\ ports = {}
    /\ writer[v] = "ports" => conf = {v} /\ ports = {}

\* Unless writers overlapped or were killed, there is one writer at most, and the files agree when there is none.
OneWriter ==
    "mixed" \notin lost =>
        /\ \A u, v \in Writing : u = v
        /\ \A v \in Writing : WrittenBy(v)
        /\ Writing = {} => conf = ports /\ (conf = {} \/ \E v \in Versions : conf = {v})

\* Unless a configuration was missed too, each one made has been sent or is about to be, only the last one that was sent is being written, and the files hold it when it has been written.
InOrder ==
    /\ \A v \in Versions : v > config => writer[v] = "none"
    /\ lost = {} =>
        /\ \A v \in 1..config :
              writer[v] # "none" \/ \E w \in Callers : caller[w].pc = "send" /\ caller[w].v = v
        /\ \A v \in Writing : \A u \in Versions : writer[u] # "none" => u <= v
        /\ \A v \in Versions :
              writer[v] = "done" /\ (\A u \in Versions : writer[u] # "none" => u <= v)
                  => conf = {v} /\ ports = {v}

ConnectionInv ==
    /\ ConnectionOK /\ ProcessesOK /\ FilesOK /\ CallersOK /\ HandlersOK
    /\ OneWriter /\ InOrder

-----------------------------------------------------------------------------
\* What a write to a connection and a read from it do to what is under way in it.
LEMMA QueueFacts ==
    ASSUME NEW S, NEW q \in Seq(S)
    PROVE  /\ Len(q) \in Nat
           /\ \A e \in S : Append(q, e) \in Seq(S) /\ Len(Append(q, e)) = Len(q) + 1
           /\ q # <<>> => Tail(q) \in Seq(S) /\ Len(Tail(q)) <= Len(q)
  OBVIOUS

\* A new connection has nothing in it.
LEMMA NoLinkOK == LinkOK(NoLink) /\ NoLink.q = <<>>
<1>1. <<>> \in Seq(Messages) /\ Len(<<>>) = 0
  OBVIOUS
<1>. QED BY <1>1, ConnectionAssumption DEF LinkOK, Links, NoLink

\* A connection in which something else is under way.
LEMMA NewQueue ==
    ASSUME NEW l \in Links, NEW q \in Seq(Messages), Len(q) <= MaxQueue + 1
    PROVE  LinkOK([l EXCEPT !.q = q]) /\ [l EXCEPT !.q = q].q = q
<1>1. \A S : l \in [up : BOOLEAN, q : S, ack : BOOLEAN] /\ q \in S
         => [l EXCEPT !.q = q] \in [up : BOOLEAN, q : S, ack : BOOLEAN] /\ [l EXCEPT !.q = q].q = q
  OBVIOUS
<1>2. [l EXCEPT !.q = q] \in Links /\ [l EXCEPT !.q = q].q = q
  BY <1>1 DEF Links
<1>. QED BY <1>2 DEF LinkOK

\* A message that is sent or received.
LEMMA SentOrRead ==
    ASSUME NEW l, LinkOK(l)
    PROVE  /\ \A m \in Messages : Len(l.q) <= MaxQueue => LinkOK([l EXCEPT !.q = Append(@, m)])
           /\ l.q # <<>> => LinkOK([l EXCEPT !.q = Tail(@)])
<1>1. l \in Links /\ l.q \in Seq(Messages) /\ Len(l.q) <= MaxQueue + 1 /\ Len(l.q) \in Nat
  <2>1. l \in Links /\ l.q \in Seq(Messages) /\ Len(l.q) <= MaxQueue + 1
    BY DEF LinkOK, Links
  <2>. QED BY <2>1, QueueFacts
<1>2. ASSUME NEW m \in Messages, Len(l.q) <= MaxQueue PROVE LinkOK([l EXCEPT !.q = Append(@, m)])
  <2>. DEFINE q == Append(l.q, m)
  <2>1. q \in Seq(Messages) /\ Len(q) = Len(l.q) + 1
    BY <1>1, QueueFacts
  <2>. HIDE DEF q
  <2>2. Len(q) <= MaxQueue + 1
    BY <1>1, <1>2, <2>1, ConnectionAssumption
  <2>3. LinkOK([l EXCEPT !.q = q])
    BY <1>1, <2>1, <2>2, NewQueue
  <2>. QED BY <2>3 DEF q
<1>3. ASSUME l.q # <<>> PROVE LinkOK([l EXCEPT !.q = Tail(@)])
  <2>. DEFINE q == Tail(l.q)
  <2>1. q \in Seq(Messages) /\ Len(q) <= Len(l.q)
    BY <1>1, <1>3, QueueFacts
  <2>. HIDE DEF q
  <2>2. Len(q) \in Nat
    BY <2>1, QueueFacts
  <2>3. Len(q) <= MaxQueue + 1
    BY <1>1, <2>1, <2>2, ConnectionAssumption
  <2>4. LinkOK([l EXCEPT !.q = q])
    BY <1>1, <2>1, <2>3, NewQueue
  <2>. QED BY <2>4 DEF q
<1>. QED BY <1>2, <1>3

\* A step that writes to one connection, which the configurator's goroutine has not just dialled.
LEMMA OneLink ==
    ASSUME ConnectionOK, NEW c \in Conns, NEW l, LinkOK(l), link' = [link EXCEPT ![c] = l]
    PROVE  link' \in [Conns -> Links] /\ \A d \in Conns : LinkOK(link'[d])
  BY DEF ConnectionOK, LinkOK

\* A connection that is closed keeps what is under way in it.
LEMMA CloseLinkOK ==
    ASSUME ConnectionOK, NEW c \in Conns, CloseLink(c)
    PROVE  /\ link' \in [Conns -> Links] /\ \A d \in Conns : LinkOK(link'[d])
           /\ \A d \in Conns : link'[d].q = link[d].q
<1>1. link' = [link EXCEPT ![c] = [link[c] EXCEPT !.up = FALSE]]
  BY DEF CloseLink
<1>2. [link[c] EXCEPT !.up = FALSE] \in Links /\ [link[c] EXCEPT !.up = FALSE].q = link[c].q
  BY DEF ConnectionOK, Links
<1>3. LinkOK([link[c] EXCEPT !.up = FALSE])
  BY <1>2 DEF ConnectionOK, LinkOK
<1>4. link' \in [Conns -> Links] /\ \A d \in Conns : LinkOK(link'[d])
  BY <1>1, <1>3, OneLink
<1>. QED BY <1>1, <1>2, <1>4 DEF ConnectionOK

\* The end of the configurator's process: its connection is closed, and its goroutine has ended.
LEMMA ProcessEndsOK ==
    ASSUME ConnectionOK, ProcessEnds
    PROVE  ConnectionOK'
<1>. DEFINE ended == [pc |-> "ended", conn |-> 0, fails |-> 0]
<1>1. ended \in [pc : ConnPcs, conn : Conns \cup {0}, fails : 0..(MaxHeartbeatFailures - 1)]
  BY ConnectionAssumption DEF ConnPcs
<1>2. cg' = ended /\ cg'.pc = "ended"
  BY DEF ProcessEnds
<1>3. link' \in [Conns -> Links] /\ \A d \in Conns : LinkOK(link'[d])
  <2>1. cg.conn = 0 \/ cg.conn \in Conns
    BY DEF ConnectionOK
  <2>2. CASE link' = link
    BY <2>2 DEF ConnectionOK
  <2>3. CASE cg.conn \in Conns /\ CloseLink(cg.conn)
    BY <2>3, CloseLinkOK
  <2>. QED BY <2>1, <2>2, <2>3 DEF ProcessEnds
<1>. QED BY <1>1, <1>2, <1>3 DEF ConnectionOK, Open, LinkOK

\* The goroutine of the configurator, and what is under way in the connections, keep their shape.
LEMMA ConnectionStep ==
    ASSUME ConnectionInv, [Next]_vars
    PROVE  ConnectionOK'
<1>. DEFINE CgState == [pc : ConnPcs, conn : Conns \cup {0}, fails : 0..(MaxHeartbeatFailures - 1)]
<1>0. /\ ConnectionOK /\ HandlersOK /\ cg \in CgState
      /\ link \in [Conns -> Links] /\ \A c \in Conns : LinkOK(link[c])
  BY DEF ConnectionInv, ConnectionOK
<1>a. ASSUME cg' = cg, NEW c \in Conns, NEW l, LinkOK(l), link' = [link EXCEPT ![c] = l],
             cg.pc = "hello" /\ c = cg.conn => l.q = <<>>
      PROVE  ConnectionOK'
  <2>1. link' \in [Conns -> Links] /\ \A d \in Conns : LinkOK(link'[d])
    BY <1>0, <1>a, OneLink
  <2>. QED BY <1>0, <1>a, <2>1 DEF ConnectionOK, LinkOK
<1>b. ASSUME cg' \in CgState, cg'.pc \in Open => cg'.conn \in Conns, cg'.pc # "hello",
             link' \in [Conns -> Links], \A d \in Conns : LinkOK(link'[d])
      PROVE  ConnectionOK'
  BY <1>b DEF ConnectionOK, LinkOK
<1>c. ASSUME Reconnect, link' = link PROVE ConnectionOK'
  <2>1. cg' \in CgState /\ cg'.pc = "dial"
    BY <1>c, ConnectionAssumption DEF Reconnect, ConnPcs
  <2>. QED BY <1>0, <1>b, <1>c, <2>1 DEF Open
<1>1. CASE Dial
  <2>1. PICK c \in Conns : /\ link' = [link EXCEPT ![c] = [NoLink EXCEPT !.up = TRUE]]
                           /\ cg' = [cg EXCEPT !.pc = "hello", !.conn = c]
    BY <1>1 DEF Dial
  <2>2. LinkOK([NoLink EXCEPT !.up = TRUE]) /\ [NoLink EXCEPT !.up = TRUE].q = <<>>
    BY NoLinkOK DEF LinkOK, Links, NoLink
  <2>3. link' \in [Conns -> Links] /\ \A d \in Conns : LinkOK(link'[d])
    BY <1>0, <2>1, <2>2, OneLink
  <2>4. cg' \in CgState /\ cg'.conn = c /\ link'[c].q = <<>>
    BY <1>0, <2>1, <2>2 DEF ConnPcs
  <2>. QED BY <2>3, <2>4 DEF ConnectionOK, LinkOK
<1>2. CASE SendHello
  <2>1. CASE Reconnect /\ link' = link
    BY <1>c, <2>1
  <2>2. CASE /\ link' = [link EXCEPT ![cg.conn].q = Append(@, "hello")]
             /\ cg' = [cg EXCEPT !.pc = "ack"]
    <3>. DEFINE c == cg.conn
                l == [link[c] EXCEPT !.q = Append(@, "hello")]
    <3>1. c \in Conns /\ link[c].q = <<>>
      BY <1>0, <1>2 DEF SendHello, ConnectionOK, Open
    <3>2. link' = [link EXCEPT ![c] = l]
      BY <2>2
    <3>3. Len(link[c].q) <= MaxQueue /\ LinkOK(link[c]) /\ "hello" \in Messages
      BY <1>0, <3>1, ConnectionAssumption DEF Messages
    <3>4. LinkOK(l)
      BY <3>3, SentOrRead
    <3>5. link' \in [Conns -> Links] /\ \A d \in Conns : LinkOK(link'[d])
      BY <1>0, <3>1, <3>2, <3>4, OneLink
    <3>6. cg' \in CgState /\ cg'.pc = "ack" /\ cg'.conn \in Conns
      BY <1>0, <2>2, <3>1 DEF ConnPcs
    <3>. QED BY <1>b, <3>5, <3>6
  <2>. QED BY <1>2, <2>1, <2>2 DEF SendHello
<1>3. CASE WaitForAck
  <2>1. CASE Reconnect /\ link' = link
    BY <1>c, <2>1
  <2>2. CASE link' = [link EXCEPT ![cg.conn].ack = FALSE] /\ cg' = [cg EXCEPT !.pc = "beat"]
    <3>. DEFINE l == [link[cg.conn] EXCEPT !.ack = FALSE]
    <3>1. cg.conn \in Conns
      BY <1>0, <1>3 DEF WaitForAck, ConnectionOK, Open
    <3>2. LinkOK(l)
      BY <1>0, <3>1 DEF LinkOK, Links
    <3>3. link' \in [Conns -> Links] /\ \A d \in Conns : LinkOK(link'[d])
      BY <1>0, <2>2, <3>1, <3>2, OneLink
    <3>4. cg' \in CgState /\ cg'.pc = "beat" /\ cg'.conn \in Conns
      BY <1>0, <2>2, <3>1 DEF ConnPcs
    <3>. QED BY <1>b, <3>3, <3>4
  <2>. QED BY <1>3, <2>1, <2>2 DEF WaitForAck
<1>4. CASE SendHeartbeat
  <2>. DEFINE c == cg.conn
              l == [link[c] EXCEPT !.q = Append(@, "beat")]
  <2>1. /\ cg.pc = "beat" /\ Len(link[c].q) < MaxQueue
        /\ link' = [link EXCEPT ![c] = l]
        /\ cg' = [cg EXCEPT !.fails = 0]
    BY <1>4 DEF SendHeartbeat
  <2>2. c \in Conns
    BY <1>0, <2>1 DEF ConnectionOK, Open
  <2>3. Len(link[c].q) <= MaxQueue /\ "beat" \in Messages
    <3>1. link[c].q \in Seq(Messages)
      BY <1>0, <2>2 DEF Links
    <3>. QED BY <2>1, <3>1, QueueFacts, ConnectionAssumption DEF Messages
  <2>5. LinkOK(l)
    BY <1>0, <2>2, <2>3, SentOrRead
  <2>6. link' \in [Conns -> Links] /\ \A d \in Conns : LinkOK(link'[d])
    BY <1>0, <2>1, <2>2, <2>5, OneLink
  <2>7. cg' \in CgState /\ cg'.pc = "beat" /\ cg'.conn = c
    BY <1>0, <2>1, ConnectionAssumption
  <2>. QED BY <1>b, <2>2, <2>6, <2>7
<1>5. CASE HeartbeatFails \/ MessageHandlerExits
  <2>1. CASE Reconnect /\ link' = link
    BY <1>c, <2>1
  <2>2. CASE /\ cg.pc = "beat" /\ link' = link
             /\ cg.fails + 1 < MaxHeartbeatFailures /\ cg' = [cg EXCEPT !.fails = @ + 1]
    <3>1. cg' \in CgState /\ cg'.pc = "beat" /\ cg'.conn = cg.conn
      BY <1>0, <2>2, ConnectionAssumption
    <3>2. cg.conn \in Conns
      BY <1>0, <2>2 DEF ConnectionOK, Open
    <3>. QED BY <1>0, <1>b, <2>2, <3>1, <3>2
  <2>. QED BY <1>5, <2>1, <2>2 DEF HeartbeatFails, MessageHandlerExits
<1>6. CASE ConnectionTakesSignal
  <2>1. cg' \in CgState /\ cg'.pc = "ended"
    BY <1>0, <1>6 DEF ConnectionTakesSignal, ConnPcs
  <2>2. link' \in [Conns -> Links] /\ \A d \in Conns : LinkOK(link'[d])
    <3>1. CASE link' = link
      BY <1>0, <3>1
    <3>2. CASE cg.pc = "beat" /\ CloseLink(cg.conn)
      BY <1>0, <3>2, CloseLinkOK DEF ConnectionOK, Open
    <3>. QED BY <1>6, <3>1, <3>2 DEF ConnectionTakesSignal
  <2>. QED BY <1>b, <2>1, <2>2 DEF Open
<1>7. CASE Stop \/ Kill \/ ConfiguratorCrash
  BY <1>0, <1>7, ProcessEndsOK DEF Stop, Kill, ConfiguratorCrash, Killed
<1>8. CASE ConfiguratorRestart
  <2>1. cg' \in CgState /\ cg'.pc = "dial" /\ link' = link
    BY <1>8, ConnectionAssumption DEF ConfiguratorRestart, ConnPcs
  <2>. QED BY <1>0, <1>b, <2>1 DEF Open
<1>9. CASE Break
  <2>1. PICK c \in Conns : link' = [link EXCEPT ![c] = NoLink] /\ cg' = cg
    BY <1>9 DEF Break, cfgVars
  <2>. QED BY <1>a, <2>1, NoLinkOK
<1>10. ASSUME NEW c \in Conns, ReadHello(c) \/ ReadHeartbeat(c) PROVE ConnectionOK'
  <2>1. CASE Readable(c) /\ Consume(c)
    <3>. DEFINE l == [link[c] EXCEPT !.q = Tail(@)]
    <3>1. /\ link[c].q # <<>> /\ cg' = cg
          /\ link' = [link EXCEPT ![c] = l]
      BY <1>10, <2>1 DEF Readable, Consume, ReadHello, ReadHeartbeat, cfgVars
    <3>4. LinkOK(l)
      BY <1>0, <3>1, SentOrRead
    <3>5. ~(cg.pc = "hello" /\ c = cg.conn)
      BY <1>0, <3>1 DEF ConnectionOK
    <3>. HIDE DEF l
    <3>. QED BY <1>a, <3>1, <3>4, <3>5
  <2>2. CASE link' = link /\ cg' = cg
    BY <1>0, <2>2 DEF ConnectionOK, LinkOK
  <2>. QED BY <1>10, <2>1, <2>2 DEF ReadHello, ReadHeartbeat, cfgVars
<1>11. ASSUME NEW c \in Conns, WriteAck(c) PROVE ConnectionOK'
  <2>1. CASE link' = [link EXCEPT ![c].ack = TRUE] /\ cg' = cg
    <3>. DEFINE l == [link[c] EXCEPT !.ack = TRUE]
    <3>1. LinkOK(l) /\ l.q = link[c].q
      BY <1>0 DEF LinkOK, Links
    <3>2. cg.pc = "hello" /\ c = cg.conn => l.q = <<>>
      BY <1>0, <3>1 DEF ConnectionOK
    <3>. QED BY <1>a, <2>1, <3>1, <3>2
  <2>2. CASE link' = link /\ cg' = cg
    BY <1>0, <2>2 DEF ConnectionOK, LinkOK
  <2>. QED BY <1>11, <2>1, <2>2 DEF WriteAck, cfgVars
<1>12. ASSUME NEW c \in Conns, Collect(c) PROVE ConnectionOK'
  <2>1. CloseLink(c) /\ cg' = cg
    BY <1>12 DEF Collect, cfgVars
  <2>. QED BY <1>0, <2>1, CloseLinkOK DEF ConnectionOK, LinkOK, Open
<1>13. ASSUME ManagerEnds PROVE ConnectionOK'
  <2>. DEFINE l(c) == [link[c] EXCEPT !.up = FALSE, !.q = <<>>]
  <2>1. link' = [c \in Conns |-> l(c)] /\ cg' = cg
    BY <1>13 DEF ManagerEnds, cfgVars
  <2>2. <<>> \in Seq(Messages) /\ Len(<<>>) <= MaxQueue + 1
    BY ConnectionAssumption
  <2>3. ASSUME NEW c \in Conns PROVE LinkOK(l(c)) /\ l(c).q = <<>>
    <3>1. [link[c] EXCEPT !.up = FALSE] \in Links
      BY <1>0 DEF Links
    <3>2. l(c) = [[link[c] EXCEPT !.up = FALSE] EXCEPT !.q = <<>>]
      OBVIOUS
    <3>. QED BY <2>2, <3>1, <3>2, NewQueue
  <2>. HIDE DEF l
  <2>. QED BY <1>0, <2>1, <2>3 DEF ConnectionOK, LinkOK, Open
<1>14. ASSUME UNCHANGED <<cg, link>> PROVE ConnectionOK'
  BY <1>0, <1>14 DEF ConnectionOK, LinkOK
<1>15. ASSUME NEW c \in Conns, HandlerSteps(c) PROVE ConnectionOK'
  <2>1. CASE Probe(c)
    BY <1>13, <1>14, <2>1 DEF Probe, cfgVars
  <2>2. CASE Register(c) \/ InitLiveness(c) \/ CloseClient(c)
    BY <1>14, <2>2 DEF Register, InitLiveness, CloseClient, cfgVars
  <2>. QED BY <1>10, <1>11, <1>12, <1>15, <2>1, <2>2 DEF HandlerSteps
<1>16. CASE ManagerCrash
  BY <1>13, <1>16 DEF ManagerCrash
<1>17. CASE Signal \/ OtherTakesSignal \/ MainTakesSignal \/ Stall \/ Resume \/ ManagerRestart \/ checkNodeLiveness
  BY <1>14, <1>17 DEF Signal, OtherTakesSignal, MainTakesSignal, Stall, Resume, ManagerRestart,
                      checkNodeLiveness, cfgVars
<1>18. ASSUME \/ \E n \in Names : Age(n)
              \/ \E w \in Callers : CallSteps(w)
              \/ \E v \in Versions : handleMsg(v)
              \/ UNCHANGED vars
       PROVE  ConnectionOK'
  BY <1>14, <1>18 DEF Age, CallSteps, BeginUpdate, SendUpdate, UpdateReturns, handleMsg, vars, cfgVars
<1>. QED BY <1>1, <1>2, <1>3, <1>4, <1>5, <1>6, <1>7, <1>8, <1>9, <1>15, <1>16, <1>17, <1>18
         DEF Next, ConfiguratorSteps, SignalSteps, FaultSteps, RestartSteps

\* The faults, the two processes and the signal keep their shape.
LEMMA ProcessesStep ==
    ASSUME ConnectionInv, [Next]_vars
    PROVE  ProcessesOK'
<1>0. ProcessesOK /\ (\A k : Fault(k) => faults' \in 0..MaxFaults)
  BY ConnectionAssumption DEF ConnectionInv, ProcessesOK, Fault
<1>1. ASSUME ConfiguratorSteps \/ RestartSteps \/ checkNodeLiveness \/ UNCHANGED vars PROVE ProcessesOK'
  BY <1>0, <1>1 DEF ProcessesOK, ConfiguratorSteps, Dial, SendHello, WaitForAck, SendHeartbeat, HeartbeatFails,
     MessageHandlerExits, RestartSteps, ConfiguratorRestart, ManagerRestart, checkNodeLiveness, vars, cfgVars
<1>2. ASSUME SignalSteps PROVE ProcessesOK'
  BY <1>0, <1>2 DEF ProcessesOK, SignalSteps, Signal, ConnectionTakesSignal, OtherTakesSignal, MainTakesSignal,
     Stop, Kill, Killed, ProcessEnds
<1>3. ASSUME FaultSteps PROVE ProcessesOK'
  BY <1>0, <1>3 DEF ProcessesOK, FaultSteps, Break, Stall, Resume, ConfiguratorCrash, Killed, ProcessEnds,
     ManagerCrash, ManagerEnds, cfgVars
<1>4. ASSUME NEW c \in Conns, HandlerSteps(c) PROVE ProcessesOK'
  BY <1>0, <1>4 DEF ProcessesOK, HandlerSteps, ReadHello, WriteAck, Probe, ManagerEnds, Register, InitLiveness,
     ReadHeartbeat, CloseClient, Collect, cfgVars
<1>5. ASSUME \/ \E n \in Names : Age(n)
             \/ \E w \in Callers : CallSteps(w)
             \/ \E v \in Versions : handleMsg(v)
      PROVE  ProcessesOK'
  BY <1>0, <1>5 DEF ProcessesOK, Age, CallSteps, BeginUpdate, SendUpdate, UpdateReturns, handleMsg, cfgVars
<1>. QED BY <1>1, <1>2, <1>3, <1>4, <1>5 DEF Next

-----------------------------------------------------------------------------
(***************************************************************************)
(* The handlers and the liveness table.                                    *)
(***************************************************************************)
\* Which steps write what the handlers share.
LEMMA HandlerCases ==
    ASSUME [Next]_vars
    PROVE  \/ Dial \/ ManagerEnds \/ checkNodeLiveness
           \/ \E c \in Conns : \/ ReadHello(c) \/ WriteAck(c) \/ Probe(c) \/ Register(c)
                               \/ InitLiveness(c) \/ ReadHeartbeat(c) \/ CloseClient(c)
           \/ \E n \in Names : Age(n)
           \/ UNCHANGED handlerVars
<1>1. ASSUME ConfiguratorSteps \/ RestartSteps \/ UNCHANGED vars
      PROVE  Dial \/ UNCHANGED handlerVars
  BY <1>1 DEF ConfiguratorSteps, SendHello, WaitForAck, SendHeartbeat, HeartbeatFails,
     MessageHandlerExits, RestartSteps, ConfiguratorRestart, ManagerRestart, vars
<1>2. ASSUME SignalSteps PROVE UNCHANGED handlerVars
  BY <1>2 DEF SignalSteps, Signal, ConnectionTakesSignal, OtherTakesSignal, MainTakesSignal, Stop, Kill, Killed
<1>3. ASSUME FaultSteps PROVE ManagerEnds \/ UNCHANGED handlerVars
  BY <1>3 DEF FaultSteps, Break, Stall, Resume, ConfiguratorCrash, Killed, ManagerCrash
<1>4. ASSUME NEW c \in Conns, Collect(c) PROVE UNCHANGED handlerVars
  BY <1>4 DEF Collect
<1>5. ASSUME \/ \E w \in Callers : CallSteps(w)
             \/ \E v \in Versions : handleMsg(v)
      PROVE  UNCHANGED handlerVars
  BY <1>5 DEF CallSteps, BeginUpdate, SendUpdate, UpdateReturns, handleMsg
<1>. QED BY <1>1, <1>2, <1>3, <1>4, <1>5 DEF Next, HandlerSteps

\* A handler goes on, to a place from which it still reads no heartbeats and has closed nothing.
LEMMA HandlerMoves ==
    ASSUME HandlersOK, NEW c \in Conns, NEW pc \in HandlerPcs, hdl' = [hdl EXCEPT ![c] = pc],
           hdl[c] \notin {"loop", "done"}, UNCHANGED <<client, closed, live>>,
           name' \in [Conns -> Names], \A d \in Conns \ {c} : name'[d] = name[d]
    PROVE  HandlersOK'
<1>1. hdl' \in [Conns -> HandlerPcs] /\ \A d \in closed : hdl'[d] = "done"
  BY DEF HandlersOK
<1>2. ASSUME NEW n \in Names, live[n].status = "Ready"
      PROVE  \E d \in Conns : name'[d] = n /\ hdl'[d] = "loop"
  <2>1. PICK d \in Conns : name[d] = n /\ hdl[d] = "loop"
    BY <1>2 DEF HandlersOK
  <2>2. d # c /\ hdl'[d] = "loop"
    BY <2>1 DEF HandlersOK
  <2>. QED BY <2>1, <2>2
<1>. QED BY <1>1, <1>2 DEF HandlersOK

\* The handlers keep the order of their steps: a node is marked before its client is closed.
LEMMA HandlersStep ==
    ASSUME ConnectionInv, [Next]_vars
    PROVE  HandlersOK'
<1>0. HandlersOK
  BY DEF ConnectionInv
<1>1. CASE Dial
  <2>1. PICK c \in Conns : hdl[c] = "none" /\ hdl' = [hdl EXCEPT ![c] = "hello"]
    BY <1>1 DEF Dial
  <2>2. UNCHANGED <<name, client, closed, live>>
    BY <1>1 DEF Dial
  <2>. QED BY <1>0, <2>1, <2>2, HandlerMoves DEF HandlersOK, HandlerPcs
<1>2. CASE ManagerEnds
  <2>1. /\ hdl' = [c \in Conns |-> IF hdl[c] = "none" THEN "none" ELSE "done"]
        /\ client' = [n \in Names |-> 0] /\ live' = [n \in Names |-> Unknown]
        /\ closed' = {c \in Conns : hdl[c] # "none"} /\ name' = name
    BY <1>2 DEF ManagerEnds
  <2>2. Unknown \in Liveness /\ Unknown.status # "Ready"
    BY DEF Unknown, Liveness
  <2>. HIDE DEF Unknown
  <2>. QED BY <1>0, <2>1, <2>2 DEF HandlersOK, HandlerPcs, Unknown
<1>3. ASSUME NEW c \in Conns, ReadHello(c) \/ WriteAck(c) PROVE HandlersOK'
  <2>1. /\ hdl[c] \in {"hello", "ack"}
        /\ \E pc \in {"ack", "rpc", "done"} : hdl' = [hdl EXCEPT ![c] = pc]
        /\ UNCHANGED <<client, closed, live>>
    BY <1>3 DEF ReadHello, WriteAck, Handler, To
  <2>2. name' = name \/ \E n \in Names : name' = [name EXCEPT ![c] = n]
    BY <1>3 DEF ReadHello, WriteAck, Names
  <2>3. name' \in [Conns -> Names] /\ \A d \in Conns \ {c} : name'[d] = name[d]
    BY <1>0, <2>2 DEF HandlersOK
  <2>. QED BY <1>0, <2>1, <2>3, HandlerMoves DEF HandlerPcs
<1>4. ASSUME NEW c \in Conns, Probe(c) PROVE HandlersOK'
  <2>1. CASE ~ManagerEnds
    <3>1. /\ hdl[c] = "rpc" /\ UNCHANGED <<name, client, closed, live>>
          /\ \E pc \in {"register", "done"} : hdl' = [hdl EXCEPT ![c] = pc]
      BY <1>4, <2>1 DEF Probe, Handler, To
    <3>. QED BY <1>0, <3>1, HandlerMoves DEF HandlersOK, HandlerPcs
  <2>. QED BY <1>2, <2>1
<1>5. ASSUME NEW c \in Conns, Register(c) PROVE HandlersOK'
  <2>1. /\ hdl[c] = "register" /\ hdl' = [hdl EXCEPT ![c] = "live"]
        /\ client' = [client EXCEPT ![name[c]] = c]
        /\ UNCHANGED <<name, closed, live>>
    BY <1>5 DEF Register, Handler, To
  <2>2. hdl' \in [Conns -> HandlerPcs] /\ \A d \in closed : hdl'[d] = "done"
    BY <1>0, <2>1 DEF HandlersOK, HandlerPcs
  <2>3. \A d \in Conns : hdl[d] = "loop" => hdl'[d] = "loop"
    BY <1>0, <2>1 DEF HandlersOK
  <2>4. client' \in [Names -> Conns \cup {0}]
    BY <1>0, <2>1 DEF HandlersOK
  <2>5. \A n \in Names : live[n].status = "Ready" => \E d \in Conns : name[d] = n /\ hdl'[d] = "loop"
    BY <1>0, <2>3 DEF HandlersOK
  <2>. QED BY <1>0, <2>1, <2>2, <2>4, <2>5 DEF HandlersOK
<1>6. ASSUME NEW c \in Conns, InitLiveness(c) PROVE HandlersOK'
  <2>. DEFINE l == [conn |-> c, status |-> "Ready", last |-> "zero"]
  <2>1. /\ hdl[c] = "live" /\ hdl' = [hdl EXCEPT ![c] = "loop"]
        /\ live' = [live EXCEPT ![name[c]] = l]
        /\ UNCHANGED <<name, closed, client>>
    BY <1>6 DEF InitLiveness, Handler, To
  <2>2. l \in Liveness
    BY DEF Liveness
  <2>3. hdl' \in [Conns -> HandlerPcs] /\ \A d \in closed : hdl'[d] = "done"
    BY <1>0, <2>1 DEF HandlersOK, HandlerPcs
  <2>4. hdl'[c] = "loop" /\ \A d \in Conns : hdl[d] = "loop" => hdl'[d] = "loop"
    BY <1>0, <2>1 DEF HandlersOK
  <2>. HIDE DEF l
  <2>5. live' \in [Names -> Liveness] /\ \A n \in Names : n # name[c] => live'[n] = live[n]
    BY <1>0, <2>1, <2>2 DEF HandlersOK
  <2>6. \A n \in Names : live'[n].status = "Ready" => \E d \in Conns : name[d] = n /\ hdl'[d] = "loop"
    BY <1>0, <2>4, <2>5 DEF HandlersOK
  <2>. QED BY <1>0, <2>1, <2>3, <2>5, <2>6 DEF HandlersOK
<1>7. ASSUME NEW c \in Conns, ReadHeartbeat(c) PROVE HandlersOK'
  <2>1. hdl[c] = "loop" /\ UNCHANGED <<name, client, closed>> /\ name[c] \in Names
    BY <1>0, <1>7 DEF ReadHeartbeat, Handler, HandlersOK
  <2>2. CASE hdl' = hdl /\ live' = [live EXCEPT ![name[c]].status = "Ready", ![name[c]].last = "recent"]
    <3>1. live' \in [Names -> Liveness] /\ \A n \in Names : n # name[c] => live'[n] = live[n]
      <4>. DEFINE l == [live[name[c]] EXCEPT !.status = "Ready", !.last = "recent"]
      <4>1. l \in Liveness
        <5>1. PICK old \in Liveness : old = live[name[c]]
          BY <1>0, <2>1 DEF HandlersOK
        <5>2. [old EXCEPT !.status = "Ready", !.last = "recent"] \in Liveness
          BY DEF Liveness
        <5>. QED BY <5>1, <5>2
      <4>2. live' = [live EXCEPT ![name[c]] = l]
        BY <1>0, <2>1, <2>2 DEF HandlersOK, Liveness
      <4>. HIDE DEF l
      <4>. QED BY <1>0, <2>1, <4>1, <4>2 DEF HandlersOK
    <3>2. \A n \in Names : live'[n].status = "Ready" => \E d \in Conns : name[d] = n /\ hdl[d] = "loop"
      BY <1>0, <2>1, <3>1 DEF HandlersOK
    <3>. QED BY <1>0, <2>1, <2>2, <3>1, <3>2 DEF HandlersOK
  <2>3. CASE /\ hdl' = [hdl EXCEPT ![c] = "close"]
             /\ live' = [live EXCEPT ![name[c]].status = "NotReady"]
    <3>1. /\ live' \in [Names -> Liveness] /\ live'[name[c]].status = "NotReady"
          /\ \A n \in Names : n # name[c] => live'[n] = live[n]
      BY <1>0, <2>1, <2>3 DEF HandlersOK, Liveness
    <3>2. hdl' \in [Conns -> HandlerPcs] /\ \A d \in closed : hdl'[d] = "done"
      BY <1>0, <2>1, <2>3 DEF HandlersOK, HandlerPcs
    <3>3. ASSUME NEW n \in Names, live'[n].status = "Ready"
          PROVE  \E d \in Conns : name[d] = n /\ hdl'[d] = "loop"
      <4>1. n # name[c] /\ live[n].status = "Ready"
        BY <3>1, <3>3
      <4>2. PICK d \in Conns : name[d] = n /\ hdl[d] = "loop"
        BY <1>0, <4>1 DEF HandlersOK
      <4>3. d # c /\ hdl'[d] = "loop"
        BY <1>0, <2>3, <4>1, <4>2 DEF HandlersOK
      <4>. QED BY <4>2, <4>3
    <3>. QED BY <1>0, <2>1, <3>1, <3>2, <3>3 DEF HandlersOK
  <2>. QED BY <1>7, <2>2, <2>3 DEF ReadHeartbeat, To
<1>8. ASSUME NEW c \in Conns, CloseClient(c) PROVE HandlersOK'
  <2>1. /\ hdl[c] = "close" /\ hdl' = [hdl EXCEPT ![c] = "done"] /\ closed' = closed \cup {c}
        /\ UNCHANGED <<name, client, live>>
    BY <1>8 DEF CloseClient, Handler, To
  <2>2. hdl' \in [Conns -> HandlerPcs] /\ \A d \in closed' : hdl'[d] = "done"
    BY <1>0, <2>1 DEF HandlersOK, HandlerPcs
  <2>3. \A d \in Conns : hdl[d] = "loop" => hdl'[d] = "loop"
    BY <1>0, <2>1 DEF HandlersOK
  <2>4. \A n \in Names : live[n].status = "Ready" => \E d \in Conns : name[d] = n /\ hdl'[d] = "loop"
    BY <1>0, <2>3 DEF HandlersOK
  <2>. QED BY <1>0, <2>1, <2>2, <2>4 DEF HandlersOK
<1>9. ASSUME checkNodeLiveness \/ \E n \in Names : Age(n) PROVE HandlersOK'
  <2>1. UNCHANGED <<hdl, name, client, closed>>
    BY <1>9 DEF checkNodeLiveness, Age
  <2>2. live' \in [Names -> Liveness] /\ \A n \in Names : live'[n].status = "Ready" => live[n].status = "Ready"
    <3>1. ASSUME NEW n \in Names
          PROVE  /\ [live[n] EXCEPT !.status = "NotReady"] \in Liveness
                 /\ [live[n] EXCEPT !.status = "NotReady"].status # "Ready"
                 /\ [live[n] EXCEPT !.last = "old"] \in Liveness
                 /\ [live[n] EXCEPT !.last = "old"].status = live[n].status
      BY <1>0 DEF HandlersOK, Liveness
    <3>2. CASE checkNodeLiveness
      <4>. DEFINE new(n) == IF live[n].status = "Ready" /\ live[n].last # "recent"
                            THEN [live[n] EXCEPT !.status = "NotReady"] ELSE live[n]
      <4>1. \A n \in Names : new(n) \in Liveness /\ (new(n).status = "Ready" => live[n].status = "Ready")
        BY <1>0, <3>1 DEF HandlersOK
      <4>2. live' = [n \in Names |-> new(n)]
        BY <3>2 DEF checkNodeLiveness
      <4>. HIDE DEF new
      <4>. QED BY <4>1, <4>2
    <3>3. ASSUME NEW n \in Names, Age(n)
          PROVE  live' \in [Names -> Liveness] /\ \A m \in Names : live'[m].status = live[m].status
      <4>. DEFINE l == [live[n] EXCEPT !.last = "old"]
      <4>1. l \in Liveness /\ l.status = live[n].status
        BY <3>1
      <4>2. live' = [live EXCEPT ![n] = l]
        BY <3>3 DEF Age
      <4>. HIDE DEF l
      <4>. QED BY <1>0, <4>1, <4>2 DEF HandlersOK
    <3>. QED BY <1>9, <3>2, <3>3
  <2>. QED BY <1>0, <2>1, <2>2 DEF HandlersOK
<1>10. ASSUME UNCHANGED handlerVars PROVE HandlersOK'
  BY <1>0, <1>10 DEF handlerVars, HandlersOK
<1>. QED BY <1>1, <1>2, <1>3, <1>4, <1>5, <1>6, <1>7, <1>8, <1>9, <1>10, HandlerCases

-----------------------------------------------------------------------------
(***************************************************************************)
(* The configurations and the files.                                       *)
(***************************************************************************)
\* Which steps write what the callers and the writers share.
LEMMA FileCases ==
    ASSUME [Next]_vars
    PROVE  \/ Killed \/ ManagerEnds
           \/ \E w \in Callers : BeginUpdate(w) \/ SendUpdate(w) \/ UpdateReturns(w)
           \/ \E v \in Versions : handleMsg(v)
           \/ UNCHANGED <<fileVars, callVars>>
<1>1. ASSUME ConfiguratorSteps \/ RestartSteps \/ checkNodeLiveness \/ UNCHANGED vars
      PROVE  UNCHANGED <<fileVars, callVars>>
  BY <1>1 DEF ConfiguratorSteps, Dial, SendHello, WaitForAck, SendHeartbeat, HeartbeatFails,
     MessageHandlerExits, RestartSteps, ConfiguratorRestart, ManagerRestart, checkNodeLiveness, vars
<1>2. ASSUME SignalSteps PROVE Killed \/ UNCHANGED <<fileVars, callVars>>
  BY <1>2 DEF SignalSteps, Signal, ConnectionTakesSignal, OtherTakesSignal, MainTakesSignal, Stop, Kill
<1>3. ASSUME FaultSteps PROVE Killed \/ ManagerEnds \/ UNCHANGED <<fileVars, callVars>>
  BY <1>3 DEF FaultSteps, Break, Stall, Resume, ConfiguratorCrash, ManagerCrash
<1>4. ASSUME NEW c \in Conns, HandlerSteps(c) PROVE ManagerEnds \/ UNCHANGED <<fileVars, callVars>>
  BY <1>4 DEF HandlerSteps, ReadHello, WriteAck, Probe, Register, InitLiveness, ReadHeartbeat, CloseClient, Collect
<1>5. ASSUME NEW n \in Names, Age(n) PROVE UNCHANGED <<fileVars, callVars>>
  BY <1>5 DEF Age
<1>. QED BY <1>1, <1>2, <1>3, <1>4, <1>5 DEF Next, CallSteps

\* A configurator that is killed leaves no writer behind.
LEMMA KilledFiles ==
    ASSUME FilesOK, Killed
    PROVE  /\ UNCHANGED <<conf, ports, config, caller>>
           /\ writer' \in [Versions -> {"none", "create", "conf", "ports", "done"}]
           /\ Writing = {} => UNCHANGED <<writer, lost>>
           /\ Writing # {} => lost' = lost \cup {"mixed"}
           /\ \A v \in Versions : writer'[v] = "none" <=> writer[v] = "none"
<1>1. /\ writer' = [v \in Versions |-> IF v \in Writing THEN "done" ELSE writer[v]]
      /\ lost' = IF Writing = {} THEN lost ELSE lost \cup {"mixed"}
      /\ UNCHANGED <<conf, ports, config, caller>>
  BY DEF Killed, fileVars, callVars
<1>2. \A v \in Writing : writer[v] # "none"
  BY DEF Writing
<1>3. writer \in [Versions -> {"none", "create", "conf", "ports", "done"}]
  BY DEF FilesOK
<1>4. Writing = {} => writer' = writer
  BY <1>1, <1>3
<1>. HIDE DEF Writing
<1>. QED BY <1>1, <1>2, <1>3, <1>4

\* The files, their writers and the callers keep their shape; a call names a configuration that has been made.
LEMMA FilesStep ==
    ASSUME ConnectionInv, [Next]_vars
    PROVE  FilesOK' /\ CallersOK'
<1>. DEFINE CallerState == [pc : {"idle", "send", "wait"}, v : 0..MaxConfigs]
            idle == [pc |-> "idle", v |-> 0]
<1>0. FilesOK /\ CallersOK /\ caller \in [Callers -> CallerState] /\ idle \in CallerState
  BY ConnectionAssumption DEF ConnectionInv, CallersOK
<1>1. CASE Killed
  <2>1. lost' \subseteq {"missed", "mixed"}
    BY <1>0, <1>1, KilledFiles DEF FilesOK
  <2>. QED BY <1>0, <1>1, <2>1, KilledFiles DEF FilesOK, CallersOK
<1>2. CASE ManagerEnds
  <2>1. /\ caller' = [w \in Callers |-> idle] /\ lost' = lost \cup {"missed"}
        /\ UNCHANGED <<conf, ports, writer, config>>
    BY <1>2 DEF ManagerEnds, fileVars
  <2>. QED BY <1>0, <2>1 DEF FilesOK, CallersOK
<1>3. ASSUME NEW w \in Callers, BeginUpdate(w) PROVE FilesOK' /\ CallersOK'
  <2>. DEFINE r == [pc |-> "send", v |-> config + 1]
  <2>1. /\ config < MaxConfigs /\ config' = config + 1
        /\ UNCHANGED <<conf, ports, writer>>
        /\ lost' \in {lost, lost \cup {"missed"}}
        /\ caller' = caller \/ caller' = [caller EXCEPT ![w] = r]
    BY <1>3 DEF BeginUpdate, fileVars
  <2>2. config' \in 0..MaxConfigs /\ config' \in 1..config' /\ 1..config \subseteq 1..config'
    BY <1>0, <2>1, ConnectionAssumption DEF CallersOK
  <2>3. r \in CallerState /\ r.v = config'
    BY <2>1, <2>2
  <2>. HIDE DEF r
  <2>4. caller' \in [Callers -> CallerState] /\ \A d \in Callers : caller'[d].pc # "idle" => caller'[d].v \in 1..config'
    BY <1>0, <2>1, <2>2, <2>3 DEF CallersOK
  <2>. QED BY <1>0, <2>1, <2>2, <2>4 DEF FilesOK, CallersOK
<1>4. ASSUME NEW w \in Callers, SendUpdate(w) PROVE FilesOK' /\ CallersOK'
  <2>1. caller[w].pc = "send" /\ UNCHANGED <<conf, ports, config>> /\ lost' \subseteq lost \cup {"missed", "mixed"}
    BY <1>4 DEF SendUpdate
  <2>2. caller[w].v \in 1..config /\ 1..config \subseteq Versions
    BY <1>0, <2>1, ConnectionAssumption DEF CallersOK, Versions
  <2>3. writer' \in {writer, [writer EXCEPT ![caller[w].v] = "create"]}
    BY <1>4 DEF SendUpdate
  <2>4. writer' \in [Versions -> {"none", "create", "conf", "ports", "done"}]
    BY <1>0, <2>2, <2>3 DEF FilesOK
  <2>5. caller' = [caller EXCEPT ![w] = idle] \/ caller' = [caller EXCEPT ![w].pc = "wait"]
    BY <1>4 DEF SendUpdate, Return
  <2>6. caller' \in [Callers -> CallerState] /\ \A d \in Callers : caller'[d].pc # "idle" => caller'[d].v \in 1..config
    BY <1>0, <2>2, <2>5 DEF CallersOK
  <2>. QED BY <1>0, <2>1, <2>4, <2>6 DEF FilesOK, CallersOK
<1>5. ASSUME NEW w \in Callers, UpdateReturns(w) PROVE FilesOK' /\ CallersOK'
  <2>1. caller' = [caller EXCEPT ![w] = idle] /\ UNCHANGED <<conf, ports, writer, config, lost>>
    BY <1>5 DEF UpdateReturns, Return, fileVars
  <2>. QED BY <1>0, <2>1 DEF FilesOK, CallersOK
<1>6. ASSUME NEW v \in Versions, handleMsg(v) PROVE FilesOK' /\ CallersOK'
  BY <1>0, <1>6 DEF handleMsg, callVars, FilesOK, CallersOK
<1>7. ASSUME UNCHANGED <<fileVars, callVars>> PROVE FilesOK' /\ CallersOK'
  BY <1>0, <1>7 DEF fileVars, callVars, FilesOK, CallersOK
<1>. QED BY <1>1, <1>2, <1>3, <1>4, <1>5, <1>6, <1>7, FileCases

\* Only writers that overlap, or are killed, leave the files mixed: handleMsg truncates both before it writes either.
LEMMA OneWriterStep ==
    ASSUME ConnectionInv, [Next]_vars
    PROVE  OneWriter'
<1>. SUFFICES ASSUME "mixed" \notin lost'
              PROVE  /\ \A u, v \in Writing' : u = v
                     /\ \A v \in Writing' : WrittenBy(v)'
                     /\ Writing' = {} => conf' = ports' /\ (conf' = {} \/ \E v \in Versions : conf' = {v})
  BY DEF OneWriter
<1>0. FilesOK /\ CallersOK /\ OneWriter
  BY DEF ConnectionInv
<1>a. ASSUME UNCHANGED <<conf, ports, writer>>, "mixed" \notin lost
      PROVE  /\ \A u, v \in Writing' : u = v
             /\ \A v \in Writing' : WrittenBy(v)'
             /\ Writing' = {} => conf' = ports' /\ (conf' = {} \/ \E v \in Versions : conf' = {v})
  BY <1>0, <1>a DEF OneWriter, Writing, WrittenBy
<1>1. CASE Killed
  BY <1>0, <1>1, <1>a, KilledFiles
<1>2. CASE ManagerEnds
  BY <1>2, <1>a DEF ManagerEnds, fileVars
<1>3. ASSUME NEW w \in Callers, BeginUpdate(w) \/ UpdateReturns(w)
      PROVE  UNCHANGED <<conf, ports, writer>> /\ "mixed" \notin lost
  BY <1>3 DEF BeginUpdate, UpdateReturns, fileVars
<1>4. ASSUME NEW w \in Callers, SendUpdate(w)
      PROVE  /\ \A u, v \in Writing' : u = v
             /\ \A v \in Writing' : WrittenBy(v)'
             /\ Writing' = {} => conf' = ports' /\ (conf' = {} \/ \E v \in Versions : conf' = {v})
  <2>1. CASE UNCHANGED writer
    BY <1>4, <1>a, <2>1 DEF SendUpdate
  <2>2. CASE /\ writer' = [writer EXCEPT ![caller[w].v] = "create"]
             /\ Writing = {}
    <3>1. caller[w].v \in Versions
      BY <1>0, <1>4, ConnectionAssumption DEF SendUpdate, CallersOK, Versions
    <3>2. Writing' = {caller[w].v} /\ writer'[caller[w].v] = "create"
      BY <1>0, <2>2, <3>1 DEF Writing, FilesOK
    <3>. QED BY <3>2 DEF WrittenBy
  <2>3. Writing # {} => UNCHANGED writer
    BY <1>4 DEF SendUpdate
  <2>. QED BY <1>4, <2>1, <2>2, <2>3 DEF SendUpdate
<1>5. ASSUME NEW v \in Versions, handleMsg(v)
      PROVE  /\ \A u, x \in Writing' : u = x
             /\ \A x \in Writing' : WrittenBy(x)'
             /\ Writing' = {} => conf' = ports' /\ (conf' = {} \/ \E x \in Versions : conf' = {x})
  <2>0. "mixed" \notin lost
    BY <1>5 DEF handleMsg, callVars
  <2>1. Writing = {v} /\ WrittenBy(v)
    BY <1>0, <1>5, <2>0 DEF handleMsg, Writing, OneWriter
  <2>2. CASE writer' = [writer EXCEPT ![v] = "conf"] /\ conf' = {} /\ ports' = {}
    <3>1. Writing' = {v}
      BY <1>0, <2>1, <2>2 DEF Writing, FilesOK
    <3>. QED BY <1>0, <2>2, <3>1 DEF WrittenBy, FilesOK
  <2>3. CASE /\ writer[v] = "conf" /\ writer' = [writer EXCEPT ![v] = "ports"]
             /\ conf' = conf \cup {v} /\ ports' = ports
    <3>1. Writing' = {v}
      BY <1>0, <2>1, <2>3 DEF Writing, FilesOK
    <3>. QED BY <1>0, <2>1, <2>3, <3>1 DEF WrittenBy, FilesOK
  <2>4. CASE /\ writer[v] = "ports" /\ writer' = [writer EXCEPT ![v] = "done"]
             /\ ports' = ports \cup {v} /\ conf' = conf
    <3>1. Writing' = {}
      BY <1>0, <2>1, <2>4 DEF Writing, FilesOK
    <3>2. conf' = {v} /\ ports' = {v}
      BY <2>1, <2>4 DEF WrittenBy
    <3>. QED BY <3>1, <3>2
  <2>. QED BY <1>5, <2>2, <2>3, <2>4 DEF handleMsg
<1>6. ASSUME UNCHANGED <<fileVars, callVars>>
      PROVE  UNCHANGED <<conf, ports, writer>> /\ "mixed" \notin lost
  BY <1>6 DEF fileVars, callVars
<1>. QED BY <1>1, <1>2, <1>3, <1>4, <1>5, <1>6, <1>a, FileCases

\* Each configuration is sent, and the last one that was sent is what the files get, unless one was missed or the writers were not one after the other.
LEMMA InOrderStep ==
    ASSUME ConnectionInv, [Next]_vars
    PROVE  InOrder'
<1>0. FilesOK /\ CallersOK /\ OneWriter /\ InOrder
  BY DEF ConnectionInv
<1>1. CASE Killed
  <2>1. CASE Writing = {}
    BY <1>0, <1>1, <2>1, KilledFiles DEF InOrder, Writing
  <2>2. CASE Writing # {}
    BY <1>0, <1>1, <2>2, KilledFiles DEF InOrder
  <2>. QED BY <2>1, <2>2
<1>2. CASE ManagerEnds
  BY <1>0, <1>2 DEF ManagerEnds, fileVars, InOrder
<1>3. ASSUME NEW w \in Callers, BeginUpdate(w) PROVE InOrder'
  <2>. DEFINE r == [pc |-> "send", v |-> config + 1]
  <2>1. /\ config' = config + 1 /\ config \in Nat /\ caller[w].pc = "idle"
        /\ UNCHANGED <<conf, ports, writer>>
    BY <1>0, <1>3, ConnectionAssumption DEF BeginUpdate, fileVars, CallersOK
  <2>2. \A v \in Versions : v > config' => writer'[v] = "none"
    BY <1>0, <2>1 DEF InOrder, Versions
  <2>3. ASSUME lost' = {} PROVE lost = {} /\ caller' = [caller EXCEPT ![w] = r]
    BY <1>3, <2>3 DEF BeginUpdate
  <2>4. r.pc = "send" /\ r.v = config'
    BY <2>1
  <2>. HIDE DEF r
  <2>5. ASSUME lost' = {}, NEW v \in 1..config'
        PROVE  writer'[v] # "none" \/ \E d \in Callers : caller'[d].pc = "send" /\ caller'[d].v = v
    <3>1. CASE v = config'
      BY <1>0, <2>3, <2>4, <2>5, <3>1 DEF CallersOK
    <3>2. CASE v \in 1..config
      <4>1. CASE writer[v] # "none"
        BY <2>1, <4>1
      <4>2. ASSUME NEW d \in Callers, caller[d].pc = "send", caller[d].v = v
            PROVE  caller'[d].pc = "send" /\ caller'[d].v = v
        BY <1>0, <2>1, <2>3, <2>5, <4>2 DEF CallersOK
      <4>. QED BY <1>0, <2>3, <2>5, <3>2, <4>1, <4>2 DEF InOrder
    <3>. QED BY <2>1, <2>5, <3>1, <3>2
  <2>. QED BY <1>0, <2>1, <2>2, <2>3, <2>5 DEF InOrder, Writing
<1>4. ASSUME NEW w \in Callers, SendUpdate(w) PROVE InOrder'
  <2>. DEFINE v == caller[w].v
  <2>1. v \in 1..config /\ v \in Versions /\ v \in Nat /\ UNCHANGED <<conf, ports, config>>
    BY <1>0, <1>4, ConnectionAssumption DEF SendUpdate, CallersOK, Versions
  <2>2. writer' \in {writer, [writer EXCEPT ![v] = "create"]}
    BY <1>4 DEF SendUpdate
  <2>3. ASSUME NEW u \in Versions, u > config PROVE writer'[u] = "none"
    <3>1. writer[u] = "none" /\ u # v
      BY <1>0, <2>1, <2>3 DEF InOrder, CallersOK, Versions
    <3>. QED BY <1>0, <2>2, <3>1 DEF FilesOK
  <2>4. CASE lost' # {}
    BY <2>1, <2>3, <2>4 DEF InOrder
  <2>5. CASE lost' = {}
    <3>1. /\ lost = {} /\ Writing = {} /\ writer' = [writer EXCEPT ![v] = "create"]
          /\ caller' = [caller EXCEPT ![w].pc = "wait"]
          /\ \A u \in Versions : u > v => writer[u] = "none"
      BY <1>4, <2>5 DEF SendUpdate
    <3>2. writer'[v] = "create" /\ \A u \in Versions \ {v} : writer'[u] = writer[u]
      BY <1>0, <2>1, <3>1 DEF FilesOK
    <3>3. ASSUME NEW u \in 1..config
          PROVE  writer'[u] # "none" \/ \E d \in Callers : caller'[d].pc = "send" /\ caller'[d].v = u
      <4>1. u \in Versions
        BY <1>0, ConnectionAssumption DEF CallersOK, Versions
      <4>2. CASE u = v
        BY <3>2, <4>2
      <4>3. CASE u # v /\ writer[u] # "none"
        BY <3>2, <4>1, <4>3
      <4>4. ASSUME u # v, NEW d \in Callers, caller[d].pc = "send", caller[d].v = u
            PROVE  caller'[d].pc = "send" /\ caller'[d].v = u
        BY <1>0, <3>1, <4>4 DEF CallersOK
      <4>. QED BY <1>0, <3>1, <4>2, <4>3, <4>4 DEF InOrder
    <3>4. Writing' = {v}
      BY <1>0, <2>1, <3>1, <3>2 DEF Writing
    <3>5. \A u \in Versions : writer'[u] # "none" => u <= v
      BY <2>1, <3>1, <3>2 DEF Versions
    <3>6. ASSUME NEW u \in Versions, writer'[u] = "done", \A x \in Versions : writer'[x] # "none" => x <= u
          PROVE  FALSE
      BY <2>1, <3>2, <3>5, <3>6 DEF Versions
    <3>. QED BY <2>1, <2>3, <3>3, <3>4, <3>5, <3>6 DEF InOrder
  <2>. QED BY <2>4, <2>5
<1>5. ASSUME NEW w \in Callers, UpdateReturns(w) PROVE InOrder'
  <2>1. /\ caller[w].pc = "wait" /\ UNCHANGED <<conf, ports, writer, config, lost>>
        /\ \A d \in Callers : d # w => caller'[d] = caller[d]
    BY <1>0, <1>5 DEF UpdateReturns, Return, fileVars, CallersOK
  <2>2. \A d \in Callers : caller[d].pc = "send" => caller'[d] = caller[d]
    BY <2>1
  <2>. QED BY <1>0, <2>1, <2>2 DEF InOrder, Writing
<1>6. ASSUME NEW v \in Versions, handleMsg(v) PROVE InOrder'
  <2>1. /\ UNCHANGED <<config, caller, lost>> /\ v \in Writing
        /\ \A u \in Versions : writer'[u] = "none" <=> writer[u] = "none"
        /\ \A u \in Versions \ {v} : writer'[u] = writer[u]
    BY <1>0, <1>6 DEF handleMsg, callVars, FilesOK, Writing
  <2>2. 1..config \subseteq Versions
    BY <1>0, ConnectionAssumption DEF CallersOK, Versions
  <2>3. Writing' \subseteq Writing
    BY <2>1 DEF Writing
  <2>4. ASSUME lost = {}, NEW u \in Versions, writer'[u] = "done",
               \A x \in Versions : writer'[x] # "none" => x <= u
        PROVE  conf' = {u} /\ ports' = {u}
    <3>1. u <= v /\ v <= u
      BY <1>0, <2>1, <2>4 DEF InOrder, Writing
    <3>2. u = v
      BY <3>1 DEF Versions
    <3>3. WrittenBy(v)
      BY <1>0, <2>1, <2>4 DEF OneWriter
    <3>4. writer[v] = "ports" /\ conf' = conf /\ ports' = ports \cup {v}
      BY <1>0, <1>6, <2>4, <3>2 DEF handleMsg, FilesOK
    <3>. QED BY <3>2, <3>3, <3>4 DEF WrittenBy
  <2>. QED BY <1>0, <2>1, <2>2, <2>3, <2>4 DEF InOrder
<1>7. ASSUME UNCHANGED <<fileVars, callVars>> PROVE InOrder'
  BY <1>0, <1>7 DEF fileVars, callVars, InOrder, Writing
<1>. QED BY <1>1, <1>2, <1>3, <1>4, <1>5, <1>6, <1>7, FileCases

-----------------------------------------------------------------------------
\* The invariant holds when both processes have just started.
LEMMA ConnectionInit ==
    ASSUME Init
    PROVE  ConnectionInv
<1>1. ConnectionOK
  <2>1. link = [c \in Conns |-> NoLink] /\ cg = [pc |-> "dial", conn |-> 0, fails |-> 0]
    BY DEF Init
  <2>2. NoLink \in Links
    BY NoLinkOK DEF LinkOK
  <2>. QED BY <2>1, <2>2, NoLinkOK, ConnectionAssumption DEF ConnectionOK, ConnPcs, Open
<1>2. ProcessesOK
  <2>1. 0 \in 0..MaxFaults
    BY ConnectionAssumption
  <2>. QED BY <2>1 DEF Init, ProcessesOK
<1>3. FilesOK /\ CallersOK
  BY ConnectionAssumption DEF Init, FilesOK, CallersOK
<1>4. HandlersOK
  BY DEF Init, HandlersOK, HandlerPcs, Names, Unknown, Liveness
<1>5. OneWriter /\ InOrder
  <2>1. /\ writer = [v \in Versions |-> "none"] /\ conf = {} /\ ports = {} /\ config = 0
    BY DEF Init
  <2>2. Writing = {} /\ 1..config = {}
    BY <2>1 DEF Writing
  <2>. QED BY <2>1, <2>2 DEF OneWriter, InOrder
<1>. QED BY <1>1, <1>2, <1>3, <1>4, <1>5 DEF ConnectionInv

\* The connection always satisfies its invariant.
THEOREM ConnectionInvariance == Spec => []ConnectionInv
<1>1. Init => ConnectionInv
  BY ConnectionInit
<1>2. ConnectionInv /\ [Next]_vars => ConnectionInv'
  BY ConnectionStep, ProcessesStep, HandlersStep, FilesStep, OneWriterStep, InOrderStep DEF ConnectionInv
<1>. QED BY <1>1, <1>2, PTL DEF Spec

\* Type correctness: no connection has more under way than the hello and the heartbeats its queue takes, and no configuration is numbered beyond those that were made.
THEOREM ConnectionTypeCorrect == Spec => []TypeOK
<1>1. ConnectionInv => TypeOK
  BY DEF ConnectionInv, TypeOK, ConnectionOK, ProcessesOK, FilesOK, CallersOK, HandlersOK,
         ConnPcs, LinkOK, Links, Messages, HandlerPcs, Liveness
<1>. QED BY <1>1, ConnectionInvariance, PTL

\* Only writers that overlap or are killed leave the two files of a node in disagreement or mixed: handleMsg truncates both before it writes either, and server.Stop waits for the writers.
THEOREM FilesStayWhole == Spec => []FilesWhole
<1>1. ASSUME ConnectionInv PROVE FilesWhole
  <2>1. SUFFICES ASSUME Quiet, "mixed" \notin lost PROVE conf = ports /\ Cardinality(conf) <= 1
    BY DEF FilesWhole
  <2>2. conf = ports /\ (conf = {} \/ \E v \in Versions : conf = {v})
    BY <1>1, <2>1 DEF ConnectionInv, OneWriter, Quiet
  <2>3. Cardinality({}) = 0 /\ \A v : Cardinality({v}) = 1
    BY FS_EmptySet, FS_Singleton
  <2>. QED BY <2>2, <2>3
<1>. QED BY <1>1, ConnectionInvariance, PTL

\* The last configuration, if none was dropped, refused, overlapped, overtaken, killed or forgotten, is what both files hold when nobody writes.
THEOREM LastConfigArrives == Spec => []ConfigArrives
<1>1. ASSUME ConnectionInv PROVE ConfigArrives
  <2>1. SUFFICES ASSUME Quiet, lost = {}, config > 0 PROVE conf = {config} /\ ports = {config}
    BY DEF ConfigArrives
  <2>2. config \in 1..config /\ config \in Versions /\ config \in Nat
    BY <1>1, <2>1, ConnectionAssumption DEF ConnectionInv, CallersOK, Versions
  <2>3. writer[config] # "none"
    BY <1>1, <2>1, <2>2 DEF ConnectionInv, InOrder, Quiet
  <2>4. writer[config] = "done"
    BY <1>1, <2>1, <2>2, <2>3 DEF ConnectionInv, FilesOK, Quiet, Writing
  <2>5. \A u \in Versions : writer[u] # "none" => u <= config
    BY <1>1, <2>2 DEF ConnectionInv, InOrder, Versions
  <2>. QED BY <1>1, <2>1, <2>2, <2>4, <2>5 DEF ConnectionInv, InOrder
<1>. QED BY <1>1, ConnectionInvariance, PTL

\* A node that counts as ready although its client is closed owes the status to the handler of another connection: each handler marks its node not ready before it closes its client.
THEOREM ReadyOwedToAnother == Spec => []ReadyByAnother
<1>1. ASSUME ConnectionInv PROVE ReadyByAnother
  <2>1. SUFFICES ASSUME NEW n \in Names, live[n].status = "Ready", client[n] \in closed
                 PROVE  \E c \in Conns : c # client[n] /\ name[c] = n /\ hdl[c] \in {"loop", "close"}
    BY DEF ReadyByAnother
  <2>2. PICK c \in Conns : name[c] = n /\ hdl[c] = "loop"
    BY <1>1, <2>1 DEF ConnectionInv, HandlersOK
  <2>3. c # client[n]
    BY <1>1, <2>1, <2>2 DEF ConnectionInv, HandlersOK
  <2>. QED BY <2>2, <2>3
<1>. QED BY <1>1, ConnectionInvariance, PTL
=============================================================================

--------------------------- MODULE NodeConnection ---------------------------
(***************************************************************************)
(* The connection of a node's fast-configurator to the configuration       *)
(* manager of the controller: hello, acknowledgement and heartbeats over   *)
(* TCP, the gRPC client that the manager opens back to the node, the       *)
(* liveness table, and the configuration of a GPU that is sent through     *)
(* that client and written into two files on the node.                     *)
(*                                                                         *)
(* Every TCP connection has a number.  The configurator uses one at a      *)
(* time; the manager has a handler goroutine for each one it accepted, and *)
(* the handler of an old connection may still run when the next one has    *)
(* been set up.  A configuration is a version number of the pod list.      *)
(***************************************************************************)
EXTENDS Naturals, Sequences, FiniteSets

CONSTANTS
    Callers,       \* goroutines of the manager that send configurations
    Unlocked,      \* those that do so without nodesInfoMtx (reconcileResourceConfig)
    Faults,        \* the kinds of fault that may happen
    MaxFaults,     \* bound on the number of faults
    MaxConfigs,    \* bound on the number of configurations
    MaxQueue,      \* bound on the heartbeats under way in a connection
    MaxHeartbeatFailures   \* failed writes in a row before a new connection, 3 in the code

FaultKinds == {"reset", "stall", "health", "gpus", "kube", "device", "timeout",
               "mgrCrash", "cfgCrash", "signal"}

ASSUME ConnectionAssumption ==
    /\ Unlocked \subseteq Callers
    /\ Faults \subseteq FaultKinds
    /\ MaxFaults \in Nat /\ MaxConfigs \in Nat
    /\ MaxQueue \in Nat \ {0} /\ MaxHeartbeatFailures \in Nat \ {0}

\* Every connection after the first follows a fault.
Conns == 1..(MaxFaults + 1)
Versions == 1..MaxConfigs
\* A node is known by its own name, or by that of its daemon pod when the pod cannot be read.
Names == {"node", "pod"}

VARIABLES
    faults,     \* number of faults so far
    \* The configurator.
    cfg,        \* its process: "up", "stalled", "stopping" (in server.Stop) or "down"
    cg,         \* its connection goroutine: [pc, conn, fails]
    other,      \* the goroutine of the second connection waits for the signal too
    sig,        \* a signal is in sigChan
    doomed,     \* the kubelet has asked the process to end and will kill it
    conf, ports,\* the versions written to each file since it was last truncated
    writer,     \* handleMsg of each version
    \* The network.
    link,       \* each connection: [up, q, ack]
    \* The manager.
    mgr,        \* its process is up
    hdl,        \* the handler of each connection
    name,       \* the node name that handler has found
    client,     \* the connection whose gRPC client each node holds, 0 for none
    closed,     \* the connections whose gRPC client is closed
    live,       \* nodesLiveness: [conn, status, last] of each node name
    config,     \* the version of the pod list in the ledger
    caller,     \* updatePodsGPUConfig: [pc, v] of each caller
    lost        \* history: a configuration was "missed" (dropped, refused, overtaken or forgotten
                \* in a restart), the files were "mixed" (overlapping or killed writers)

cfgVars == <<cfg, cg, other, sig, doomed>>
fileVars == <<conf, ports, writer>>
handlerVars == <<hdl, name, client, closed, live>>
callVars == <<config, caller, lost>>
vars == <<faults, cfgVars, fileVars, link, mgr, handlerVars, callVars>>

NoLink == [up |-> FALSE, q |-> <<>>, ack |-> FALSE]
Unknown == [conn |-> 0, status |-> "none", last |-> "zero"]

TypeOK ==
    /\ faults \in 0..MaxFaults
    /\ cfg \in {"up", "stalled", "stopping", "down"}
    /\ cg \in [pc : {"dial", "hello", "ack", "beat", "ended"}, conn : Conns \cup {0},
               fails : 0..(MaxHeartbeatFailures - 1)]
    /\ other \in BOOLEAN /\ sig \in BOOLEAN /\ doomed \in BOOLEAN
    /\ conf \subseteq Versions /\ ports \subseteq Versions
    /\ writer \in [Versions -> {"none", "create", "conf", "ports", "done"}]
    /\ \A c \in Conns :
         /\ link[c].up \in BOOLEAN /\ link[c].ack \in BOOLEAN
         /\ link[c].q \in Seq({"hello", "beat"}) /\ Len(link[c].q) <= MaxQueue + 1
    /\ mgr \in BOOLEAN
    /\ hdl \in [Conns -> {"none", "hello", "ack", "rpc", "register", "live", "loop", "close", "done"}]
    /\ name \in [Conns -> Names]
    /\ client \in [Names -> Conns \cup {0}]
    /\ closed \subseteq Conns
    /\ live \in [Names -> [conn : Conns \cup {0}, status : {"none", "Ready", "NotReady"},
                           last : {"zero", "recent", "old"}]]
    /\ config \in 0..MaxConfigs
    /\ caller \in [Callers -> [pc : {"idle", "send", "wait"}, v : 0..MaxConfigs]]
    /\ lost \subseteq {"missed", "mixed"}

Init ==
    /\ faults = 0
    /\ cfg = "up" /\ cg = [pc |-> "dial", conn |-> 0, fails |-> 0]
    /\ other = TRUE /\ sig = FALSE /\ doomed = FALSE
    /\ conf = {} /\ ports = {} /\ writer = [v \in Versions |-> "none"]
    /\ link = [c \in Conns |-> NoLink]
    /\ mgr = TRUE
    /\ hdl = [c \in Conns |-> "none"] /\ name = [c \in Conns |-> "node"]
    /\ client = [n \in Names |-> 0] /\ closed = {}
    /\ live = [n \in Names |-> Unknown]
    /\ config = 0 /\ caller = [w \in Callers |-> [pc |-> "idle", v |-> 0]] /\ lost = {}

\* A fault of kind k happens now.
Fault(k) == k \in Faults /\ faults < MaxFaults /\ faults' = faults + 1

Writing == {v \in Versions : writer[v] \in {"create", "conf", "ports"}}

-----------------------------------------------------------------------------
(* The configurator: maintainConnection.                                   *)

Running == cfg \in {"up", "stopping"}

\* A mutated Reconnect: the loop returns.
ReconnectGivesUp == cg' = [pc |-> "ended", conn |-> 0, fails |-> 0]

\* The connection is closed, and the loop dials again.
Reconnect == cg' = [pc |-> "dial", conn |-> 0, fails |-> 0]
CloseLink(c) == link' = [link EXCEPT ![c].up = FALSE]

\* Dial succeeds when the manager listens; a dial that fails is tried again after a while.
Dial ==
    /\ Running /\ cg.pc = "dial" /\ mgr
    /\ \E c \in Conns :
         /\ hdl[c] = "none" /\ \A d \in Conns : hdl[d] = "none" => c <= d
         /\ link' = [link EXCEPT ![c] = [NoLink EXCEPT !.up = TRUE]]
         /\ hdl' = [hdl EXCEPT ![c] = "hello"]
         /\ cg' = [cg EXCEPT !.pc = "hello", !.conn = c]
    /\ UNCHANGED <<faults, cfg, other, sig, doomed, fileVars, mgr, name, client, closed, live, callVars>>

SendHello ==
    /\ Running /\ cg.pc = "hello"
    /\ \/ /\ link[cg.conn].up
          /\ link' = [link EXCEPT ![cg.conn].q = Append(@, "hello")]
          /\ cg' = [cg EXCEPT !.pc = "ack"]
       \/ ~link[cg.conn].up /\ Reconnect /\ UNCHANGED link
    /\ UNCHANGED <<faults, cfg, other, sig, doomed, fileVars, mgr, handlerVars, callVars>>

WaitForAck ==
    /\ Running /\ cg.pc = "ack"
    /\ \/ /\ link[cg.conn].ack /\ link' = [link EXCEPT ![cg.conn].ack = FALSE]
          /\ cg' = [cg EXCEPT !.pc = "beat"]
       \/ ~link[cg.conn].ack /\ ~link[cg.conn].up /\ Reconnect /\ UNCHANGED link
    /\ UNCHANGED <<faults, cfg, other, sig, doomed, fileVars, mgr, handlerVars, callVars>>

\* The ticker fires and the write succeeds.
SendHeartbeat ==
    /\ Running /\ cg.pc = "beat" /\ link[cg.conn].up /\ Len(link[cg.conn].q) < MaxQueue
    /\ link' = [link EXCEPT ![cg.conn].q = Append(@, "beat")]
    /\ cg' = [cg EXCEPT !.fails = 0]
    /\ UNCHANGED <<faults, cfg, other, sig, doomed, fileVars, mgr, handlerVars, callVars>>

\* A mutated HeartbeatFails: one failed write more is allowed.
HeartbeatFailsOnceMore ==
    /\ Running /\ cg.pc = "beat" /\ ~link[cg.conn].up
    /\ \/ Reconnect
       \/ cg.fails + 1 <= MaxHeartbeatFailures /\ cg' = [cg EXCEPT !.fails = @ + 1]
    /\ UNCHANGED <<faults, cfg, other, sig, doomed, fileVars, link, mgr, handlerVars, callVars>>

\* The write fails: at once for a broken pipe, otherwise at the third time in a row.
HeartbeatFails ==
    /\ Running /\ cg.pc = "beat" /\ ~link[cg.conn].up
    /\ \/ Reconnect
       \/ cg.fails + 1 < MaxHeartbeatFailures /\ cg' = [cg EXCEPT !.fails = @ + 1]
    /\ UNCHANGED <<faults, cfg, other, sig, doomed, fileVars, link, mgr, handlerVars, callVars>>

\* recvMsgAndWriteConfig reads from the connection, on which the manager sends nothing
\* after the acknowledgement; its end closes the connection.
MessageHandlerExits ==
    /\ Running /\ cg.pc = "beat" /\ ~link[cg.conn].up
    /\ Reconnect
    /\ UNCHANGED <<faults, cfg, other, sig, doomed, fileVars, link, mgr, handlerVars, callVars>>

(* One signal, three goroutines that wait for it. *)

Signal ==
    /\ cfg = "up" /\ ~doomed /\ Fault("signal")
    /\ sig' = TRUE /\ doomed' = TRUE
    /\ UNCHANGED <<cfg, cg, other, fileVars, link, mgr, handlerVars, callVars>>

ConnectionTakesSignal ==
    /\ cfg = "up" /\ sig /\ cg.pc \in {"dial", "beat"}
    /\ sig' = FALSE /\ cg' = [cg EXCEPT !.pc = "ended"]
    /\ IF cg.pc = "beat" THEN CloseLink(cg.conn) ELSE UNCHANGED link
    /\ UNCHANGED <<faults, cfg, other, doomed, fileVars, mgr, handlerVars, callVars>>

OtherTakesSignal ==
    /\ cfg = "up" /\ sig /\ other
    /\ sig' = FALSE /\ other' = FALSE
    /\ UNCHANGED <<faults, cfg, cg, doomed, fileVars, link, mgr, handlerVars, callVars>>

MainTakesSignal ==
    /\ cfg = "up" /\ sig
    /\ sig' = FALSE /\ cfg' = "stopping"
    /\ UNCHANGED <<faults, cg, other, doomed, fileVars, link, mgr, handlerVars, callVars>>

\* The end of the process: the kernel closes its connection.
ProcessEnds ==
    /\ cfg' = "down" /\ cg' = [pc |-> "ended", conn |-> 0, fails |-> 0]
    /\ other' = FALSE /\ sig' = FALSE /\ doomed' = FALSE
    /\ IF cg.conn = 0 THEN UNCHANGED link ELSE CloseLink(cg.conn)

\* A mutated Stop: it does not wait for the RPCs under way.
StopAtOnce ==
    /\ cfg = "stopping" /\ ProcessEnds
    /\ writer' = [v \in Versions |-> IF v \in Writing THEN "done" ELSE writer[v]]
    /\ UNCHANGED <<faults, conf, ports, mgr, handlerVars, callVars>>

\* server.Stop: GracefulStop waits for the RPCs under way.
Stop ==
    /\ cfg = "stopping" /\ Writing = {}
    /\ ProcessEnds
    /\ UNCHANGED <<faults, fileVars, mgr, handlerVars, callVars>>

\* The process is killed, and so are the RPCs under way.
Killed ==
    /\ ProcessEnds
    /\ writer' = [v \in Versions |-> IF v \in Writing THEN "done" ELSE writer[v]]
    /\ lost' = IF Writing = {} THEN lost ELSE lost \cup {"mixed"}
    /\ UNCHANGED <<conf, ports, mgr, handlerVars, config, caller>>

Kill == doomed /\ Killed /\ UNCHANGED faults
ConfiguratorCrash == cfg # "down" /\ Fault("cfgCrash") /\ Killed

\* The process gets no time, perhaps never again; its connection stays up.
Stall ==
    /\ cfg = "up" /\ Fault("stall") /\ cfg' = "stalled"
    /\ UNCHANGED <<cg, other, sig, doomed, fileVars, link, mgr, handlerVars, callVars>>
Resume ==
    /\ cfg = "stalled" /\ cfg' = "up"
    /\ UNCHANGED <<faults, cg, other, sig, doomed, fileVars, link, mgr, handlerVars, callVars>>

\* The daemon set starts the pod again.
ConfiguratorRestart ==
    /\ cfg = "down"
    /\ cfg' = "up" /\ cg' = [pc |-> "dial", conn |-> 0, fails |-> 0] /\ other' = TRUE
    /\ UNCHANGED <<faults, sig, doomed, fileVars, link, mgr, handlerVars, callVars>>

-----------------------------------------------------------------------------
(* The network.                                                            *)

\* A connection breaks and what is under way in it is lost; each side learns of it with its
\* next read or write.
Break ==
    /\ \E c \in Conns : link[c].up /\ Fault("reset") /\ link' = [link EXCEPT ![c] = NoLink]
    /\ UNCHANGED <<cfgVars, fileVars, mgr, handlerVars, callVars>>

-----------------------------------------------------------------------------
(* The manager: handleNodeConnection.                                      *)

Handler(c, from) == mgr /\ hdl[c] = from
Readable(c) == link[c].q # <<>>
ReadFails(c) == link[c].q = <<>> /\ ~link[c].up
Consume(c) == link' = [link EXCEPT ![c].q = Tail(@)]
To(c, pc) == hdl' = [hdl EXCEPT ![c] = pc]

\* The hello, and the daemon pod whose node name is taken; without it the node
\* goes by the name of the pod.
ReadHello(c) ==
    /\ Handler(c, "hello")
    /\ \/ /\ Readable(c) /\ Consume(c) /\ To(c, "ack")
          /\ \/ name' = [name EXCEPT ![c] = "node"] /\ UNCHANGED faults
             \/ Fault("kube") /\ name' = [name EXCEPT ![c] = "pod"]
       \/ ReadFails(c) /\ To(c, "done") /\ UNCHANGED <<faults, link, name>>
    /\ UNCHANGED <<cfgVars, fileVars, mgr, client, closed, live, callVars>>

WriteAck(c) ==
    /\ Handler(c, "ack")
    /\ \/ link[c].up /\ link' = [link EXCEPT ![c].ack = TRUE] /\ To(c, "rpc")
       \/ ~link[c].up /\ To(c, "done") /\ UNCHANGED link
    /\ UNCHANGED <<faults, cfgVars, fileVars, mgr, name, client, closed, live, callVars>>

\* All goroutines of the manager end, with the ledger and the tables.
ManagerEnds ==
    /\ mgr' = FALSE
    /\ hdl' = [c \in Conns |-> IF hdl[c] = "none" THEN "none" ELSE "done"]
    /\ link' = [c \in Conns |-> [link[c] EXCEPT !.up = FALSE, !.q = <<>>]]
    /\ client' = [n \in Names |-> 0] /\ live' = [n \in Names |-> Unknown]
    /\ closed' = {c \in Conns : hdl[c] # "none"}
    /\ UNCHANGED config   \* the numbering goes on
    /\ caller' = [w \in Callers |-> [pc |-> "idle", v |-> 0]]
    /\ lost' = lost \cup {"missed"}
    /\ UNCHANGED <<cfgVars, fileVars, name>>

\* Health and GetAvailableGPUs over a new client.  An error of the first ends the handler,
\* an error of the second ends the process.
Probe(c) ==
    /\ Handler(c, "rpc")
    /\ \/ /\ \/ Running /\ To(c, "register") /\ UNCHANGED faults
             \/ Running /\ To(c, "done") /\ Fault("health")
             \/ cfg = "down" /\ To(c, "done") /\ UNCHANGED faults
          /\ UNCHANGED <<cfgVars, fileVars, link, mgr, name, client, closed, live, callVars>>
       \/ Running /\ Fault("gpus") /\ ManagerEnds

\* The node is recorded with the new client.
Register(c) ==
    /\ Handler(c, "register") /\ To(c, "live")
    /\ client' = [client EXCEPT ![name[c]] = c]
    /\ UNCHANGED <<faults, cfgVars, fileVars, link, mgr, name, closed, live, callVars>>

InitLiveness(c) ==
    /\ Handler(c, "live") /\ To(c, "loop")
    /\ live' = [live EXCEPT ![name[c]] = [conn |-> c, status |-> "Ready", last |-> "zero"]]
    /\ UNCHANGED <<faults, cfgVars, fileVars, link, mgr, name, client, closed, callVars>>

\* A mutated ReadHeartbeat: the handler leaves the status as it is when the read fails.
ReadHeartbeatUnmarked(c) ==
    /\ Handler(c, "loop")
    /\ \/ /\ Readable(c) /\ Consume(c) /\ UNCHANGED hdl
          /\ live' = [live EXCEPT ![name[c]].status = "Ready", ![name[c]].last = "recent"]
       \/ ReadFails(c) /\ To(c, "close") /\ UNCHANGED <<link, live>>
    /\ UNCHANGED <<faults, cfgVars, fileVars, mgr, name, client, closed, callVars>>

ReadHeartbeat(c) ==
    /\ Handler(c, "loop")
    /\ \/ /\ Readable(c) /\ Consume(c) /\ UNCHANGED hdl
          /\ live' = [live EXCEPT ![name[c]].status = "Ready", ![name[c]].last = "recent"]
       \/ /\ ReadFails(c) /\ To(c, "close") /\ UNCHANGED link
          /\ live' = [live EXCEPT ![name[c]].status = "NotReady"]
    /\ UNCHANGED <<faults, cfgVars, fileVars, mgr, name, client, closed, callVars>>

\* The deferred Close of the gRPC client.
CloseClient(c) ==
    /\ Handler(c, "close") /\ To(c, "done")
    /\ closed' = closed \cup {c}
    /\ UNCHANGED <<faults, cfgVars, fileVars, link, mgr, name, client, live, callVars>>

\* A handler returns without closing its connection; the run time does so when nothing
\* refers to it any more.
Collect(c) ==
    /\ Handler(c, "done") /\ link[c].up
    /\ \A n \in Names : live[n].conn # c
    /\ CloseLink(c)
    /\ UNCHANGED <<faults, cfgVars, fileVars, mgr, handlerVars, callVars>>

ManagerCrash == mgr /\ Fault("mgrCrash") /\ ManagerEnds

ManagerRestart ==
    /\ ~mgr /\ mgr' = TRUE
    /\ UNCHANGED <<faults, cfgVars, fileVars, link, handlerVars, callVars>>

\* A connection over which the heartbeats of node n arrive.
Beating(n) ==
    \E c \in Conns : /\ link[c].up /\ hdl[c] = "loop" /\ name[c] = n
                     /\ Running /\ cg.conn = c /\ cg.pc = "beat"

\* More than checkTickerItv seconds pass without a heartbeat.
Age(n) ==
    /\ mgr /\ ~Beating(n) /\ live[n].last = "recent"
    /\ live' = [live EXCEPT ![n].last = "old"]
    /\ UNCHANGED <<faults, cfgVars, fileVars, link, mgr, hdl, name, client, closed, callVars>>

\* A mutated checkNodeLiveness: a node that has never sent a heartbeat is passed over.
checkHeardNodes ==
    /\ mgr /\ \E n \in Names : live[n].status = "Ready" /\ live[n].last = "old"
    /\ live' = [n \in Names |->
                  IF live[n].status = "Ready" /\ live[n].last = "old"
                  THEN [live[n] EXCEPT !.status = "NotReady"] ELSE live[n]]
    /\ UNCHANGED <<faults, cfgVars, fileVars, link, mgr, hdl, name, client, closed, callVars>>

\* A tick: every node whose last heartbeat is too long ago, or was never seen.
checkNodeLiveness ==
    /\ mgr /\ \E n \in Names : live[n].status = "Ready" /\ live[n].last # "recent"
    /\ live' = [n \in Names |->
                  IF live[n].status = "Ready" /\ live[n].last # "recent"
                  THEN [live[n] EXCEPT !.status = "NotReady"] ELSE live[n]]
    /\ UNCHANGED <<faults, cfgVars, fileVars, link, mgr, hdl, name, client, closed, callVars>>

-----------------------------------------------------------------------------
(* A configuration on its way to the node: updatePodsGPUConfig.            *)

Return(w) == caller' = [caller EXCEPT ![w] = [pc |-> "idle", v |-> 0]]

\* The ledger changes and the status of the node is looked up.
BeginUpdate(w) ==
    /\ mgr /\ caller[w].pc = "idle" /\ config < MaxConfigs
    /\ w \in Unlocked \/ \A d \in Callers \ Unlocked : caller[d].pc = "idle"
    /\ live["node"].conn # 0   \* a GPU of the node has been given out
    /\ config' = config + 1
    /\ \/ /\ live["node"].status = "Ready"
          /\ caller' = [caller EXCEPT ![w] = [pc |-> "send", v |-> config + 1]]
          /\ UNCHANGED lost
       \/ /\ live["node"].status # "Ready"
          /\ lost' = lost \cup {"missed"} /\ UNCHANGED caller
    /\ UNCHANGED <<faults, cfgVars, fileVars, link, mgr, handlerVars>>

\* An RPC through the client that the node holds now cannot reach the configurator.
Unreachable == cfg \in {"stopping", "down"} \/ client["node"] \in closed \cup {0}

\* The RPC; the configurator refuses it when it does not know the device.
SendUpdate(w) ==
    /\ mgr /\ caller[w].pc = "send"
    /\ \/ /\ ~Unreachable
          /\ caller' = [caller EXCEPT ![w].pc = "wait"]
          /\ writer' = [writer EXCEPT ![caller[w].v] = "create"]
          /\ lost' = lost \cup (IF Writing = {} THEN {} ELSE {"mixed"})
                         \cup (IF \E v \in Versions : v > caller[w].v /\ writer[v] # "none"
                               THEN {"missed"} ELSE {})
          /\ UNCHANGED faults
       \/ /\ \/ Unreachable /\ UNCHANGED faults
             \/ ~Unreachable /\ Fault("device")
          /\ lost' = lost \cup {"missed"} /\ Return(w) /\ UNCHANGED writer
    /\ UNCHANGED <<cfgVars, conf, ports, link, mgr, handlerVars, config>>

\* The answer, or the error of a call whose server has ended, or the deadline.
UpdateReturns(w) ==
    /\ mgr /\ caller[w].pc = "wait"
    /\ \/ writer[caller[w].v] = "done" /\ UNCHANGED faults
       \/ writer[caller[w].v] # "done" /\ Fault("timeout")
    /\ Return(w)
    /\ UNCHANGED <<cfgVars, fileVars, link, mgr, handlerVars, config, lost>>

\* A mutated handleMsg: the files are opened without truncating them.
handleMsgAppends(v) ==
    /\ Running /\ v \in Writing
    /\ writer' = [writer EXCEPT ![v] = CASE @ = "create" -> "conf" [] @ = "conf" -> "ports"
                                         [] @ = "ports" -> "done"]
    /\ conf' = IF writer[v] = "conf" THEN conf \cup {v} ELSE conf
    /\ ports' = IF writer[v] = "ports" THEN ports \cup {v} ELSE ports
    /\ UNCHANGED <<faults, cfgVars, link, mgr, handlerVars, callVars>>

\* handleMsg: both files are created, which truncates them, then written one after the other.
handleMsg(v) ==
    /\ Running
    /\ \/ /\ writer[v] = "create" /\ writer' = [writer EXCEPT ![v] = "conf"]
          /\ conf' = {} /\ ports' = {}
       \/ /\ writer[v] = "conf" /\ writer' = [writer EXCEPT ![v] = "ports"]
          /\ conf' = conf \cup {v} /\ UNCHANGED ports
       \/ /\ writer[v] = "ports" /\ writer' = [writer EXCEPT ![v] = "done"]
          /\ ports' = ports \cup {v} /\ UNCHANGED conf
    /\ UNCHANGED <<faults, cfgVars, link, mgr, handlerVars, callVars>>

-----------------------------------------------------------------------------
ConfiguratorSteps ==
    Dial \/ SendHello \/ WaitForAck \/ SendHeartbeat \/ HeartbeatFails \/ MessageHandlerExits
SignalSteps == Signal \/ ConnectionTakesSignal \/ OtherTakesSignal \/ MainTakesSignal \/ Stop \/ Kill
FaultSteps == Break \/ Stall \/ Resume \/ ConfiguratorCrash \/ ManagerCrash
RestartSteps == ConfiguratorRestart \/ ManagerRestart
HandlerSteps(c) ==
    ReadHello(c) \/ WriteAck(c) \/ Probe(c) \/ Register(c) \/ InitLiveness(c) \/ ReadHeartbeat(c)
    \/ CloseClient(c) \/ Collect(c)
CallSteps(w) == BeginUpdate(w) \/ SendUpdate(w) \/ UpdateReturns(w)

Next ==
    \/ ConfiguratorSteps \/ SignalSteps \/ FaultSteps \/ RestartSteps \/ checkNodeLiveness
    \/ \E c \in Conns : HandlerSteps(c)
    \/ \E n \in Names : Age(n)
    \/ \E w \in Callers : CallSteps(w)
    \/ \E v \in Versions : handleMsg(v)

Spec == Init /\ [][Next]_vars

\* The goroutines of both ends of the connection run, tickers fire, both processes are started
\* again, and a doomed process is killed.  Nothing is assumed of the configurations.
Fairness ==
    /\ WF_vars(Dial \/ SendHello \/ WaitForAck \/ SendHeartbeat \/ (HeartbeatFails /\ Reconnect))
    /\ WF_vars(Kill) /\ WF_vars(RestartSteps) /\ WF_vars(checkNodeLiveness)
    /\ \A c \in Conns : WF_vars(HandlerSteps(c))
    /\ WF_vars(\E n \in Names : Age(n))

FairSpec == Spec /\ Fairness

-----------------------------------------------------------------------------
Quiet == Writing = {} /\ \A w \in Callers : caller[w].pc = "idle"

\* The last configuration, if none was dropped, refused, overlapped, overtaken, killed or forgotten, is what
\* both files hold when nobody writes (updatePodsGPUConfig, handleMsg).
ConfigArrives == Quiet /\ lost = {} /\ config > 0 => conf = {config} /\ ports = {config}

\* Only overlapping writers or a killed process leave the two files in disagreement or mixed:
\* server.Stop waits for the writers (handleMsg, Server.Stop).
FilesWhole ==
    Quiet /\ "mixed" \notin lost => conf = ports /\ Cardinality(conf) <= 1

\* A node that counts as ready although its client is closed owes the status to the handler of
\* another connection than the one whose client it holds (handleNodeConnection marks the node
\* before it closes its client).
ReadyByAnother ==
    \A n \in Names :
      mgr /\ live[n].status = "Ready" /\ client[n] \in closed =>
        \E c \in Conns : c # client[n] /\ name[c] = n /\ hdl[c] \in {"loop", "close"}

\* Whatever connections, processes and probes fail, the node is ready in the end and stays so,
\* unless its configurator never gets time again (maintainConnection, handleNodeConnection).
NodeRecovers == <>[](cfg # "stalled") => <>[](\E n \in Names : live[n].status = "Ready")

\* A node that counts as ready while no heartbeat can arrive is noticed (checkNodeLiveness, and
\* the read error of its handler).
SilentNodeIsNoticed ==
    \A n \in Names : (live[n].status = "Ready" /\ ~Beating(n)) ~> (live[n].status # "Ready" \/ Beating(n))
=============================================================================

---------------------------- MODULE FunctionLogs ----------------------------
(***************************************************************************)
(* A log query of the gateway: LogRequestor.Query and GetLogs of           *)
(* pkg/customized_openfaas/k8s.  The informer reports the pods of the      *)
(* function on the channel added; one goroutine takes them and starts      *)
(* podLogs for each; podLogs has a reader that copies the lines of the pod *)
(* to the channel logs; a forwarder copies logs to msgStream, which the    *)
(* HTTP handler of the provider library reads.  All of them share one      *)
(* context, which the handler cancels.                                     *)
(*                                                                         *)
(* A send on a closed channel is a panic and ends the gateway.             *)
(***************************************************************************)
EXTENDS Naturals, Sequences, FiniteSets

CONSTANTS
    Existing,   \* pods that the function has when the query begins
    Later,      \* pods that start afterwards
    Ghosts,     \* bound on the pods "" read from the closed channel added
    Lines,      \* number of lines in the log of a pod
    Garbled,    \* the lines whose first word is not a time
    BufferSize, \* capacity of logs and of msgStream, 1000 in the code
    follow      \* the query follows the logs

ASSUME LogsAssumption ==
    /\ Existing # {} /\ Existing \cap Later = {} /\ Ghosts \cap (Existing \cup Later) = {}
    /\ IsFiniteSet(Existing)
    /\ Lines \in Nat \ {0} /\ Garbled \subseteq 1..Lines
    /\ BufferSize \in Nat \ {0} /\ follow \in BOOLEAN

Pods == Existing \cup Later
Streams == Pods \cup Ghosts
Messages == [pod : Pods, line : 1..Lines, text : {"text", "empty"}]

VARIABLES
    cancelled,  \* ctx is done
    handler,    \* the HTTP handler: "reading", "left" (it reads no more) or "ended"
    known,      \* the pods that the informer has reported, or will not
    adding,     \* the pod whose OnAdd sends now, in a set
    added,      \* the channel added and whether it is closed
    main,       \* the goroutine of GetLogs: [on, watching]
    pod,        \* podLogs of each stream: "none", "open", "wait", "finish" or "gone"
    failed,     \* history: the streams that ended with an error
    rd,         \* the reader of each pod: [pc, line]
    logs,       \* the channel logs
    fw,         \* the forwarder: the message that it holds, in a sequence, and whether it runs
    msgs,       \* the channel msgStream
    delivered,  \* history: the messages that the handler has read
    panicked    \* a goroutine has sent on a closed channel

vars == <<cancelled, handler, known, adding, added, main, pod, failed, rd, logs, fw, msgs,
          delivered, panicked>>

IsChannel(c, S, n) == c \in [q : Seq(S), closed : BOOLEAN] /\ Len(c.q) <= n

TypeOK ==
    /\ cancelled \in BOOLEAN /\ panicked \in BOOLEAN
    /\ handler \in {"reading", "left", "ended"}
    /\ known \subseteq Pods /\ adding \subseteq known /\ Cardinality(adding) <= 1
    /\ IsChannel(added, Pods, Cardinality(Existing))
    /\ main \in [on : BOOLEAN, watching : Nat]
    /\ pod \in [Streams -> {"none", "open", "wait", "finish", "gone"}]
    /\ failed \subseteq Streams
    /\ rd \in [Pods -> [pc : {"none", "read", "send", "eof", "gone"}, line : 1..(Lines + 1)]]
    /\ IsChannel(logs, Messages, BufferSize)
    /\ fw \in [on : BOOLEAN, msg : {<<>>} \cup {<<m>> : m \in Messages}]
    /\ IsChannel(msgs, Messages, BufferSize)
    /\ delivered \in Seq(Messages)

\* Query has returned: the list of pods was not empty, and all goroutines have been started.
Init ==
    /\ cancelled = FALSE /\ handler = "reading" /\ panicked = FALSE
    /\ known = {} /\ adding = {} /\ added = [q |-> <<>>, closed |-> FALSE]
    /\ main = [on |-> TRUE, watching |-> 0]
    /\ pod = [s \in Streams |-> "none"] /\ failed = {}
    /\ rd = [p \in Pods |-> [pc |-> "none", line |-> 1]]
    /\ logs = [q |-> <<>>, closed |-> FALSE]
    /\ fw = [on |-> TRUE, msg |-> <<>>] /\ msgs = [q |-> <<>>, closed |-> FALSE]
    /\ delivered = <<>>

Runs == ~panicked
Panic == panicked' = TRUE

-----------------------------------------------------------------------------
(* startFunctionPodInformer.                                               *)

NothingAdded == adding = {} /\ added.q = <<>> /\ \A p \in Pods : pod[p] = "none"

\* The pods have been listed, and the informer makes a list of its own, which it begins with:
\* a pod that is deleted in between is not in it and no OnAdd is called for it.
InformerMisses(p) ==
    /\ Runs /\ NothingAdded /\ p \in Existing \ known
    /\ known' = known \cup {p}
    /\ UNCHANGED <<cancelled, handler, adding, added, main, pod, failed, rd, logs, fw, msgs,
                   delivered, panicked>>

\* The informer hands over one pod after the other, until it is stopped; the handler
\* of the event may already be under way then.
InformerAdds(p) ==
    /\ Runs /\ adding = {} /\ p \in Pods \ known /\ ~added.closed
    /\ known' = known \cup {p} /\ adding' = {p}
    /\ UNCHANGED <<cancelled, handler, added, main, pod, failed, rd, logs, fw, msgs, delivered,
                   panicked>>

OnAdd(p) ==
    /\ Runs /\ p \in adding
    /\ \/ /\ ~added.closed /\ Len(added.q) < Cardinality(Existing)
          /\ added' = [added EXCEPT !.q = Append(@, p)] /\ adding' = {}
          /\ UNCHANGED panicked
       \/ added.closed /\ Panic /\ UNCHANGED <<added, adding>>
    /\ UNCHANGED <<cancelled, handler, known, main, pod, failed, rd, logs, fw, msgs, delivered>>

CloseAdded ==
    /\ Runs /\ cancelled /\ ~added.closed
    /\ added' = [added EXCEPT !.closed = TRUE]
    /\ UNCHANGED <<cancelled, handler, known, adding, main, pod, failed, rd, logs, fw, msgs,
                   delivered, panicked>>

-----------------------------------------------------------------------------
(* The goroutine of GetLogs: a select over three channels.                 *)

\* A mutated GetLogsReturns: close(logs) is left out.
GetLogsReturnsOpen == UNCHANGED logs

\* It returns, and closes logs.
GetLogsReturns == logs' = [logs EXCEPT !.closed = TRUE]

GetLogsDone ==
    /\ Runs /\ main.on /\ cancelled
    /\ main' = [main EXCEPT !.on = FALSE] /\ GetLogsReturns
    /\ UNCHANGED <<cancelled, handler, known, adding, added, pod, failed, rd, fw, msgs, delivered,
                   panicked>>

\* A mutated GetLogsFinished: the count is compared before it is lowered.
GetLogsFinishedLate(s) ==
    /\ Runs /\ main.on /\ pod[s] = "finish"
    /\ pod' = [pod EXCEPT ![s] = "gone"]
    /\ IF main.watching = 0 /\ ~follow
       THEN main' = [on |-> FALSE, watching |-> 0] /\ GetLogsReturns
       ELSE main' = [main EXCEPT !.watching = @ - 1] /\ UNCHANGED logs
    /\ UNCHANGED <<cancelled, handler, known, adding, added, failed, rd, fw, msgs, delivered,
                   panicked>>

GetLogsFinished(s) ==
    /\ Runs /\ main.on /\ pod[s] = "finish"
    /\ pod' = [pod EXCEPT ![s] = "gone"]
    /\ IF main.watching - 1 = 0 /\ ~follow
       THEN main' = [on |-> FALSE, watching |-> 0] /\ GetLogsReturns
       ELSE main' = [main EXCEPT !.watching = @ - 1] /\ UNCHANGED logs
    /\ UNCHANGED <<cancelled, handler, known, adding, added, failed, rd, fw, msgs, delivered,
                   panicked>>

\* A closed channel always has the pod "".
GetLogsAdded(s) ==
    /\ Runs /\ main.on /\ pod[s] = "none"
    /\ \/ added.q # <<>> /\ s = Head(added.q) /\ added' = [added EXCEPT !.q = Tail(@)]
       \/ added.q = <<>> /\ added.closed /\ s \in Ghosts /\ UNCHANGED added
    /\ pod' = [pod EXCEPT ![s] = "open"]
    /\ main' = [main EXCEPT !.watching = @ + 1]
    /\ UNCHANGED <<cancelled, handler, known, adding, failed, rd, logs, fw, msgs, delivered,
                   panicked>>

-----------------------------------------------------------------------------
(* podLogs.                                                                *)

\* The stream of the pod is opened, which fails for a pod that has gone and for "".
OpenStream(s) ==
    /\ Runs /\ pod[s] = "open"
    /\ \/ /\ s \in Pods /\ pod' = [pod EXCEPT ![s] = "wait"]
          /\ rd' = [rd EXCEPT ![s].pc = "read"] /\ UNCHANGED failed
       \/ pod' = [pod EXCEPT ![s] = "finish"] /\ failed' = failed \cup {s} /\ UNCHANGED rd
    /\ UNCHANGED <<cancelled, handler, known, adding, added, main, logs, fw, msgs, delivered,
                   panicked>>

\* The context is done: the stream is closed, and the reader is left alone.
podLogsCancelled(p) ==
    /\ Runs /\ pod[p] = "wait" /\ cancelled
    /\ pod' = [pod EXCEPT ![p] = "finish"] /\ failed' = failed \cup {p}
    /\ UNCHANGED <<cancelled, handler, known, adding, added, main, rd, logs, fw, msgs, delivered,
                   panicked>>

\* A mutated podLogsDone: it does not wait for its reader.
podLogsEarly(p) ==
    /\ Runs /\ pod[p] = "wait"
    /\ pod' = [pod EXCEPT ![p] = "finish"]
    /\ UNCHANGED <<cancelled, handler, known, adding, added, main, failed, rd, logs, fw, msgs,
                   delivered, panicked>>

podLogsDone(p) ==
    /\ Runs /\ pod[p] = "wait" /\ rd[p].pc = "eof"
    /\ pod' = [pod EXCEPT ![p] = "finish"] /\ rd' = [rd EXCEPT ![p].pc = "gone"]
    /\ UNCHANGED <<cancelled, handler, known, adding, added, main, failed, logs, fw, msgs,
                   delivered, panicked>>

\* A line, or the end of the stream: the log is at its end (which, if it is followed, it
\* is once the pod has ended), the stream was closed, or it breaks.
ReadLine(p) ==
    /\ Runs /\ rd[p].pc = "read"
    /\ \/ /\ rd[p].line <= Lines
          /\ rd' = [rd EXCEPT ![p].pc = "send"] /\ UNCHANGED failed
       \/ /\ rd[p].line > Lines \/ pod[p] # "wait"
          /\ rd' = [rd EXCEPT ![p].pc = "eof"] /\ UNCHANGED failed
       \/ rd' = [rd EXCEPT ![p].pc = "eof"] /\ failed' = failed \cup {p}
    /\ UNCHANGED <<cancelled, handler, known, adding, added, main, pod, logs, fw, msgs,
                   delivered, panicked>>

\* A line without a time becomes an empty message.
extractTimestampAndMsg(n) == IF n \in Garbled THEN "empty" ELSE "text"

SendLine(p) ==
    /\ Runs /\ rd[p].pc = "send"
    /\ \/ /\ ~logs.closed /\ Len(logs.q) < BufferSize
          /\ logs' = [logs EXCEPT !.q = Append(@, [pod |-> p, line |-> rd[p].line,
                                                   text |-> extractTimestampAndMsg(rd[p].line)])]
          /\ rd' = [rd EXCEPT ![p].pc = "read", ![p].line = @ + 1]
          /\ UNCHANGED panicked
       \/ logs.closed /\ Panic /\ UNCHANGED <<logs, rd>>
    /\ UNCHANGED <<cancelled, handler, known, adding, added, main, pod, failed, fw, msgs, delivered>>

-----------------------------------------------------------------------------
(* Query: the forwarder.                                                   *)

Take ==
    /\ Runs /\ fw.on /\ fw.msg = <<>> /\ logs.q # <<>>
    /\ fw' = [fw EXCEPT !.msg = <<Head(logs.q)>>] /\ logs' = [logs EXCEPT !.q = Tail(@)]
    /\ UNCHANGED <<cancelled, handler, known, adding, added, main, pod, failed, rd, msgs, delivered,
                   panicked>>

\* A mutated Put: a message for which there is no room is dropped.
PutOrDrop ==
    /\ Runs /\ fw.msg # <<>> /\ fw' = [fw EXCEPT !.msg = <<>>]
    /\ msgs' = IF Len(msgs.q) < BufferSize THEN [msgs EXCEPT !.q = Append(@, fw.msg[1])] ELSE msgs
    /\ UNCHANGED <<cancelled, handler, known, adding, added, main, pod, failed, rd, logs, delivered,
                   panicked>>

Put ==
    /\ Runs /\ fw.msg # <<>> /\ Len(msgs.q) < BufferSize
    /\ fw' = [fw EXCEPT !.msg = <<>>] /\ msgs' = [msgs EXCEPT !.q = Append(@, fw.msg[1])]
    /\ UNCHANGED <<cancelled, handler, known, adding, added, main, pod, failed, rd, logs, delivered,
                   panicked>>

\* A mutated CloseMessages: the forwarder ends as soon as logs is closed.
CloseMessagesEarly ==
    /\ Runs /\ fw.on /\ fw.msg = <<>> /\ logs.closed
    /\ fw' = [fw EXCEPT !.on = FALSE] /\ msgs' = [msgs EXCEPT !.closed = TRUE]
    /\ UNCHANGED <<cancelled, handler, known, adding, added, main, pod, failed, rd, logs, delivered,
                   panicked>>

CloseMessages ==
    /\ Runs /\ fw.on /\ fw.msg = <<>> /\ logs.q = <<>> /\ logs.closed
    /\ fw' = [fw EXCEPT !.on = FALSE] /\ msgs' = [msgs EXCEPT !.closed = TRUE]
    /\ UNCHANGED <<cancelled, handler, known, adding, added, main, pod, failed, rd, logs, delivered,
                   panicked>>

-----------------------------------------------------------------------------
(* The HTTP handler of the provider library.                               *)

HandlerReads ==
    /\ Runs /\ handler = "reading"
    /\ \/ /\ msgs.q # <<>> /\ msgs' = [msgs EXCEPT !.q = Tail(@)]
          /\ delivered' = Append(delivered, Head(msgs.q)) /\ UNCHANGED <<handler, cancelled>>
       \/ /\ msgs.q = <<>> /\ msgs.closed /\ handler' = "ended" /\ cancelled' = TRUE
          /\ UNCHANGED <<msgs, delivered>>
    /\ UNCHANGED <<known, adding, added, main, pod, failed, rd, logs, fw, panicked>>

\* The client goes away, or has all the lines it asked for.
HandlerLeaves ==
    /\ Runs /\ handler = "reading" /\ handler' = "left" /\ cancelled' = TRUE
    /\ UNCHANGED <<known, adding, added, main, pod, failed, rd, logs, fw, msgs, delivered, panicked>>

\* The time of the query is over; the handler goes on until msgStream is closed.
Timeout ==
    /\ Runs /\ ~cancelled /\ handler = "reading" /\ cancelled' = TRUE
    /\ UNCHANGED <<handler, known, adding, added, main, pod, failed, rd, logs, fw, msgs, delivered,
                   panicked>>

-----------------------------------------------------------------------------
Next ==
    \/ CloseAdded \/ GetLogsDone \/ Take \/ Put \/ CloseMessages
    \/ HandlerReads \/ HandlerLeaves \/ Timeout
    \/ \E p \in Existing : InformerMisses(p)
    \/ \E p \in Pods : \/ InformerAdds(p) \/ OnAdd(p) \/ podLogsCancelled(p) \/ podLogsDone(p)
                       \/ ReadLine(p) \/ SendLine(p)
    \/ \E s \in Streams : GetLogsFinished(s) \/ GetLogsAdded(s) \/ OpenStream(s)

Spec == Init /\ [][Next]_vars

\* Every goroutine runs; a select is not for ever blind to one of its channels (the choice
\* among the ready ones is random); the informer reports a pod that existed when the query
\* began unless it missed it; nothing is assumed of the client.
Fairness ==
    /\ WF_vars(CloseAdded) /\ WF_vars(GetLogsDone)
    /\ WF_vars(Take) /\ WF_vars(Put) /\ WF_vars(CloseMessages) /\ WF_vars(HandlerReads)
    /\ \A p \in Pods : /\ WF_vars(podLogsCancelled(p) \/ podLogsDone(p))
                       /\ WF_vars(ReadLine(p)) /\ WF_vars(SendLine(p)) /\ WF_vars(OnAdd(p))
    /\ \A p \in Existing : WF_vars(InformerAdds(p))
    /\ \A s \in Streams : WF_vars(GetLogsFinished(s)) /\ WF_vars(GetLogsAdded(s))
                          /\ WF_vars(OpenStream(s))

FairSpec == Spec /\ Fairness

-----------------------------------------------------------------------------
\* Line n of pod p is among the messages of q before place i.
Before(q, i, p, n) == \E j \in 1..Len(q) : j < i /\ q[j].pod = p /\ q[j].line = n

\* Each message of q follows all the earlier lines of its pod, and no later one.
InOrder(q) ==
    \A i \in 1..Len(q) :
      /\ \A n \in 1..(q[i].line - 1) : Before(q, i, q[i].pod, n)
      /\ \A j \in 1..Len(q) : j < i /\ q[j].pod = q[i].pod => q[j].line < q[i].line

\* Each pod's lines are delivered in order and without a gap, whatever pods, readers and
\* cancellation do (podLogs, GetLogs, Query).
LinesInOrder == InOrder(delivered)

\* The gateway panics only after the query was cancelled: until then no reader and no
\* informer is left behind when the channel it sends on is closed (GetLogs, podLogs, OnAdd).
PanicOnlyIfCancelled == panicked => cancelled

\* A query that has ended by itself has delivered the whole log of every pod whose stream
\* was opened (GetLogs counts them; Query empties logs before it closes msgStream).
WholeLogs ==
    msgs.closed /\ msgs.q = <<>> /\ ~cancelled =>
      \A p \in Pods : pod[p] # "none" /\ p \notin failed =>
        \A n \in 1..Lines : Before(delivered, Len(delivered) + 1, p, n)

\* A query that does not follow the logs ends by itself if its client reads, unless the
\* informer missed all the pods that were listed, and no other pod comes: nothing lowers the
\* count to zero then (GetLogs, startFunctionPodInformer).
QueryEnds ==
    ~follow => \/ <>(handler # "reading" \/ panicked)
               \/ <>[](Existing \subseteq known /\ NothingAdded)

\* After the cancellation logs is closed, although the select may first see the closed
\* channel added instead (GetLogs).
LogsAreClosed == cancelled ~> (logs.closed \/ panicked)

\* The buffers and goroutines between the readers and the handler are one bounded channel
\* (GetLogs, podLogs, Query): no message is lost, doubled, overtaken or sent after the end.
Channel ==
    INSTANCE LogChannel WITH
        Message <- Messages, Capacity <- 2 * BufferSize + 1,
        queue <- msgs.q \o fw.msg \o logs.q, closed <- logs.closed, out <- delivered

\* The query implements that channel.
IsAChannel == Channel!Spec
=============================================================================

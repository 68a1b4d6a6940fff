------------------------- MODULE FunctionLogsProofs -------------------------
(***************************************************************************)
(* What holds of a log query for every number of pods, lines and buffered  *)
(* messages: each line arrives once and in order, the gateway can panic    *)
(* only after a cancellation, a query that ends by itself has delivered    *)
(* everything, and the buffers between readers and handler are one bounded *)
(* channel.                                                                *)
(***************************************************************************)
EXTENDS FunctionLogs, SequenceTheorems, FiniteSetTheorems, TLAPS

-----------------------------------------------------------------------------
(* The invariant.                                                          *)

\* podLogs of these streams are under way; GetLogs counts them.
Active == {s \in Streams : pod[s] \in {"open", "wait", "finish"}}

WatchingOK ==
    /\ IsFiniteSet(Active) /\ main.watching = Cardinality(Active)
    /\ logs.closed <=> ~main.on
    \* GetLogs has closed logs by itself only when it had nothing left to watch.
    /\ logs.closed /\ ~cancelled => Active = {}

CancelledOK == (added.closed => cancelled) /\ (panicked => cancelled)

\* A reader runs on without its podLogs only after a cancellation, and its pod counts as failed.
ReaderOK(p) ==
    /\ rd[p].pc \in {"read", "send", "eof"} /\ ~cancelled => pod[p] = "wait"
    /\ rd[p].pc \in {"read", "send", "eof"} /\ pod[p] # "wait" => p \in failed
    /\ pod[p] = "wait" => rd[p].pc \in {"read", "send", "eof"}
    /\ pod[p] \in {"none", "open"} => rd[p].pc = "none"
    /\ pod[p] \in {"finish", "gone"} /\ p \notin failed => rd[p].pc = "gone"
    /\ rd[p].pc = "send" => rd[p].line <= Lines
    /\ rd[p].pc \in {"eof", "gone"} /\ p \notin failed => rd[p].line = Lines + 1

\* The forwarder ends when logs is closed and empty.
ForwarderOK ==
    /\ msgs.closed <=> ~fw.on
    /\ msgs.closed => logs.closed /\ logs.q = <<>> /\ fw.msg = <<>>

\* All messages from the first that was delivered to the last that was sent.
Pipe == ((delivered \o msgs.q) \o fw.msg) \o logs.q

\* Every reader has sent the lines before its own, and no other.
Sent(q, p, l) ==
    /\ \A n \in 1..(l - 1) : Before(q, Len(q) + 1, p, n)
    /\ \A j \in 1..Len(q) : q[j].pod = p => q[j].line < l

PipeOK == InOrder(Pipe) /\ \A p \in Pods : Sent(Pipe, p, rd[p].line)

LogsInv ==
    /\ TypeOK /\ WatchingOK /\ CancelledOK /\ ForwarderOK /\ PipeOK
    /\ \A p \in Pods : ReaderOK(p)

-----------------------------------------------------------------------------
(* Sequences of messages.                                                  *)

\* The next line of a pod keeps the order.
LEMMA OrderGrows ==
    ASSUME NEW q \in Seq(Messages), NEW m \in Messages, InOrder(q), Sent(q, m.pod, m.line)
    PROVE  /\ InOrder(Append(q, m))
           /\ Sent(Append(q, m), m.pod, m.line + 1)
           /\ \A p \in Pods : \A l \in Nat : p # m.pod /\ Sent(q, p, l) => Sent(Append(q, m), p, l)
<1> DEFINE t == Append(q, m)
<1>1. /\ Len(q) \in Nat /\ Len(t) = Len(q) + 1 /\ t[Len(q) + 1] = m
      /\ \A i \in 1..Len(q) : t[i] = q[i]
  BY AppendProperties, LenProperties
<1>2. m.line \in 1..Lines /\ Lines \in Nat
  BY LogsAssumption DEF Messages
<1> HIDE DEF t
<1>3. \A i, p, n : Before(q, i, p, n) => Before(t, i, p, n)
  BY <1>1 DEF Before
<1>4. \A p, n : Before(t, Len(q) + 1, p, n) => Before(t, Len(t) + 1, p, n)
  BY <1>1 DEF Before
<1>5. InOrder(t)
  <2>1. SUFFICES ASSUME NEW i \in 1..Len(t)
                 PROVE  /\ \A n \in 1..(t[i].line - 1) : Before(t, i, t[i].pod, n)
                        /\ \A j \in 1..Len(t) : j < i /\ t[j].pod = t[i].pod => t[j].line < t[i].line
    BY DEF InOrder
  <2>2. CASE i = Len(q) + 1
    <3>1. t[i] = m
      BY <1>1, <2>2
    <3>2. \A n \in 1..(m.line - 1) : Before(t, i, m.pod, n)
      BY <1>3, <2>2 DEF Sent
    <3>3. \A j \in 1..Len(t) : j < i => j \in 1..Len(q) /\ t[j] = q[j]
      BY <1>1, <2>2
    <3>4. \A j \in 1..Len(t) : j < i /\ t[j].pod = m.pod => t[j].line < m.line
      BY <3>3 DEF Sent
    <3> QED
      BY <3>1, <3>2, <3>4
  <2>3. CASE i # Len(q) + 1
    <3>1. i \in 1..Len(q) /\ t[i] = q[i]
      BY <1>1, <2>3
    <3>2. \A j \in 1..Len(t) : j < i => j \in 1..Len(q) /\ t[j] = q[j]
      BY <1>1, <3>1
    <3>3. \A n \in 1..(q[i].line - 1) : Before(t, i, q[i].pod, n)
      BY <1>3, <3>1 DEF InOrder
    <3>4. \A j \in 1..Len(t) : j < i /\ t[j].pod = q[i].pod => t[j].line < q[i].line
      BY <3>1, <3>2 DEF InOrder
    <3> QED
      BY <3>1, <3>3, <3>4
  <2> QED
    BY <2>2, <2>3
<1>6. Sent(t, m.pod, m.line + 1)
  <2>1. ASSUME NEW n \in 1..((m.line + 1) - 1) PROVE Before(t, Len(t) + 1, m.pod, n)
    <3>1. CASE n = m.line
      <4>1. Len(q) + 1 \in 1..Len(t) /\ Len(q) + 1 < Len(t) + 1
        BY <1>1
      <4> QED
        BY <1>1, <3>1, <4>1 DEF Before
    <3>2. CASE n # m.line
      <4>1. n \in 1..(m.line - 1)
        BY <1>2, <3>2
      <4> QED
        BY <1>3, <1>4, <4>1 DEF Sent
    <3> QED
      BY <3>1, <3>2
  <2>2. ASSUME NEW j \in 1..Len(t), t[j].pod = m.pod PROVE t[j].line < m.line + 1
    <3>1. CASE j = Len(q) + 1
      BY <1>1, <1>2, <3>1
    <3>2. CASE j # Len(q) + 1
      <4>1. j \in 1..Len(q) /\ t[j] = q[j]
        BY <1>1, <3>2
      <4>2. q[j].line < m.line /\ q[j].line \in 1..Lines
        <5>1. q[j] \in Messages
          BY <4>1, ElementOfSeq
        <5>2. q[j].line < m.line
          BY <2>2, <4>1 DEF Sent
        <5> QED
          BY <5>1, <5>2 DEF Messages
      <4> QED
        BY <1>2, <4>1, <4>2
    <3> QED
      BY <3>1, <3>2
  <2> QED
    BY <2>1, <2>2 DEF Sent
<1>7. ASSUME NEW p \in Pods, NEW l \in Nat, p # m.pod, Sent(q, p, l) PROVE Sent(t, p, l)
  <2>1. \A n \in 1..(l - 1) : Before(t, Len(t) + 1, p, n)
    BY <1>3, <1>4, <1>7 DEF Sent
  <2>2. ASSUME NEW j \in 1..Len(t), t[j].pod = p PROVE t[j].line < l
    <3>1. j # Len(q) + 1
      BY <1>1, <1>7, <2>2
    <3>2. j \in 1..Len(q) /\ t[j] = q[j]
      BY <1>1, <3>1
    <3> QED
      BY <1>7, <2>2, <3>2 DEF Sent
  <2> QED
    BY <2>1, <2>2 DEF Sent
<1> QED
  BY <1>5, <1>6, <1>7 DEF t

\* What is in order is in order up to any place.
LEMMA OrderOfPrefix ==
    ASSUME NEW a \in Seq(Messages), NEW b \in Seq(Messages), InOrder(a \o b)
    PROVE  InOrder(a)
<1> DEFINE t == a \o b
<1>1. /\ Len(a) \in Nat /\ Len(b) \in Nat /\ Len(t) = Len(a) + Len(b)
      /\ \A i \in 1..Len(a) : i \in 1..Len(t) /\ t[i] = a[i]
  BY ConcatProperties, LenProperties
<1> HIDE DEF t
<1>2. InOrder(t)
  BY DEF t
<1>3. ASSUME NEW i \in 1..Len(a), NEW n \in 1..(a[i].line - 1) PROVE Before(a, i, a[i].pod, n)
  <2>1. t[i] = a[i] /\ i \in 1..Len(t)
    BY <1>1
  <2>2. PICK j \in 1..Len(t) : j < i /\ t[j].pod = a[i].pod /\ t[j].line = n
    BY <1>2, <1>3, <2>1 DEF InOrder, Before
  <2>3. j \in 1..Len(a) /\ t[j] = a[j]
    BY <1>1, <2>2
  <2> QED
    BY <2>2, <2>3 DEF Before
<1>4. ASSUME NEW i \in 1..Len(a), NEW j \in 1..Len(a), j < i, a[j].pod = a[i].pod
      PROVE  a[j].line < a[i].line
  BY <1>1, <1>2, <1>4 DEF InOrder
<1> QED
  BY <1>3, <1>4 DEF InOrder

\* Concatenation is associative.
LEMMA Associative ==
    \A S : \A x, y, z \in Seq(S) : (x \o y) \o z = x \o (y \o z)
BY ConcatAssociative, SMT

\* A message on its way from one sequence to the next keeps its place.
LEMMA HeadMoves ==
    ASSUME NEW S, NEW a \in Seq(S), NEW b \in Seq(S), b # <<>>
    PROVE  /\ Head(b) \in S /\ Tail(b) \in Seq(S) /\ Len(Tail(b)) = Len(b) - 1
           /\ (a \o <<Head(b)>>) \o Tail(b) = a \o b
<1>1. /\ Head(b) \in S /\ Tail(b) \in Seq(S) /\ Len(Tail(b)) = Len(b) - 1
      /\ \A i \in 1..Len(Tail(b)) : Tail(b)[i] = b[i + 1]
  BY HeadTailProperties
<1>2. Len(b) \in Nat \ {0} /\ Head(b) = b[1]
  BY EmptySeq
<1>3. <<Head(b)>> \in Seq(S) /\ Len(<<Head(b)>>) = 1 /\ <<Head(b)>>[1] = b[1]
  BY <1>1, <1>2
<1> DEFINE h == <<Head(b)>>
           t == Tail(b)
<1>4. h \in Seq(S) /\ Len(h) = 1 /\ h[1] = b[1] /\ t \in Seq(S) /\ Len(t) = Len(b) - 1
      /\ \A i \in 1..Len(t) : t[i] = b[i + 1]
  BY <1>1, <1>3
<1> HIDE DEF h, t
<1>5. /\ h \o t \in Seq(S) /\ Len(h \o t) = Len(h) + Len(t)
      /\ \A i \in 1..(Len(h) + Len(t)) : (h \o t)[i] = IF i <= Len(h) THEN h[i] ELSE t[i - Len(h)]
  <2>1. h \in Seq(S) /\ t \in Seq(S)
    BY <1>4
  <2> QED
    BY <2>1, ConcatProperties, Zenon
<1>6. h \o t = b
  <2>1. Len(h \o t) = Len(b)
    BY <1>2, <1>4, <1>5
  <2>2. ASSUME NEW i \in 1..Len(h \o t) PROVE (h \o t)[i] = b[i]
    <3>1. CASE i = 1
      BY <1>2, <1>4, <1>5, <3>1
    <3>2. CASE i # 1
      <4>1. i - 1 \in 1..Len(t) /\ (i - 1) + 1 = i /\ ~(i <= 1)
        BY <1>2, <1>4, <1>5, <3>2
      <4>2. (h \o t)[i] = t[i - 1]
        BY <1>2, <1>4, <1>5, <4>1
      <4> QED
        BY <1>4, <4>1, <4>2
    <3> QED
      BY <3>1, <3>2
  <2> QED
    BY <1>5, <2>1, <2>2, SeqEqual
<1>7. (a \o h) \o t = a \o (h \o t)
  <2>1. h \in Seq(S) /\ t \in Seq(S)
    BY <1>4
  <2> QED
    BY <2>1, Associative, SMT
<1> QED
  BY <1>1, <1>6, <1>7 DEF h, t

\* What is appended to the second of two sequences is appended to both.
LEMMA ConcatAppend ==
    ASSUME NEW S, NEW a \in Seq(S), NEW b \in Seq(S), NEW e \in S
    PROVE  a \o Append(b, e) = Append(a \o b, e)
<1> DEFINE c == Append(b, e)
           l == a \o c
           u == a \o b
           r == Append(u, e)
<1>1. /\ Len(a) \in Nat /\ Len(b) \in Nat /\ c \in Seq(S) /\ Len(c) = Len(b) + 1
      /\ c[Len(b) + 1] = e /\ \A i \in 1..Len(b) : c[i] = b[i]
  BY AppendProperties, LenProperties
<1> HIDE DEF c
<1>2. /\ l \in Seq(S) /\ Len(l) = Len(a) + Len(c)
      /\ \A i \in 1..(Len(a) + Len(c)) : l[i] = IF i <= Len(a) THEN a[i] ELSE c[i - Len(a)]
  BY <1>1, ConcatProperties
<1>3. /\ u \in Seq(S) /\ Len(u) = Len(a) + Len(b)
      /\ \A i \in 1..(Len(a) + Len(b)) : u[i] = IF i <= Len(a) THEN a[i] ELSE b[i - Len(a)]
  BY ConcatProperties
<1> HIDE DEF u, l
<1>4. /\ r \in Seq(S) /\ Len(r) = Len(u) + 1
      /\ r[Len(u) + 1] = e /\ \A i \in 1..Len(u) : r[i] = u[i]
  <2>1. u \in Seq(S)
    BY <1>3
  <2> QED
    BY <2>1, AppendProperties
<1> HIDE DEF r
<1>5. Len(l) = Len(r) /\ Len(l) = Len(a) + Len(b) + 1 /\ Len(u) = Len(a) + Len(b)
  BY <1>1, <1>2, <1>3, <1>4
<1>6. ASSUME NEW i \in 1..Len(l) PROVE l[i] = r[i]
  <2>1. CASE i = Len(a) + Len(b) + 1
    <3>1. l[i] = c[Len(b) + 1]
      BY <1>1, <1>2, <2>1
    <3> QED
      BY <1>1, <1>3, <1>4, <2>1, <3>1
  <2>2. CASE i # Len(a) + Len(b) + 1
    <3>1. i \in 1..Len(u) /\ i \in 1..(Len(a) + Len(b))
      BY <1>1, <1>5, <2>2
    <3>2. r[i] = IF i <= Len(a) THEN a[i] ELSE b[i - Len(a)]
      BY <1>3, <1>4, <3>1
    <3>3. ~(i <= Len(a)) => i - Len(a) \in 1..Len(b)
      BY <1>1, <3>1
    <3> QED
      BY <1>1, <1>2, <3>2, <3>3
  <2> QED
    BY <2>1, <2>2
<1>7. l = r
  BY <1>2, <1>4, <1>5, <1>6, SeqEqual
<1> QED
  BY <1>7 DEF l, r, u, c

\* The four ways in which a message moves on.
LEMMA MessageMoves ==
    ASSUME NEW x \in Seq(Messages), NEW q \in Seq(Messages), NEW m \in Messages
    PROVE  /\ x \o <<>> = x /\ <<m>> \in Seq(Messages) /\ <<>> \in Seq(Messages)
           /\ x \o <<m>> = Append(x, m)
           /\ (x \o q) \o <<m>> = x \o Append(q, m)
           /\ x \o Append(q, m) = Append(x \o q, m)
           /\ q # <<>> => Head(q) \in Messages /\ Tail(q) \in Seq(Messages)
           /\ q # <<>> => Append(x, Head(q)) \o Tail(q) = x \o q
<1>1. x \o <<>> = x
  BY ConcatEmptySeq
<1>2. <<m>> \in Seq(Messages) /\ <<>> \in Seq(Messages)
  OBVIOUS
<1>3. x \o <<m>> = Append(x, m) /\ q \o <<m>> = Append(q, m)
  BY AppendIsConcat
<1>4. x \o q \in Seq(Messages)
  BY ConcatProperties
<1>8. (x \o q) \o <<m>> = Append(x \o q, m)
  BY <1>4, AppendIsConcat
<1>9. x \o Append(q, m) = Append(x \o q, m)
  BY ConcatAppend
<1>7. (x \o q) \o <<m>> = x \o Append(q, m)
  BY <1>8, <1>9
<1>10. ASSUME q # <<>>
       PROVE  /\ Head(q) \in Messages /\ Tail(q) \in Seq(Messages)
              /\ Append(x, Head(q)) \o Tail(q) = x \o q
  <2>1. /\ Head(q) \in Messages /\ Tail(q) \in Seq(Messages)
        /\ (x \o <<Head(q)>>) \o Tail(q) = x \o q
    BY <1>10, HeadMoves
  <2>2. x \o <<Head(q)>> = Append(x, Head(q))
    BY <2>1, AppendIsConcat
  <2> QED
    BY <2>1, <2>2
<1> QED
  BY <1>1, <1>2, <1>3, <1>7, <1>9, <1>10

\* The parts of the pipe and the pipe itself are sequences of messages.
LEMMA PipeTyped ==
    ASSUME TypeOK
    PROVE  /\ delivered \in Seq(Messages) /\ msgs.q \in Seq(Messages) /\ logs.q \in Seq(Messages)
           /\ fw.msg \in Seq(Messages) /\ delivered \o msgs.q \in Seq(Messages)
           /\ (delivered \o msgs.q) \o fw.msg \in Seq(Messages)
           /\ Pipe \in Seq(Messages)
           /\ fw.msg # <<>> => fw.msg[1] \in Messages /\ fw.msg = <<fw.msg[1]>>
<1>1. delivered \in Seq(Messages) /\ msgs.q \in Seq(Messages) /\ logs.q \in Seq(Messages)
  BY DEF TypeOK, IsChannel
<1>2. fw.msg \in {<<>>} \cup {<<m>> : m \in Messages}
  BY DEF TypeOK
<1>3. fw.msg \in Seq(Messages)
  <2>1. <<>> \in Seq(Messages)
    OBVIOUS
  <2>2. \A m \in Messages : <<m>> \in Seq(Messages)
    OBVIOUS
  <2> QED
    BY <1>2, <2>1, <2>2
<1>4. fw.msg # <<>> => fw.msg[1] \in Messages /\ fw.msg = <<fw.msg[1]>>
  BY <1>2
<1>5. delivered \o msgs.q \in Seq(Messages)
  BY <1>1, ConcatProperties
<1>6. (delivered \o msgs.q) \o fw.msg \in Seq(Messages)
  BY <1>3, <1>5, ConcatProperties
<1>7. Pipe \in Seq(Messages)
  BY <1>1, <1>6, ConcatProperties DEF Pipe
<1> QED
  BY <1>1, <1>3, <1>4, <1>5, <1>6, <1>7

\* The parts of a channel.
LEMMA ChannelTyped ==
    ASSUME NEW S, NEW c, NEW N, IsChannel(c, S, N)
    PROVE  /\ c \in [q : Seq(S), closed : BOOLEAN] /\ c.q \in Seq(S) /\ Len(c.q) \in Nat
           /\ Len(c.q) <= N /\ c.closed \in BOOLEAN
<1>1. c \in [q : Seq(S), closed : BOOLEAN] /\ c.q \in Seq(S) /\ Len(c.q) <= N /\ c.closed \in BOOLEAN
  BY DEF IsChannel
<1> QED
  BY <1>1, LenProperties

\* A channel that is closed keeps what it holds.
LEMMA ChannelCloses ==
    ASSUME NEW S, NEW c, NEW N, IsChannel(c, S, N), NEW d, d = [c EXCEPT !.closed = TRUE]
    PROVE  IsChannel(d, S, N) /\ d.q = c.q /\ d.closed
BY DEF IsChannel

\* A channel with room takes one more.
LEMMA ChannelTakes ==
    ASSUME NEW S, NEW c, NEW N \in Nat, IsChannel(c, S, N), NEW e \in S, Len(c.q) < N,
           NEW d, d = [c EXCEPT !.q = Append(@, e)]
    PROVE  IsChannel(d, S, N) /\ d.q = Append(c.q, e) /\ d.closed = c.closed
<1> DEFINE a == Append(c.q, e)
<1>1. /\ c \in [q : Seq(S), closed : BOOLEAN] /\ c.q \in Seq(S) /\ Len(c.q) \in Nat
  BY ChannelTyped
<1>2. a \in Seq(S) /\ Len(a) = Len(c.q) + 1
  BY <1>1, AppendProperties
<1>3. Len(a) <= N
  BY <1>1, <1>2
<1>4. d = [c EXCEPT !.q = a]
  OBVIOUS
<1> HIDE DEF a
<1>5. d.q = a /\ d.closed = c.closed /\ d \in [q : Seq(S), closed : BOOLEAN]
  BY <1>1, <1>2, <1>4
<1>6. IsChannel(d, S, N)
  BY <1>3, <1>5 DEF IsChannel
<1> QED
  BY <1>5, <1>6 DEF a

\* A channel gives its first.
LEMMA ChannelGives ==
    ASSUME NEW S, NEW c, NEW N \in Nat, IsChannel(c, S, N), c.q # <<>>,
           NEW d, d = [c EXCEPT !.q = Tail(@)]
    PROVE  IsChannel(d, S, N) /\ d.q = Tail(c.q) /\ d.closed = c.closed /\ Head(c.q) \in S
<1> DEFINE a == Tail(c.q)
<1>1. /\ c \in [q : Seq(S), closed : BOOLEAN] /\ c.q \in Seq(S) /\ Len(c.q) \in Nat
      /\ Len(c.q) <= N
  BY ChannelTyped
<1>2. a \in Seq(S) /\ Len(a) = Len(c.q) - 1 /\ Head(c.q) \in S
  BY <1>1, HeadTailProperties
<1>3. Len(a) <= N
  BY <1>1, <1>2
<1>4. d = [c EXCEPT !.q = a]
  OBVIOUS
<1> HIDE DEF a
<1>5. d.q = a /\ d.closed = c.closed /\ d \in [q : Seq(S), closed : BOOLEAN]
  BY <1>1, <1>2, <1>4
<1>6. IsChannel(d, S, N)
  BY <1>3, <1>5 DEF IsChannel
<1> QED
  BY <1>2, <1>5, <1>6 DEF a

-----------------------------------------------------------------------------
(* What a step leaves alone.                                               *)

\* The order holds as long as no message is sent.
LEMMA PipeStays ==
    ASSUME PipeOK, Pipe' = Pipe, \A p \in Pods : rd'[p].line = rd[p].line
    PROVE  PipeOK'
BY DEF PipeOK

\* The count of streams holds as long as none of them moves.
LEMMA WatchingStays ==
    ASSUME WatchingOK, pod' = pod, main' = main, logs'.closed = logs.closed, cancelled => cancelled'
    PROVE  WatchingOK'
<1>1. Active' = Active
  BY DEF Active
<1> QED
  BY <1>1 DEF WatchingOK

\* The readers are as before.
LEMMA ReadersStay ==
    ASSUME \A p \in Pods : ReaderOK(p), pod' = pod, rd' = rd, failed' = failed, cancelled => cancelled'
    PROVE  \A p \in Pods : ReaderOK(p)'
BY DEF ReaderOK

\* Nothing changes from the readers to the handler.
QuietChannels == UNCHANGED <<main, pod, failed, rd, logs, fw, msgs, delivered>>

\* Such a step keeps the invariant.
LEMMA QuietKeeps ==
    ASSUME LogsInv, TypeOK', CancelledOK', QuietChannels, cancelled => cancelled'
    PROVE  LogsInv'
<1>1. /\ main' = main /\ pod' = pod /\ failed' = failed /\ rd' = rd /\ logs' = logs /\ fw' = fw
      /\ msgs' = msgs /\ delivered' = delivered
  BY DEF QuietChannels
<1>2. /\ WatchingOK /\ ForwarderOK /\ PipeOK /\ \A p \in Pods : ReaderOK(p)
  BY DEF LogsInv
<1>3. Pipe' = Pipe
  BY <1>1 DEF Pipe
<1>4. PipeOK'
  BY <1>1, <1>2, <1>3, PipeStays
<1>5. WatchingOK'
  BY <1>1, <1>2, WatchingStays
<1>6. \A p \in Pods : ReaderOK(p)'
  BY <1>1, <1>2, ReadersStay
<1>7. ForwarderOK'
  BY <1>1, <1>2 DEF ForwarderOK
<1> QED
  BY <1>4, <1>5, <1>6, <1>7 DEF LogsInv

-----------------------------------------------------------------------------
(* The informer, and the steps of the handler that only cancel.            *)

\* A pod is missed.
LEMMA InformerMissesKeeps ==
    ASSUME LogsInv, NEW p \in Existing, InformerMisses(p)
    PROVE  LogsInv'
<1>1. TypeOK /\ CancelledOK /\ p \in Pods
  BY DEF LogsInv, Pods
<1>2. /\ known' = known \cup {p} /\ adding' = adding /\ cancelled' = cancelled
      /\ handler' = handler /\ added' = added /\ panicked' = panicked /\ QuietChannels
  BY DEF InformerMisses, QuietChannels
<1>3. TypeOK'
  BY <1>1, <1>2 DEF TypeOK, QuietChannels
<1>4. CancelledOK'
  BY <1>1, <1>2 DEF CancelledOK
<1> QED
  BY <1>2, <1>3, <1>4, QuietKeeps

\* A pod is reported.
LEMMA InformerKeeps ==
    ASSUME LogsInv, NEW p \in Pods, InformerAdds(p) \/ OnAdd(p)
    PROVE  LogsInv'
<1>1. TypeOK /\ CancelledOK
  BY DEF LogsInv
<1>2. /\ IsChannel(added, Pods, Cardinality(Existing)) /\ Cardinality(Existing) \in Nat
  BY <1>1, LogsAssumption, FS_CardinalityType DEF TypeOK
<1>3. CASE InformerAdds(p)
  <2>1. /\ known' = known \cup {p} /\ adding' = {p} /\ cancelled' = cancelled /\ handler' = handler
        /\ added' = added /\ panicked' = panicked /\ QuietChannels
    BY <1>3 DEF InformerAdds, QuietChannels
  <2>2. Cardinality(adding') <= 1
    <3>1. Cardinality({p}) = 1
      BY FS_Singleton
    <3> QED
      BY <2>1, <3>1
  <2>3. known' \subseteq Pods /\ adding' \subseteq known'
    BY <1>1, <2>1 DEF TypeOK
  <2>4. TypeOK'
    BY <1>1, <2>1, <2>2, <2>3 DEF TypeOK, QuietChannels
  <2>5. CancelledOK'
    BY <1>1, <2>1 DEF CancelledOK
  <2> QED
    BY <2>1, <2>4, <2>5, QuietKeeps
<1>4. CASE OnAdd(p)
  <2>1. /\ known' = known /\ cancelled' = cancelled /\ handler' = handler /\ QuietChannels
    BY <1>4 DEF OnAdd, QuietChannels
  <2>2. CASE /\ ~added.closed /\ Len(added.q) < Cardinality(Existing)
             /\ added' = [added EXCEPT !.q = Append(@, p)] /\ adding' = {} /\ UNCHANGED panicked
    <3>1. IsChannel(added', Pods, Cardinality(Existing)) /\ added'.closed = added.closed
      BY <1>2, <2>2, ChannelTakes
    <3>2. adding' \subseteq known' /\ Cardinality(adding') <= 1
      BY <2>2, FS_EmptySet
    <3>3. TypeOK'
      BY <1>1, <2>1, <2>2, <3>1, <3>2 DEF TypeOK, QuietChannels
    <3>4. CancelledOK'
      BY <1>1, <2>1, <2>2, <3>1 DEF CancelledOK
    <3> QED
      BY <2>1, <3>3, <3>4, QuietKeeps
  <2>3. CASE added.closed /\ Panic /\ UNCHANGED <<added, adding>>
    <3>1. TypeOK'
      BY <1>1, <2>1, <2>3 DEF TypeOK, QuietChannels, Panic
    <3>2. CancelledOK'
      BY <1>1, <2>1, <2>3 DEF CancelledOK
    <3> QED
      BY <2>1, <3>1, <3>2, QuietKeeps
  <2> QED
    BY <1>4, <2>2, <2>3 DEF OnAdd
<1> QED
  BY <1>3, <1>4

\* The informer stops only after a cancellation.
LEMMA CloseAddedKeeps ==
    ASSUME LogsInv, CloseAdded
    PROVE  LogsInv'
<1>1. TypeOK /\ CancelledOK
  BY DEF LogsInv
<1>2. /\ cancelled /\ added' = [added EXCEPT !.closed = TRUE]
      /\ cancelled' = cancelled /\ handler' = handler /\ known' = known /\ adding' = adding
      /\ panicked' = panicked /\ QuietChannels
  BY DEF CloseAdded, QuietChannels
<1>3. IsChannel(added', Pods, Cardinality(Existing))
  <2>1. IsChannel(added, Pods, Cardinality(Existing)) /\ Cardinality(Existing) \in Nat
    BY <1>1, LogsAssumption, FS_CardinalityType DEF TypeOK
  <2> QED
    BY <1>2, <2>1, ChannelCloses
<1>4. TypeOK'
  BY <1>1, <1>2, <1>3 DEF TypeOK, QuietChannels
<1>5. CancelledOK'
  BY <1>1, <1>2 DEF CancelledOK
<1> QED
  BY <1>2, <1>4, <1>5, QuietKeeps

\* The client leaves, or the time is over.
LEMMA CancelKeeps ==
    ASSUME LogsInv, HandlerLeaves \/ Timeout
    PROVE  LogsInv'
<1>1. TypeOK /\ CancelledOK
  BY DEF LogsInv
<1>2. /\ handler' \in {"reading", "left", "ended"} /\ cancelled' = TRUE
      /\ known' = known /\ adding' = adding /\ added' = added
      /\ panicked' = panicked /\ QuietChannels
  BY <1>1 DEF HandlerLeaves, Timeout, QuietChannels, TypeOK
<1>3. TypeOK'
  BY <1>1, <1>2 DEF TypeOK, QuietChannels
<1>4. CancelledOK'
  BY <1>2 DEF CancelledOK
<1> QED
  BY <1>2, <1>3, <1>4, QuietKeeps

-----------------------------------------------------------------------------
(* The goroutine of GetLogs.                                               *)

\* How the set of active streams changes with one of them.
LEMMA StreamMoves ==
    ASSUME TypeOK, IsFiniteSet(Active), NEW s \in Streams,
           NEW v \in {"open", "wait", "finish", "gone"}, pod' = [pod EXCEPT ![s] = v]
    PROVE  /\ pod' \in [Streams -> {"none", "open", "wait", "finish", "gone"}]
           /\ IsFiniteSet(Active')
           /\ pod[s] \in {"open", "wait"} /\ v # "gone" => Active' = Active
           /\ pod[s] = "none" /\ v = "open" => Cardinality(Active') = Cardinality(Active) + 1
           /\ pod[s] = "finish" /\ v = "gone" =>
                /\ Cardinality(Active) - 1 \in Nat /\ Cardinality(Active') = Cardinality(Active) - 1
                /\ Cardinality(Active) - 1 = 0 => Active' = {}
<1>1. /\ pod \in [Streams -> {"none", "open", "wait", "finish", "gone"}]
      /\ pod' \in [Streams -> {"none", "open", "wait", "finish", "gone"}]
      /\ pod'[s] = v /\ \A t \in Streams : t # s => pod'[t] = pod[t]
  BY DEF TypeOK
<1>2. CASE v = "gone"
  <2>1. Active' = Active \ {s}
    BY <1>1, <1>2 DEF Active
  <2>2. IsFiniteSet(Active')
    BY <2>1, FS_RemoveElement
  <2>3. ASSUME pod[s] = "finish"
        PROVE  /\ Cardinality(Active) - 1 \in Nat /\ Cardinality(Active') = Cardinality(Active) - 1
               /\ Cardinality(Active) - 1 = 0 => Active' = {}
    <3>1. s \in Active
      BY <2>3 DEF Active
    <3>2. Cardinality(Active') = Cardinality(Active) - 1
      BY <2>1, <3>1, FS_RemoveElement
    <3>3. Cardinality(Active') \in Nat
      BY <2>2, FS_CardinalityType
    <3>4. Cardinality(Active') = 0 => Active' = {}
      BY <2>2, FS_EmptySet
    <3> QED
      BY <3>2, <3>3, <3>4
  <2> QED
    BY <1>1, <1>2, <2>2, <2>3
<1>3. CASE v # "gone"
  <2>1. Active' = Active \cup {s}
    BY <1>1, <1>3 DEF Active
  <2>2. IsFiniteSet(Active')
    BY <2>1, FS_AddElement
  <2>3. pod[s] \in {"open", "wait"} => Active' = Active
    BY <2>1 DEF Active
  <2>4. ASSUME pod[s] = "none" PROVE Cardinality(Active') = Cardinality(Active) + 1
    <3>1. s \notin Active
      BY <2>4 DEF Active
    <3> QED
      BY <2>1, <3>1, FS_AddElement
  <2> QED
    BY <1>1, <1>3, <2>2, <2>3, <2>4
<1> QED
  BY <1>2, <1>3

\* GetLogs closes logs, if it is done with it: the messages stay.
LEMMA LogsClosedKeep ==
    ASSUME TypeOK, ForwarderOK, PipeOK, logs' = logs \/ GetLogsReturns, fw' = fw, msgs' = msgs,
           delivered' = delivered, rd' = rd
    PROVE  /\ IsChannel(logs', Messages, BufferSize) /\ logs'.q = logs.q
           /\ GetLogsReturns => logs'.closed
           /\ ForwarderOK' /\ PipeOK'
<1>1. IsChannel(logs, Messages, BufferSize)
  BY DEF TypeOK
<1>2. IsChannel(logs', Messages, BufferSize) /\ logs'.q = logs.q /\ (GetLogsReturns => logs'.closed)
      /\ (logs.closed => logs'.closed)
  BY <1>1, ChannelCloses DEF GetLogsReturns
<1>3. Pipe' = Pipe
  BY <1>2 DEF Pipe
<1>4. PipeOK'
  BY <1>3, PipeStays
<1>5. ForwarderOK'
  BY <1>2 DEF ForwarderOK
<1> QED
  BY <1>2, <1>4, <1>5

\* The context is done.
LEMMA GetLogsDoneKeeps ==
    ASSUME LogsInv, GetLogsDone
    PROVE  LogsInv'
<1>1. TypeOK /\ CancelledOK /\ ForwarderOK /\ PipeOK /\ WatchingOK /\ \A p \in Pods : ReaderOK(p)
  BY DEF LogsInv
<1>2. /\ main.on /\ cancelled /\ main' = [main EXCEPT !.on = FALSE] /\ GetLogsReturns
      /\ cancelled' = cancelled /\ handler' = handler /\ known' = known /\ adding' = adding
      /\ added' = added /\ pod' = pod /\ failed' = failed /\ rd' = rd /\ fw' = fw /\ msgs' = msgs
      /\ delivered' = delivered /\ panicked' = panicked
  BY DEF GetLogsDone
<1>3. IsChannel(logs', Messages, BufferSize) /\ logs'.closed /\ ForwarderOK' /\ PipeOK'
  BY <1>1, <1>2, LogsClosedKeep
<1>4. main' \in [on : BOOLEAN, watching : Nat] /\ ~main'.on /\ main'.watching = main.watching
  BY <1>1, <1>2 DEF TypeOK
<1>5. TypeOK'
  BY <1>1, <1>2, <1>3, <1>4 DEF TypeOK
<1>6. WatchingOK'
  <2>1. Active' = Active
    BY <1>2 DEF Active
  <2> QED
    BY <1>1, <1>2, <1>3, <1>4, <2>1 DEF WatchingOK
<1>7. CancelledOK' /\ \A p \in Pods : ReaderOK(p)'
  BY <1>1, <1>2, ReadersStay DEF CancelledOK
<1> QED
  BY <1>3, <1>5, <1>6, <1>7 DEF LogsInv

\* A stream has ended; with the last of them, unless the logs are followed, GetLogs ends.
LEMMA GetLogsFinishedKeeps ==
    ASSUME LogsInv, NEW s \in Streams, GetLogsFinished(s)
    PROVE  LogsInv'
<1>1. TypeOK /\ CancelledOK /\ ForwarderOK /\ PipeOK /\ WatchingOK /\ \A p \in Pods : ReaderOK(p)
  BY DEF LogsInv
<1>2. /\ main.on /\ pod[s] = "finish" /\ pod' = [pod EXCEPT ![s] = "gone"]
      /\ cancelled' = cancelled /\ handler' = handler /\ known' = known /\ adding' = adding
      /\ added' = added /\ failed' = failed /\ rd' = rd /\ fw' = fw /\ msgs' = msgs
      /\ delivered' = delivered /\ panicked' = panicked
      /\ \/ main.watching - 1 = 0 /\ main' = [on |-> FALSE, watching |-> 0] /\ GetLogsReturns
         \/ main' = [main EXCEPT !.watching = @ - 1] /\ logs' = logs
  BY DEF GetLogsFinished
<1>3. /\ IsChannel(logs', Messages, BufferSize) /\ ForwarderOK' /\ PipeOK'
      /\ GetLogsReturns => logs'.closed
  BY <1>1, <1>2, LogsClosedKeep
<1>4. /\ pod' \in [Streams -> {"none", "open", "wait", "finish", "gone"}] /\ IsFiniteSet(Active')
      /\ main.watching - 1 \in Nat /\ Cardinality(Active') = main.watching - 1
      /\ main.watching - 1 = 0 => Active' = {}
  BY <1>1, <1>2, StreamMoves DEF WatchingOK
<1>5. main' \in [on : BOOLEAN, watching : Nat] /\ main'.watching = main.watching - 1
      /\ \/ main.watching - 1 = 0 /\ ~main'.on /\ logs'.closed
         \/ main'.on /\ logs' = logs
  <2>1. main \in [on : BOOLEAN, watching : Nat] /\ main.on
    BY <1>1, <1>2 DEF TypeOK
  <2>2. CASE main.watching - 1 = 0 /\ main' = [on |-> FALSE, watching |-> 0] /\ GetLogsReturns
    <3>1. 0 \in Nat
      OBVIOUS
    <3>2. /\ main' \in [on : BOOLEAN, watching : Nat] /\ main'.watching = 0 /\ ~main'.on
      BY <2>2, <3>1
    <3> QED
      BY <1>3, <2>2, <3>2
  <2>3. CASE main' = [main EXCEPT !.watching = @ - 1] /\ logs' = logs
    <3> DEFINE w == main.watching - 1
    <3>1. w \in Nat /\ main' = [main EXCEPT !.watching = w]
      BY <1>4, <2>3
    <3> HIDE DEF w
    <3>2. main' \in [on : BOOLEAN, watching : Nat] /\ main'.watching = w /\ main'.on
      BY <2>1, <3>1
    <3> QED
      BY <2>3, <3>2 DEF w
  <2> QED
    BY <1>2, <2>2, <2>3
<1>6. TypeOK'
  BY <1>1, <1>2, <1>3, <1>4, <1>5 DEF TypeOK
<1>7. WatchingOK'
  <2>1. ~logs.closed
    BY <1>1, <1>2 DEF WatchingOK
  <2> QED
    BY <1>4, <1>5, <2>1 DEF WatchingOK
<1>8. ASSUME NEW p \in Pods PROVE ReaderOK(p)'
  <2>1. p \in Streams /\ ReaderOK(p) /\ (pod'[p] = pod[p] \/ (pod[p] = "finish" /\ pod'[p] = "gone"))
    BY <1>1, <1>2 DEF Streams, TypeOK
  <2> QED
    BY <1>2, <2>1 DEF ReaderOK
<1>9. CancelledOK'
  BY <1>1, <1>2 DEF CancelledOK
<1> QED
  BY <1>3, <1>6, <1>7, <1>8, <1>9 DEF LogsInv

\* A pod, or the "" of the closed channel, is taken from added.
LEMMA GetLogsAddedKeeps ==
    ASSUME LogsInv, NEW s \in Streams, GetLogsAdded(s)
    PROVE  LogsInv'
<1>1. TypeOK /\ CancelledOK /\ ForwarderOK /\ PipeOK /\ WatchingOK /\ \A p \in Pods : ReaderOK(p)
  BY DEF LogsInv
<1>2. /\ main.on /\ pod[s] = "none" /\ pod' = [pod EXCEPT ![s] = "open"]
      /\ main' = [main EXCEPT !.watching = @ + 1]
      /\ cancelled' = cancelled /\ handler' = handler /\ known' = known /\ adding' = adding
      /\ failed' = failed /\ rd' = rd /\ logs' = logs /\ fw' = fw /\ msgs' = msgs
      /\ delivered' = delivered /\ panicked' = panicked
      /\ added' = added \/ (added.q # <<>> /\ added' = [added EXCEPT !.q = Tail(@)])
  BY DEF GetLogsAdded
<1>3. IsChannel(added', Pods, Cardinality(Existing)) /\ added'.closed = added.closed
  <2>1. IsChannel(added, Pods, Cardinality(Existing)) /\ Cardinality(Existing) \in Nat
    BY <1>1, LogsAssumption, FS_CardinalityType DEF TypeOK
  <2> QED
    BY <1>2, <2>1, ChannelGives
<1>4. /\ pod' \in [Streams -> {"none", "open", "wait", "finish", "gone"}] /\ IsFiniteSet(Active')
      /\ Cardinality(Active') = main.watching + 1
  BY <1>1, <1>2, StreamMoves DEF WatchingOK
<1>5. main' \in [on : BOOLEAN, watching : Nat] /\ main'.watching = main.watching + 1 /\ main'.on
  BY <1>1, <1>2 DEF TypeOK
<1>6. TypeOK'
  BY <1>1, <1>2, <1>3, <1>4, <1>5 DEF TypeOK
<1>7. WatchingOK'
  BY <1>1, <1>2, <1>4, <1>5 DEF WatchingOK
<1>8. ASSUME NEW p \in Pods PROVE ReaderOK(p)'
  <2>1. p \in Streams /\ ReaderOK(p) /\ (pod'[p] = pod[p] \/ (pod[p] = "none" /\ pod'[p] = "open"))
    BY <1>1, <1>2 DEF Streams, TypeOK
  <2> QED
    BY <1>2, <2>1 DEF ReaderOK
<1>9. CancelledOK'
  BY <1>1, <1>2, <1>3 DEF CancelledOK
<1>10. ForwarderOK'
  BY <1>1, <1>2 DEF ForwarderOK
<1>11. PipeOK'
  <2>1. Pipe' = Pipe
    BY <1>2 DEF Pipe
  <2> QED
    BY <1>1, <1>2, <2>1, PipeStays
<1> QED
  BY <1>6, <1>7, <1>8, <1>9, <1>10, <1>11 DEF LogsInv

-----------------------------------------------------------------------------
(* podLogs and the readers.                                                *)

\* What the goroutines of one stream leave alone when they send no line.
PodFrame ==
    UNCHANGED <<cancelled, handler, known, adding, added, main, logs, fw, msgs, delivered, panicked>>

\* podLogs of one stream and its reader move on.
StreamGoes(s, v, c) ==
    /\ PodFrame
    /\ \/ pod' = pod
       \/ pod[s] \in {"open", "wait"} /\ v \in {"wait", "finish"} /\ pod' = [pod EXCEPT ![s] = v]
    /\ rd' = rd \/ (s \in Pods /\ rd' = [rd EXCEPT ![s].pc = c])
    /\ failed' = failed \/ failed' = failed \cup {s}

\* That step keeps the invariant if it keeps it for this stream.
LEMMA StreamGoesKeeps ==
    ASSUME LogsInv, NEW s \in Streams, NEW v, NEW c \in {"none", "read", "send", "eof", "gone"},
           StreamGoes(s, v, c), s \in Pods => ReaderOK(s)'
    PROVE  LogsInv'
<1>1. TypeOK /\ CancelledOK /\ ForwarderOK /\ PipeOK /\ WatchingOK /\ \A p \in Pods : ReaderOK(p)
  BY DEF LogsInv
<1>2. /\ cancelled' = cancelled /\ handler' = handler /\ known' = known /\ adding' = adding
      /\ added' = added /\ main' = main /\ logs' = logs /\ fw' = fw /\ msgs' = msgs
      /\ delivered' = delivered /\ panicked' = panicked
  BY DEF StreamGoes, PodFrame
<1>3. /\ rd' \in [Pods -> [pc : {"none", "read", "send", "eof", "gone"}, line : 1..(Lines + 1)]]
      /\ \A p \in Pods : rd'[p].line = rd[p].line /\ (p # s => rd'[p] = rd[p])
  <2>1. rd \in [Pods -> [pc : {"none", "read", "send", "eof", "gone"}, line : 1..(Lines + 1)]]
    BY <1>1 DEF TypeOK
  <2>2. CASE rd' = rd
    BY <2>1, <2>2
  <2>3. CASE s \in Pods /\ rd' = [rd EXCEPT ![s].pc = c]
    BY <2>1, <2>3
  <2> QED
    BY <2>2, <2>3 DEF StreamGoes
<1>4. /\ pod' \in [Streams -> {"none", "open", "wait", "finish", "gone"}] /\ Active' = Active
      /\ \A p \in Pods : p # s => pod'[p] = pod[p]
  <2>1. pod \in [Streams -> {"none", "open", "wait", "finish", "gone"}]
    BY <1>1 DEF TypeOK
  <2>2. CASE pod' = pod
    BY <2>1, <2>2 DEF Active
  <2>3. CASE /\ pod[s] \in {"open", "wait"} /\ v \in {"wait", "finish"}
             /\ pod' = [pod EXCEPT ![s] = v]
    <3>1. v \in {"open", "wait", "finish", "gone"} /\ v # "gone" /\ IsFiniteSet(Active)
      BY <1>1, <2>3 DEF WatchingOK
    <3>2. /\ pod' \in [Streams -> {"none", "open", "wait", "finish", "gone"}]
          /\ Active' = Active
      BY <1>1, <2>3, <3>1, StreamMoves
    <3>3. \A p \in Pods : p # s => pod'[p] = pod[p]
      BY <2>1, <2>3 DEF Streams
    <3> QED
      BY <3>2, <3>3
  <2> QED
    BY <2>2, <2>3 DEF StreamGoes
<1>5. failed' \subseteq Streams /\ \A p \in Pods : p # s => (p \in failed' <=> p \in failed)
  BY <1>1 DEF StreamGoes, TypeOK
<1>6. TypeOK'
  BY <1>1, <1>2, <1>3, <1>4, <1>5 DEF TypeOK
<1>7. WatchingOK'
  BY <1>1, <1>2, <1>4 DEF WatchingOK
<1>8. CancelledOK' /\ ForwarderOK'
  BY <1>1, <1>2 DEF CancelledOK, ForwarderOK
<1>9. PipeOK'
  <2>1. Pipe' = Pipe
    BY <1>2 DEF Pipe
  <2> QED
    BY <1>1, <1>3, <2>1, PipeStays
<1>10. ASSUME NEW p \in Pods PROVE ReaderOK(p)'
  <2>1. CASE p = s
    BY <2>1
  <2>2. CASE p # s
    <3>1. ReaderOK(p)
      BY <1>1
    <3> QED
      BY <1>2, <1>3, <1>4, <1>5, <2>2, <3>1 DEF ReaderOK
  <2> QED
    BY <2>1, <2>2
<1> QED
  BY <1>6, <1>7, <1>8, <1>9, <1>10 DEF LogsInv

\* What is known of one pod.
LEMMA PodTyped ==
    ASSUME LogsInv, NEW p \in Pods
    PROVE  /\ p \in Streams /\ ReaderOK(p)
           /\ pod \in [Streams -> {"none", "open", "wait", "finish", "gone"}]
           /\ rd \in [Pods -> [pc : {"none", "read", "send", "eof", "gone"}, line : 1..(Lines + 1)]]
           /\ rd[p].line \in 1..(Lines + 1) /\ Lines \in Nat
BY LogsAssumption DEF LogsInv, Streams, TypeOK

\* A stream is opened or cannot be opened.
LEMMA OpenStreamKeeps ==
    ASSUME LogsInv, NEW s \in Streams, OpenStream(s)
    PROVE  LogsInv'
<1>1. pod[s] = "open" /\ PodFrame
  BY DEF OpenStream, PodFrame
<1>2. pod \in [Streams -> {"none", "open", "wait", "finish", "gone"}]
  BY DEF LogsInv, TypeOK
<1>3. CASE s \in Pods /\ pod' = [pod EXCEPT ![s] = "wait"] /\ rd' = [rd EXCEPT ![s].pc = "read"]
           /\ failed' = failed
  <2>1. StreamGoes(s, "wait", "read")
    BY <1>1, <1>3 DEF StreamGoes
  <2>2. pod'[s] = "wait" /\ rd'[s].pc = "read"
    BY <1>2, <1>3, PodTyped
  <2>3. ReaderOK(s)'
    BY <2>2 DEF ReaderOK
  <2> QED
    BY <2>1, <2>3, StreamGoesKeeps
<1>4. CASE pod' = [pod EXCEPT ![s] = "finish"] /\ failed' = failed \cup {s} /\ rd' = rd
  <2>1. StreamGoes(s, "finish", "none")
    BY <1>1, <1>4 DEF StreamGoes
  <2>2. ASSUME s \in Pods PROVE ReaderOK(s)'
    <3>1. pod'[s] = "finish" /\ s \in failed'
      BY <1>2, <1>4
    <3>2. rd'[s].pc = "none"
      BY <1>1, <1>4, <2>2, PodTyped DEF ReaderOK
    <3> QED
      BY <3>1, <3>2 DEF ReaderOK
  <2> QED
    BY <2>1, <2>2, StreamGoesKeeps
<1> QED
  BY <1>3, <1>4 DEF OpenStream

\* The stream of a pod is left because of the cancellation.
LEMMA podLogsCancelledKeeps ==
    ASSUME LogsInv, NEW p \in Pods, podLogsCancelled(p)
    PROVE  LogsInv'
<1>1. /\ pod[p] = "wait" /\ cancelled /\ PodFrame /\ rd' = rd
      /\ pod' = [pod EXCEPT ![p] = "finish"] /\ failed' = failed \cup {p}
  BY DEF podLogsCancelled, PodFrame
<1>2. StreamGoes(p, "finish", "none")
  BY <1>1 DEF StreamGoes
<1>3. pod'[p] = "finish" /\ p \in failed' /\ cancelled' = cancelled /\ rd'[p] = rd[p]
  BY <1>1, PodTyped DEF PodFrame
<1>4. ReaderOK(p)'
  <2>1. ReaderOK(p) /\ pod[p] = "wait" /\ cancelled
    BY <1>1, PodTyped
  <2> QED
    BY <1>3, <2>1 DEF ReaderOK
<1> QED
  BY <1>2, <1>4, PodTyped, StreamGoesKeeps

\* The reader has come to its end, and podLogs with it.
LEMMA podLogsDoneKeeps ==
    ASSUME LogsInv, NEW p \in Pods, podLogsDone(p)
    PROVE  LogsInv'
<1>1. /\ pod[p] = "wait" /\ rd[p].pc = "eof" /\ PodFrame /\ rd' = [rd EXCEPT ![p].pc = "gone"]
      /\ pod' = [pod EXCEPT ![p] = "finish"] /\ failed' = failed
  BY DEF podLogsDone, PodFrame
<1>2. StreamGoes(p, "finish", "gone")
  BY <1>1 DEF StreamGoes
<1>3. /\ pod'[p] = "finish" /\ failed' = failed /\ rd'[p].pc = "gone"
      /\ rd'[p].line = rd[p].line
  BY <1>1, PodTyped
<1>4. ReaderOK(p)'
  <2>1. ReaderOK(p)
    BY PodTyped
  <2> QED
    BY <1>1, <1>3, <2>1 DEF ReaderOK
<1> QED
  BY <1>2, <1>4, PodTyped, StreamGoesKeeps

\* A reader has a line, the end of the stream or an error.
LEMMA ReadLineKeeps ==
    ASSUME LogsInv, NEW p \in Pods, ReadLine(p)
    PROVE  LogsInv'
<1>1. rd[p].pc = "read" /\ PodFrame /\ pod' = pod /\ cancelled' = cancelled
  BY DEF ReadLine, PodFrame
<1>2. ReaderOK(p)
  BY PodTyped
<1>3. CASE rd[p].line <= Lines /\ rd' = [rd EXCEPT ![p].pc = "send"] /\ failed' = failed
  <2>1. StreamGoes(p, "wait", "send")
    BY <1>1, <1>3 DEF StreamGoes
  <2>2. rd'[p].pc = "send" /\ rd'[p].line = rd[p].line
    BY <1>3, PodTyped
  <2>3. ReaderOK(p)'
    BY <1>1, <1>2, <1>3, <2>2 DEF ReaderOK
  <2> QED
    BY <2>1, <2>3, PodTyped, StreamGoesKeeps
<1>4. CASE /\ rd[p].line > Lines \/ pod[p] # "wait"
           /\ rd' = [rd EXCEPT ![p].pc = "eof"] /\ failed' = failed
  <2>1. StreamGoes(p, "wait", "eof")
    BY <1>1, <1>4 DEF StreamGoes
  <2>2. rd'[p].pc = "eof" /\ rd'[p].line = rd[p].line
    BY <1>4, PodTyped
  <2>3. p \notin failed => rd[p].line = Lines + 1
    <3>1. p \notin failed => pod[p] = "wait"
      BY <1>1, <1>2 DEF ReaderOK
    <3>2. rd[p].line \in 1..(Lines + 1) /\ Lines \in Nat
      BY PodTyped
    <3>3. rd[p].line > Lines => rd[p].line = Lines + 1
      BY <3>2
    <3> QED
      BY <1>4, <3>1, <3>3
  <2>4. ReaderOK(p)'
    BY <1>1, <1>2, <1>4, <2>2, <2>3 DEF ReaderOK
  <2> QED
    BY <2>1, <2>4, PodTyped, StreamGoesKeeps
<1>5. CASE rd' = [rd EXCEPT ![p].pc = "eof"] /\ failed' = failed \cup {p}
  <2>1. StreamGoes(p, "wait", "eof")
    BY <1>1, <1>5 DEF StreamGoes
  <2>2. rd'[p].pc = "eof" /\ p \in failed'
    BY <1>5, PodTyped
  <2>3. ReaderOK(p)'
    BY <1>1, <1>2, <2>2 DEF ReaderOK
  <2> QED
    BY <2>1, <2>3, PodTyped, StreamGoesKeeps
<1> QED
  BY <1>3, <1>4, <1>5 DEF ReadLine

\* The message that a reader sends.
Message(p) == [pod |-> p, line |-> rd[p].line, text |-> extractTimestampAndMsg(rd[p].line)]

\* It is a message of the pod, and its line is one of the log.
LEMMA MessageTyped ==
    ASSUME LogsInv, NEW p \in Pods, rd[p].pc = "send"
    PROVE  /\ rd[p].line \in 1..Lines /\ Message(p) \in Messages
           /\ Message(p).pod = p /\ Message(p).line = rd[p].line
<1>1. rd[p].line \in 1..Lines
  <2>1. rd[p].line \in 1..(Lines + 1) /\ Lines \in Nat /\ ReaderOK(p)
    BY PodTyped
  <2>2. rd[p].line <= Lines
    BY <2>1 DEF ReaderOK
  <2> QED
    BY <2>1, <2>2
<1>2. extractTimestampAndMsg(rd[p].line) \in {"text", "empty"}
  BY DEF extractTimestampAndMsg
<1> QED
  BY <1>1, <1>2 DEF Messages, Message

\* A reader sends its line; a panic comes only after a cancellation.
LEMMA SendLineKeeps ==
    ASSUME LogsInv, NEW p \in Pods, SendLine(p)
    PROVE  LogsInv'
<1>1. TypeOK /\ CancelledOK /\ ForwarderOK /\ PipeOK /\ WatchingOK /\ \A r \in Pods : ReaderOK(r)
  BY DEF LogsInv
<1>2. /\ rd[p].pc = "send" /\ cancelled' = cancelled /\ handler' = handler /\ known' = known
      /\ adding' = adding /\ added' = added /\ main' = main /\ pod' = pod /\ failed' = failed
      /\ fw' = fw /\ msgs' = msgs /\ delivered' = delivered
  BY DEF SendLine
<1>3. Active' = Active
  BY <1>2 DEF Active
<1>4. /\ p \in Streams /\ ReaderOK(p) /\ rd[p].line \in 1..(Lines + 1) /\ Lines \in Nat
      /\ rd \in [Pods -> [pc : {"none", "read", "send", "eof", "gone"}, line : 1..(Lines + 1)]]
  BY PodTyped
<1>5. CASE logs.closed /\ panicked' = TRUE /\ logs' = logs /\ rd' = rd
  <2>1. cancelled
    <3>1. ~cancelled => pod[p] = "wait"
      BY <1>2, <1>4 DEF ReaderOK
    <3>2. ~cancelled => p \notin Active
      BY <1>1, <1>5 DEF WatchingOK
    <3> QED
      BY <1>4, <3>1, <3>2 DEF Active
  <2>2. TypeOK'
    BY <1>1, <1>2, <1>5 DEF TypeOK
  <2>3. WatchingOK'
    BY <1>1, <1>2, <1>3, <1>5 DEF WatchingOK
  <2>4. CancelledOK' /\ ForwarderOK'
    BY <1>1, <1>2, <1>5, <2>1 DEF CancelledOK, ForwarderOK
  <2>5. PipeOK'
    <3>1. Pipe' = Pipe
      BY <1>2, <1>5 DEF Pipe
    <3> QED
      BY <1>1, <1>5, <3>1, PipeStays
  <2>6. \A r \in Pods : ReaderOK(r)'
    BY <1>1, <1>2, <1>5, ReadersStay
  <2> QED
    BY <2>2, <2>3, <2>4, <2>5, <2>6 DEF LogsInv
<1>6. CASE /\ ~logs.closed /\ Len(logs.q) < BufferSize /\ panicked' = panicked
           /\ logs' = [logs EXCEPT !.q = Append(@, Message(p))]
           /\ rd' = [rd EXCEPT ![p].pc = "read", ![p].line = @ + 1]
  <2> DEFINE l == rd[p].line
             m == Message(p)
  <2>1. l \in 1..Lines /\ m \in Messages /\ m.pod = p /\ m.line = l
    BY <1>2, MessageTyped
  <2>2. l \in 1..Lines /\ l \in Nat /\ l + 1 \in 1..(Lines + 1)
    BY <1>4, <2>1
  <2>3. m \in Messages /\ m.pod = p /\ m.line = l
    BY <2>1
  <2>4. logs' = [logs EXCEPT !.q = Append(@, m)] /\ rd[p].line = l
    BY <1>6
  <2>5. /\ rd' \in [Pods -> [pc : {"none", "read", "send", "eof", "gone"}, line : 1..(Lines + 1)]]
        /\ rd'[p].pc = "read" /\ rd'[p].line = l + 1
        /\ \A r \in Pods : r # p => rd'[r] = rd[r]
    <3>1. rd' = [rd EXCEPT ![p] = [pc |-> "read", line |-> l + 1]]
      BY <1>4, <1>6
    <3> QED
      BY <1>4, <2>2, <3>1
  <2> HIDE DEF l, m
  <2>6. IsChannel(logs', Messages, BufferSize) /\ logs'.q = Append(logs.q, m)
        /\ logs'.closed = logs.closed
    <3>1. IsChannel(logs, Messages, BufferSize) /\ BufferSize \in Nat /\ m \in Messages
      BY <1>1, <2>3, LogsAssumption DEF TypeOK
    <3>2. Len(logs.q) < BufferSize /\ logs' = [logs EXCEPT !.q = Append(@, m)]
      BY <1>6, <2>4
    <3> QED
      BY <3>1, <3>2, ChannelTakes
  <2>7. TypeOK'
    BY <1>1, <1>2, <1>6, <2>5, <2>6 DEF TypeOK
  <2>8. WatchingOK'
    BY <1>1, <1>2, <1>3, <2>6 DEF WatchingOK
  <2>9. CancelledOK'
    BY <1>1, <1>2, <1>6 DEF CancelledOK
  <2>10. ForwarderOK'
    BY <1>1, <1>2, <1>6, <2>6 DEF ForwarderOK
  <2>11. Pipe' = Append(Pipe, m) /\ Pipe \in Seq(Messages)
    <3> DEFINE x == (delivered \o msgs.q) \o fw.msg
    <3>1. x \in Seq(Messages) /\ logs.q \in Seq(Messages) /\ Pipe \in Seq(Messages)
      BY <1>1, PipeTyped
    <3>2. Pipe' = x \o Append(logs.q, m) /\ Pipe = x \o logs.q
      BY <1>2, <2>6 DEF Pipe
    <3> HIDE DEF x
    <3>3. x \o Append(logs.q, m) = Append(x \o logs.q, m)
      BY <2>3, <3>1, MessageMoves
    <3> QED
      BY <3>1, <3>2, <3>3
  <2>12. /\ InOrder(Append(Pipe, m)) /\ Sent(Append(Pipe, m), p, l + 1)
         /\ \A r \in Pods : \A k \in Nat : r # p /\ Sent(Pipe, r, k) => Sent(Append(Pipe, m), r, k)
    <3>1. InOrder(Pipe) /\ Sent(Pipe, p, l)
      BY <1>1, <2>4 DEF PipeOK
    <3> HIDE DEF Pipe
    <3> QED
      BY <2>3, <2>11, <3>1, OrderGrows
  <2>13. \A r \in Pods : Sent(Append(Pipe, m), r, rd'[r].line)
    <3>1. ASSUME NEW r \in Pods PROVE Sent(Append(Pipe, m), r, rd'[r].line)
      <4>1. CASE r = p
        BY <2>5, <2>12, <4>1
      <4>2. CASE r # p
        <5>1. rd[r].line \in Nat /\ rd'[r].line = rd[r].line
          BY <1>4, <2>5, <4>2
        <5>2. Sent(Pipe, r, rd[r].line)
          BY <1>1 DEF PipeOK
        <5> QED
          BY <2>12, <4>2, <5>1, <5>2
      <4> QED
        BY <4>1, <4>2
    <3> QED
      BY <3>1
  <2>14. PipeOK'
    BY <2>11, <2>12, <2>13 DEF PipeOK
  <2>15. ASSUME NEW r \in Pods PROVE ReaderOK(r)'
    <3>1. ReaderOK(r)
      BY <1>1
    <3>2. CASE r = p
      BY <1>2, <2>5, <3>1, <3>2 DEF ReaderOK
    <3>3. CASE r # p
      BY <1>2, <2>5, <3>1, <3>3 DEF ReaderOK
    <3> QED
      BY <3>2, <3>3
  <2> QED
    BY <2>7, <2>8, <2>9, <2>10, <2>14, <2>15 DEF LogsInv
<1> QED
  BY <1>5, <1>6 DEF SendLine, Panic, Message

-----------------------------------------------------------------------------
(* The forwarder and the handler.                                          *)

\* The forwarder takes a message.
LEMMA TakeKeeps ==
    ASSUME LogsInv, Take
    PROVE  LogsInv' /\ Pipe' = Pipe
<1>1. TypeOK /\ CancelledOK /\ ForwarderOK /\ PipeOK /\ WatchingOK /\ \A r \in Pods : ReaderOK(r)
  BY DEF LogsInv
<1>2. /\ fw.on /\ fw.msg = <<>> /\ logs.q # <<>> /\ cancelled' = cancelled /\ handler' = handler
      /\ known' = known /\ adding' = adding /\ added' = added /\ main' = main /\ pod' = pod
      /\ failed' = failed /\ rd' = rd /\ msgs' = msgs /\ delivered' = delivered
      /\ panicked' = panicked /\ logs' = [logs EXCEPT !.q = Tail(@)]
      /\ fw' = [fw EXCEPT !.msg = <<Head(logs.q)>>]
  BY DEF Take
<1>3. /\ IsChannel(logs', Messages, BufferSize) /\ logs'.q = Tail(logs.q)
      /\ logs'.closed = logs.closed /\ Head(logs.q) \in Messages
  <2>1. IsChannel(logs, Messages, BufferSize) /\ BufferSize \in Nat
    BY <1>1, LogsAssumption DEF TypeOK
  <2> QED
    BY <1>2, <2>1, ChannelGives
<1>4. /\ fw' \in [on : BOOLEAN, msg : {<<>>} \cup {<<m>> : m \in Messages}]
      /\ fw'.on /\ fw'.msg = <<Head(logs.q)>>
  <2> DEFINE g == <<Head(logs.q)>>
  <2>1. g \in {<<>>} \cup {<<m>> : m \in Messages}
    BY <1>3
  <2>2. fw \in [on : BOOLEAN, msg : {<<>>} \cup {<<m>> : m \in Messages}] /\ fw' = [fw EXCEPT !.msg = g]
    BY <1>1, <1>2 DEF TypeOK
  <2> HIDE DEF g
  <2>3. /\ fw' \in [on : BOOLEAN, msg : {<<>>} \cup {<<m>> : m \in Messages}]
        /\ fw'.on /\ fw'.msg = g
    BY <1>2, <2>1, <2>2
  <2> QED
    BY <2>3 DEF g
<1>5. Pipe' = Pipe
  <2> DEFINE x == delivered \o msgs.q
  <2>1. x \in Seq(Messages) /\ logs.q \in Seq(Messages)
    BY <1>1, PipeTyped
  <2>2. Pipe' = (x \o <<Head(logs.q)>>) \o Tail(logs.q) /\ Pipe = (x \o <<>>) \o logs.q
    BY <1>2, <1>3, <1>4 DEF Pipe
  <2> HIDE DEF x
  <2>3. (x \o <<Head(logs.q)>>) \o Tail(logs.q) = x \o logs.q
    BY <1>2, <2>1, HeadMoves
  <2>4. x \o <<>> = x
    BY <2>1, ConcatEmptySeq
  <2> QED
    BY <2>2, <2>3, <2>4
<1>6. TypeOK'
  BY <1>1, <1>2, <1>3, <1>4 DEF TypeOK
<1>7. WatchingOK'
  BY <1>1, <1>2, <1>3, WatchingStays
<1>8. CancelledOK' /\ \A r \in Pods : ReaderOK(r)'
  BY <1>1, <1>2, ReadersStay DEF CancelledOK
<1>9. ForwarderOK'
  BY <1>1, <1>2, <1>4 DEF ForwarderOK
<1>10. PipeOK'
  BY <1>1, <1>2, <1>5, PipeStays
<1> QED
  BY <1>5, <1>6, <1>7, <1>8, <1>9, <1>10 DEF LogsInv

\* The forwarder passes its message on.
LEMMA PutKeeps ==
    ASSUME LogsInv, Put
    PROVE  LogsInv' /\ Pipe' = Pipe
<1>1. TypeOK /\ CancelledOK /\ ForwarderOK /\ PipeOK /\ WatchingOK /\ \A r \in Pods : ReaderOK(r)
  BY DEF LogsInv
<1>2. /\ fw.msg # <<>> /\ Len(msgs.q) < BufferSize /\ cancelled' = cancelled
      /\ handler' = handler /\ known' = known /\ adding' = adding /\ added' = added
      /\ main' = main /\ pod' = pod /\ failed' = failed /\ rd' = rd /\ logs' = logs
      /\ delivered' = delivered /\ panicked' = panicked
      /\ fw' = [fw EXCEPT !.msg = <<>>] /\ msgs' = [msgs EXCEPT !.q = Append(@, fw.msg[1])]
  BY DEF Put
<1>3. fw.msg[1] \in Messages /\ fw.msg = <<fw.msg[1]>>
  BY <1>1, <1>2, PipeTyped
<1>4. /\ IsChannel(msgs', Messages, BufferSize) /\ msgs'.q = Append(msgs.q, fw.msg[1])
      /\ msgs'.closed = msgs.closed
  <2>1. IsChannel(msgs, Messages, BufferSize) /\ BufferSize \in Nat
    BY <1>1, LogsAssumption DEF TypeOK
  <2> QED
    BY <1>2, <1>3, <2>1, ChannelTakes
<1>5. /\ fw' \in [on : BOOLEAN, msg : {<<>>} \cup {<<m>> : m \in Messages}]
      /\ fw'.on = fw.on /\ fw'.msg = <<>>
  <2>1. fw \in [on : BOOLEAN, msg : {<<>>} \cup {<<m>> : m \in Messages}]
    BY <1>1 DEF TypeOK
  <2> QED
    BY <1>2, <2>1
<1>6. Pipe' = Pipe
  <2> DEFINE m == fw.msg[1]
  <2>1. delivered \in Seq(Messages) /\ msgs.q \in Seq(Messages) /\ m \in Messages
    BY <1>1, <1>3, PipeTyped
  <2>2. /\ Pipe' = ((delivered \o Append(msgs.q, m)) \o <<>>) \o logs.q
        /\ Pipe = ((delivered \o msgs.q) \o <<m>>) \o logs.q
    BY <1>2, <1>3, <1>4, <1>5 DEF Pipe
  <2> HIDE DEF m
  <2>3. (delivered \o msgs.q) \o <<m>> = delivered \o Append(msgs.q, m)
    <3>1. delivered \o msgs.q \in Seq(Messages)
      BY <2>1, ConcatProperties
    <3>2. (delivered \o msgs.q) \o <<m>> = Append(delivered \o msgs.q, m)
      BY <2>1, <3>1, AppendIsConcat
    <3>3. delivered \o Append(msgs.q, m) = Append(delivered \o msgs.q, m)
      BY <2>1, ConcatAppend
    <3> QED
      BY <3>2, <3>3
  <2>4. (delivered \o Append(msgs.q, m)) \o <<>> = delivered \o Append(msgs.q, m)
    <3>1. Append(msgs.q, m) \in Seq(Messages)
      BY <2>1, AppendProperties
    <3>2. delivered \o Append(msgs.q, m) \in Seq(Messages)
      BY <2>1, <3>1, ConcatProperties
    <3> QED
      BY <3>2, ConcatEmptySeq
  <2> QED
    BY <2>2, <2>3, <2>4
<1>7. TypeOK'
  BY <1>1, <1>2, <1>4, <1>5 DEF TypeOK
<1>8. WatchingOK'
  BY <1>1, <1>2, WatchingStays
<1>9. CancelledOK' /\ \A r \in Pods : ReaderOK(r)'
  BY <1>1, <1>2, ReadersStay DEF CancelledOK
<1>10. ForwarderOK'
  BY <1>1, <1>2, <1>4, <1>5 DEF ForwarderOK
<1>11. PipeOK'
  BY <1>1, <1>2, <1>6, PipeStays
<1> QED
  BY <1>6, <1>7, <1>8, <1>9, <1>10, <1>11 DEF LogsInv

\* The forwarder ends.
LEMMA CloseMessagesKeeps ==
    ASSUME LogsInv, CloseMessages
    PROVE  LogsInv' /\ Pipe' = Pipe
<1>1. TypeOK /\ CancelledOK /\ ForwarderOK /\ PipeOK /\ WatchingOK /\ \A r \in Pods : ReaderOK(r)
  BY DEF LogsInv
<1>2. /\ fw.on /\ fw.msg = <<>> /\ logs.q = <<>> /\ logs.closed /\ cancelled' = cancelled
      /\ handler' = handler /\ known' = known /\ adding' = adding /\ added' = added
      /\ main' = main /\ pod' = pod /\ failed' = failed /\ rd' = rd /\ logs' = logs
      /\ delivered' = delivered /\ panicked' = panicked
      /\ fw' = [fw EXCEPT !.on = FALSE] /\ msgs' = [msgs EXCEPT !.closed = TRUE]
  BY DEF CloseMessages
<1>3. IsChannel(msgs', Messages, BufferSize) /\ msgs'.q = msgs.q /\ msgs'.closed
  <2>1. IsChannel(msgs, Messages, BufferSize) /\ BufferSize \in Nat
    BY <1>1, LogsAssumption DEF TypeOK
  <2> QED
    BY <1>2, <2>1, ChannelCloses
<1>4. /\ fw' \in [on : BOOLEAN, msg : {<<>>} \cup {<<m>> : m \in Messages}]
      /\ ~fw'.on /\ fw'.msg = <<>>
  <2>1. fw \in [on : BOOLEAN, msg : {<<>>} \cup {<<m>> : m \in Messages}]
    BY <1>1 DEF TypeOK
  <2> QED
    BY <1>2, <2>1
<1>5. Pipe' = Pipe
  BY <1>2, <1>3, <1>4 DEF Pipe
<1>6. TypeOK'
  BY <1>1, <1>2, <1>3, <1>4 DEF TypeOK
<1>7. WatchingOK'
  BY <1>1, <1>2, WatchingStays
<1>8. CancelledOK' /\ \A r \in Pods : ReaderOK(r)'
  BY <1>1, <1>2, ReadersStay DEF CancelledOK
<1>9. ForwarderOK'
  BY <1>2, <1>3, <1>4 DEF ForwarderOK
<1>10. PipeOK'
  BY <1>1, <1>2, <1>5, PipeStays
<1> QED
  BY <1>5, <1>6, <1>7, <1>8, <1>9, <1>10 DEF LogsInv

\* The handler reads a message, or the end.
LEMMA HandlerReadsKeeps ==
    ASSUME LogsInv, HandlerReads
    PROVE  LogsInv' /\ Pipe' = Pipe
<1>1. TypeOK /\ CancelledOK /\ ForwarderOK /\ PipeOK /\ WatchingOK /\ \A r \in Pods : ReaderOK(r)
  BY DEF LogsInv
<1>2. /\ known' = known /\ adding' = adding /\ added' = added /\ main' = main /\ pod' = pod
      /\ failed' = failed /\ rd' = rd /\ logs' = logs /\ fw' = fw /\ panicked' = panicked
  BY DEF HandlerReads
<1>3. CASE msgs.q = <<>> /\ handler' = "ended" /\ cancelled' = TRUE /\ UNCHANGED <<msgs, delivered>>
  <2>1. TypeOK' /\ CancelledOK'
    BY <1>1, <1>2, <1>3 DEF TypeOK, CancelledOK
  <2>2. QuietChannels
    BY <1>2, <1>3 DEF QuietChannels
  <2>3. Pipe' = Pipe
    BY <1>2, <1>3 DEF Pipe
  <2> QED
    BY <1>3, <2>1, <2>2, <2>3, QuietKeeps
<1>4. CASE /\ msgs.q # <<>> /\ msgs' = [msgs EXCEPT !.q = Tail(@)]
           /\ delivered' = Append(delivered, Head(msgs.q)) /\ UNCHANGED <<handler, cancelled>>
  <2>1. /\ IsChannel(msgs', Messages, BufferSize) /\ msgs'.q = Tail(msgs.q)
        /\ msgs'.closed = msgs.closed /\ Head(msgs.q) \in Messages
    <3>1. IsChannel(msgs, Messages, BufferSize) /\ BufferSize \in Nat
      BY <1>1, LogsAssumption DEF TypeOK
    <3> QED
      BY <1>4, <3>1, ChannelGives
  <2>2. delivered \in Seq(Messages) /\ msgs.q \in Seq(Messages)
    BY <1>1, PipeTyped
  <2>3. delivered' \in Seq(Messages)
    BY <1>4, <2>1, <2>2, AppendProperties
  <2>4. Pipe' = Pipe
    <3>1. Append(delivered, Head(msgs.q)) \o Tail(msgs.q) = delivered \o msgs.q
      BY <1>4, <2>1, <2>2, MessageMoves
    <3>2. delivered' \o msgs'.q = delivered \o msgs.q
      BY <1>4, <2>1, <3>1
    <3> QED
      BY <1>2, <3>2 DEF Pipe
  <2>5. TypeOK'
    BY <1>1, <1>2, <1>4, <2>1, <2>3 DEF TypeOK
  <2>6. WatchingOK'
    BY <1>1, <1>2, <1>4, WatchingStays
  <2>7. CancelledOK' /\ \A r \in Pods : ReaderOK(r)'
    BY <1>1, <1>2, <1>4, ReadersStay DEF CancelledOK
  <2>8. ForwarderOK'
    BY <1>1, <1>2, <2>1 DEF ForwarderOK
  <2>9. PipeOK'
    BY <1>1, <1>2, <2>4, PipeStays
  <2> QED
    BY <2>4, <2>5, <2>6, <2>7, <2>8, <2>9 DEF LogsInv
<1> QED
  BY <1>3, <1>4 DEF HandlerReads

-----------------------------------------------------------------------------
(* The invariant holds, and with it what a log query promises.             *)

\* When Query returns nothing has been sent.
LEMMA LogsInitOK == Init => LogsInv
<1> SUFFICES ASSUME Init PROVE LogsInv
  OBVIOUS
<1>1. /\ cancelled = FALSE /\ handler = "reading" /\ panicked = FALSE
      /\ known = {} /\ adding = {} /\ added = [q |-> <<>>, closed |-> FALSE]
      /\ main = [on |-> TRUE, watching |-> 0]
      /\ pod = [s \in Streams |-> "none"] /\ failed = {}
      /\ rd = [p \in Pods |-> [pc |-> "none", line |-> 1]]
      /\ logs = [q |-> <<>>, closed |-> FALSE]
      /\ fw = [on |-> TRUE, msg |-> <<>>] /\ msgs = [q |-> <<>>, closed |-> FALSE]
      /\ delivered = <<>>
  BY DEF Init
<1>2. /\ Cardinality(Existing) \in Nat /\ BufferSize \in Nat /\ Lines \in Nat /\ 1 \in 1..(Lines + 1)
  BY LogsAssumption, FS_CardinalityType
<1>3. \A S : \A N \in Nat : IsChannel([q |-> <<>>, closed |-> FALSE], S, N)
  BY EmptySeq DEF IsChannel
<1>4. Cardinality(adding) <= 1
  BY <1>1, FS_EmptySet
<1>5. /\ IsChannel(added, Pods, Cardinality(Existing)) /\ IsChannel(logs, Messages, BufferSize)
      /\ IsChannel(msgs, Messages, BufferSize)
  BY <1>1, <1>2, <1>3
<1>6. /\ main \in [on : BOOLEAN, watching : Nat]
      /\ fw \in [on : BOOLEAN, msg : {<<>>} \cup {<<m>> : m \in Messages}]
      /\ delivered \in Seq(Messages)
  BY <1>1
<1>7. rd \in [Pods -> [pc : {"none", "read", "send", "eof", "gone"}, line : 1..(Lines + 1)]]
  BY <1>1, <1>2
<1>8. TypeOK
  BY <1>1, <1>4, <1>5, <1>6, <1>7 DEF TypeOK
<1>9. WatchingOK
  <2>1. Active = {}
    BY <1>1 DEF Active
  <2> QED
    BY <1>1, <2>1, FS_EmptySet DEF WatchingOK
<1>10. CancelledOK /\ ForwarderOK
  BY <1>1 DEF CancelledOK, ForwarderOK
<1>11. PipeOK
  <2>1. <<>> \o <<>> = <<>>
    BY ConcatEmptySeq, EmptySeq
  <2>2. Pipe = <<>>
    BY <1>1, <2>1 DEF Pipe
  <2>3. InOrder(<<>>)
    BY EmptySeq DEF InOrder
  <2>4. \A p \in Pods : Sent(<<>>, p, 1)
    BY EmptySeq DEF Sent
  <2>5. \A p \in Pods : rd[p].line = 1
    BY <1>1
  <2> QED
    BY <2>2, <2>3, <2>4, <2>5 DEF PipeOK
<1>12. \A p \in Pods : ReaderOK(p)
  <2>1. \A p \in Pods : p \in Streams
    BY DEF Streams
  <2> QED
    BY <1>1, <2>1 DEF ReaderOK
<1> QED
  BY <1>8, <1>9, <1>10, <1>11, <1>12 DEF LogsInv

\* A stutter.
LEMMA LogsStutter ==
    ASSUME LogsInv, UNCHANGED vars
    PROVE  LogsInv' /\ Pipe' = Pipe
<1>1. TypeOK' /\ CancelledOK' /\ QuietChannels /\ cancelled' = cancelled
  BY DEF LogsInv, TypeOK, CancelledOK, QuietChannels, vars
<1>2. LogsInv'
  BY <1>1, QuietKeeps
<1>3. Pipe' = Pipe
  BY DEF vars, Pipe
<1> QED
  BY <1>2, <1>3

\* Every step of the query keeps the invariant.
LEMMA LogsStep == LogsInv /\ [Next]_vars => LogsInv'
<1> SUFFICES ASSUME LogsInv, [Next]_vars PROVE LogsInv'
  OBVIOUS
<1>1. ASSUME CloseAdded \/ GetLogsDone \/ Take \/ Put \/ CloseMessages
      PROVE  LogsInv'
  BY <1>1, CloseAddedKeeps, GetLogsDoneKeeps, TakeKeeps, PutKeeps, CloseMessagesKeeps
<1>2. ASSUME HandlerReads \/ HandlerLeaves \/ Timeout
      PROVE  LogsInv'
  BY <1>2, HandlerReadsKeeps, CancelKeeps
<1>3. ASSUME NEW p \in Pods, InformerAdds(p) \/ OnAdd(p)
      PROVE  LogsInv'
  BY <1>3, InformerKeeps
<1>4. ASSUME NEW p \in Pods, podLogsCancelled(p) \/ podLogsDone(p)
      PROVE  LogsInv'
  BY <1>4, podLogsCancelledKeeps, podLogsDoneKeeps
<1>5. ASSUME NEW p \in Pods, ReadLine(p) \/ SendLine(p)
      PROVE  LogsInv'
  BY <1>5, ReadLineKeeps, SendLineKeeps
<1>6. ASSUME NEW s \in Streams, GetLogsFinished(s) \/ GetLogsAdded(s) \/ OpenStream(s)
      PROVE  LogsInv'
  BY <1>6, GetLogsFinishedKeeps, GetLogsAddedKeeps, OpenStreamKeeps
<1>7. ASSUME NEW p \in Existing, InformerMisses(p)
      PROVE  LogsInv'
  BY <1>7, InformerMissesKeeps
<1>8. CASE UNCHANGED vars
  BY <1>8, LogsStutter
<1> QED
  BY <1>1, <1>2, <1>3, <1>4, <1>5, <1>6, <1>7, <1>8 DEF Next

\* The inductive invariant of a log query.
THEOREM LogsInvariance == Spec => []LogsInv
BY LogsInitOK, LogsStep, PTL DEF Spec

\* The lines of a pod are delivered in order and without a gap: what is delivered is a prefix of the pipe (podLogs, GetLogs, Query).
THEOREM LinesArriveInOrder == Spec => []LinesInOrder
<1>1. LogsInv => LinesInOrder
  <2> SUFFICES ASSUME LogsInv PROVE InOrder(delivered)
    BY DEF LinesInOrder
  <2>1. TypeOK /\ InOrder(Pipe)
    BY DEF LogsInv, PipeOK
  <2> DEFINE a == delivered \o msgs.q
             b == a \o fw.msg
  <2>2. /\ delivered \in Seq(Messages) /\ msgs.q \in Seq(Messages) /\ logs.q \in Seq(Messages)
        /\ fw.msg \in Seq(Messages) /\ a \in Seq(Messages) /\ b \in Seq(Messages)
    BY <2>1, PipeTyped
  <2>3. InOrder(b \o logs.q)
    BY <2>1 DEF Pipe
  <2> HIDE DEF b
  <2>4. InOrder(b)
    BY <2>2, <2>3, OrderOfPrefix
  <2>5. InOrder(a \o fw.msg)
    BY <2>4 DEF b
  <2> HIDE DEF a
  <2>6. InOrder(a)
    BY <2>2, <2>5, OrderOfPrefix
  <2>7. InOrder(delivered \o msgs.q)
    BY <2>6 DEF a
  <2> QED
    BY <2>2, <2>7, OrderOfPrefix
<1> QED
  BY <1>1, LogsInvariance, PTL

\* The gateway cannot panic in a query that was not cancelled: logs is closed only when no stream is active, and added only after the cancellation (GetLogs, podLogs, OnAdd).
THEOREM PanicsOnlyIfCancelled == Spec => []PanicOnlyIfCancelled
<1>1. LogsInv => PanicOnlyIfCancelled
  BY DEF LogsInv, CancelledOK, PanicOnlyIfCancelled
<1> QED
  BY <1>1, LogsInvariance, PTL

\* A query that ends by itself has delivered every line of every stream that did not fail (GetLogs, Query).
THEOREM LogsAreWhole == Spec => []WholeLogs
<1>1. LogsInv => WholeLogs
  <2> SUFFICES ASSUME LogsInv, msgs.closed, msgs.q = <<>>, ~cancelled, NEW p \in Pods,
                      pod[p] # "none", p \notin failed, NEW n \in 1..Lines
               PROVE  Before(delivered, Len(delivered) + 1, p, n)
    BY DEF WholeLogs
  <2>1. TypeOK /\ WatchingOK /\ ForwarderOK /\ PipeOK
    BY DEF LogsInv
  <2>2. /\ p \in Streams /\ ReaderOK(p) /\ Lines \in Nat
        /\ pod \in [Streams -> {"none", "open", "wait", "finish", "gone"}]
    BY PodTyped
  <2>3. logs.closed /\ logs.q = <<>> /\ fw.msg = <<>>
    BY <2>1 DEF ForwarderOK
  <2>4. pod[p] = "gone"
    <3>1. Active = {}
      BY <2>1, <2>3 DEF WatchingOK
    <3> QED
      BY <2>2, <3>1 DEF Active
  <2>5. rd[p].line = Lines + 1
    BY <2>2, <2>4 DEF ReaderOK
  <2>6. Pipe = delivered
    <3>1. delivered \in Seq(Messages)
      BY <2>1, PipeTyped
    <3>2. delivered \o <<>> = delivered
      BY <3>1, ConcatEmptySeq
    <3> QED
      BY <2>3, <3>2 DEF Pipe
  <2>7. Sent(delivered, p, Lines + 1)
    BY <2>1, <2>5, <2>6 DEF PipeOK
  <2>8. n \in 1..((Lines + 1) - 1)
    BY <2>2
  <2> QED
    BY <2>7, <2>8 DEF Sent
<1> QED
  BY <1>1, LogsInvariance, PTL

-----------------------------------------------------------------------------
(* The refinement of the bounded channel.                                  *)

\* The messages under way, as the refinement has them.
Under == msgs.q \o fw.msg \o logs.q

\* The first of two sequences gives the first of both.
LEMMA HeadOfConcat ==
    ASSUME NEW S, NEW a \in Seq(S), NEW b \in Seq(S), a # <<>>
    PROVE  a \o b # <<>> /\ Head(a \o b) = Head(a) /\ Tail(a \o b) = Tail(a) \o b
<1> DEFINE h == <<Head(a)>>
           r == Tail(a)
           u == r \o b
           l == h \o u
<1>1. Head(a) \in S /\ r \in Seq(S) /\ h \in Seq(S) /\ Len(h) = 1 /\ h[1] = Head(a)
  BY HeadTailProperties
<1>2. <<>> \in Seq(S) /\ <<>> \o a = a /\ <<>> \o h = h
  BY <1>1, ConcatEmptySeq
<1>3. h \o r = a
  <2>1. (<<>> \o h) \o r = <<>> \o a
    BY <1>2, HeadMoves
  <2> QED
    BY <1>2, <2>1
<1> HIDE DEF r, h
<1>4. u \in Seq(S)
  BY <1>1, ConcatProperties
<1>5. a \o b = l
  <2>1. (h \o r) \o b = h \o (r \o b)
    BY <1>1, Associative
  <2> QED
    BY <1>3, <2>1
<1> HIDE DEF u
<1>6. /\ l \in Seq(S) /\ Len(l) = Len(h) + Len(u)
      /\ \A i \in 1..(Len(h) + Len(u)) : l[i] = IF i <= Len(h) THEN h[i] ELSE u[i - Len(h)]
  BY <1>1, <1>4, ConcatProperties
<1> HIDE DEF l
<1>7. Len(u) \in Nat /\ Len(l) = Len(u) + 1 /\ l # <<>>
  <2>1. Len(u) \in Nat
    BY <1>4, LenProperties
  <2>2. Len(l) = Len(u) + 1
    BY <1>1, <1>6, <2>1
  <2> QED
    BY <1>6, <2>1, <2>2, EmptySeq
<1>8. Head(l) = Head(a)
  <2>1. l[1] = h[1]
    BY <1>1, <1>6, <1>7
  <2> QED
    BY <1>1, <1>6, <1>7, <2>1
<1>9. Tail(l) = u
  <2>1. /\ Tail(l) \in Seq(S) /\ Len(Tail(l)) = Len(l) - 1
        /\ \A i \in 1..Len(Tail(l)) : Tail(l)[i] = l[i + 1]
    BY <1>6, <1>7, HeadTailProperties
  <2>2. Len(Tail(l)) = Len(u)
    BY <1>7, <2>1
  <2>3. ASSUME NEW i \in 1..Len(Tail(l)) PROVE Tail(l)[i] = u[i]
    <3>1. i \in 1..Len(u) /\ i + 1 \in 1..(Len(h) + Len(u)) /\ ~(i + 1 <= Len(h))
          /\ (i + 1) - Len(h) = i
      BY <1>1, <1>7, <2>2
    <3>2. l[i + 1] = u[i]
      BY <1>6, <3>1
    <3> QED
      BY <2>1, <3>2
  <2> QED
    BY <1>4, <2>1, <2>2, <2>3, SeqEqual
<1> QED
  BY <1>5, <1>7, <1>8, <1>9 DEF u, r

\* No more messages are under way than the channel has room for.
LEMMA UnderFits ==
    ASSUME LogsInv
    PROVE  /\ Under \in Seq(Messages) /\ msgs.q \o fw.msg \in Seq(Messages)
           /\ Len(logs.q) < BufferSize => Len(Under) < 2 * BufferSize + 1
<1>1. TypeOK
  BY DEF LogsInv
<1>2. msgs.q \in Seq(Messages) /\ fw.msg \in Seq(Messages) /\ logs.q \in Seq(Messages)
  BY <1>1, PipeTyped
<1>3. /\ Len(msgs.q) \in Nat /\ Len(msgs.q) <= BufferSize /\ Len(logs.q) \in Nat
      /\ BufferSize \in Nat
  <2>1. /\ IsChannel(msgs, Messages, BufferSize) /\ IsChannel(logs, Messages, BufferSize)
        /\ BufferSize \in Nat
    BY <1>1, LogsAssumption DEF TypeOK
  <2> QED
    BY <2>1, ChannelTyped
<1>4. Len(fw.msg) \in Nat /\ Len(fw.msg) <= 1
  <2>1. fw.msg = <<>> \/ \E m \in Messages : fw.msg = <<m>>
    BY <1>1 DEF TypeOK
  <2>2. Len(<<>>) = 0 /\ \A m \in Messages : Len(<<m>>) = 1
    OBVIOUS
  <2>3. 0 \in Nat /\ 0 <= 1 /\ 1 \in Nat /\ 1 <= 1
    OBVIOUS
  <2>4. Len(fw.msg) = 0 \/ Len(fw.msg) = 1
    BY <2>1, <2>2, Zenon
  <2> QED
    BY <2>3, <2>4, Zenon
<1>5. msgs.q \o fw.msg \in Seq(Messages) /\ Len(msgs.q \o fw.msg) = Len(msgs.q) + Len(fw.msg)
  BY <1>2, ConcatProperties
<1> DEFINE x == msgs.q \o fw.msg
<1>6. Under = x \o logs.q
  BY DEF Under
<1>7. x \in Seq(Messages) /\ Len(x) = Len(msgs.q) + Len(fw.msg)
  BY <1>5
<1> HIDE DEF x
<1>8. Under \in Seq(Messages) /\ Len(Under) = Len(x) + Len(logs.q)
  BY <1>2, <1>6, <1>7, ConcatProperties
<1>9. Len(Under) = Len(msgs.q) + Len(fw.msg) + Len(logs.q)
  BY <1>3, <1>4, <1>7, <1>8
<1>10. Len(logs.q) < BufferSize => Len(Under) < 2 * BufferSize + 1
  <2>1. \A a, b, c, n \in Nat : a <= n /\ b <= 1 /\ c < n => a + b + c < 2 * n + 1
    OBVIOUS
  <2> QED
    BY <1>3, <1>4, <1>9, <2>1
<1> QED
  BY <1>5, <1>8, <1>10

\* Steps of the channel.
ChannelSends == \E m \in Messages :
    /\ ~logs.closed /\ Len(Under) < 2 * BufferSize + 1 /\ Under' = Append(Under, m)
    /\ logs'.closed = logs.closed /\ delivered' = delivered
ChannelReceives ==
    /\ Under # <<>> /\ Under' = Tail(Under) /\ delivered' = Append(delivered, Head(Under))
    /\ logs'.closed = logs.closed
ChannelEnds ==
    /\ ~logs.closed /\ logs'.closed = TRUE /\ Under' = Under /\ delivered' = delivered
ChannelRests == Under' = Under /\ logs'.closed = logs.closed /\ delivered' = delivered

\* They are the steps of LogChannel.
LEMMA ChannelSteps ==
    ChannelSends \/ ChannelReceives \/ ChannelEnds \/ ChannelRests => [Channel!Next]_(Channel!vars)
BY DEF ChannelSends, ChannelReceives, ChannelEnds, ChannelRests, Under, Channel!Next, Channel!Send,
   Channel!Receive, Channel!Close, Channel!vars

\* A reader sends on the channel, if it does not panic.
LEMMA SendLineSends ==
    ASSUME LogsInv, NEW p \in Pods, SendLine(p)
    PROVE  ChannelSends \/ ChannelRests
<1>1. /\ rd[p].pc = "send" /\ fw' = fw /\ msgs' = msgs /\ delivered' = delivered
  BY DEF SendLine
<1>2. CASE logs' = logs
  BY <1>1, <1>2 DEF ChannelRests, Under
<1>3. CASE /\ ~logs.closed /\ Len(logs.q) < BufferSize
           /\ logs' = [logs EXCEPT !.q = Append(@, Message(p))]
  <2> DEFINE m == Message(p)
             x == msgs.q \o fw.msg
  <2>1. IsChannel(logs, Messages, BufferSize) /\ BufferSize \in Nat /\ m \in Messages
    BY <1>1, LogsAssumption, MessageTyped DEF TypeOK, LogsInv
  <2>2. Len(logs.q) < BufferSize /\ logs' = [logs EXCEPT !.q = Append(@, m)]
    BY <1>3
  <2> HIDE DEF m
  <2>3. logs'.q = Append(logs.q, m) /\ logs'.closed = logs.closed
    BY <2>1, <2>2, ChannelTakes
  <2>4. x \in Seq(Messages) /\ logs.q \in Seq(Messages)
    BY <2>1, UnderFits, ChannelTyped
  <2>5. Under = x \o logs.q /\ Under' = x \o Append(logs.q, m)
    BY <1>1, <2>3 DEF Under
  <2> HIDE DEF x
  <2>6. Under' = Append(Under, m)
    BY <2>1, <2>4, <2>5, ConcatAppend
  <2>7. Len(Under) < 2 * BufferSize + 1
    BY <2>2, UnderFits
  <2> QED
    BY <1>1, <1>3, <2>1, <2>3, <2>6, <2>7 DEF ChannelSends
<1> QED
  BY <1>2, <1>3 DEF SendLine, Message

\* The handler receives, or reads the end.
LEMMA HandlerReceives ==
    ASSUME LogsInv, HandlerReads
    PROVE  ChannelReceives \/ ChannelRests
<1>1. fw' = fw /\ logs' = logs
  BY DEF HandlerReads
<1>2. CASE UNCHANGED <<msgs, delivered>>
  BY <1>1, <1>2 DEF ChannelRests, Under
<1>3. CASE /\ msgs.q # <<>> /\ msgs' = [msgs EXCEPT !.q = Tail(@)]
           /\ delivered' = Append(delivered, Head(msgs.q))
  <2>1. IsChannel(msgs, Messages, BufferSize) /\ BufferSize \in Nat /\ TypeOK
    BY LogsAssumption DEF TypeOK, LogsInv
  <2>2. msgs'.q = Tail(msgs.q)
    BY <1>3, <2>1, ChannelGives
  <2>3. /\ msgs.q \in Seq(Messages) /\ fw.msg \in Seq(Messages) /\ logs.q \in Seq(Messages)
        /\ msgs.q \o fw.msg \in Seq(Messages)
    BY <2>1, PipeTyped, UnderFits
  <2> DEFINE x == msgs.q \o fw.msg
  <2>4. x # <<>> /\ Head(x) = Head(msgs.q) /\ Tail(x) = Tail(msgs.q) \o fw.msg /\ x \in Seq(Messages)
    BY <1>3, <2>3, HeadOfConcat
  <2>5. Under = x \o logs.q /\ Under' = Tail(x) \o logs.q
    BY <1>1, <2>2, <2>4 DEF Under
  <2> HIDE DEF x
  <2>6. x \o logs.q # <<>> /\ Head(x \o logs.q) = Head(x) /\ Tail(x \o logs.q) = Tail(x) \o logs.q
    BY <2>3, <2>4, HeadOfConcat
  <2> QED
    BY <1>1, <1>3, <2>4, <2>5, <2>6 DEF ChannelReceives
<1> QED
  BY <1>2, <1>3 DEF HandlerReads

\* The forwarder moves messages within the channel.
LEMMA ForwarderRests ==
    ASSUME LogsInv, Take \/ Put \/ CloseMessages
    PROVE  ChannelRests
<1>1. /\ TypeOK /\ IsChannel(msgs, Messages, BufferSize) /\ IsChannel(logs, Messages, BufferSize)
      /\ BufferSize \in Nat
  BY LogsAssumption DEF TypeOK, LogsInv
<1>2. msgs.q \in Seq(Messages) /\ fw.msg \in Seq(Messages) /\ logs.q \in Seq(Messages)
  BY <1>1, PipeTyped
<1>3. fw \in [on : BOOLEAN, msg : {<<>>} \cup {<<m>> : m \in Messages}]
  BY <1>1 DEF TypeOK
<1>4. CASE Take
  <2>1. /\ fw.msg = <<>> /\ logs.q # <<>> /\ msgs' = msgs /\ delivered' = delivered
        /\ logs' = [logs EXCEPT !.q = Tail(@)] /\ fw' = [fw EXCEPT !.msg = <<Head(logs.q)>>]
    BY <1>4 DEF Take
  <2>2. logs'.q = Tail(logs.q) /\ logs'.closed = logs.closed
    BY <1>1, <2>1, ChannelGives
  <2>3. fw'.msg = <<Head(logs.q)>>
    BY <1>3, <2>1
  <2>4. (msgs.q \o <<Head(logs.q)>>) \o Tail(logs.q) = msgs.q \o logs.q
    BY <1>2, <2>1, HeadMoves
  <2>5. msgs.q \o <<>> = msgs.q
    BY <1>2, ConcatEmptySeq
  <2>6. Under' = Under
    BY <2>1, <2>2, <2>3, <2>4, <2>5 DEF Under
  <2> QED
    BY <2>1, <2>2, <2>6 DEF ChannelRests
<1>5. CASE Put
  <2> DEFINE m == fw.msg[1]
  <2>1. /\ fw.msg # <<>> /\ Len(msgs.q) < BufferSize /\ logs' = logs /\ delivered' = delivered
        /\ fw' = [fw EXCEPT !.msg = <<>>] /\ msgs' = [msgs EXCEPT !.q = Append(@, m)]
    BY <1>5 DEF Put
  <2>2. m \in Messages /\ fw.msg = <<m>>
    BY <1>1, <2>1, PipeTyped
  <2> HIDE DEF m
  <2>3. msgs'.q = Append(msgs.q, m)
    BY <1>1, <2>1, <2>2, ChannelTakes
  <2>4. fw'.msg = <<>>
    BY <1>3, <2>1
  <2>5. Append(msgs.q, m) = msgs.q \o <<m>> /\ Append(msgs.q, m) \in Seq(Messages)
    BY <1>2, <2>2, AppendIsConcat, AppendProperties
  <2>6. Append(msgs.q, m) \o <<>> = Append(msgs.q, m)
    BY <2>5, ConcatEmptySeq
  <2>7. Under' = Under
    BY <2>1, <2>2, <2>3, <2>4, <2>5, <2>6 DEF Under
  <2> QED
    BY <2>1, <2>7 DEF ChannelRests
<1>6. CASE CloseMessages
  <2>1. /\ logs' = logs /\ delivered' = delivered
        /\ fw' = [fw EXCEPT !.on = FALSE] /\ msgs' = [msgs EXCEPT !.closed = TRUE]
    BY <1>6 DEF CloseMessages
  <2>2. msgs'.q = msgs.q
    BY <1>1, <2>1, ChannelCloses
  <2>3. fw'.msg = fw.msg
    BY <1>3, <2>1
  <2> QED
    BY <2>1, <2>2, <2>3 DEF ChannelRests, Under
<1> QED
  BY <1>4, <1>5, <1>6

\* GetLogs closes the channel once.
LEMMA GetLogsCloses ==
    ASSUME LogsInv, GetLogsDone \/ \E s \in Streams : GetLogsFinished(s)
    PROVE  ChannelEnds \/ ChannelRests
<1>1. /\ main.on /\ fw' = fw /\ msgs' = msgs /\ delivered' = delivered
      /\ GetLogsReturns \/ logs' = logs
  BY DEF GetLogsDone, GetLogsFinished
<1>2. ~logs.closed
  BY <1>1 DEF LogsInv, WatchingOK
<1>3. CASE GetLogsReturns
  <2>1. IsChannel(logs, Messages, BufferSize)
    BY DEF LogsInv, TypeOK
  <2>2. logs' = [logs EXCEPT !.closed = TRUE]
    BY <1>3 DEF GetLogsReturns
  <2>3. logs'.q = logs.q /\ logs'.closed = TRUE
    <3>1. logs \in [q : Seq(Messages), closed : BOOLEAN]
      BY <2>1 DEF IsChannel
    <3> QED
      BY <2>2, <3>1
  <2> QED
    BY <1>1, <1>2, <2>3 DEF ChannelEnds, Under
<1>4. CASE logs' = logs
  BY <1>1, <1>4 DEF ChannelRests, Under
<1> QED
  BY <1>1, <1>3, <1>4

\* The other steps leave the channel alone.
LEMMA OthersRest ==
    ASSUME \/ CloseAdded \/ HandlerLeaves \/ Timeout \/ UNCHANGED vars
           \/ \E p \in Existing : InformerMisses(p)
           \/ \E p \in Pods : \/ InformerAdds(p) \/ OnAdd(p) \/ podLogsCancelled(p)
                              \/ podLogsDone(p) \/ ReadLine(p)
           \/ \E s \in Streams : GetLogsAdded(s) \/ OpenStream(s)
    PROVE  ChannelRests
<1>1. msgs' = msgs /\ fw' = fw /\ logs' = logs /\ delivered' = delivered
  BY DEF CloseAdded, HandlerLeaves, Timeout, vars, InformerMisses, InformerAdds, OnAdd, podLogsCancelled,
     podLogsDone, ReadLine, GetLogsAdded, OpenStream
<1> QED
  BY <1>1 DEF ChannelRests, Under

\* Readers, GetLogs, forwarder and handler together are one bounded channel: nothing is lost, doubled, overtaken or sent after the end (GetLogs, podLogs, Query).
THEOREM LogsAreAChannel == Spec => IsAChannel
<1>1. Init => Channel!Init
  <2> SUFFICES ASSUME Init PROVE Channel!Init
    OBVIOUS
  <2>1. msgs.q = <<>> /\ fw.msg = <<>> /\ logs.q = <<>> /\ logs.closed = FALSE /\ delivered = <<>>
    BY DEF Init
  <2>2. <<>> \o <<>> = <<>>
    BY ConcatEmptySeq, EmptySeq
  <2> QED
    BY <2>1, <2>2 DEF Channel!Init
<1>2. LogsInv /\ [Next]_vars => [Channel!Next]_(Channel!vars)
  <2> SUFFICES ASSUME LogsInv, [Next]_vars
               PROVE  ChannelSends \/ ChannelReceives \/ ChannelEnds \/ ChannelRests
    BY ChannelSteps
  <2>1. ASSUME NEW p \in Pods, SendLine(p) PROVE ChannelSends \/ ChannelRests
    BY <2>1, SendLineSends
  <2> QED
    BY <2>1, HandlerReceives, ForwarderRests, GetLogsCloses, OthersRest DEF Next
<1> QED
  BY <1>1, <1>2, LogsInvariance, PTL DEF Spec, IsAChannel, Channel!Spec

=============================================================================

--------------------------- MODULE EventFeedProofs ---------------------------
(***************************************************************************)
(* The path of a pool's state into the cache (EventFeed), for every number of *)
(* logs, every set of pools and all channel capacities.                    *)
(*   - The subscriber (SubInv): what a subscription delivered is received, in *)
(*     the channel, in hand or in the stream, in this order; logs only rise. *)
(*   - The batcher (BatchInv): the events sent are applied, batched, buffered *)
(*     or queued, in this order.                                           *)
(*   - Between them (LinkInv) event i is the i-th log that was decoded, so a *)
(*     batch holds later logs than all that were applied before it.        *)
(***************************************************************************)
EXTENDS EventFeed, SequenceProofs, TLAPS

\* Most leaves are first-order and go to Zenon; the ones about numbers,
\* records and sequences cite SMT.
USE Zenon

USE BoundAssumption
-----------------------------------------------------------------------------
\* Strictly increasing.
Rising(s) == \A i, j \in 1..Len(s) : i < j => s[i] < s[j]

\* A sequence stays rising with a greater element behind it.
LEMMA RisingAppend ==
    ASSUME NEW s \in Seq(Nat), NEW e \in Nat, Rising(s), \A i \in 1..Len(s) : s[i] < e
    PROVE  Rising(Append(s, e))
BY SMTT(20) DEF Rising

\* A prefix of a rising sequence is rising.
LEMMA RisingPrefix ==
    ASSUME NEW s \in Seq(Nat), NEW t \in Seq(Nat), Rising(s \o t)
    PROVE  Rising(s)
<1>1. /\ Len(s) \in Nat /\ Len(t) \in Nat /\ Len(s \o t) = Len(s) + Len(t)
      /\ \A i \in 1..Len(s) : (s \o t)[i] = s[i]
  BY SMT
<1>2. \A i \in 1..Len(s) : i \in 1..Len(s \o t)
  BY <1>1, SMT
<1> QED BY <1>1, <1>2, SMT DEF Rising
-----------------------------------------------------------------------------
\* What the subscriber's task keeps: nothing waits to be sent outside "send",
\* and without a subscription nothing is left of the last one.
SubInv ==
    /\ pc \in {"connect", "subscribe", "stream", "send", "sleep", "returned"}
    /\ log \in Seq(Nat) /\ tx \in Seq(Nat) /\ stream \in Seq(Nat)
    /\ matched \in Seq(Nat) /\ got \in Seq(Nat)
    /\ open \in BOOLEAN /\ alive \in BOOLEAN /\ chain \in 0..MaxLog
    /\ pc # "send" => log = <<>>
    /\ pc \in {"connect", "subscribe", "sleep"} => ~alive /\ stream = <<>>
    /\ LogsInOrder
    /\ \A i \in 1..Len(matched) : matched[i] \in 1..chain
    /\ Rising(matched) /\ Rising(got)

\* What the batcher keeps: NothingLost, the events applied are the first ones,
\* and its last batch is sent after the upstream closed and was emptied.
BatchInv ==
    /\ batcher \in {"select", "flush", "last", "stopped"}
    /\ buffer \in Seq(Nat) /\ rx \in Seq(Nat) /\ applied \in Seq(Nat)
    /\ batches \in Seq(Seq(Nat)) /\ sent \in Nat
    /\ upstream \in BOOLEAN /\ downstream \in BOOLEAN
    /\ B!NothingLost
    /\ batcher = "last" => rx = <<>> /\ ~upstream
    /\ Len(applied) <= sent /\ \A i \in 1..Len(applied) : applied[i] = i

\* Every decoded log is an event, and later events are of later logs.
LinkInv == Len(Events) = sent /\ Rising(Events)

FeedInv == SubInv /\ BatchInv /\ LinkInv
-----------------------------------------------------------------------------
\* LogsInOrder as a row.
LEMMA InOrderRow ==
    /\ LogsInOrder <=> (open => matched = Row(got, tx, log, stream))
    /\ LogsInOrder' <=> (open' => matched' = Row(got', tx', log', stream'))
BY RowIsConcat DEF LogsInOrder

\* The subscriber is not affected by steps of the others.
LEMMA SubFrame ==
    ASSUME SubInv, UNCHANGED vars
    PROVE  SubInv'
BY DEF SubInv, LogsInOrder, vars

\* Steps that move no log.  A new subscription starts with an empty stream,
\* and when it starts nothing is left of the last one.
LEMMA SubControl ==
    ASSUME SubInv,
           Connect \/ Subscribe \/ TransportFault \/ StreamEnds \/ Sleep \/ LoseConnection
               \/ DropReceiver
    PROVE  SubInv'
<1>1. <<>> \in Seq(Nat)
  BY SMT
<1>2. CASE Connect
  BY <1>2 DEF SubInv, LogsInOrder, Connect
<1>3. CASE Subscribe
  BY <1>1, <1>3 DEF SubInv, LogsInOrder, Subscribe
<1>4. CASE TransportFault
  BY <1>4 DEF SubInv, LogsInOrder, TransportFault
<1>5. CASE StreamEnds
  BY <1>5 DEF SubInv, LogsInOrder, StreamEnds
<1>6. CASE Sleep
  BY <1>6 DEF SubInv, LogsInOrder, Sleep
<1>7. CASE LoseConnection
  BY <1>7 DEF SubInv, LogsInOrder, LoseConnection
<1>8. CASE DropReceiver
  BY <1>8 DEF SubInv, LogsInOrder, DropReceiver
<1> QED BY <1>2, <1>3, <1>4, <1>5, <1>6, <1>7, <1>8

\* A log goes from the stream into the hands of the task.
LEMMA SubTakeLog ==
    ASSUME SubInv, TakeLog
    PROVE  SubInv'
<1>1. log' \in Seq(Nat) /\ stream' \in Seq(Nat)
  BY HeadTail DEF SubInv, TakeLog
<1>2. LogsInOrder'
  <2>1. /\ got \in Seq(Nat) /\ tx \in Seq(Nat) /\ log \in Seq(Nat)
        /\ stream \in Seq(Nat) /\ stream # <<>>
    BY DEF SubInv, TakeLog
  <2>2. Row(got, tx, log, stream) = Row(got, tx, Append(log, Head(stream)), Tail(stream))
    BY <2>1, MoveHead, SMT
  <2>3. Append(log, Head(stream)) = <<Head(stream)>>
    BY SMT DEF SubInv, TakeLog
  <2> QED BY <2>2, <2>3, InOrderRow DEF SubInv, TakeLog
<1> QED BY <1>1, <1>2 DEF SubInv, TakeLog

\* A log goes into the channel; without a receiver the order is lost with it.
LEMMA SubSend ==
    ASSUME SubInv, Send
    PROVE  SubInv'
<1>1. <<>> \in Seq(Nat) /\ tx \o log \in Seq(Nat)
  BY ConcatType, SMT DEF SubInv
<1>2. LogsInOrder'
  <2>1. got \in Seq(Nat) /\ tx \in Seq(Nat) /\ log \in Seq(Nat) /\ stream \in Seq(Nat)
    BY DEF SubInv
  <2>2. Row(got, tx, log, stream) = Row(got, Join(tx, log), <<>>, stream)
    BY <2>1, MoveAll, SMT
  <2> QED BY <2>2, InOrderRow DEF SubInv, Send, Join
<1> QED BY <1>1, <1>2 DEF SubInv, Send

\* A log that is emitted is the greatest so far.
LEMMA SubEmitLog ==
    ASSUME SubInv, EmitLog
    PROVE  SubInv'
<1>1. chain' = chain + 1 /\ chain' \in Nat /\ chain' \in 0..MaxLog /\ chain \in 0..MaxLog
  BY SMT DEF SubInv, EmitLog
<1>2. matched \in Seq(Nat) /\ chain' \in Nat
  BY <1>1, SMT DEF SubInv
<1>3. ASSUME NEW s \in Seq(Nat), \A i \in 1..Len(s) : s[i] \in 1..chain
      PROVE  \A i \in 1..Len(s) : s[i] \in 1..chain'
  BY <1>1, <1>3, SMT
<1>4. CASE UNCHANGED <<stream, matched>>
  BY <1>1, <1>3, <1>4 DEF SubInv, LogsInOrder, EmitLog
<1>5. CASE alive /\ stream' = Append(stream, chain') /\ matched' = Append(matched, chain')
  <2>1. stream' = Append(stream, chain') /\ matched' = Append(matched, chain')
        /\ UNCHANGED <<pc, log, tx, open, alive, got>>
    BY <1>5 DEF EmitLog
  <2>2. stream' \in Seq(Nat) /\ matched' \in Seq(Nat)
    BY <1>1, <2>1, AppendOne DEF SubInv
  <2>3. \A i \in 1..Len(matched') : matched'[i] \in 1..chain'
    <3>1. /\ Len(matched') = Len(matched) + 1 /\ matched'[Len(matched) + 1] = chain'
          /\ Len(matched) \in Nat /\ \A i \in 1..Len(matched) : matched'[i] = matched[i]
      BY <1>2, <2>1, SMT
    <3>2. \A i \in 1..Len(matched) : matched[i] \in 1..chain'
      BY <1>3 DEF SubInv
    <3> QED BY <1>1, <3>1, <3>2, SMT
  <2>4. Rising(matched')
    <3>1. \A i \in 1..Len(matched) : matched[i] < chain'
      BY <1>1, SMTT(30) DEF SubInv
    <3> QED BY <1>2, <2>1, <3>1, RisingAppend DEF SubInv
  <2>5. LogsInOrder'
    <3>1. got \in Seq(Nat) /\ tx \in Seq(Nat) /\ log \in Seq(Nat) /\ stream \in Seq(Nat)
      BY DEF SubInv
    <3> DEFINE c == chain'
    <3>2. c \in Nat
      BY <1>1
    <3> HIDE DEF c
    <3>3. Row(got, tx, log, Append(stream, c)) = Append(Row(got, tx, log, stream), c)
      <4>1. Join(Join(got, tx), log) \in Seq(Nat)
        BY <3>1, JoinType
      <4> QED BY <3>1, <3>2, <4>1, JoinAppend DEF Row
    <3> QED BY <2>1, <3>3, InOrderRow DEF SubInv, c
  <2>6. pc' \notin {"connect", "subscribe", "sleep"}
    BY <1>5, <2>1 DEF SubInv
  <2> QED BY <1>1, <2>1, <2>2, <2>3, <2>4, <2>5, <2>6 DEF SubInv
<1> QED BY <1>4, <1>5 DEF EmitLog

\* What is received is a log of the chain, later than all received before.
LEMMA SubReceive ==
    ASSUME SubInv, Receive
    PROVE  /\ SubInv'
           /\ Head(tx) \in 1..MaxLog /\ \A i \in 1..Len(got) : got[i] < Head(tx)
<1>1. /\ Head(tx) \in Nat /\ tx' \in Seq(Nat) /\ got' \in Seq(Nat)
      /\ got' = Append(got, Head(tx)) /\ tx' = Tail(tx) /\ tx # <<>>
      /\ UNCHANGED <<pc, log, open, alive, stream, chain, matched>>
  <2>1. Head(tx) \in Nat /\ Tail(tx) \in Seq(Nat)
    BY HeadTail DEF SubInv, Receive
  <2> QED BY <2>1, AppendOne DEF SubInv, Receive
<1>2. Row(got', tx', log, stream) = Row(got, tx, log, stream)
  <2>1. got \in Seq(Nat) /\ tx \in Seq(Nat)
    BY DEF SubInv
  <2>2. Row(got, tx, log, stream) = Row(Append(got, Head(tx)), Tail(tx), log, stream)
    BY <1>1, <2>1, MoveFirst, SMT
  <2> QED BY <1>1, <2>2
<1>3. LogsInOrder'
  BY <1>1, <1>2, InOrderRow DEF SubInv
<1>4. Rising(got') /\ Head(tx) \in 1..MaxLog
  <2>1. matched = Row(got', tx', log, stream)
    BY <1>1, <1>2, InOrderRow DEF SubInv, Receive
  <2> DEFINE g == got'
             t == tx'
             u == Join(t, Join(log, stream))
  <2>2. g \in Seq(Nat) /\ t \in Seq(Nat) /\ log \in Seq(Nat) /\ stream \in Seq(Nat)
    BY <1>1 DEF SubInv
  <2> HIDE DEF g, t
  <2>3. Row(g, t, log, stream) = Join(g, u) /\ u \in Seq(Nat)
    BY <2>2, RowSplit, SMT
  <2> HIDE DEF u
  <2>4. matched = g \o u
    BY <2>1, <2>3 DEF Join, g, t
  <2>5. Rising(g)
    BY <2>2, <2>3, <2>4, RisingPrefix DEF SubInv
  <2>6. Len(g) \in 1..Len(matched) /\ matched[Len(g)] = g[Len(g)] /\ g[Len(g)] = Head(tx)
    <3>1. g = Append(got, Head(tx)) /\ got \in Seq(Nat) /\ Head(tx) \in Nat
      BY <1>1 DEF SubInv, g
    <3>2. Len(g) \in Nat \ {0} /\ g[Len(g)] = Head(tx)
      BY <3>1, SMT
    <3> QED BY <2>2, <2>3, <2>4, <3>2, SMT
  <2>7. matched[Len(g)] \in 1..chain /\ chain \in 0..MaxLog
    BY <2>6 DEF SubInv
  <2>8. Head(tx) \in 1..MaxLog
    BY <2>6, <2>7, SMT
  <2> QED BY <2>5, <2>8 DEF g
<1>5. \A i \in 1..Len(got) : got[i] < Head(tx)
  <2>1. /\ Len(got') = Len(got) + 1 /\ Len(got) \in Nat /\ got'[Len(got) + 1] = Head(tx)
        /\ \A i \in 1..Len(got) : got'[i] = got[i]
    BY <1>1, SMTT(30) DEF SubInv
  <2> QED BY <1>4, <2>1, SMT DEF Rising
<1> QED BY <1>1, <1>3, <1>4, <1>5 DEF SubInv
-----------------------------------------------------------------------------
\* The batcher's row.
Kept == Row(applied, Flat(batches), buffer, rx)

\* The events as numbered by the decoding task.
Numbers(n) == [i \in 1..n |-> i]

Whole ==
    downstream =>
        /\ Numbers(sent) = Kept
        /\ batcher = "stopped" => buffer = <<>> /\ rx = <<>>

\* NothingLost as a row.
LEMMA NothingLostRow == (B!NothingLost <=> Whole) /\ (B!NothingLost' <=> Whole')
<1>1. B!Flat(batches) = Flat(batches) /\ B!Flat(batches)' = Flat(batches)'
  BY DEF B!Flat, B!FlatUpTo, Flat, FlatUpTo
<1>2. /\ Kept = applied \o Flat(batches) \o buffer \o rx
      /\ Kept' = applied' \o Flat(batches)' \o buffer' \o rx'
  BY RowIsConcat DEF Kept
<1> QED BY <1>1, <1>2 DEF B!NothingLost, Numbers, Whole

\* The facts about types that every step of the batcher uses.
BatchType ==
    /\ buffer \in Seq(Nat) /\ rx \in Seq(Nat) /\ applied \in Seq(Nat)
    /\ batches \in Seq(Seq(Nat)) /\ sent \in Nat
    /\ Flat(batches) \in Seq(Nat)

\* They follow from the invariant.
LEMMA BatchTypes ==
    ASSUME BatchInv
    PROVE  BatchType
<1>1. Flat(batches) \in Seq(Nat)
  BY FlatType DEF BatchInv
<1> QED BY <1>1 DEF BatchInv, BatchType

\* The batcher is not affected by steps of the others.
LEMMA BatchFrame ==
    ASSUME BatchInv, UNCHANGED batcherVars
    PROVE  BatchInv'
BY DEF BatchInv, B!NothingLost, batcherVars

\* Steps that move no event.
LEMMA BatchControl ==
    ASSUME BatchInv, B!RecvClosed \/ B!Tick \/ B!Window \/ B!CloseUpstream \/ B!CloseDownstream
    PROVE  BatchInv'
<1>1. CASE B!RecvClosed
  BY <1>1 DEF BatchInv, B!NothingLost, B!RecvClosed
<1>2. CASE B!Tick
  BY <1>2 DEF BatchInv, B!NothingLost, B!Tick
<1>3. CASE B!Window
  BY <1>3 DEF BatchInv, B!NothingLost, B!Window
<1>4. CASE B!CloseUpstream
  BY <1>4 DEF BatchInv, B!NothingLost, B!CloseUpstream
<1>5. CASE B!CloseDownstream
  BY <1>5 DEF BatchInv, B!NothingLost, B!CloseDownstream
<1> QED BY <1>1, <1>2, <1>3, <1>4, <1>5

\* An event goes from the channel into the buffer.
LEMMA BatchRecv ==
    ASSUME BatchInv, B!Recv
    PROVE  BatchInv'
<1>1. BatchType
  BY BatchTypes
<1>2. Head(rx) \in Nat /\ rx' \in Seq(Nat) /\ buffer' \in Seq(Nat)
  <2>1. Head(rx) \in Nat /\ Tail(rx) \in Seq(Nat)
    BY <1>1, HeadTail DEF B!Recv, BatchType
  <2> QED BY <1>1, <2>1, AppendOne DEF B!Recv, BatchType
<1>3. Kept' = Kept
  <2>1. Kept = Row(applied, Flat(batches), Append(buffer, Head(rx)), Tail(rx))
    <3>1. rx # <<>>
      BY DEF B!Recv
    <3> QED BY <1>1, <3>1, MoveHead, SMT DEF BatchType, Kept
  <2> QED BY <2>1 DEF B!Recv, Kept
<1>4. B!NothingLost'
  BY <1>3, NothingLostRow DEF BatchInv, B!Recv, Whole
<1> QED BY <1>2, <1>4 DEF BatchInv, B!Recv

\* The buffer becomes the last batch.
LEMMA BatchSend ==
    ASSUME BatchInv, B!SendBatch
    PROVE  BatchInv'
<1>1. BatchType /\ <<>> \in Seq(Nat)
  BY BatchTypes, SMT
<1>2. batches' \in Seq(Seq(Nat)) /\ buffer' \in Seq(Nat)
  BY <1>1, AppendOne DEF BatchInv, B!SendBatch, BatchType
<1>3. downstream => Kept' = Kept
  <2>1. Kept = Row(applied, Join(Flat(batches), buffer), <<>>, rx)
    BY <1>1, MoveAll, SMT DEF BatchType, Kept
  <2>2. Flat(Append(batches, buffer)) = Join(Flat(batches), buffer)
    BY <1>1, FlatAppend, SMT DEF BatchType, Join
  <2> QED BY <2>1, <2>2 DEF B!SendBatch, Kept
<1>4. B!NothingLost'
  BY <1>3, NothingLostRow DEF BatchInv, B!SendBatch, Whole
<1> QED BY <1>2, <1>4 DEF BatchInv, B!SendBatch

\* A prefix of the events is the first events.
LEMMA NumbersPrefix ==
    ASSUME NEW n \in Nat, NEW s \in Seq(Nat), NEW t \in Seq(Nat), Numbers(n) = s \o t
    PROVE  Len(s) <= n /\ \A i \in 1..Len(s) : s[i] = i
<1>1. Len(Numbers(n)) = n /\ \A i \in 1..n : Numbers(n)[i] = i
  BY SMT DEF Numbers
<1>2. /\ Len(s \o t) = Len(s) + Len(t) /\ Len(s) \in Nat /\ Len(t) \in Nat
      /\ \A i \in 1..Len(s) : (s \o t)[i] = s[i]
  BY SMT
<1>3. Len(s) <= n /\ \A i \in 1..Len(s) : i \in 1..n
  BY <1>1, <1>2, SMT
<1> QED BY <1>1, <1>2, <1>3

\* The next event.
LEMMA NumbersNext ==
    ASSUME NEW n \in Nat
    PROVE  Numbers(n + 1) = Append(Numbers(n), n + 1)
<1>1. Numbers(n) \in Seq(Nat) /\ Len(Numbers(n)) = n /\ \A i \in 1..n : Numbers(n)[i] = i
  BY SMT DEF Numbers
<1>2. Numbers(n + 1) \in Seq(Nat) /\ Len(Numbers(n + 1)) = n + 1
      /\ \A i \in 1..(n + 1) : Numbers(n + 1)[i] = i
  BY SMT DEF Numbers
<1> QED BY <1>1, <1>2, SMTT(20)

\* A batch is applied: what was applied are still the first events.
LEMMA BatchConsume ==
    ASSUME BatchInv, B!Consume
    PROVE  /\ BatchInv' /\ Head(batches) \in Seq(Nat)
           /\ applied' = applied \o Head(batches)
<1>1. BatchType /\ batches # <<>> /\ downstream /\ downstream'
  BY BatchTypes DEF B!Consume, BatchInv
<1> DEFINE h == Head(batches)
           r == Tail(batches)
           f == Flat(r)
<1>2. /\ h \in Seq(Nat) /\ r \in Seq(Seq(Nat)) /\ f \in Seq(Nat)
      /\ Flat(batches) = Join(h, f)
  <2>1. h \in Seq(Nat) /\ r \in Seq(Seq(Nat))
    BY <1>1, HeadTail DEF BatchType
  <2>2. f \in Seq(Nat)
    BY <2>1, FlatType
  <2>3. Flat(batches) = h \o f
    BY <1>1, FlatTail DEF BatchType
  <2> QED BY <2>1, <2>2, <2>3 DEF Join
<1> HIDE DEF h, f
<1>3. Kept = Row(Join(applied, h), f, buffer, rx)
  <2>1. Join(applied, Join(h, f)) = Join(Join(applied, h), f)
    BY <1>1, <1>2, JoinAssoc, SMT DEF BatchType
  <2> QED BY <1>2, <2>1 DEF Kept, Row
<1>4. /\ applied' = Join(applied, h) /\ batches' = r
      /\ UNCHANGED <<batcher, buffer, due, rx, upstream, downstream, sent>>
  BY DEF B!Consume, Join, h
<1>5. Join(applied, h) \in Seq(Nat)
  BY <1>1, <1>2, JoinType DEF BatchType
<1>6. Kept' = Kept
  BY <1>3, <1>4 DEF Kept, f
<1>7. B!NothingLost'
  BY <1>4, <1>6, NothingLostRow DEF BatchInv, Whole
<1>8. Len(applied') <= sent' /\ \A i \in 1..Len(applied') : applied'[i] = i
  <2> DEFINE a == Join(applied, h)
  <2>1. Numbers(sent) = Row(a, f, buffer, rx)
    BY <1>1, <1>3, NothingLostRow DEF BatchInv, Whole
  <2>2. a \in Seq(Nat) /\ f \in Seq(Nat) /\ buffer \in Seq(Nat) /\ rx \in Seq(Nat) /\ sent \in Nat
    BY <1>1, <1>2, <1>5 DEF BatchType
  <2> HIDE DEF a
  <2>3. /\ Row(a, f, buffer, rx) = Join(a, Join(f, Join(buffer, rx)))
        /\ Join(f, Join(buffer, rx)) \in Seq(Nat)
    BY <2>2, RowSplit, SMT
  <2>4. Len(a) <= sent /\ \A i \in 1..Len(a) : a[i] = i
    <3>1. Numbers(sent) = a \o Join(f, Join(buffer, rx))
      BY <2>1, <2>3 DEF Join
    <3> QED BY <2>2, <2>3, <3>1, NumbersPrefix
  <2> QED BY <1>4, <2>4 DEF a
<1> QED BY <1>2, <1>4, <1>5, <1>7, <1>8 DEF BatchInv, Join, h

\* An event is sent: it is the next one.
LEMMA BatchProduce ==
    ASSUME BatchInv, B!Produce
    PROVE  BatchInv'
<1>1. BatchType
  BY BatchTypes
<1>2. sent' = sent + 1 /\ sent' \in Nat /\ sent + 1 \in Nat /\ rx' = Append(rx, sent + 1)
  BY <1>1, SMT DEF B!Produce, BatchType
<1>3. rx' \in Seq(Nat)
  BY <1>1, <1>2, AppendOne DEF BatchType
<1>4. Kept' = Append(Kept, sent + 1)
  <2>1. Join(Join(applied, Flat(batches)), buffer) \in Seq(Nat)
    BY <1>1, JoinType DEF BatchType
  <2>2. Row(applied, Flat(batches), buffer, Append(rx, sent + 1))
            = Append(Row(applied, Flat(batches), buffer, rx), sent + 1)
    BY <1>1, <1>2, <2>1, JoinAppend DEF BatchType, Row
  <2> QED BY <1>2, <2>2 DEF Kept, B!Produce
<1>5. Numbers(sent') = Append(Numbers(sent), sent + 1)
  BY <1>1, <1>2, NumbersNext DEF BatchType
<1>6. B!NothingLost'
  BY <1>4, <1>5, NothingLostRow DEF BatchInv, B!Produce, Whole
<1>7. Len(applied) <= sent => Len(applied) <= sent'
  BY <1>1, <1>2, SMT DEF BatchType
<1> QED BY <1>2, <1>3, <1>6, <1>7 DEF BatchInv, B!Produce
-----------------------------------------------------------------------------
Decoded == {n \in 1..MaxLog : decode_log(n)}

\* The events are numbers; a later one is of a log that came later.
LEMMA EventFacts ==
    ASSUME SubInv
    PROVE  Events \in Seq(Nat) /\ Range(Events) \subseteq Range(got)
<1>1. got \in Seq(Nat)
  BY DEF SubInv
<1>2. Events = Only(got, Decoded)
  BY DEF Events, Decoded
<1>3. Only(got, Decoded) \in Seq(Nat \cap Decoded)
  BY <1>1, OnlyType
<1>4. Only(got, Decoded) \in Seq(Nat)
  BY <1>3, SeqWiden, SMT
<1>5. Range(Only(got, Decoded)) = Range(got) \cap Decoded
  BY <1>1, OnlyRange
<1> QED BY <1>2, <1>4, <1>5

\* A log that is received becomes the next event if it is decoded.
LEMMA DecodeEvents ==
    ASSUME SubInv, Receive
    PROVE  Events' = IF decode_log(Head(tx)) THEN Append(Events, Head(tx)) ELSE Events
<1>1. Head(tx) \in 1..MaxLog /\ got \in Seq(Nat) /\ got' = Append(got, Head(tx))
  BY SubReceive DEF SubInv, Receive
<1>2. Head(tx) \in Nat /\ (Head(tx) \in Decoded <=> decode_log(Head(tx)))
  BY <1>1, SMT DEF Decoded
<1>3. Events = Only(got, Decoded) /\ Events' = Only(got', Decoded)
  BY DEF Events, Decoded, decode_log
<1>4. \A s \in Seq(Nat), e \in Nat :
          Only(Append(s, e), Decoded)
              = IF e \in Decoded THEN Append(Only(s, Decoded), e) ELSE Only(s, Decoded)
  BY OnlyAppend, ZenonT(40)
<1> QED BY <1>1, <1>2, <1>3, <1>4

\* Only the decoding task makes events.
LEMMA LinkFrame ==
    ASSUME LinkInv, got' = got, sent' = sent
    PROVE  LinkInv'
BY DEF LinkInv, Events

\* A decoded log is one more event, and later than all before it.
LEMMA LinkDecode ==
    ASSUME FeedInv, Decode
    PROVE  LinkInv'
<1>1. SubInv /\ Receive /\ BatchType
  BY BatchTypes DEF FeedInv, Decode
<1>2. Events \in Seq(Nat) /\ Range(Events) \subseteq Range(got)
  BY <1>1, EventFacts
<1>3. Head(tx) \in 1..MaxLog /\ \A i \in 1..Len(got) : got[i] < Head(tx)
  BY <1>1, SubReceive
<1>4. CASE ~decode_log(Head(tx))
  <2>1. Events' = Events /\ sent' = sent
    BY <1>1, <1>4, DecodeEvents DEF Decode, batcherVars
  <2> QED BY <2>1 DEF FeedInv, LinkInv
<1>5. CASE decode_log(Head(tx))
  <2>1. Events' = Append(Events, Head(tx)) /\ sent' = sent + 1
    BY <1>1, <1>5, DecodeEvents DEF Decode, B!Produce
  <2>2. Head(tx) \in Nat /\ got \in Seq(Nat)
    BY <1>1, <1>3, SMT DEF SubInv
  <2>3. \A i \in 1..Len(Events) : Events[i] < Head(tx)
    <3>1. ASSUME NEW i \in 1..Len(Events) PROVE \E j \in 1..Len(got) : Events[i] = got[j]
      <4>1. i \in DOMAIN Events /\ DOMAIN got = 1..Len(got)
        BY <1>2, <2>2, SMT
      <4>2. Events[i] \in Range(got)
        BY <1>2, <4>1 DEF Range
      <4> QED BY <4>1, <4>2 DEF Range
    <3> QED BY <1>3, <3>1
  <2>4. Rising(Append(Events, Head(tx)))
    BY <1>2, <2>2, <2>3, RisingAppend DEF FeedInv, LinkInv
  <2>5. Len(Append(Events, Head(tx))) = sent + 1
    BY <1>2, <2>2, SMT DEF FeedInv, LinkInv
  <2> QED BY <2>1, <2>4, <2>5 DEF LinkInv
<1> QED BY <1>4, <1>5
-----------------------------------------------------------------------------
\* Nothing has happened yet.
LEMMA FeedInitInv == FeedInit => FeedInv
<1> SUFFICES ASSUME FeedInit PROVE FeedInv
  OBVIOUS
<1>1. <<>> \in Seq(Nat) /\ <<>> \in Seq(Seq(Nat)) /\ Len(<<>>) = 0 /\ 1..0 = {} /\ 0 \in 0..MaxLog
  BY SMT
<1>2. Row(<<>>, <<>>, <<>>, <<>>) = <<>> /\ Flat(<<>>) = <<>> /\ Numbers(0) = <<>>
  <2>1. Join(<<>>, <<>>) = <<>>
    BY <1>1, JoinEmpty
  <2>2. Numbers(0) = <<>>
    BY SMT DEF Numbers
  <2> QED BY <2>1, <2>2, FlatEmpty DEF Row
<1>3. Rising(<<>>)
  BY <1>1 DEF Rising
<1>4. SubInv
  BY <1>1, <1>2, <1>3, InOrderRow DEF FeedInit, Init, SubInv
<1>5. BatchInv
  <2>1. B!NothingLost
    BY <1>2, NothingLostRow DEF FeedInit, B!Init, Whole, Kept
  <2> QED BY <1>1, <2>1, SMT DEF FeedInit, B!Init, BatchInv
<1>6. LinkInv
  BY <1>1, <1>3, OnlyEmpty DEF FeedInit, Init, B!Init, LinkInv, Events
<1> QED BY <1>4, <1>5, <1>6 DEF FeedInv

\* One step of the composition is a step of the subscriber, of the batcher or
\* of the decoding task between them.
LEMMA FeedStep == FeedInv /\ [FeedNext]_allVars => FeedInv'
<1> SUFFICES ASSUME FeedInv, [FeedNext]_allVars PROVE FeedInv'
  OBVIOUS
<1>1. SubInv /\ BatchInv /\ LinkInv
  BY DEF FeedInv
<1>2. CASE (Task \/ Outside) /\ UNCHANGED batcherVars
  <2>1. SubInv'
    BY <1>1, <1>2, SubControl, SubTakeLog, SubSend, SubEmitLog DEF Task, Outside
  <2>2. got' = got /\ sent' = sent
    BY <1>2 DEF Task, Outside, Connect, Subscribe, TransportFault, StreamEnds, TakeLog, Send, Sleep,
                EmitLog, LoseConnection, batcherVars
  <2> QED BY <1>1, <1>2, <2>1, <2>2, BatchFrame, LinkFrame DEF FeedInv
<1>3. CASE (B!Task \/ B!Window \/ B!Consume \/ B!CloseDownstream) /\ UNCHANGED vars
  <2>1. BatchInv'
    BY <1>1, <1>3, BatchControl, BatchRecv, BatchSend, BatchConsume DEF B!Task
  <2>2. got' = got /\ sent' = sent
    BY <1>3 DEF B!Task, B!Recv, B!RecvClosed, B!Tick, B!SendBatch, B!Window, B!Consume,
                B!CloseDownstream, vars
  <2> QED BY <1>1, <1>3, <2>1, <2>2, SubFrame, LinkFrame DEF FeedInv
<1>4. CASE Decode
  <2>1. SubInv'
    BY <1>1, <1>4, SubReceive DEF Decode
  <2>2. BatchInv'
    BY <1>1, <1>4, BatchProduce, BatchFrame DEF Decode
  <2> QED BY <1>4, <2>1, <2>2, LinkDecode DEF FeedInv
<1>5. CASE DecoderEnds
  <2>1. SubInv' /\ BatchInv'
    BY <1>1, <1>5, SubControl, BatchControl DEF DecoderEnds
  <2>2. got' = got /\ sent' = sent
    BY <1>5 DEF DecoderEnds, DropReceiver, B!CloseUpstream
  <2> QED BY <1>1, <2>1, <2>2, LinkFrame DEF FeedInv
<1>6. CASE UNCHANGED allVars
  <2>1. UNCHANGED vars /\ UNCHANGED batcherVars /\ got' = got /\ sent' = sent
    BY <1>6 DEF allVars, vars, batcherVars
  <2> QED BY <1>1, <2>1, SubFrame, BatchFrame, LinkFrame DEF FeedInv
<1> QED BY <1>2, <1>3, <1>4, <1>5, <1>6 DEF FeedNext, Done

\* Every log a subscription delivered reaches the decoding task once and in
\* order, for every capacity of the channels and however often the stream
\* ends and is opened again (ws.rs, Subscriber::run).
THEOREM LogsInOrderAlways == FeedSpec => []LogsInOrder
<1>1. FeedInv => LogsInOrder
  BY DEF FeedInv, SubInv
<1> QED BY <1>1, FeedInitInv, FeedStep, PTL DEF FeedSpec

\* No event is lost, repeated or reordered between the decoding task and the
\* cache, and the batcher returns with an empty buffer (feed.rs, Batcher::run).
THEOREM BatchesKeepEventsAlways == FeedSpec => []BatchesKeepEvents
<1>1. FeedInv => BatchesKeepEvents
  BY DEF FeedInv, BatchInv, BatchesKeepEvents
<1> QED BY <1>1, FeedInitInv, FeedStep, PTL DEF FeedSpec
-----------------------------------------------------------------------------
(* The cache. *)

\* The events of pool p, and the ones of them that were applied.
Of(p) == {i \in DOMAIN Events : PoolOf[Events[i]] = p}
Mine(p) == Only(applied, Of(p))

LastOfMine(p) == Mine(p)[Len(Mine(p))]

\* Cached in these terms, before and after a step.
LEMMA CachedIs ==
    ASSUME NEW p
    PROVE  /\ Cached(p) = IF Mine(p) = <<>> THEN 0 ELSE Events[LastOfMine(p)]
           /\ Cached(p)' = IF Mine(p)' = <<>> THEN 0 ELSE Events'[LastOfMine(p)']
BY DEF Cached, Mine, Of, LastOfMine

\* The last element of what is left of a sequence is one of its elements.
LEMMA LastOfOnly ==
    ASSUME NEW s \in Seq(Nat), NEW S, Only(s, S) # <<>>
    PROVE  LET m == Only(s, S) IN
           m \in Seq(Nat) /\ m[Len(m)] \in S /\ \E i \in 1..Len(s) : m[Len(m)] = s[i]
<1> DEFINE m == Only(s, S)
<1>1. m \in Seq(Nat \cap S) /\ Range(m) = Range(s) \cap S
  BY OnlyType, OnlyRange
<1>2. m \in Seq(Nat)
  BY <1>1, SeqWiden, SMT
<1> HIDE DEF m
<1>3. Len(m) \in DOMAIN m
  BY <1>2, SMT DEF m
<1>4. m[Len(m)] \in Range(s) \cap S
  BY <1>1, <1>3 DEF Range
<1>5. DOMAIN s = 1..Len(s)
  BY SMT
<1> QED BY <1>2, <1>4, <1>5 DEF Range, m

\* What is cached for a pool is 0 or one of the events that were applied.
LEMMA MineFacts ==
    ASSUME FeedInv, NEW p, Mine(p) # <<>>
    PROVE  /\ LastOfMine(p) \in 1..Len(applied) /\ LastOfMine(p) \in 1..Len(Events)
           /\ Events[LastOfMine(p)] \in Nat
<1>1. applied \in Seq(Nat) /\ Events \in Seq(Nat) /\ \A i \in 1..Len(applied) : applied[i] = i
  BY EventFacts DEF FeedInv, BatchInv
<1>2. LastOfMine(p) \in Of(p) /\ \E i \in 1..Len(applied) : LastOfMine(p) = applied[i]
  BY <1>1, LastOfOnly DEF Mine, LastOfMine
<1>3. LastOfMine(p) \in 1..Len(applied) /\ LastOfMine(p) \in DOMAIN Events
  BY <1>1, <1>2 DEF Of
<1> QED BY <1>1, <1>3, SMT

\* What is cached is a log or 0.
LEMMA CachedNat ==
    ASSUME FeedInv, NEW p
    PROVE  Cached(p) \in Nat
BY MineFacts, CachedIs, SMT

\* Neither received nor applied: the cache is the same.
LEMMA CacheFrame ==
    ASSUME FeedInv, got' = got, applied' = applied, NEW p
    PROVE  Cached(p)' >= Cached(p)
<1>1. Cached(p)' = Cached(p)
  BY DEF Cached, Events
<1>2. Cached(p) \in Nat
  BY CachedNat
<1> QED BY <1>1, <1>2, SMT

\* An event that is decoded does not change what the earlier ones are.
LEMMA CacheDecode ==
    ASSUME FeedInv, Decode, NEW p
    PROVE  Cached(p)' >= Cached(p)
<1>1. SubInv /\ Receive /\ applied' = applied
  BY DEF FeedInv, Decode, B!Produce, batcherVars
<1>2. Events \in Seq(Nat) /\ Head(tx) \in Nat /\ applied \in Seq(Nat) /\ Len(applied) <= Len(Events)
      /\ \A i \in 1..Len(applied) : applied[i] = i
  <2>1. Events \in Seq(Nat) /\ Head(tx) \in 1..MaxLog
    BY <1>1, EventFacts, SubReceive
  <2>2. Head(tx) \in Nat
    BY <2>1, SMT
  <2> QED BY <2>1, <2>2 DEF FeedInv, BatchInv, LinkInv
<1>3. \A i \in 1..Len(Events) : i \in DOMAIN Events' /\ Events'[i] = Events[i]
  <2>1. Events' = Events \/ Events' = Append(Events, Head(tx))
    BY <1>1, DecodeEvents
  <2>2. CASE Events' = Events
    <3>1. DOMAIN Events = 1..Len(Events)
      BY <1>2, SMT
    <3> QED BY <2>2, <3>1
  <2>3. CASE Events' = Append(Events, Head(tx))
    <3>1. \A i \in 1..Len(Events) : /\ i \in DOMAIN Append(Events, Head(tx))
                                   /\ Append(Events, Head(tx))[i] = Events[i]
      BY <1>2, SMT
    <3> QED BY <2>3, <3>1
  <2> QED BY <2>1, <2>2, <2>3
<1>4. Mine(p)' = Mine(p)
  <2>1. ASSUME NEW i \in 1..Len(applied) PROVE applied[i] \in Of(p) <=> applied[i] \in Of(p)'
    <3>1. i \in 1..Len(Events) /\ i \in DOMAIN Events
      BY <1>2, SMT
    <3> QED BY <1>2, <1>3, <3>1 DEF Of
  <2> DEFINE after == Of(p)'
  <2>2. \A i \in 1..Len(applied) : applied[i] \in Of(p) <=> applied[i] \in after
    BY <2>1
  <2> HIDE DEF after
  <2>3. Only(applied, Of(p)) = Only(applied, after)
    BY <1>2, <2>2, OnlySame
  <2> QED BY <1>1, <2>3 DEF Mine, after
<1>5. LastOfMine(p)' = LastOfMine(p)
  BY <1>4 DEF LastOfMine
<1>6. Cached(p)' = Cached(p)
  <2>1. CASE Mine(p) = <<>>
    BY <1>4, <2>1, CachedIs
  <2>2. CASE Mine(p) # <<>>
    <3>1. LastOfMine(p) \in 1..Len(Events)
      BY <2>2, MineFacts
    <3> QED BY <1>3, <1>4, <1>5, <2>2, <3>1, CachedIs
  <2> QED BY <2>1, <2>2
<1>7. Cached(p) \in Nat
  BY CachedNat
<1> QED BY <1>6, <1>7, SMT

\* The events of a batch come after all that were applied before it.
LEMMA CacheConsume ==
    ASSUME FeedInv, B!Consume, UNCHANGED vars, NEW p
    PROVE  Cached(p)' >= Cached(p)
<1> DEFINE h == Head(batches)
           N == Only(h, Of(p))
           m == Mine(p)
<1>1. /\ h \in Seq(Nat) /\ applied \in Seq(Nat) /\ applied' = applied \o h
      /\ \A i \in 1..Len(applied') : applied'[i] = i
  BY BatchConsume DEF FeedInv, BatchInv
<1>2. Events \in Seq(Nat) /\ Rising(Events) /\ Events' = Events /\ Of(p)' = Of(p)
  BY EventFacts DEF FeedInv, LinkInv, Events, vars, Of
<1>3. Mine(p)' = m \o N
  <2>1. Only(applied \o h, Of(p)) = m \o N
    <3> HIDE DEF h
    <3> QED BY <1>1, OnlyConcat, SMT DEF Mine
  <2> QED BY <1>1, <1>2, <2>1 DEF Mine
<1>4. m \in Seq(Nat) /\ N \in Seq(Nat)
  <2>1. m \in Seq(Nat \cap Of(p)) /\ N \in Seq(Nat \cap Of(p))
    BY <1>1, OnlyType DEF Mine
  <2> HIDE DEF m, N
  <2> QED BY <2>1, SeqWiden, SMT
<1>5. Cached(p) \in Nat
  BY CachedNat
<1>6. CASE N = <<>>
  <2>1. m \o N = m
    BY <1>4, <1>6, ConcatEmpty
  <2>2. Cached(p)' = Cached(p)
    BY <1>2, <1>3, <2>1, CachedIs DEF LastOfMine
  <2> QED BY <1>5, <2>2, SMT
<1>7. CASE N # <<>>
  <2> DEFINE x == N[Len(N)]
  <2>1. /\ m \o N # <<>> /\ (m \o N)[Len(m \o N)] = x
    <3> HIDE DEF m, N
    <3> QED BY <1>4, <1>7, SMT
  <2>2. Cached(p)' = Events[x]
    BY <1>2, <1>3, <2>1, CachedIs DEF LastOfMine
  <2>3. x \in Of(p) /\ \E k \in 1..Len(h) : x = h[k]
    <3> HIDE DEF h
    <3>1. h \in Seq(Nat) /\ Only(h, Of(p)) # <<>>
      BY <1>1, <1>7
    <3>2. LET l == Only(h, Of(p)) IN
          l \in Seq(Nat) /\ l[Len(l)] \in Of(p) /\ \E k \in 1..Len(h) : l[Len(l)] = h[k]
      BY <3>1, LastOfOnly
    <3> QED BY <3>2
  <2>4. x \in 1..Len(Events) /\ Events[x] \in Nat
    <3> HIDE DEF x
    <3>1. x \in DOMAIN Events
      BY <2>3 DEF Of
    <3> QED BY <1>2, <3>1, SMT
  <2>5. x > Len(applied)
    <3> HIDE DEF x, h
    <3>1. PICK k \in 1..Len(h) : x = h[k]
      BY <2>3
    <3>2. /\ Len(applied) \in Nat /\ k \in Nat \ {0}
          /\ (applied \o h)[Len(applied) + k] = h[k]
          /\ Len(applied) + k \in 1..Len(applied \o h)
      BY <1>1, SMT
    <3>3. h[k] = Len(applied) + k
      BY <1>1, <3>2
    <3> QED BY <3>1, <3>2, <3>3, SMT
  <2>6. CASE m = <<>>
    <3>1. Cached(p) = 0
      BY <2>6, CachedIs
    <3> QED BY <2>2, <2>4, <3>1, SMT
  <2>7. CASE m # <<>>
    <3> DEFINE y == LastOfMine(p)
    <3>1. y \in 1..Len(applied) /\ y \in 1..Len(Events) /\ Cached(p) = Events[y]
      BY <2>7, MineFacts, CachedIs
    <3> HIDE DEF x, y
    <3>2. y < x
      BY <1>1, <2>4, <2>5, <3>1, SMT
    <3>3. Events[y] < Events[x]
      BY <1>2, <2>4, <3>1, <3>2 DEF Rising
    <3> QED BY <1>5, <2>2, <2>4, <3>1, <3>3, SMT
  <2> QED BY <2>6, <2>7
<1> QED BY <1>6, <1>7

\* No step takes a cached state back.
LEMMA CacheStep ==
    FeedInv /\ [FeedNext]_allVars => [\A p \in Pool : Cached(p)' >= Cached(p)]_allVars
<1> SUFFICES ASSUME FeedInv, [FeedNext]_allVars, NEW p \in Pool PROVE Cached(p)' >= Cached(p)
  OBVIOUS
<1>1. CASE (Task \/ Outside) /\ UNCHANGED batcherVars
  <2>1. got' = got /\ applied' = applied
    BY <1>1 DEF Task, Outside, Connect, Subscribe, TransportFault, StreamEnds, TakeLog, Send, Sleep,
                EmitLog, LoseConnection, batcherVars
  <2> QED BY <2>1, CacheFrame
<1>2. CASE (B!Task \/ B!Window \/ B!CloseDownstream) /\ UNCHANGED vars
  <2>1. got' = got /\ applied' = applied
    BY <1>2 DEF B!Task, B!Recv, B!RecvClosed, B!Tick, B!SendBatch, B!Window, B!CloseDownstream, vars
  <2> QED BY <2>1, CacheFrame
<1>3. CASE B!Consume /\ UNCHANGED vars
  BY <1>3, CacheConsume
<1>4. CASE Decode
  BY <1>4, CacheDecode
<1>5. CASE DecoderEnds
  <2>1. got' = got /\ applied' = applied
    BY <1>5 DEF DecoderEnds, DropReceiver, B!CloseUpstream
  <2> QED BY <2>1, CacheFrame
<1>6. CASE UNCHANGED allVars
  <2>1. got' = got /\ applied' = applied
    BY <1>6 DEF allVars, vars, batcherVars
  <2> QED BY <2>1, CacheFrame
<1> QED BY <1>1, <1>2, <1>3, <1>4, <1>5, <1>6 DEF FeedNext, Done

\* The state cached for a pool never goes back to an older log, for every set
\* of pools, every capacity and every loss of the connection.
THEOREM CacheMovesForwardAlways == FeedSpec => CacheMovesForward
BY FeedInitInv, FeedStep, CacheStep, PTL DEF FeedSpec, CacheMovesForward
=============================================================================

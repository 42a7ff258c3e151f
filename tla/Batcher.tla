------------------------------- MODULE Batcher -------------------------------
(***************************************************************************)
(* Batcher::run of rust/src/monitor/feed.rs: events from one channel are    *)
(* collected in a buffer and sent on as one batch at every tick of the      *)
(* window, and once more when the upstream closes.  EventFeed puts it        *)
(* behind the log subscriber.                                              *)
(***************************************************************************)
EXTENDS Integers, Sequences, SequenceOps

CONSTANTS
    InCapacity,   \* slots of the event channel
    OutCapacity,  \* slots of the batch channel
    MaxEvents     \* bound: events the upstream sends

VARIABLES
    pc,        \* "select", "flush" (waiting to send at a tick), "last" (at the end), "stopped"
    buffer,    \* events of the current window
    due,       \* the interval's tick is due
    rx,        \* the event channel
    upstream,  \* some event sender is alive
    tx,        \* the batch channel
    downstream,\* the batch receiver is alive
    sent,      \* history: how many events the upstream sent
    applied    \* history: the events the downstream received

vars == <<pc, buffer, due, rx, upstream, tx, downstream, sent, applied>>

Init ==
    /\ pc = "select" /\ buffer = <<>>
    /\ due = TRUE                      \* an interval's first tick is immediate
    /\ rx = <<>> /\ upstream = TRUE
    /\ tx = <<>> /\ downstream = TRUE
    /\ sent = 0 /\ applied = <<>>
-----------------------------------------------------------------------------
(* Batcher::run; select! takes any arm that is ready *)

Recv ==
    /\ pc = "select" /\ rx # <<>>
    /\ buffer' = Append(buffer, Head(rx))
    /\ rx' = Tail(rx)
    /\ UNCHANGED <<pc, due, upstream, tx, downstream, sent, applied>>

\* Mutant: the remainder is dropped when the upstream closes.
RecvClosedDiscards ==
    /\ pc = "select" /\ rx = <<>> /\ ~upstream
    /\ pc' = "stopped"
    /\ UNCHANGED <<buffer, due, rx, upstream, tx, downstream, sent, applied>>

\* recv returns None: flush the remainder and stop.
RecvClosed ==
    /\ pc = "select" /\ rx = <<>> /\ ~upstream
    /\ pc' = IF buffer = <<>> THEN "stopped" ELSE "last"
    /\ UNCHANGED <<buffer, due, rx, upstream, tx, downstream, sent, applied>>

\* MissedTickBehavior::Delay: the next tick is a whole window from this one.
Tick ==
    /\ pc = "select" /\ due
    /\ due' = FALSE
    /\ pc' = IF buffer = <<>> THEN "select" ELSE "flush"
    /\ UNCHANGED <<buffer, rx, upstream, tx, downstream, sent, applied>>

\* tx.send(flush(&mut buffer)).await: the buffer is taken at once, and the
\* send waits for room or fails without a receiver.
SendBatch ==
    /\ pc \in {"flush", "last"}
    /\ \/ /\ downstream /\ Len(tx) < OutCapacity
          /\ tx' = Append(tx, buffer)
          /\ pc' = IF pc = "flush" THEN "select" ELSE "stopped"
       \/ /\ ~downstream
          /\ pc' = "stopped"
          /\ UNCHANGED tx
    /\ buffer' = <<>>
    /\ UNCHANGED <<due, rx, upstream, downstream, sent, applied>>
-----------------------------------------------------------------------------
(* The window, the producers and the consumer *)

\* Mutant: the interval fires only once.
WindowOnce ==
    /\ FALSE
    /\ UNCHANGED vars

\* The window has passed since the last tick.
Window ==
    /\ ~due /\ pc # "stopped"
    /\ due' = TRUE
    /\ UNCHANGED <<pc, buffer, rx, upstream, tx, downstream, sent, applied>>

\* Once run has returned, the receiver is gone and a send fails.
Produce ==
    /\ upstream /\ pc # "stopped" /\ sent < MaxEvents /\ Len(rx) < InCapacity
    /\ sent' = sent + 1
    /\ rx' = Append(rx, sent + 1)
    /\ UNCHANGED <<pc, buffer, due, upstream, tx, downstream, applied>>

CloseUpstream ==
    /\ upstream
    /\ upstream' = FALSE
    /\ UNCHANGED <<pc, buffer, due, rx, tx, downstream, sent, applied>>

Consume ==
    /\ downstream /\ tx # <<>>
    /\ applied' = applied \o Head(tx)
    /\ tx' = Tail(tx)
    /\ UNCHANGED <<pc, buffer, due, rx, upstream, downstream, sent>>

CloseDownstream ==
    /\ downstream
    /\ downstream' = FALSE
    /\ UNCHANGED <<pc, buffer, due, rx, upstream, tx, sent, applied>>
-----------------------------------------------------------------------------
Task == Recv \/ RecvClosed \/ Tick \/ SendBatch

\* tokio polls the task; select! picks a ready arm at random, so an arm that
\* is ready again and again is taken in the end; a consumer that is alive
\* reads; time passes.
Fairness ==
    /\ SF_vars(Recv) /\ SF_vars(RecvClosed) /\ SF_vars(Tick) /\ WF_vars(SendBatch)
    /\ WF_vars(Window) /\ WF_vars(Consume)
-----------------------------------------------------------------------------
(* Properties *)

\* While the consumer lives, every event sent is applied, batched, buffered
\* or queued exactly once and in order; and run returns only with an empty
\* buffer, so the last partial batch is not lost.
NothingLost ==
    downstream =>
        /\ [i \in 1..sent |-> i] = applied \o Flat(tx) \o buffer \o rx
        /\ pc = "stopped" => buffer = <<>> /\ rx = <<>>
=============================================================================

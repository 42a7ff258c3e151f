---------------------------- MODULE LogSubscriber ----------------------------
(***************************************************************************)
(* Subscriber::run of rust/src/monitor/ws.rs: connect, subscribe to the     *)
(* logs of the registered pools, forward every log, and start over with     *)
(* exponential backoff when the stream ends, until the consumer is gone.    *)
(* EventFeed composes it with what consumes the logs.                      *)
(***************************************************************************)
EXTENDS Integers, Sequences, Functions

CONSTANTS
    Capacity,       \* slots of the log channel
    InitialBackoff, \* INITIAL_BACKOFF
    MaxBackoff,     \* MAX_BACKOFF
    MaxUnread,      \* bound: logs of the subscription not yet read
    MaxLog          \* bound: logs on the chain

ASSUME CapacityAssumption == Capacity \in Nat \ {0}
ASSUME BackoffAssumption ==
    InitialBackoff \in Nat \ {0} /\ MaxBackoff \in Nat /\ InitialBackoff <= MaxBackoff
ASSUME BoundAssumption == MaxUnread \in Nat /\ MaxLog \in Nat

VARIABLES
    pc,      \* "connect", "subscribe", "stream", "send", "sleep", "returned"
    backoff, \* the delay before the next attempt
    log,     \* the log being sent, as a sequence of at most one
    tx,      \* the log channel
    open,    \* the consumer holds the receiver
    alive,   \* external: the subscription's stream has not ended
    stream,  \* external: logs of the subscription not yet read
    chain,   \* external: logs emitted so far
    matched, \* history: the logs the subscriptions yield, in order
    got      \* history: the logs the consumer received

vars == <<pc, backoff, log, tx, open, alive, stream, chain, matched, got>>

Init ==
    /\ pc = "connect" /\ backoff = InitialBackoff /\ log = <<>>
    /\ tx = <<>> /\ open = TRUE
    /\ alive = FALSE /\ stream = <<>> /\ chain = 0
    /\ matched = <<>> /\ got = <<>>
-----------------------------------------------------------------------------
(* run, subscribe_once *)

Connect ==
    /\ pc = "connect"
    /\ pc' = "subscribe"
    /\ UNCHANGED <<backoff, log, tx, open, alive, stream, chain, matched, got>>

\* Mutant: a new subscription starts with a log that was delivered before.
SubscribeReplays ==
    /\ pc = "subscribe"
    /\ pc' = "stream"
    /\ alive' = TRUE /\ stream' = IF matched = <<>> THEN <<>> ELSE <<Head(matched)>>
    /\ UNCHANGED <<backoff, log, tx, open, chain, matched, got>>

Subscribe ==
    /\ pc = "subscribe"
    /\ pc' = "stream"
    /\ alive' = TRUE /\ stream' = <<>>
    /\ UNCHANGED <<backoff, log, tx, open, chain, matched, got>>

\* subscribe_once returns Err.
TransportFault ==
    /\ pc \in {"connect", "subscribe"}
    /\ pc' = "sleep"
    /\ UNCHANGED <<backoff, log, tx, open, alive, stream, chain, matched, got>>

\* stream.next() returns None: what was received before the end is read first.
StreamEnds ==
    /\ pc = "stream" /\ ~alive /\ stream = <<>>
    /\ pc' = "sleep"
    /\ UNCHANGED <<backoff, log, tx, open, alive, stream, chain, matched, got>>

TakeLog ==
    /\ pc = "stream" /\ stream # <<>>
    /\ log' = <<Head(stream)>> /\ stream' = Tail(stream)
    /\ pc' = "send"
    /\ UNCHANGED <<backoff, tx, open, alive, chain, matched, got>>

\* Mutant: a log that finds the channel full is dropped.
SendDropsWhenFull ==
    /\ pc = "send"
    /\ tx' = IF Len(tx) < Capacity THEN tx \o log ELSE tx
    /\ log' = <<>> /\ pc' = "stream"
    /\ UNCHANGED <<backoff, open, alive, stream, chain, matched, got>>

\* tx.send(log).await; without a consumer, run returns Ok.
Send ==
    /\ pc = "send"
    /\ \/ /\ open /\ Len(tx) < Capacity
          /\ tx' = tx \o log
          /\ pc' = "stream"
       \/ /\ ~open
          /\ pc' = "returned"
          /\ UNCHANGED tx
    /\ log' = <<>>
    /\ UNCHANGED <<backoff, open, alive, stream, chain, matched, got>>

\* Mutant: run gives up once the backoff has reached its cap.
SleepGivesUp ==
    /\ pc = "sleep"
    /\ IF 2 * backoff < MaxBackoff
       THEN pc' = "connect" /\ backoff' = 2 * backoff
       ELSE pc' = "returned" /\ UNCHANGED backoff
    /\ UNCHANGED <<log, tx, open, alive, stream, chain, matched, got>>

\* The delay doubles after every fault, and nothing resets it.
Sleep ==
    /\ pc = "sleep"
    /\ pc' = "connect"
    /\ backoff' = IF 2 * backoff < MaxBackoff THEN 2 * backoff ELSE MaxBackoff
    /\ UNCHANGED <<log, tx, open, alive, stream, chain, matched, got>>
-----------------------------------------------------------------------------
(* The chain, the transport (external) and the consumer *)

\* A pool emits a log.  Without a subscription it is not seen, and the library's
\* buffer, which does not hold the node back, loses logs when run lags behind.
EmitLog ==
    /\ chain < MaxLog
    /\ chain' = chain + 1
    /\ \/ /\ alive /\ Len(stream) < MaxUnread
          /\ stream' = Append(stream, chain')
          /\ matched' = Append(matched, chain')
       \/ UNCHANGED <<stream, matched>>
    /\ UNCHANGED <<pc, backoff, log, tx, open, alive, got>>

LoseConnection ==
    /\ alive
    /\ alive' = FALSE
    /\ UNCHANGED <<pc, backoff, log, tx, open, stream, chain, matched, got>>

Receive ==
    /\ open /\ tx # <<>>
    /\ got' = Append(got, Head(tx)) /\ tx' = Tail(tx)
    /\ UNCHANGED <<pc, backoff, log, open, alive, stream, chain, matched>>

DropReceiver ==
    /\ open
    /\ open' = FALSE
    /\ UNCHANGED <<pc, backoff, log, tx, alive, stream, chain, matched, got>>
-----------------------------------------------------------------------------
Task == Connect \/ Subscribe \/ TransportFault \/ StreamEnds \/ TakeLog \/ Send \/ Sleep

\* The task is polled, and an endpoint that is tried again and again answers
\* in the end.
Fairness ==
    /\ SF_vars(Connect) /\ SF_vars(Subscribe)
    /\ WF_vars(StreamEnds) /\ WF_vars(TakeLog) /\ WF_vars(Send) /\ WF_vars(Sleep)
-----------------------------------------------------------------------------
(* Properties *)

\* Every log a subscription delivered reaches the consumer once and in order,
\* also the ones buffered when the stream ended: a reconnect repeats and
\* drops none of them.
LogsInOrder ==
    open => matched = got \o tx \o log \o stream

\* A broken subscription is restored as long as the consumer is there.
Recovers ==
    pc = "sleep" ~> pc = "stream" \/ ~open
=============================================================================

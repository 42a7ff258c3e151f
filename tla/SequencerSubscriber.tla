------------------------- MODULE SequencerSubscriber -------------------------
(***************************************************************************)
(* The subscriber of the Arbitrum sequencer feed                            *)
(* (rust/src/monitor/sequencer_subscriber.rs): a task that connects, reads  *)
(* frames, forwards every message with back-pressure and every confirmation *)
(* without, reconnects with exponential backoff, and is to stop when its    *)
(* CancelToken fires.                                                      *)
(*                                                                         *)
(* The token is an atomic flag and a tokio Notify: cancelled() loads the    *)
(* flag and then registers for a notification, cancel() stores the flag and *)
(* then notifies whoever is registered.  With Parallel these are four steps *)
(* of two threads; without it (a current_thread runtime) a poll and a call  *)
(* of cancel() exclude each other.                                         *)
(***************************************************************************)
EXTENDS Integers, Sequences, Functions

CONSTANTS
    MsgCapacity,    \* messages_capacity
    ConfCapacity,   \* confirmations_capacity
    ErrCapacity,    \* errors_capacity
    InitialBackoff, \* INITIAL_BACKOFF
    MaxBackoff,     \* MAX_BACKOFF
    Parallel,       \* the token is cancelled from another thread
    MaxBatch,       \* bound: messages in one envelope
    MaxSeq,         \* bound: sequence numbers of the feed
    MaxFrames       \* bound: unread frames of the socket

ASSUME CapacityAssumption ==
    MsgCapacity \in Nat /\ ConfCapacity \in Nat /\ ErrCapacity \in Nat
ASSUME BackoffAssumption ==
    InitialBackoff \in Nat \ {0} /\ MaxBackoff \in Nat /\ InitialBackoff <= MaxBackoff
ASSUME BoundAssumption ==
    Parallel \in BOOLEAN /\ MaxBatch \in Nat /\ MaxSeq \in Nat /\ MaxFrames \in Nat

Channel == {"messages", "confirmations", "errors"}

VARIABLES
    pc,            \* where the task is
    backoff,       \* the delay before the next attempt
    batch,         \* messages of the current envelope still to be forwarded
    conf,          \* confirmation of the current envelope; 0: none
    messages,      \* the message channel
    confirmations, \* the confirmation channel
    errors,        \* how many reports the error channel holds
    open,          \* the receivers that are alive
    cancelled,     \* CancelToken.cancelled
    canceller,     \* the call of cancel(): "idle", "storing", "done"
    woken,         \* the task's Notified future has been notified
    socket,        \* external: frames received and not yet read
    nextSeq,       \* external: the next sequence number of the feed
    read,          \* history: messages read off the socket
    got            \* history: messages the consumer received

channels == <<messages, confirmations, errors>>
task == <<pc, backoff, batch, conf>>
token == <<cancelled, canceller, woken>>
feed == <<socket, nextSeq>>
vars == <<task, channels, open, token, feed, read, got>>

Init ==
    /\ pc = "spawn" /\ backoff = InitialBackoff /\ batch = <<>> /\ conf = 0
    /\ messages = <<>> /\ confirmations = <<>> /\ errors = 0
    /\ open = Channel
    /\ cancelled = FALSE /\ canceller = "idle" /\ woken = FALSE
    /\ socket = <<>> /\ nextSeq = 1
    /\ read = <<>> /\ got = <<>>
-----------------------------------------------------------------------------
(* run_loop *)

\* mpsc::channel refuses a capacity of zero.
Spawn ==
    /\ pc = "spawn"
    /\ pc' = IF 0 \in {MsgCapacity, ConfCapacity, ErrCapacity} THEN "panicked" ELSE "top"
    /\ UNCHANGED <<backoff, batch, conf, channels, open, token, feed, read, got>>

\* Mutant: the loop does not look at the token before it reconnects.
LoopHeadUnchecked ==
    /\ pc = "top"
    /\ pc' = "connect"
    /\ UNCHANGED <<backoff, batch, conf, channels, open, token, feed, read, got>>

LoopHead ==
    /\ pc = "top"
    /\ pc' = IF cancelled THEN "stopped" ELSE "connect"
    /\ UNCHANGED <<backoff, batch, conf, channels, open, token, feed, read, got>>

\* errors.try_send: dropped when the channel is full or its receiver is gone.
Report == errors' = IF "errors" \in open /\ errors < ErrCapacity THEN errors + 1 ELSE errors

\* connect_once returns Err: report and sleep.
Fail ==
    /\ Report
    /\ pc' = "sleep" /\ batch' = <<>> /\ conf' = 0
    /\ UNCHANGED backoff

\* connect_once returns Ok: the next attempt is immediate.
Disconnect ==
    /\ pc' = "top" /\ backoff' = InitialBackoff
    /\ UNCHANGED <<batch, conf, errors>>

ConnectOk ==
    /\ pc = "connect"
    /\ pc' = "poll"
    /\ socket' = <<>>
    /\ UNCHANGED <<backoff, batch, conf, channels, open, token, nextSeq, read, got>>

ConnectFails ==
    /\ pc = "connect"
    /\ Fail
    /\ UNCHANGED <<messages, confirmations, open, token, feed, read, got>>

\* tokio::time::sleep(backoff) is over.
SleepOver ==
    /\ pc = "sleepWait"
    /\ pc' = "top"
    /\ backoff' = IF 2 * backoff < MaxBackoff THEN 2 * backoff ELSE MaxBackoff
    /\ UNCHANGED <<batch, conf, channels, open, token, feed, read, got>>
-----------------------------------------------------------------------------
(* CancelToken *)

\* The cancel arm of either select!: leave the connection, or the loop.
Quit ==
    \/ pc \in {"poll", "wait"} /\ Disconnect
    \/ pc \in {"sleep", "sleepWait"} /\ pc' = "stopped" /\ UNCHANGED <<backoff, batch, conf, errors>>

\* cancelled(): the load of the flag, and the creation of the Notified.
CheckFlag ==
    /\ pc \in {"poll", "sleep"}
    /\ IF cancelled
       THEN Quit
       ELSE /\ pc' = IF pc = "poll" THEN "register" ELSE "sleepRegister"
            /\ UNCHANGED <<backoff, batch, conf, errors>>
    /\ UNCHANGED <<messages, confirmations, open, token, feed, read, got>>

Register ==
    /\ pc \in {"register", "sleepRegister"}
    /\ pc' = IF pc = "register" THEN "wait" ELSE "sleepWait"
    /\ woken' = FALSE
    /\ UNCHANGED <<backoff, batch, conf, channels, open, cancelled, canceller, feed, read, got>>

Notified ==
    /\ pc \in {"wait", "sleepWait"} /\ woken
    /\ Quit
    /\ UNCHANGED <<messages, confirmations, open, token, feed, read, got>>

\* cancel(): the store, and notify_waiters.
Store ==
    /\ canceller = "idle"
    /\ Parallel \/ pc \notin {"register", "sleepRegister"}
    /\ cancelled' = TRUE /\ canceller' = "storing"
    /\ UNCHANGED <<task, channels, open, woken, feed, read, got>>

NotifyWaiters ==
    /\ canceller = "storing"
    /\ canceller' = "done"
    /\ woken' = (pc \in {"wait", "sleepWait"})
    /\ UNCHANGED <<task, channels, open, cancelled, feed, read, got>>
-----------------------------------------------------------------------------
(* connect_once: the frame arm of the select!; dispatch_envelope *)

\* parse_envelope rejects what is no envelope, and the empty envelope.
Parses(frame) == frame.msgs # <<>> \/ frame.conf # 0

TakeFrame ==
    /\ pc \in {"poll", "wait"} /\ socket # <<>>
    /\ socket' = Tail(socket)
    /\ LET frame == Head(socket) IN
       \/ /\ frame.kind = "data" /\ Parses(frame)
          /\ read' = read \o frame.msgs
          /\ batch' = frame.msgs /\ conf' = frame.conf
          /\ pc' = "dispatch"
          /\ UNCHANGED <<backoff, errors>>
       \/ /\ frame.kind = "data" /\ ~Parses(frame)
          /\ Report
          /\ pc' = "poll"
          /\ UNCHANGED <<backoff, batch, conf, read>>
       \/ /\ frame.kind \in {"ping", "pong"}
          /\ pc' = "poll"
          /\ UNCHANGED <<backoff, batch, conf, errors, read>>
       \/ /\ frame.kind \in {"ping", "error"}     \* the pong may fail
          /\ Fail
          /\ UNCHANGED read
       \/ /\ frame.kind = "close"
          /\ Disconnect
          /\ UNCHANGED read
    /\ UNCHANGED <<messages, confirmations, open, token, nextSeq, got>>

\* Mutant: try_send instead of send.
ForwardMessageTry ==
    /\ pc = "dispatch" /\ batch # <<>>
    /\ batch' = Tail(batch)
    /\ messages' = IF Len(messages) < MsgCapacity THEN Append(messages, Head(batch)) ELSE messages
    /\ UNCHANGED <<pc, backoff, conf, confirmations, errors, open, token, feed, read, got>>

\* messages.send(m).await: waits for room, fails without a receiver.
ForwardMessage ==
    /\ pc = "dispatch" /\ batch # <<>>
    /\ \/ /\ "messages" \in open /\ Len(messages) < MsgCapacity
          /\ messages' = Append(messages, Head(batch))
          /\ batch' = Tail(batch)
          /\ UNCHANGED <<pc, backoff, conf, errors>>
       \/ /\ "messages" \notin open
          /\ Fail
          /\ UNCHANGED messages
    /\ UNCHANGED <<confirmations, open, token, feed, read, got>>

\* Mutant: the confirmation overtakes the messages of its envelope.
ForwardConfirmationFirst ==
    /\ pc = "dispatch"
    /\ confirmations' = IF conf # 0 /\ "confirmations" \in open /\ Len(confirmations) < ConfCapacity
                        THEN Append(confirmations, conf) ELSE confirmations
    /\ pc' = IF batch = <<>> THEN "poll" ELSE "dispatch"
    /\ conf' = 0
    /\ UNCHANGED <<backoff, batch, messages, errors, open, token, feed, read, got>>

\* confirmations.try_send, after the last message.
ForwardConfirmation ==
    /\ pc = "dispatch" /\ batch = <<>>
    /\ confirmations' = IF conf # 0 /\ "confirmations" \in open /\ Len(confirmations) < ConfCapacity
                        THEN Append(confirmations, conf) ELSE confirmations
    /\ pc' = "poll" /\ conf' = 0
    /\ UNCHANGED <<backoff, batch, messages, errors, open, token, feed, read, got>>
-----------------------------------------------------------------------------
(* The consumer, and the feed (external) *)

Receive ==
    /\ "messages" \in open /\ messages # <<>>
    /\ got' = Append(got, Head(messages))
    /\ messages' = Tail(messages)
    /\ UNCHANGED <<task, confirmations, errors, open, token, feed, read>>

ReceiveConfirmation ==
    /\ "confirmations" \in open /\ confirmations # <<>>
    /\ confirmations' = Tail(confirmations)
    /\ UNCHANGED <<task, messages, errors, open, token, feed, read, got>>

ReceiveError ==
    /\ "errors" \in open /\ errors > 0
    /\ errors' = errors - 1
    /\ UNCHANGED <<task, messages, confirmations, open, token, feed, read, got>>

DropReceiver(c) ==
    /\ c \in open
    /\ open' = open \ {c}
    /\ UNCHANGED <<task, channels, token, feed, read, got>>

Connected == pc \in {"poll", "register", "wait", "dispatch"}

Frame(kind, msgs, c) == [kind |-> kind, msgs |-> msgs, conf |-> c]

\* The feed numbers its messages, and confirms what it has sent.  Nobody
\* asks it to repeat what was broadcast while nobody was connected.
Broadcast(n, confirm) ==
    /\ nextSeq + n <= MaxSeq + 1
    /\ nextSeq' = nextSeq + n
    /\ IF Connected
       THEN /\ Len(socket) < MaxFrames
            /\ socket' = Append(socket, Frame("data", [i \in 1..n |-> nextSeq + i - 1],
                                              IF confirm THEN nextSeq + n - 1 ELSE 0))
       ELSE UNCHANGED socket
    /\ UNCHANGED <<task, channels, open, token, read, got>>

Control(kind) ==
    /\ Connected /\ Len(socket) < MaxFrames
    /\ socket' = Append(socket, Frame(kind, <<>>, 0))
    /\ UNCHANGED <<task, channels, open, token, nextSeq, read, got>>
-----------------------------------------------------------------------------
\* On one thread, cancel() runs to its end before the task is polled again.
Polled == Parallel \/ canceller # "storing"

Task ==
    \/ Spawn \/ LoopHead \/ ConnectOk \/ ConnectFails \/ SleepOver
    \/ CheckFlag \/ Register \/ Notified
    \/ TakeFrame \/ ForwardMessage \/ ForwardConfirmation

Consumer ==
    Receive \/ ReceiveConfirmation \/ ReceiveError \/ \E c \in Channel : DropReceiver(c)

Feed ==
    \/ \E n \in 0..MaxBatch, confirm \in BOOLEAN : Broadcast(n, confirm)
    \/ \E kind \in {"ping", "pong", "error", "close"} : Control(kind)

Done == pc \in {"stopped", "panicked"} /\ UNCHANGED vars

Next == (Polled /\ Task) \/ Store \/ NotifyWaiters \/ Consumer \/ Feed \/ Done

\* tokio polls a task that can run, and select! tries its arms in random
\* order: an arm that is ready again and again is taken in the end.  The
\* consumer keeps reading its messages; the feed owes nothing.
Spec ==
    /\ Init /\ [][Next]_vars
    /\ WF_vars(Polled /\ Task)
    /\ SF_vars(Polled /\ CheckFlag) /\ SF_vars(Polled /\ Notified)
    /\ WF_vars(NotifyWaiters) /\ WF_vars(Receive)
-----------------------------------------------------------------------------
(* Properties *)

\* Back-pressure loses and reorders nothing: as long as somebody may still
\* receive, what came off the socket is what was received, is in the channel
\* or is about to be forwarded, in that order.
NothingReordered ==
    "messages" \in open => read = got \o messages \o batch

\* A consumer that sees a confirmation can already receive every message the
\* subscriber read up to it.
ConfirmedIsForwarded ==
    \A c \in Range(confirmations) :
        c \in Range(read) /\ "messages" \in open => c \in Range(got \o messages)

\* A cancelled subscriber stops: in the middle of a connection, of an
\* envelope or of a backoff, however busy or broken the feed is.
CancelStops == cancelled ~> pc = "stopped"
=============================================================================

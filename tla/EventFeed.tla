------------------------------ MODULE EventFeed ------------------------------
(***************************************************************************)
(* The path of a pool's state into the simulation cache: the log subscriber *)
(* (ws.rs) forwards logs to a decoding task (sync_event::decode_log), which *)
(* feeds the batcher (feed.rs), whose batches are applied to the cache.     *)
(* The comments of the three files name these connections; the decoding     *)
(* task itself is the embedding program's.                                 *)
(***************************************************************************)
EXTENDS LogSubscriber, SequenceOps

CONSTANTS
    Pool,        \* the registered pools
    PoolOf,      \* PoolOf[n]: the pool that emits log n
    Undecoded,   \* the logs decode_log has no state for
    InCapacity,  \* slots of the event channel
    OutCapacity  \* slots of the batch channel

ASSUME FeedAssumption ==
    /\ PoolOf \in [1..MaxLog -> Pool] /\ Undecoded \subseteq 1..MaxLog
    /\ InCapacity \in Nat \ {0} /\ OutCapacity \in Nat \ {0}

VARIABLES
    batcher, buffer, due, rx, upstream, batches, downstream, sent, applied  \* see Batcher

batcherVars == <<batcher, buffer, due, rx, upstream, batches, downstream, sent, applied>>

B == INSTANCE Batcher WITH pc <- batcher, tx <- batches, MaxEvents <- MaxLog

allVars == <<vars, batcherVars>>

\* decode_log: the pool state a log carries, if it carries one.
decode_log(n) == n \notin Undecoded

\* The logs the decoding task passed on, in order: event i is Events[i].
Events == Only(got, {n \in 1..MaxLog : decode_log(n)})

FeedInit == Init /\ B!Init

\* The decoding task receives a log and sends what it decodes.
Decode ==
    /\ Receive
    /\ IF decode_log(Head(tx)) THEN B!Produce ELSE UNCHANGED batcherVars

\* The decoding task ends, because its send failed or it was stopped: both
\* of its channels close.
DecoderEnds == DropReceiver /\ B!CloseUpstream

Outside == EmitLog \/ LoseConnection

Done == pc = "returned" /\ batcher = "stopped" /\ UNCHANGED allVars

FeedNext ==
    \/ (Task \/ Outside) /\ UNCHANGED batcherVars
    \/ (B!Task \/ B!Window \/ B!Consume \/ B!CloseDownstream) /\ UNCHANGED vars
    \/ Decode \/ DecoderEnds
    \/ Done

FeedSpec ==
    /\ FeedInit /\ [][FeedNext]_allVars
    /\ Fairness /\ B!Fairness /\ WF_allVars(Decode)
-----------------------------------------------------------------------------
(* Properties *)

\* Batcher's promise, with a decoding task in front of it that may stop.
BatchesKeepEvents == B!NothingLost

\* The log whose state the cache holds for pool p; 0: none yet.
Cached(p) ==
    LET mine == Only(applied, {i \in DOMAIN Events : PoolOf[Events[i]] = p})
    IN  IF mine = <<>> THEN 0 ELSE Events[mine[Len(mine)]]

\* The cached state of a pool never goes back to an older log, whatever is
\* reconnected, delayed or batched on the way.
CacheMovesForward ==
    [][\A p \in Pool : Cached(p)' >= Cached(p)]_allVars

\* Every state-bearing log a subscription delivered is in the cache in the
\* end, or was replaced there by a later one, unless a consumer went away.
EveryLogApplied ==
    \A n \in 1..MaxLog :
        n \in Range(matched) /\ decode_log(n) ~> Cached(PoolOf[n]) >= n \/ ~open \/ ~downstream
=============================================================================

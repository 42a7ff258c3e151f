----------------------------- MODULE LogFetcher -----------------------------
(***************************************************************************)
(* rust/src/provider.rs: fetch_logs_chunked splits a block range into      *)
(* requests of at most ChunkSize blocks; retry_with_backoff repeats a      *)
(* request that failed.  The node is external: its head moves, it answers  *)
(* with the logs of the blocks it has, or with an error.  Every block has  *)
(* one log, named by the block's number.                                   *)
(***************************************************************************)
EXTENDS Integers, Sequences

CONSTANTS U64Max,
          ChunkSizes,    \* values of max_blocks_per_request
          MaxRetries,    \* max_retries
          Heads          \* blocks the node may have while a fetch runs

ASSUME FetchAssumption ==
    /\ U64Max \in Nat /\ ChunkSizes \subseteq 0 .. U64Max
    /\ MaxRetries \in Nat /\ Heads \subseteq 0 .. U64Max - 1

VARIABLES fetch,         \* "start", "chunk", "request", "sleep", "ok" or "err"
          range,         \* arguments: from, to, and the fetcher's chunk size
          current,       \* current_block
          chunkEnd,      \* chunk_end
          attempt,       \* of the present request
          logs,          \* all_logs
          head,          \* the node's latest block
          headAtStart    \* and what it was when the fetch began

fetchVars == <<fetch, range, current, chunkEnd, attempt, logs, head, headAtStart>>

U64(v) == v % (U64Max + 1)

FetchInit(blocks, chunks) ==
    /\ fetch = "start"
    /\ range \in [from : blocks, to : blocks, chunk : chunks]
    /\ current = 0 /\ chunkEnd = 0 /\ attempt = 0
    /\ logs = <<>>
    /\ head \in blocks
    /\ headAtStart = head

FetchStart ==
    /\ fetch = "start"
    /\ IF range.from > range.to THEN fetch' = "err" /\ UNCHANGED current
                                ELSE fetch' = "chunk" /\ current' = range.from
    /\ headAtStart' = head
    /\ UNCHANGED <<range, chunkEnd, attempt, logs, head>>

\* Mutant: the last chunk is not cut at the end of the range.
ChunkEndUncut == U64(current + range.chunk - 1)

(* In a release build the additions wrap; LogFilter::new refuses the empty *)
(* range a chunk size of zero leads to.                                    *)
ChunkEnd == LET last == U64(current + range.chunk - 1)
            IN  IF last < range.to THEN last ELSE range.to

NextChunk ==
    /\ fetch = "chunk"
    /\ IF current > range.to
       THEN fetch' = "ok" /\ UNCHANGED <<chunkEnd, attempt>>
       ELSE IF current > ChunkEnd
       THEN fetch' = "err" /\ UNCHANGED <<chunkEnd, attempt>>
       ELSE fetch' = "request" /\ chunkEnd' = ChunkEnd /\ attempt' = 0
    /\ UNCHANGED <<range, current, logs, head, headAtStart>>

Blocks(first, last) == [k \in 1 .. last - first + 1 |-> first + k - 1]

(* eth_getLogs succeeds: the logs of the blocks that exist by now.         *)
Answer ==
    /\ fetch = "request"
    /\ logs' = logs \o Blocks(current, IF chunkEnd < head THEN chunkEnd ELSE head)
    /\ current' = U64(chunkEnd + 1)
    /\ fetch' = "chunk"
    /\ UNCHANGED <<range, chunkEnd, attempt, head, headAtStart>>

\* Mutant: the attempts are not counted.
RefuseUncounted(retryable) ==
    /\ fetch = "request"
    /\ fetch' = IF attempt + 1 >= MaxRetries \/ ~retryable THEN "err" ELSE "sleep"
    /\ UNCHANGED <<range, current, chunkEnd, attempt, logs, head, headAtStart>>

(* It fails, with an error that is retried or one that is not.             *)
Refuse(retryable) ==
    /\ fetch = "request"
    /\ attempt' = attempt + 1
    /\ fetch' = IF attempt + 1 >= MaxRetries \/ ~retryable THEN "err" ELSE "sleep"
    /\ UNCHANGED <<range, current, chunkEnd, logs, head, headAtStart>>

Wake ==
    /\ fetch = "sleep"
    /\ fetch' = "request"
    /\ UNCHANGED <<range, current, chunkEnd, attempt, logs, head, headAtStart>>

(* external: the chain grows. *)
Mine ==
    /\ head + 1 \in Heads
    /\ head' = head + 1
    /\ UNCHANGED <<fetch, range, current, chunkEnd, attempt, logs, headAtStart>>

FetchStep == FetchStart \/ NextChunk \/ Answer \/ Wake
             \/ \E retryable \in BOOLEAN : Refuse(retryable)

FetchNext == FetchStep \/ Mine

FetchSpec == FetchInit(Heads, ChunkSizes) /\ [][FetchNext]_fetchVars

FetchFairness == WF_fetchVars(FetchStep)
-----------------------------------------------------------------------------
(* The logs of a fetch that succeeds are in block order, none is there     *)
(* twice, none is from outside the range, and none is missing of a block   *)
(* the node had when the fetch began: the chunks meet without a gap or an  *)
(* overlap, and a request that was repeated is counted once.               *)
FetchedOnce ==
    fetch = "ok" =>
        /\ \A k \in 1 .. Len(logs) : logs[k] \in range.from .. range.to
        /\ \A k \in 1 .. Len(logs) - 1 : logs[k] < logs[k + 1]
        /\ \A n \in range.from .. range.to :
               n <= headAtStart => \E k \in 1 .. Len(logs) : logs[k] = n

(* A fetch ends, with logs or with an error, however often the node        *)
(* refuses: retries are bounded and every answer moves the range on.       *)
FetchConcludes == (fetch = "chunk") ~> (fetch \in {"ok", "err"})
=============================================================================

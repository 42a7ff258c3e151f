----------------------------- MODULE LiveBackend -----------------------------
(***************************************************************************)
(* The live implementation of ExecutorBackend (rust/src/executor/mod.rs),   *)
(* with its pending-nonce cache (nonce.rs), lane endpoints (lane.rs) and    *)
(* inclusion watch (inclusion.rs).  For each Plan: read the profit balance, *)
(* take a nonce from the cache or refresh the cache under a lock, send the  *)
(* transaction, and watch for its receipt, for its nonce being used up, or  *)
(* for the deadline.                                                       *)
(*                                                                         *)
(* Every RPC is a step of its own, taken when the node evaluates it.  The   *)
(* nodes and the chain are external: they are modelled from how the calls   *)
(* are used.                                                               *)
(***************************************************************************)
EXTENDS Integers, Sequences, FiniteSets, Functions

CONSTANTS
    Plan,          \* the Plans passed to the backend
    LaneOf,        \* LaneOf[p]: Plan p's submission_lane
    Deadline,      \* Deadline[p]: its deadline_ms
    Effect,        \* Effect[p]: what its transaction does to the profit balance
    Configured,    \* the lanes with an endpoint of their own
    Sequential,    \* one actor calls the backend, one Plan at a time
    TTL,           \* NONCE_CACHE_TTL_MS
    Evictable,     \* the transactions a mempool may forget
    MaxForeign,    \* bound: transactions the account sends by other means
    MaxNonce,      \* bound: nonces
    MaxTime        \* bound: last tick of the clock

Lane == {"Default", "PrivateRelay", "Kairos", "Timeboost"}
Foreign == "foreign"
None == -1

ASSUME LaneAssumption ==
    LaneOf \in [Plan -> Lane] /\ Configured \subseteq Lane \ {"Default"} /\ Foreign \notin Plan
ASSUME PlanAssumption ==
    /\ Deadline \in [Plan -> Nat] /\ Effect \in [Plan -> Int]
    /\ Sequential \in BOOLEAN /\ Evictable \subseteq Plan
ASSUME BoundAssumption ==
    TTL \in Nat /\ MaxForeign \in Nat /\ MaxNonce \in Nat /\ MaxTime \in Nat

VARIABLES
    now,        \* the clock
    cache,      \* PendingNonceCache: pending (or None), last_refresh
    lock,       \* who holds nonce_refresh: a set of at most one Plan
    submitted,  \* the Plans with a SubmittedTxContext
    pc,         \* where each Plan is in sign_and_submit and await_inclusion
    nonce,      \* the nonce each Plan took
    seen,       \* the pending count read from RPC, and when the read began
    pre,        \* pre_submit_balance
    outcome,    \* what the backend returned
    delta,      \* realized_balance_delta
    chain,      \* external: the account's mined transactions; position n+1 has nonce n
    reverted,   \* external: the mined transactions that reverted
    pool,       \* external: each endpoint's pending transactions
    balance,    \* external: the profit balance
    sent        \* history: transactions some node accepted

backend == <<cache, lock, submitted, pc, nonce, seen, pre, outcome, delta>>
world == <<chain, reverted, pool, balance, sent>>
vars == <<now, backend, world>>

\* LaneProviderSet::provider_for: lanes without an endpoint use the default.
provider_for(lane) == IF lane \in Configured THEN lane ELSE "Default"
Endpoint(p) == provider_for(LaneOf[p])

Active == {p \in Plan : pc[p] \notin {"idle", "done"}}

Init ==
    /\ now = 0
    /\ cache = [pending |-> None, last_refresh |-> 0]
    /\ lock = {}
    /\ submitted = {}
    /\ pc = [p \in Plan |-> "idle"]
    /\ nonce = [p \in Plan |-> None]
    /\ seen = [p \in Plan |-> [count |-> 0, at |-> 0]]
    /\ pre = [p \in Plan |-> 0]
    /\ outcome = [p \in Plan |-> "Pending"]
    /\ delta = [p \in Plan |-> 0]
    /\ chain = <<>> /\ reverted = {} /\ balance = 0 /\ sent = {}
    /\ pool = [e \in Lane |-> {}]

Goto(p, l) == pc' = [pc EXCEPT ![p] = l]

Return(p, o) ==
    /\ Goto(p, "done")
    /\ outcome' = [outcome EXCEPT ![p] = o]
-----------------------------------------------------------------------------
(* sign_and_submit *)

Start(p) ==
    /\ pc[p] = "idle"
    /\ Sequential => Active = {}
    /\ Goto(p, "balance")
    /\ UNCHANGED <<now, cache, lock, submitted, nonce, seen, pre, outcome, delta, world>>

\* Mutant: pre_submit_balance is never filled in.
ReadPreBalanceUnused(p) ==
    /\ pc[p] = "balance"
    /\ Goto(p, "nonce")
    /\ UNCHANGED <<now, cache, lock, submitted, nonce, seen, pre, outcome, delta, world>>

\* read_profit_balance before the submission
ReadPreBalance(p) ==
    /\ pc[p] = "balance"
    /\ \/ /\ pre' = [pre EXCEPT ![p] = balance]
          /\ Goto(p, "nonce")
          /\ UNCHANGED outcome
       \/ /\ Return(p, "NotSent")
          /\ UNCHANGED pre
    /\ UNCHANGED <<now, cache, lock, submitted, nonce, seen, delta, world>>

Fresh(c) == c.pending # None /\ now - c.last_refresh <= TTL

\* Mutant: the nonce is handed out without being counted up.
TakeWithoutIncrement(p, c) ==
    /\ nonce' = [nonce EXCEPT ![p] = c.pending]
    /\ cache' = c

\* take_and_increment_if_fresh, when it returns a nonce
Take(p, c) ==
    /\ nonce' = [nonce EXCEPT ![p] = c.pending]
    /\ cache' = [pending |-> c.pending + 1, last_refresh |-> c.last_refresh]

\* take_and_increment_if_fresh, when it returns None: stale state is cleared.
Forget(c) == cache' = [pending |-> None, last_refresh |-> c.last_refresh]

TryCache(p) ==
    /\ pc[p] = "nonce"
    /\ \/ Fresh(cache) /\ Take(p, cache) /\ Goto(p, "send")
       \/ ~Fresh(cache) /\ Forget(cache) /\ Goto(p, "lock") /\ UNCHANGED nonce
    /\ UNCHANGED <<now, lock, submitted, seen, pre, outcome, delta, world>>

\* Mutant: the cache is refreshed without the lock.
LockRefreshUnguarded(p) ==
    /\ pc[p] = "lock"
    /\ \/ /\ Fresh(cache) /\ Take(p, cache)
          /\ Goto(p, "send")
          /\ UNCHANGED <<lock, seen>>
       \/ /\ ~Fresh(cache) /\ Forget(cache)
          /\ lock' = {p}
          /\ seen' = [seen EXCEPT ![p] = [count |-> @.count, at |-> now]]
          /\ Goto(p, "refresh")
          /\ UNCHANGED nonce
    /\ UNCHANGED <<now, submitted, pre, outcome, delta, world>>

\* Mutant: the cache is not looked at again under the lock.
LockRefreshOneLook(p) ==
    /\ pc[p] = "lock" /\ lock = {}
    /\ lock' = {p}
    /\ seen' = [seen EXCEPT ![p] = [count |-> @.count, at |-> now]]
    /\ Goto(p, "refresh")
    /\ UNCHANGED <<now, cache, nonce, submitted, pre, outcome, delta, world>>

\* The refresh lock is free: try the cache again, then ask the endpoint.
LockRefresh(p) ==
    /\ pc[p] = "lock" /\ lock = {}
    /\ \/ /\ Fresh(cache) /\ Take(p, cache)
          /\ Goto(p, "send")
          /\ UNCHANGED <<lock, seen>>
       \/ /\ ~Fresh(cache) /\ Forget(cache)
          /\ lock' = {p}
          /\ seen' = [seen EXCEPT ![p] = [count |-> @.count, at |-> now]]
          /\ Goto(p, "refresh")
          /\ UNCHANGED nonce
    /\ UNCHANGED <<now, submitted, pre, outcome, delta, world>>

\* eth_getTransactionCount(addr, "pending"): the first nonce from the mined
\* count on that no transaction pending at this endpoint uses.
IsPending(e, n) ==
    /\ n >= Len(chain)
    /\ \A k \in Len(chain)..(n - 1) : \E q \in pool[e] : nonce[q] = k
    /\ \A q \in pool[e] : nonce[q] # n

ReadPendingCount(p) ==
    /\ pc[p] = "refresh"
    /\ \E n \in 0..MaxNonce :
          /\ IsPending(Endpoint(p), n)
          /\ seen' = [seen EXCEPT ![p] = [count |-> n, at |-> @.at]]
    /\ Goto(p, "prime")
    /\ UNCHANGED <<now, cache, lock, submitted, nonce, pre, outcome, delta, world>>

PendingCountFails(p) ==
    /\ pc[p] = "refresh"
    /\ Return(p, "NotSent")
    /\ lock' = {}
    /\ UNCHANGED <<now, cache, submitted, nonce, seen, pre, delta, world>>

\* prime: what the endpoint answered goes into the cache.
Prime(p) ==
    /\ pc[p] = "prime"
    /\ cache' = [pending |-> seen[p].count, last_refresh |-> seen[p].at]
    /\ Goto(p, "take")
    /\ UNCHANGED <<now, lock, submitted, nonce, seen, pre, outcome, delta, world>>

\* take_and_increment_if_fresh after prime; the lock is released on return.
\* Another Plan may have taken a nonce or cleared the cache in between.
TakePrimed(p) ==
    /\ pc[p] = "take"
    /\ lock' = {}
    /\ \/ Fresh(cache) /\ Take(p, cache) /\ Goto(p, "send") /\ UNCHANGED outcome
       \/ ~Fresh(cache) /\ Forget(cache) /\ Return(p, "NotSent") /\ UNCHANGED nonce
    /\ UNCHANGED <<now, submitted, seen, pre, delta, world>>

\* The node accepts: it may replace a pending transaction of the same nonce.
\* The answer may be lost: then the code sees an error and clears the cache.
Accepted(p) ==
    /\ nonce[p] >= Len(chain)
    /\ pool' = [pool EXCEPT ![Endpoint(p)] = {q \in @ : nonce[q] # nonce[p]} \cup {p}]
    /\ sent' = sent \cup {p}
    /\ UNCHANGED <<chain, reverted, balance>>

\* PendingNonceCache::clear
Clear == cache' = [pending |-> None, last_refresh |-> 0]

SendAccepted(p) ==
    /\ pc[p] = "send"
    /\ Accepted(p)
    /\ submitted' = submitted \cup {p}
    /\ Goto(p, "watch")
    /\ UNCHANGED <<now, cache, lock, nonce, seen, pre, outcome, delta>>

SendUnanswered(p) ==
    /\ pc[p] = "send"
    /\ Accepted(p)
    /\ Clear
    /\ Return(p, "NotSent")
    /\ UNCHANGED <<now, lock, submitted, nonce, seen, pre, delta>>

\* Mutant: a rejected send leaves the cache alone.
SendRejectedKeepsCache(p) ==
    /\ pc[p] = "send"
    /\ Return(p, "NotSent")
    /\ UNCHANGED <<now, cache, lock, submitted, nonce, seen, pre, delta, world>>

SendRejected(p) ==
    /\ pc[p] = "send"
    /\ Clear
    /\ Return(p, "NotSent")
    /\ UNCHANGED <<now, lock, submitted, nonce, seen, pre, delta, world>>
-----------------------------------------------------------------------------
(* await_inclusion, watch_internal *)

\* Mutant: the poll loop has no deadline.
WatchForever(p) ==
    /\ pc[p] = "watch"
    /\ Goto(p, "receipt")
    /\ UNCHANGED <<now, cache, lock, submitted, nonce, seen, pre, outcome, delta, world>>

\* The head of the loop, and the deadline arm of the wait between polls.
WatchDeadline(p) ==
    /\ pc[p] = "watch"
    /\ \/ /\ now >= Deadline[p]
          /\ Return(p, "Dropped")
          /\ submitted' = submitted \ {p}
       \/ /\ now < Deadline[p]
          /\ Goto(p, "receipt")
          /\ UNCHANGED <<submitted, outcome>>
    /\ UNCHANGED <<now, cache, lock, nonce, seen, pre, delta, world>>

CheckReceipt(p) ==
    /\ pc[p] = "receipt"
    /\ IF p \in Range(chain) THEN Goto(p, "post") ELSE Goto(p, "count")
    /\ UNCHANGED <<now, cache, lock, submitted, nonce, seen, pre, outcome, delta, world>>

CheckReplacement(p) ==
    /\ pc[p] = "count"
    /\ \/ /\ Len(chain) > nonce[p]
          /\ Return(p, "Replaced")
          /\ submitted' = submitted \ {p}
       \/ /\ Len(chain) <= nonce[p]
          /\ Goto(p, "watch")
          /\ UNCHANGED <<submitted, outcome>>
    /\ UNCHANGED <<now, cache, lock, nonce, seen, pre, delta, world>>

ReadPostBalance(p) ==
    /\ pc[p] = "post"
    /\ delta' = [delta EXCEPT ![p] = balance - pre[p]]
    /\ Return(p, "Mined")
    /\ submitted' = submitted \ {p}
    /\ UNCHANGED <<now, cache, lock, nonce, seen, pre, world>>

\* Any RPC of the watch fails: the error returns past the removal.
WatchFails(p) ==
    /\ pc[p] \in {"receipt", "count", "post"}
    /\ Return(p, "WatchError")
    /\ UNCHANGED <<now, cache, lock, submitted, nonce, seen, pre, delta, world>>
-----------------------------------------------------------------------------
(* external: the account's nonce sequence on the chain *)

\* Transactions that lost their nonce leave every pool.
Include(tx) ==
    /\ Len(chain) < MaxNonce
    /\ chain' = Append(chain, tx)
    /\ pool' = [e \in Lane |-> {q \in pool[e] : nonce[q] # Len(chain)}]
    /\ UNCHANGED <<now, backend, sent>>

Mine(p) ==
    /\ \E e \in Lane : p \in pool[e]
    /\ nonce[p] = Len(chain)
    /\ Include(p)
    /\ \/ balance' = balance + Effect[p] /\ UNCHANGED reverted
       \/ reverted' = reverted \cup {p} /\ UNCHANGED balance

\* What the account sends by other means uses up nonces; it is assumed to
\* leave the balance of the profit token alone.
MineForeign ==
    /\ Cardinality({n \in DOMAIN chain : chain[n] = Foreign}) < MaxForeign
    /\ Include(Foreign)
    /\ UNCHANGED <<reverted, balance>>

Evict(p) ==
    /\ p \in Evictable
    /\ \E e \in Lane :
          /\ p \in pool[e]
          /\ pool' = [pool EXCEPT ![e] = @ \ {p}]
    /\ UNCHANGED <<now, backend, chain, reverted, balance, sent>>

Tick ==
    /\ now < MaxTime
    /\ now' = now + 1
    /\ UNCHANGED <<backend, world>>
-----------------------------------------------------------------------------
Step(p) ==
    \/ ReadPreBalance(p) \/ TryCache(p) \/ LockRefresh(p)
    \/ ReadPendingCount(p) \/ PendingCountFails(p)
    \/ Prime(p) \/ TakePrimed(p)
    \/ SendAccepted(p) \/ SendUnanswered(p) \/ SendRejected(p)
    \/ WatchDeadline(p) \/ CheckReceipt(p) \/ CheckReplacement(p)
    \/ ReadPostBalance(p) \/ WatchFails(p)

Finished == (\A p \in Plan : pc[p] = "done") /\ UNCHANGED vars

Next ==
    \/ \E p \in Plan : Start(p) \/ Step(p) \/ Mine(p) \/ Evict(p)
    \/ MineForeign \/ Tick \/ Finished

\* Calls return, the lock goes to whoever waits for it, time passes.  Nobody
\* owes the backend a Plan, nor the chain a block.
Spec ==
    /\ Init /\ [][Next]_vars
    /\ WF_vars(Tick)
    /\ \A p \in Plan : WF_vars(Step(p))
-----------------------------------------------------------------------------
(* Properties *)

Outcome == {"Pending", "NotSent", "Mined", "Replaced", "Dropped", "WatchError"}
Place == {"idle", "balance", "nonce", "lock", "refresh", "prime", "take", "send",
          "watch", "receipt", "count", "post", "done"}

\* Types; and the refresh lock is held exactly while its holder talks to the
\* endpoint, so that no two Plans refresh the cache at once.
TypeOK ==
    /\ now \in Nat
    /\ cache \in [pending : Nat \cup {None}, last_refresh : Nat]
    /\ lock = {p \in Plan : pc[p] \in {"refresh", "prime", "take"}}
    /\ \A p, q \in lock : p = q
    /\ submitted \subseteq Plan
    /\ pc \in [Plan -> Place]
    /\ nonce \in [Plan -> Nat \cup {None}]
    /\ seen \in [Plan -> [count : Nat, at : Nat]]
    /\ pre \in [Plan -> Int] /\ delta \in [Plan -> Int] /\ balance \in Int
    /\ outcome \in [Plan -> Outcome]
    /\ chain \in Seq(Plan \cup {Foreign}) /\ reverted \subseteq Plan /\ sent \subseteq Plan
    /\ pool \in [Lane -> SUBSET Plan]

\* Concurrent submissions, on any lanes: those that find the cache empty queue
\* for the lock, one of them refreshes it, and the second look sends the others
\* to the refreshed cache.  Until the cache can first expire or a send fails,
\* no two Plans hold the same nonce, although the endpoints know of none.
ConcurrentNonces ==
    now <= TTL /\ (\A p \in Plan : nonce[p] # None => outcome[p] # "NotSent") =>
        \A p, q \in Plan : p # q /\ nonce[p] # None => nonce[p] # nonce[q]

\* No two transactions the backend put on the network carry the same nonce:
\* the cache and its refresh never make the executor replace its own work.
NonceUnique ==
    \A p, q \in sent : p # q => nonce[p] # nonce[q]

\* A transaction is never sent above a nonce that nothing will fill, where it
\* would wait forever: every lower nonce is mined or pending at its endpoint.
GapFree ==
    \A p \in Plan : pc[p] = "send" =>
        \A n \in Len(chain)..(nonce[p] - 1) : \E q \in pool[Endpoint(p)] : nonce[q] = n

\* The transaction of p went out but the backend gave up on it.
Abandoned(p) == p \in sent /\ outcome[p] \in {"NotSent", "Dropped", "WatchError", "Replaced"}

\* realized_balance_delta is what the transaction itself did to the balance,
\* as long as no transaction that went out was given up: such a one may be
\* mined between the two reads.
DeltaExact ==
    \A p \in Plan : outcome[p] = "Mined" /\ (\A q \in Plan : ~Abandoned(q)) =>
        delta[p] = IF p \in reverted THEN 0 ELSE Effect[p]

\* What the comment on InclusionOutcome::Replaced says of a Plan at the moment
\* it is reported: another transaction took its nonce.
ReplacedByAnother ==
    [][\A p \in Plan : outcome'[p] = "Replaced" /\ outcome[p] # "Replaced" => p \notin Range(chain)]_vars

\* Every Plan handed to the backend is concluded: no await is left hanging on
\* the refresh lock, and the watch ends at the deadline.
EveryPlanConcludes ==
    \A p \in Plan : pc[p] = "balance" ~> pc[p] = "done"
=============================================================================

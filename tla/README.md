# A TLA+ verification of degenbot

degenbot watches decentralised exchanges, looks for opportunities and executes
them. The repository holds a Python library (`src/src/degenbot`), a Rust overlay
with the latency-critical parts (`src/rust/src`), Stylus contracts, a Vyper contract and Solidity
references. This directory models the parts in which order, concurrency, failure
or rounding decide whether the program is right: the Rust executor and its live
backend, the two event feeds, the admission of signed orders, the internal
matching queue, and the way pools are read from the chain, cached and priced.

`tlc -config X.cfg M` checks a run; `tlapm M.tla` checks the proofs of a module.
`PROJECT.json` lists components, runs, mutants, the map from definitions to source
lines, findings, hazards and theorems.

## 1. The system and its parts

| part | state | operations | what is hard about it |
|---|---|---|---|
| executor actor (`rust/src/executor/mod.rs`) | broadcast bus, private plan queue, rate limiter, the Plan being run | route a Plan, run one Plan (deadline, policy, pre-flight, ceiling, submission, inclusion watch), shut down | a receiver that lags, two tasks and two channels that close in order, one chain of early returns per Plan |
| live backend (`mod.rs`, `nonce.rs`, `lane.rs`, `inclusion.rs`) | nonce cache with a time to live, refresh lock, submitted contexts | read balance, take or refresh a nonce, send, watch | any RPC fails or is overtaken by a block; a lost answer to a send; several lanes with one account |
| sequencer feed subscriber (`rust/src/monitor/sequencer_subscriber.rs`) | connection, backoff, three channels, cancel token | connect, read, forward, confirm, back off, cancel | cancellation at every await; full or dropped channels; reconnects |
| log subscriber and batcher (`rust/src/monitor/ws.rs`, `feed.rs`, `sync_event.rs`) | subscription, backoff, two channels, the pending batch | subscribe, forward a log, decode, flush a batch at each window tick | reconnects, back-pressure across three tasks, a window racing arrivals |
| signed order admission (`rust/src/signed_order_admission.rs`) | cumulative fills, expiries | evaluate a match | checked 256-bit arithmetic; a proportional minimum and fee floors applied to each partial fill |
| internal matching (`src/degenbot/matching`, `decision/engine.py`) | queue of candidates and native opportunities | add, consume, sweep, snapshot, find the best match | duplicate ids, two ages, integer division over two decimals |
| decision engine, Rust execution engine, bytecode builder | none or configuration | choose a route, validate a job, encode | precedence of routes |
| swap simulation (`rust/src/simulation/v3.rs`, `v2.rs`, `curve.rs`, `uniswap_v3_math`) | a pool snapshot; the locals of a loop | quote, swap and return the next snapshot | rounding in two directions, ticks crossed and re-crossed, Newton loops, double-width products |
| warm cache (`rust/src/simulation/revm_db.rs`) | pool states, overlays, EVM slots, epochs | update, quote, compare epochs | updates of several maps one after the other while quotes run |
| log fetcher (`rust/src/provider.rs`) | position in a block range, attempts | request a chunk, retry, give up | seams between chunks, a growing chain, repeated requests |
| arbitrage optimisers, other utilities | windows, averages | optimise, average | floating point and big integers |
| Python pools, arbitrage, Aave, database, CLI, providers, coordinator, server, solvers | caches, database rows, HTTP | update, search, replay | event order, re-organisations |
| Stylus, Vyper and Solidity contracts | on-chain storage | execute | outside this process |

Interaction: a strategy or coordinator publishes a Plan on the bus; the router
moves it to the actor; the actor calls the backend; Settlements go back on the bus.
Feeds run beside it and deliver decoded pool states and sequencer messages.
Matching and order admission decide which orders become part of a Plan. Pools are
filled from fetched logs, kept in the warm cache and priced by the swap simulation.

The parts not modelled are listed with reasons in `PROJECT.json` and in section 7.

## 2. Modules

```
SettlementProtocol   what the executor promises for one Plan        (abstract)
  ^ implemented by
ExecutorActor        router, queue, actor, limiter   <- MCExecutorActor, MCExecutorRate
  ExecutorProofs
LiveBackend          nonces, lanes, inclusion watch  <- MCLiveBackend
  LiveProofs
SequencerSubscriber  websocket loop and CancelToken  <- MCSequencerSubscriber
LogSubscriber + Batcher, composed by EventFeed       <- MCEventFeed
  EventFeedProofs
SignedOrderAdmission evaluator and book              <- MCSignedOrderAdmission
  SignedOrderAdmissionProofs
PriceCompat          price and fill arithmetic
InternalMatching     queue, matcher, route step      <- MCInternalMatching
  InternalMatchingProofs
FixedWidth           U256, checked mul_div
  V3Math, V3Swap     swap step, tick bitmap; the swap loop   \
  PairQuote          constant-product quotes                  |
  CurveQuote         StableSwap quote                         |
  SwapMathProofs     (V3Swap, PairQuote, CurveQuote)          |  <- MCPools
FullMath             two-word division                        |
LogFetcher           chunks and retries                       |
RevmDb               warm cache and epochs                   /
  ChainReadProofs    (LogFetcher, RevmDb, SequencerSubscriber)
SequenceOps          filtering and flattening of sequences
  SequenceProofs     what they do to any sequence
```

**ExecutorActor.** `serve_message_bus` is the router: `RouterLagged`, `RouterPlan`,
`RouterIgnore`, `RouterSend` (waiting for a slot), `RouterClosed` (drop `plan_tx`),
`RouterJoin` (await the actor). `ActorTake` is `run_one_plan` up to its first await:
deadline, `validate_submission_policy`, dry run, pre-flight or rate ceiling. Each
await of the `ExecutorBackend` trait is a state of the actor (`preflight`, `submit`,
`watch`) which returns anything its type allows. The limiter is the GCRA clock of the
`governor` crate (external). Histories `published`, `overwritten`, `simulated` and
`attempts` serve the properties. `SettlementProtocol` says which Settlements one Plan
may get and in which order; `Protocol == INSTANCE SettlementProtocol` states that the
executor implements it.

**LiveBackend.** One process per Plan; every RPC is a step at the moment the node
evaluates it. `ReadPreBalance`, `TryCache`, `LockRefresh`, `ReadPendingCount`,
`Prime`, `TakePrimed` (a caller whose first look needs no lock may come in between), `SendAccepted` / `SendUnanswered` (accepted, answer lost) / `SendRejected`,
`WatchDeadline`, `CheckReceipt`, `CheckReplacement`, `ReadPostBalance`, `WatchFails`.
The chain, the mempools and other senders of the same account are external; the latter
use up nonces and are assumed to leave the balance of the profit token alone.
`Sequential` says that one actor calls the backend, as the executor is wired.

**SequencerSubscriber.** `run_loop` with its `select!` arms, `CancelToken` as two
steps (`Store`, `NotifyWaiters`) and its wait as two (`CheckFlag`, `Register`), the
three bounded channels, backoff, control frames, and receivers dropped at any time.
`Parallel` says whether `cancel()` may run on another thread while the task runs.

**EventFeed** composes `LogSubscriber` (`Subscriber::run`, `subscribe_once`), the
decoder and `Batcher` (`Batcher::run`) through their bounded channels; the consumer
applies batches to a cache of pool states. A log may be lost before `run` reads it: the
library's buffer does not hold the node back.

**SequenceOps.** `Only(s, S)` and `Flat(ss)` are `SelectSeq` and `FlattenSeq` as recursive
functions. The prover has no definition of the former to expand and no lemma can quantify
over a test that is an operator; with the test as a set both can be reasoned about.
`ExecutorActor`, `InternalMatching`, `Batcher` and `EventFeed` use them.

**SignedOrderAdmission.** `evaluate_prediction_fx_match` as operators in the order of
its checks, each with its overflow error; `EvaluateFails`, `EvaluateRefuses`,
`EvaluateAdmits`. An admitted match is executed against the state it was judged on
(external): fills, shares, fees and collateral are booked.

**InternalMatching / PriceCompat.** `UnifiedQueue`'s `add_*`, `consume`, the sweep,
and the internal-match step of `route_opportunity` with `find_best_match`. `consume` looks
for an id in one queue after the other; `Expiry` converts the source's seconds to the
milliseconds of the clock and of the times to live.
`PriceCompat` holds `is_price_compatible` and `fill_amount` with their units.

**V3Math / V3Swap.** `compute_swap_step` and what it calls, with the integer widths,
the fixed point and the size of a bitmap word as constants, and the table of prices at
ticks as a constant of which only strict monotonicity is assumed. `V3Swap` is a session:
`Call` makes the checks of `amount_out_with_state` or `amount_out`, `Iterate` is one pass
through the loop with every error it may return, `Return` hands back output and next
snapshot. A session starts each swap from the snapshot the last one returned; `wallet`
adds up what the swaps cost and brought.

**PairQuote, CurveQuote, FullMath.** `amount_out` and `amount_in_for_out` with a pair
whose reserves follow executed quotes (the pair is external), the three-factor product of
the latter wrapping at twice the width (`U512`); the two Newton loops of
the StableSwap quote, a step for each iteration; the division of a double-width product
through a modular inverse. FullMath's words have 2^(n+2) bits for n Newton steps, as in the
code, where n is 6.

**LogFetcher.** `fetch_logs_chunked` around `retry_with_backoff`. The node is external:
its head moves, it answers with the blocks it has, or with a retryable or a final error.

**RevmDb.** `apply_pool_state` in two steps, `apply_pool_storage_overlay` in as many as it
has slots and maps, interleaved with quotes that record the epoch, read the state, run
the EVM under the lock and compare. The code that compares epochs is not in the
repository; the reader follows the documentation of `epoch()`.

**MCPools** runs these side by side. They share no state, so a behaviour chooses one and
leaves the others where they are; their product would add nothing but states.

Each definition marked *Mutant* is a plausible bug of the definition that follows it.
No specification uses them; they show that each property can fail.

## 3. Runs

| run | result | bounds |
|---|---|---|
| `executor_plans` | pass, 146,547 states | five Plans, one for each way through the checks; bus 2, queue 1, 3 publications, clock 0..1, ceiling 1, pre-flight deltas 1..2 |
| `executor_rate` | pass | four interchangeable Plans, ceiling 2, interval 2, clock 0..4 |
| `executor_ceiling` | violation | the same |
| `live_nonces` | pass, 430,639 states | three Plans, one actor, one endpoint, TTL 0, one foreign transaction, nonces to 4 |
| `live_concludes` | pass, 48,770 states | two concurrent Plans, two lanes, both evictable, one foreign transaction, TTL 1, clock 0..2, nonces to 3 |
| `live_replaced` | violation | one Plan |
| `sequencer_feed` | pass, 177k states | channels of 1, envelopes of 0..2 messages, sequence numbers to 2, one frame in flight, backoff 1..2, one thread |
| `sequencer_lost` | violation | one message, `cancel()` on another thread |
| `event_feed` | pass, 87,528 states | channels of 1, one log unread in the stream, four logs of two pools, one undecodable, backoff 1..3 |
| `pools` | pass, 337,627 states | see *Why the bounds suffice* |
| `order_admission` | pass, 1,278 states | one YES and two NO orders, 4-bit integers, denominator 3, fills {0,1,2,3,15}, clock 0..2 |
| `internal_matching` | pass, 232,273 states | five candidates, two of them with one id, one native, four `add_*` calls, clock 0..3 in milliseconds, two to a second |

What they show:

* `executor_plans` — only authorised Plans are broadcast (`AuthorisedBroadcast`);
  what the bus did not overwrite is never lost, duplicated or overtaken (`InOrder`);
  `serve_message_bus` returns only after every Plan is settled (`DrainedOnReturn`);
  the Settlements of a Plan follow the protocol (`FollowsProtocol`); every Plan
  received is settled and shutdown completes.
* `executor_rate` — any minute lets through fewer than twice the ceiling.
* `live_nonces` — no two transactions share a nonce, none is sent above a gap, and
  `realized_balance_delta` is the transaction's own effect as long as none that went out
  is given up.
* `live_concludes` — the refresh lock excludes (part of `TypeOK`), the second look at the
  cache keeps the nonces of concurrent submissions apart until the cache can expire or a
  send fails (`ConcurrentNonces`), and no Plan hangs. Beyond that point several lanes with
  endpoints of their own may hand out a nonce twice; the executor is not wired so.
* `sequencer_feed` — back-pressure neither loses nor reorders messages, a confirmation
  never overtakes them, and a cancelled subscriber stops.
* `event_feed` — what a subscription yields is forwarded in order, batches keep the
  events, a pool's cached state never moves back, every such log is applied, and
  the subscription is restored after any number of breaks.
* `order_admission` — over any sequence of partial fills: never overfilled, the limit
  price and fee cap hold for the whole order, collateral adds up.
* `internal_matching` — a match can be settled within both sides' limits, the buy amount
  taken in units of its token, as it is encoded; in every state `find_best_match` finds the
  first best of the snapshot; entries are neither lost nor taken twice; a sweep removes
  exactly what is due by the source's seconds and the queue's milliseconds.
* `pools` — over three swaps in any directions the liquidity of the loop is that of the
  positions around its tick, and its tick the one its price lies in (`LadderAgrees`); no
  swap spends more than it was given (`NeverOverspends`); no sequence of swaps gains one
  token without paying in the other, and the loop does not fail on a snapshot whose
  bitmap is complete (`NoFreeRoundTrip`); the loop ends after at most as many
  iterations as there are words and initialized ticks (`SwapBounded`, a safety bound that
  implies termination). The two constant-product quotes are inverse (`CheapestInput`), the
  Newton loops stop at the root: y is its floor or one more, d is never below its floor and
  exceeds it by more than one only by what the truncated divisions lose (`LandsOnRoot`); the
  two-word division is exact (`MulDivExact`). A fetch that succeeds has each log once, in order, and every one the
  node had at its start (`FetchedOnce`), and every fetch ends (`FetchConcludes`). A quote
  that passes the comparison of epochs saw what the cache holds, updates that have not
  returned excepted, and no overlay half written (`QuoteFresh`).

**Why the bounds suffice.** Channels of one or two slots make full, empty, lagging and
closing meet with two or three messages; further messages repeat those cases. The
executor's instance has a Plan for each early return. Three Plans and one foreign
transaction give a nonce cache that is fresh, stale and wrong by one. In the arithmetic
instances width and denominators are small enough that products overflow, floors
lose something and fills of zero and of the maximum occur. `pools` has nine ticks in
bitmap words of four bits, so that a swap crosses words and ticks and reaches both ends
of the range; ladders that are nested, narrow and single, one snapshot with a word
missing, a refused fee and a refused spacing; inputs from zero to more than the pool can
take and more than the signed width; widths of 12, 7 and 4 bits in the proportion that
keeps U160 x Q96 within U256 as in the code. Its pairs have reserves with a ratio of up to 2100, large
enough for the U512 product to wrap, and two deals;
its Curve pools two and three coins, balanced, 28 : 1 and 53 : 1 (where d stops two above the root) and
90 : 1 (where a product overflows); its fetches ranges of up to five blocks in chunks of
0, 1, 2, 3 and 15 with two attempts each; its cache two pools, two slots, two writers, a reader and
three updates, with an epoch that saturates; FullMath 26 operands of 8 bits around the
powers of two and the extremes. Every bound is a constant
named in its module's header (`Max...`, capacities, TTLs).

## 4. Fairness

* Tokio polls a task that can run: weak fairness of the router, the actor, the
  subscriber's task, the backend's steps. A step of the backend stands for an RPC
  that returns, with a result or an error.
* `tokio::select!` tries ready arms in random order, so an arm that is ready again and
  again is taken: strong fairness for the single arms that compete (`CheckFlag` and
  `Notified`; the batcher's `Recv`, `RecvClosed`, `Tick`).
* `LogSubscriber`'s `Connect` and `Subscribe` are strongly fair: a node that can be
  reached again and again accepts in the end. `Recovers` rests on this assumption about
  the node.
* The clocks that deadlines, windows and backoffs wait for advance; consumers of
  messages and batches keep reading.
* The log fetch is weakly fair (`FetchStep`): the task is polled, the timer of its delay
  fires, and a request is answered or fails. The node may refuse every time.
* Nobody owes anything else: no coordinator publishes, no chain mines, no feed sends.

## 5. Findings

Three statements in the repository are refuted by runs.

1. `executor/mod.rs:205-208` says a broadcast that would exceed
   `tx_rate_ceiling_per_min` per minute is blocked. The limiter built at line 216
   starts with a full bucket and refills while it is emptied (`executor_ceiling`).
   `executor_rate` shows the bound that holds.
2. `executor/mod.rs:94` says of `Replaced` that a different transaction with the same nonce was mined.
   `inclusion.rs:134` compares the count after asking for the receipt; a transaction
   mined between the two calls is reported as replaced by itself (`live_replaced`).
3. `sequencer_subscriber.rs:12-13` says the loop runs until the token fires. `CancelToken` loads the
   flag before it creates the `Notified` future (line 223); a `cancel()` on another
   thread in between is lost while the feed is quiet (`sequencer_lost`). On one
   thread the property holds (`sequencer_feed`).

Smaller disagreements met on the way, without a run: `Dropped` is also returned for a
transaction mined since the last poll (the comment at `mod.rs:96` says it never was); dropping the receivers does not
stop the subscriber (`sequencer_subscriber.rs:76-78`); a zero capacity panics
(`:44-45`); a closed downstream stops the batcher only at its next flush
(`feed.rs:39-40`); the fallback to the default lane is silent (`lane.rs:11-12`); the
Rust `fill_amount` (`rust/src/matching/price_compat.rs:38`) treats units differently
from the Python one; `find_best_match` raises when a candidate's amount normalises
to zero; the snapshot is not filtered by expiry. `RevmDb::epoch` promises that any
intervening update invalidates a quote (`revm_db.rs:217-218`); between the write of an
update and its increment of the epoch the comparison still passes, and a saturated
epoch never changes again. `apply_pool_state` does not compare block numbers, so an older
state may replace a newer one. `fetch_logs_chunked` wraps (or panics, in a debug build)
for a range that ends at the largest `u64`, refuses a chunk size of zero as an invalid range,
and returns fewer logs without saying so when the range ends beyond the node's head.
`get_d` may not converge for an amplification of 1 and very uneven balances, and where it does, the
truncations can leave d several units above the exact root. `amount_out` of `v3.rs` takes a snapshot
whose price is exactly `MIN_SQRT_RATIO` or `MAX_SQRT_RATIO` without a check; its price limit then lies on the
wrong side, and the first step moves the price the wrong way. The product of `amount_in_for_out`
(`v2.rs:60`) wraps for reserves and outputs whose product exceeds 2^512 / 10,000, and the quote is then meaningless.

## 6. Proofs

TLAPS proves the following for every value of the constants that satisfies the
named assumptions of the modules. The inductive invariants of executor, backend, both
feeds, admission, matching and the swap loop were checked by TLC as well, on the instances of
the runs that check their conclusions.

**SequenceProofs.** What the proofs below need to know of sequences: how `Only` and
`Flat` behave under append, concatenation, head and tail, that filtering twice is
filtering by the intersection, what leaves a filtered sequence when its set loses one
element (`OnlyLeave`), and how sequences in a row change when an element moves from one
to the next (the lemmas on *Join* and *Row*, shared by the two feeds). These are
inductions over data. The library's induction theorems take the property as an operator,
which no backend instantiates; here it is a set: a set of naturals has a least element
(`LeastNatural`), so one that contains zero and successors contains all
(`SetInduction`), and a set of sequences that contains the empty one and is closed under
append contains all (`SeqInduction`).

**ExecutorProofs.** `SafetyInv` is `TypeOK`, *Hands* (who holds a Plan in which
state of the tasks), *Checked* (what `run_one_plan` has established about the Plan it holds
before each await) and *Announced* (a Plan with a Submitted Settlement had passed the same
checks). It is inductive and gives `TypeCorrect` and `AuthorisedBroadcastAlways`.

* *Once*: each Plan occurs at most once in bus, router, queue and actor together, and its
  Settlements match its place. This is needed before a Settlement can be shown to be the
  first: `ImplementsProtocol` maps every step to a step of `SettlementProtocol` or a stutter.
* *Ordered*: `InOrder`, and what was overwritten was published. A final Settlement takes
  the Plan at the head of the line out of the open ones, a lag the first on the bus;
  *Once* says that it occurs nowhere else, and `OnlyLeave` that the rest keeps its order:
  `InOrderAlways`.
* *Shutdown*: what the closing of the channels implies in each state of router and actor. With
  `InOrder` nothing is open when the line is empty: `DrainedAlways`.
* *Paced*: attempts i and j are at least j - i + 1 - Ceiling intervals apart, and `tat` is ahead of
  each attempt by one interval for it and for each attempt that followed. The attempts of a minute
  are a set of indices whose extremes are less than 2 x Ceiling - 1 apart: `RateBoundAlways`.

**LiveProofs.** `TypeCorrect` includes mutual exclusion of the refresh, also for
concurrent callers and several lanes. `DeltaExactAlways` assumes only `Sequential`: one
actor calls the backend. `DeltaInv` says for each Plan in flight that the balance is
the one it read plus what its own transaction did (*OwnDelta*), which holds because another
Plan's transaction can be mined meanwhile only if that Plan was given up.
`NonceUniqueAlways` and `GapFreeAlways` assume
`OneActorOneEndpoint`: calls are sequential, all Plans use one endpoint and its mempool
keeps what it accepted. `NonceInv` adds to `TypeOK` that at most one Plan is active, that
what was sent is pooled or its nonce is used up, and that the next nonce is right wherever
the code holds it (the RPC's answer, the cache, the Plan about to send): above every nonce
sent, with every lower one mined or pooled. Neither conclusion is inductive without it.
`ConcurrentNoncesAlways` assumes nothing about callers, lanes or endpoints. As long as the
cache cannot have expired and no send has failed (*Calm*), *Apart* holds: the cache is ahead
of every nonce it handed out, no two of them agree, and whoever refreshes it found it empty.
The last part is what the second look at the cache is for.

**EventFeedProofs.** `FeedInv` has a part for each task and one for the seam. *SubInv*: the
logs delivered are those the decoder has, the channel, the hand and the stream hold, one
after the other, and they rise; without a subscription nothing of the last one is
left in the stream. *BatchInv*: the same for events over cache, batches, buffer and channel,
and the last batch is sent after the upstream was closed and emptied. *LinkInv*: the events sent
are the decodable logs received, and they rise. Each step moves one element or one
batch from one place to the next, so each action is one equation of concatenations.
`LogsInOrderAlways` and `BatchesKeepEventsAlways` follow; for `CacheMovesForwardAlways` the
cached log of a pool is the last of its own events among those applied, which a step
leaves alone or replaces by a later one.

**SignedOrderAdmissionProofs.** The inductive invariant replaces `MinimumHonoured` by
the proportional form *minted x deposit >= min_shares x filled*, which the check on each
fill adds to; `BoundsAlways` gives `NeverOverfilledAlways`, `MinimumHonouredAlways` and
`FeesWithinCapAlways` for any orders, rates and integer width.
`CollateralConservedAlways` rests on `TotalChange`: when two members of a finite set
change by given amounts, the sum over the set changes by theirs; *Conserved* states the
balance for both sides of the book.

**InternalMatchingProofs.** `FillHonoursLimits`: for all amounts, decimals and prices
the fill of a compatible pair stays within the outbound amount and the counter side's
budget, keeps its limit price exactly, and the outbound side's up to the stated
rounding. It rests on lemmas about floors (`Floor`, `FloorMonotone`, `TimesMonotone`,
`TimesCancels`) and on what an amount loses on the way to the token's units and back
(`RoundTrip`, `PaidBounds`). `QueueInv` says that every entry is in the queue of its value with the
expiry `_wrap_candidate` gave it, that the counts of entries added, consumed, swept and
present agree, and that the last match keeps both limits: `EntriesAccountedAlways` and
`MatchHonoursLimitsAlways`. `BestOfSnapshotAlways` is about the nested loops: the pairs
come row by row (`FlatRows`, `Turns`), and the loop over them holds at each point the
first of the largest fills so far (`FirstBest`, `BestIsFirst`). `SweepsExactlyAlways`
says what the filter of `sweep_expired` keeps; that the entry's expiry is the one its
value was given is where it needs `QueueInv`, and that whole seconds have passed exactly
when their milliseconds have is `WholeSeconds`.

**SwapMathProofs.** The roundings are handled in one form throughout: a floor reaches a
bound exactly when the product does (`FloorReaches`), a ceiling stays within one exactly
when the product does (`CeilingWithin`); what is left is monotonicity of products.
`QuotesAreInverse` follows for all reserves and every output a U256 holds: where
`amount_out` answers, the U512 product is exact (`ProductIsExact`, `NoQuoteBeyond`).
`PairsStayInverse` follows from it because executed quotes keep the reserves within a U256. For a swap step, `Next0` and `Next1` bound the
price an input leads to, `Amount0` and `Amount1` the amount that price costs, `Complement`
and `FeeFits` the fee added to it: `StepWithinBudget`. The loop's invariant `SwapInv` adds
the ranges of price, liquidity and tick to `NeverOverspends`, since the bound on a step
needs them; that the next tick exists rests on the existence of greatest and least elements of
bounded sets of integers (`MaxExists`, `MinExists`, from the library's well-founded minimum).

The two results about the whole loop rest on what the bitmap search promises: `NextBelow` and
`NextAbove` say that it returns the nearest set bit of the word, or the word's end, and passes over
none; truncated division of negative ticks and the next place above are where this could go
wrong (`CompressFloor`, `SameWord`).

* `SwapBoundedAlways`. The bound is not inductive, since nothing in it says why the next
  iteration is allowed. *BoundInv* adds that a call in its loop has left one bit or one
  word behind for good for each iteration but the first (`PassedBits`, `PassedWords`).
  An iteration after which the loop goes on has reached its target and not the limit, so
  it stands on the tick the bitmap named (`GoesOnAcross`), and one of the two sets has a
  new member (`Progress`). This is also the termination of the loop, as a bound and
  without fairness.
* `LadderAgreesAlways`. `Ladder` is the running sum of the net liquidity; `LadderDef`
  shows that the recursive definition has a solution. *LadderInv* adds to `LadderAgrees`
  that price stays strictly inside the range and that ticks are multiples of the
  spacing. No initialized tick lies between the tick and the one the bitmap names
  (`NoneSkippedDown`, `NoneSkippedUp`), so the ladder is level in between
  (`LadderLevel`); reaching that tick adds its net liquidity with the sign of the
  direction (`LadderDown`, `LadderUp`, `CrossingAdds`), and stopping short of it changes
  the tick only.

`LandsOnYAlways` is about the second loop of the StableSwap quote, for any call on any
pool. A truncated Newton step never leads below the floor of the root, and one by at
most a unit ends there or one above (`NewtonStep`); this needs neither the start nor the
number of iterations. `RecursionExists` and `StaysIn` give the loops over the coins
their types.

Assumed: `FixedPointAssumption` (widths in the code's proportion), `TickAssumption` (the
price table increases), `SwapAssumption` (the types of a snapshot) and, for the ladder
only, `LadderAssumption`: a snapshot with a complete bitmap has ticks that are multiples
of its spacing, a tick and liquidity that belong to its price, and a price strictly
inside the range. A pool on the chain satisfies it, as every swap stops at the limit one
unit inside; for a price at the very end see section 5.

**ChainReadProofs.** `CacheInv` says that the lock's holder is the one writer between
lock and unlock, that while it is free all slots of a pool hold one update's values, and
for each reader that what it saw differs from the cache only by an update in flight or
the epoch has moved past the one it recorded: `QuotesAreFresh`. `FetchInv` says that the
logs gathered so far are those of the blocks from the start of the range up to the
present chunk that the node had when asked: `FetchesOnce`. Assumed: block numbers below
the largest `u64`. For the sequencer feed, *SocketInv* says that the messages of a frame
are newer than the confirmations of the frames before it, *TaskInv* that messages wait
in hand only during `dispatch_envelope`, which with `NothingReordered` is inductive:
`NothingReorderedAlways`. `ConfirmedIsForwarded` is not: a confirmation could arrive
before its messages. *ConfirmedInv* says of each confirmation in the channel or in hand
that everything still on the socket or in hand is newer, so what was read up to it has
been forwarded: `ConfirmedIsForwardedAlways`.

**Only model-checked.** All liveness (`EveryPlanSettled`, `ShutdownCompletes`,
`EveryPlanConcludes`, `CancelStops`, `EveryLogApplied`, `Recovers`, `FetchConcludes`): fairness and
ENABLED are outside the prover. `NoFreeRoundTrip`: its argument is a value of the pool that no
rounding decreases, a sum of quotients over every tick between two prices, for which
the prover has no rational numbers. The part of `LandsOnRoot` about d: it needs inequalities between
powers with a variable exponent, an induction over data on top of the truncations.
`MulDivExact` uses bitwise operators, which the prover does not know.

## 7. What is not modelled

* Conversions without state: ABI, calldata and bytecode encoding, EIP-712 hashing,
  transaction signing, the sequencer feed's byte format, JSON.
* Libraries and services: the EVM simulation behind the pre-flight and the warm cache, RPC
  nodes (except as the environment of `LiveBackend`, the feeds and `LogFetcher`), HTTP
  solvers, the database.
* Of the swap simulation: the exact-output branch of `compute_swap_step` and the helpers
  for liquidity amounts, which the loop never calls; `flip_tick`; the computation of
  powers and logarithms in `tick_math.rs`, for which a strictly increasing table stands;
  the V4 gate, which looks at the hook's permission bits and hands on to the V3 simulation.
* Floating-point optimisation and the searches over the simulations.
* The Rust twin of the matcher, the decision engine's choice among routes and the job
  validation of `execution_engine.rs`: pure functions of one call. The twin's difference
  from the Python matcher is listed as a hazard.
* The Python library's pools, Aave accounting, database, coordinator and servers, and the
  Stylus contracts.
* Generated bindings and third-party Solidity. The bindings in
  `rust/crates/contract_bindings` are about 119,000 of the 158,000 lines of Rust: code
  that a tool derives from contract interfaces, without a decision of its own. Measured
  against all lines the models therefore cover a small share, and no faithful model could
  change that.

Left out of modelled functions: the error arms of `RouterSend` and `RouterJoin` (`executor/mod.rs:174-181`, `196-202`),
which need the actor's task to panic; the negation of a net liquidity of exactly
`i128::MIN` (`v3.rs:139-141`); the failure of `get_logs` to convert its filter
(`provider.rs:433`), which ends a fetch as a final error of the node does.

Data abstracted inside the modelled parts: timestamps beyond a clock of ticks, trace
ids, log lines, error texts, gas fields, the length and jitter of the provider's delays.

## 8. Plan

Order of further work:

1. The choice among routes: `decision/engine.py` in full and `execution_engine.rs`
   (precedence, express lane, refusals), on top of `InternalMatching`.
2. Pool state: the Python state manager and V3 tick and liquidity updates, with events
   applied late, twice and across a re-organisation, feeding `V3Swap`.
3. The tasks of coordinator, pipeline and server, composed with `ExecutorActor` through
   the bus, including the Settlements' receivers.
4. The nonce manager, windows and averages of `rust/src/utils`; the order book; Aave
   event replay; the Stylus executor.
5. Proofs: that d of the StableSwap quote is never below its root, for a fixed number of coins first;
   that the swap loop does not fail on a complete snapshot, the second half of `NoFreeRoundTrip`.

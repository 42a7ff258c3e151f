------------------------------- MODULE V3Swap -------------------------------
(***************************************************************************)
(* rust/src/simulation/v3.rs: the swap loop over a pool snapshot.  A       *)
(* caller asks for one swap after another, each on the snapshot the        *)
(* previous one returned (amount_out_with_state), or for a quote that      *)
(* leaves the snapshot alone (amount_out).  One step is one iteration of   *)
(* the while loop.  `wallet` records what the swaps cost and brought.      *)
(***************************************************************************)
EXTENDS V3Math

CONSTANTS Pools,       \* the snapshots a session may start from
          AmountsIn,   \* the inputs a caller asks about
          MaxSwaps     \* bound on the swaps of a session

(* V3Snapshot: the fields, and what their types say of them.               *)
IsSnapshot(p) ==
    /\ DOMAIN p = {"sqrt_price", "tick", "liquidity", "fee_bps", "tick_spacing", "bitmap", "net"}
    /\ p.sqrt_price \in 0 .. U256Max /\ p.liquidity \in 0 .. U128Max /\ p.fee_bps \in Nat
    /\ p.tick \in Int /\ p.tick_spacing \in Int
    /\ p.bitmap \subseteq Int /\ IsFiniteSet(p.bitmap)
    /\ DOMAIN p.net \subseteq Int /\ p.net \in [DOMAIN p.net -> Int]

ASSUME SwapAssumption == AmountsIn \subseteq Nat /\ \A p \in Pools : IsSnapshot(p)

VARIABLES pool,        \* V3Snapshot
          call,        \* the call in progress: its arguments, or NoCall
          price, tick, liquidity,   \* the loop's locals
          remaining,   \* amount_remaining
          calculated,  \* -amount_calculated
          outcome,     \* what the last call returned: "none", "ok" or "err"
          wallet,      \* token |-> what the caller gained, over all swaps
          swaps,       \* calls made
          iterations   \* of the call's loop

swapVars == <<pool, call, price, tick, liquidity, remaining, calculated,
              outcome, wallet, swaps, iterations>>

NoCall == [active |-> FALSE]

limit == IF call.zero_for_one THEN MIN_SQRT_RATIO + 1 ELSE MAX_SQRT_RATIO - 1

fee_pips == pool.fee_bps * PipsPerBps

SwapInit(pools) ==
    /\ pool \in pools
    /\ call = NoCall
    /\ price = 0 /\ tick = 0 /\ liquidity = 0
    /\ remaining = 0 /\ calculated = 0
    /\ outcome = "none"
    /\ wallet = [t \in {0, 1} |-> 0]
    /\ swaps = 0 /\ iterations = 0

(* The checks before the loop.  keep says which of the two functions is    *)
(* called: amount_out_with_state answers zero with zero, amount_out with   *)
(* an error.                                                               *)
Rejected(amount_in, keep) ==
    \/ amount_in = 0 /\ ~keep
    \/ amount_in # 0 /\ \/ pool.fee_bps >= BpsDenom
                        \/ pool.tick_spacing <= 0
                        \/ amount_in > I256Max

Call(amount_in, zero_for_one, keep) ==
    /\ ~call.active /\ swaps < MaxSwaps
    /\ swaps' = swaps + 1 /\ iterations' = 0
    /\ IF amount_in = 0 \/ Rejected(amount_in, keep)
       THEN /\ outcome' = IF Rejected(amount_in, keep) THEN "err" ELSE "ok"
            /\ UNCHANGED <<call, price, tick, liquidity, remaining, calculated>>
       ELSE /\ call' = [active |-> TRUE, amount_in |-> amount_in,
                        zero_for_one |-> zero_for_one, keep |-> keep]
            /\ price' = pool.sqrt_price
            /\ tick' = pool.tick
            /\ liquidity' = pool.liquidity
            /\ remaining' = amount_in
            /\ calculated' = 0
            /\ outcome' = "none"
    /\ UNCHANGED <<pool, wallet>>
-----------------------------------------------------------------------------
Clamp(t) == Higher(MIN_TICK, Lower(MAX_TICK, t))

\* Mutant: the loop does not look at the price limit.
InLoopUnlimited == call.active /\ remaining # 0

InLoop == call.active /\ remaining # 0 /\ price # limit

NextTick ==
    LET n == next_initialized_tick_within_one_word(pool.bitmap, tick,
                 pool.tick_spacing, call.zero_for_one)
    IN  [n EXCEPT !.tick = Clamp(n.tick)]

Target(price_next) == IF call.zero_for_one THEN Higher(price_next, limit)
                                           ELSE Lower(price_next, limit)

(* The step the loop takes from its present locals towards tick n.         *)
StepTo(n) == compute_swap_step(price, Target(Ratio[n.tick]), liquidity,
                               remaining, fee_pips)

NetAt(net, t) == IF t \in DOMAIN net THEN net[t] ELSE 0

NetLiquidity(t) == IF call.zero_for_one THEN -NetAt(pool.net, t) ELSE NetAt(pool.net, t)

(* The liquidity on the other side of tick n.                              *)
Crossing(n) == IF n.initialized THEN add_delta(liquidity, NetLiquidity(n.tick))
                                ELSE liquidity

\* Mutant: after a tick is crossed downwards the tick is not one lower.
TickAfterNotLower(n, next) ==
    IF next = Ratio[n.tick] THEN n.tick
    ELSE IF next # price THEN get_tick_at_sqrt_ratio(next)
    ELSE tick

TickAfter(n, next) ==
    IF next = Ratio[n.tick]
    THEN IF call.zero_for_one THEN n.tick - 1 ELSE n.tick
    ELSE IF next # price THEN get_tick_at_sqrt_ratio(next)
    ELSE tick

LiquidityAfter(n, next) == IF next = Ratio[n.tick] THEN Crossing(n) ELSE liquidity

(* Every `?` of the loop's body.                                           *)
StepFails(n, step) ==
    \/ ~step.ok
    \/ step.amount_in + step.fee_amount > I256Max
    \/ step.amount_out > I256Max
    \/ calculated + step.amount_out > I256Max + 1
    \/ LiquidityAfter(n, step.next) = Err
    \/ step.next # Ratio[n.tick] /\ TickAfter(n, step.next) = NoTick

(* One iteration of the loop: on an error the call returns it and the      *)
(* snapshot is as it was.                                                  *)
Iterate ==
    /\ InLoop
    /\ iterations' = iterations + 1
    /\ \E n \in {NextTick} : \E step \in {StepTo(n)} :
          IF StepFails(n, step)
          THEN /\ call' = NoCall
               /\ outcome' = "err"
               /\ UNCHANGED <<price, tick, liquidity, remaining, calculated>>
          ELSE /\ price' = step.next
               /\ remaining' = remaining - (step.amount_in + step.fee_amount)
               /\ calculated' = calculated + step.amount_out
               /\ liquidity' = LiquidityAfter(n, step.next)
               /\ tick' = TickAfter(n, step.next)
               /\ UNCHANGED <<call, outcome>>
    /\ UNCHANGED <<pool, wallet, swaps>>

(* The next snapshot and the output are returned.  What is left of the     *)
(* input when the price limit is reached is not charged.                   *)
Return ==
    /\ call.active /\ ~InLoop
    /\ call' = NoCall
    /\ outcome' = "ok"
    /\ IF call.keep
       THEN LET sold == IF call.zero_for_one THEN 0 ELSE 1
            IN  /\ pool' = [pool EXCEPT !.sqrt_price = price, !.tick = tick,
                                        !.liquidity = liquidity]
                /\ wallet' = [wallet EXCEPT ![sold] = @ - (call.amount_in - remaining),
                                            ![1 - sold] = @ + calculated]
       ELSE UNCHANGED <<pool, wallet>>
    /\ UNCHANGED <<price, tick, liquidity, remaining, calculated, swaps, iterations>>

SwapNext ==
    \/ \E amount_in \in AmountsIn, zero_for_one, keep \in BOOLEAN :
           Call(amount_in, zero_for_one, keep)
    \/ Iterate
    \/ Return

SwapSpec == SwapInit(Pools) /\ [][SwapNext]_swapVars

-----------------------------------------------------------------------------
(* A snapshot may leave words of the bitmap out; this one has all of them. *)
IsWhole(p) == /\ p.tick_spacing > 0
              /\ p.bitmap = {compress(t, p.tick_spacing) : t \in DOMAIN p.net}

Whole == IsWhole(pool)

(* The liquidity of the positions that contain a tick, for every tick.     *)
Ladder(net) ==
    LET ladder[t \in MIN_TICK - 1 .. MAX_TICK] ==
            IF t = MIN_TICK - 1 THEN 0 ELSE ladder[t - 1] + NetAt(net, t)
    IN  ladder

(* Price q lies in tick t, and l is the liquidity there.                   *)
Agrees(net, q, t, l) ==
    /\ t \in MIN_TICK .. MAX_TICK - 1
    /\ Ratio[t] <= q /\ q <= Ratio[t + 1]
    /\ l = Ladder(net)[t]

(* A whole snapshot is one the chain can hold: its ticks are multiples of  *)
(* the spacing, its price lies within the range every swap stays in, and   *)
(* its tick and liquidity are those of its price.                          *)
ASSUME LadderAssumption ==
    \A p \in Pools : IsWhole(p) =>
        /\ \A t \in DOMAIN p.net : t % p.tick_spacing = 0
        /\ MIN_SQRT_RATIO < p.sqrt_price /\ p.sqrt_price < MAX_SQRT_RATIO
        /\ Agrees(p.net, p.sqrt_price, p.tick, p.liquidity)

(* Wherever the loop stands, its liquidity is that of the positions around *)
(* its tick, and its tick is the one its price lies in: nothing is counted *)
(* twice or left out when the price crosses a tick, comes to rest on one,  *)
(* turns round there, or crosses into the next word of the bitmap.         *)
LadderAgrees ==
    Whole => /\ Agrees(pool.net, pool.sqrt_price, pool.tick, pool.liquidity)
             /\ call.active => Agrees(pool.net, price, tick, liquidity)

(* The loop never spends more than it was given, whatever ticks, roundings *)
(* and fees it met.                                                        *)
NeverOverspends == call.active => remaining \in 0 .. call.amount_in

(* No sequence of swaps, each on the snapshot the one before returned,     *)
(* leaves the caller with more of one token and no less of the other:      *)
(* every rounding of the step goes against the caller, and the loop does   *)
(* not fail on a snapshot that has its whole bitmap.                       *)
NoFreeRoundTrip ==
    /\ \A sold \in {0, 1} : wallet[sold] > 0 => wallet[1 - sold] < 0
    /\ Whole /\ outcome = "err" => iterations = 0

(* The loop ends, and after no more iterations than the bitmap has words   *)
(* and initialized ticks: each one spends the input, reaches the limit or  *)
(* leaves a word or a tick behind for good.                                *)
SwapBounded ==
    pool.tick_spacing > 0 =>
        iterations <= 2 + Cardinality(pool.bitmap)
                        + Cardinality({position(compress(t, pool.tick_spacing)).word :
                                          t \in MIN_TICK .. MAX_TICK})
=============================================================================

------------------------------- MODULE V3Math -------------------------------
(***************************************************************************)
(* The concentrated-liquidity arithmetic of                                *)
(* rust/src/simulation/uniswap_v3_math, with the widths as constants:      *)
(* fixed point Q96, the unsigned ranges U256, U160 and U128, the tick      *)
(* bitmap's words of WordSize bits.  `Ratio` stands for the table that     *)
(* get_sqrt_ratio_at_tick computes; of it only monotonicity is assumed.    *)
(* mul_div stands for the two-word division that FullMath models.          *)
(* Only the exact-input branch of compute_swap_step is here: the swap loop *)
(* never asks for an exact output.                                         *)
(***************************************************************************)
EXTENDS FixedWidth, FiniteSetsExt

CONSTANTS Q96, U160Max, U128Max,
          PipsPerBps,     \* 100
          WordSize,       \* 256
          MIN_TICK, MAX_TICK,
          Ratio           \* tick |-> sqrt price

ASSUME FixedPointAssumption ==
    /\ Q96 \in Nat \ {0} /\ PipsPerBps \in Nat \ {0} /\ WordSize \in Nat \ {0}
    /\ U160Max \in Nat /\ U128Max \in Nat
    /\ U160Max * Q96 <= U256Max /\ 2 * U128Max * Q96 < U256Max

ASSUME TickAssumption ==
    /\ MIN_TICK \in Int /\ MAX_TICK \in Int /\ MIN_TICK < MAX_TICK
    /\ Ratio \in [MIN_TICK .. MAX_TICK -> 1 .. U160Max]
    /\ \A s, t \in MIN_TICK .. MAX_TICK : s < t => Ratio[s] < Ratio[t]

MIN_SQRT_RATIO == Ratio[MIN_TICK]
MAX_SQRT_RATIO == Ratio[MAX_TICK]
FeeDenom == BpsDenom * PipsPerBps
I256Max == U256Max \div 2
U256(x) == x % (U256Max + 1)
-----------------------------------------------------------------------------
mul_div_rounding_up(a, b, denominator) ==
    LET result == mul_div(a, b, denominator) IN
    IF result = Err \/ (a * b) % denominator = 0 THEN result
    ELSE IF result = U256Max THEN Err
    ELSE result + 1

div_rounding_up(a, b) == (a \div b) + (IF a % b = 0 THEN 0 ELSE 1)

Lower(a, b)  == IF a > b THEN b ELSE a
Higher(a, b) == IF a > b THEN a ELSE b

get_amount_0_delta(a, b, liquidity, round_up) ==
    LET lo == Lower(a, b)
        hi == Higher(a, b)
        numerator_1 == liquidity * Q96
        partial == IF round_up THEN mul_div_rounding_up(numerator_1, hi - lo, hi)
                               ELSE mul_div(numerator_1, hi - lo, hi)
    IN  IF lo = 0 \/ partial = Err THEN Err
        ELSE IF round_up THEN div_rounding_up(partial, lo)
        ELSE partial \div lo

\* Mutant: the amount paid out is rounded up as well.
get_amount_1_delta_up(a, b, liquidity, round_up) ==
    mul_div_rounding_up(liquidity, Higher(a, b) - Lower(a, b), Q96)

get_amount_1_delta(a, b, liquidity, round_up) ==
    LET numerator_2 == Higher(a, b) - Lower(a, b)
    IN  IF round_up THEN mul_div_rounding_up(liquidity, numerator_2, Q96)
                    ELSE mul_div(liquidity, numerator_2, Q96)

(* Adding `amount` of token 0.  When amount * price does not fit, the      *)
(* coarser second formula is used.                                         *)
get_next_sqrt_price_from_amount_0_rounding_up(price, liquidity, amount) ==
    LET numerator_1 == liquidity * Q96
        product == U256(amount * price)
        denominator == U256(numerator_1 + product)
    IN  IF amount = 0 THEN price
        ELSE IF product \div amount = price /\ denominator >= numerator_1
        THEN mul_div_rounding_up(numerator_1, price, denominator)
        ELSE div_rounding_up(numerator_1, U256(numerator_1 \div price + amount))

(* Adding `amount` of token 1.                                             *)
get_next_sqrt_price_from_amount_1_rounding_down(price, liquidity, amount) ==
    LET quotient == IF amount <= U160Max
                    THEN U256(amount * Q96) \div liquidity
                    ELSE mul_div(amount, Q96, liquidity)
    IN  IF quotient = Err \/ U256(price + quotient) > U160Max THEN Err
        ELSE U256(price + quotient)

get_next_sqrt_price_from_input(price, liquidity, amount_in, zero_for_one) ==
    IF price = 0 \/ liquidity = 0 THEN Err
    ELSE IF zero_for_one
    THEN get_next_sqrt_price_from_amount_0_rounding_up(price, liquidity, amount_in)
    ELSE get_next_sqrt_price_from_amount_1_rounding_down(price, liquidity, amount_in)

\* Mutant: the fee is not set aside before the step is sized.
less_nothing(amount_remaining, fee_pips) == amount_remaining

amount_remaining_less_fee(amount_remaining, fee_pips) ==
    mul_div(amount_remaining, FeeDenom - fee_pips, FeeDenom)

(* compute_swap_step for amount_remaining >= 0: how far the input moves    *)
(* the price towards the target, and what it costs.                        *)
compute_swap_step(current, target, liquidity, amount_remaining, fee_pips) ==
    LET zero_for_one == current >= target
        AmountIn(p) == IF zero_for_one
                       THEN get_amount_0_delta(p, current, liquidity, TRUE)
                       ELSE get_amount_1_delta(current, p, liquidity, TRUE)
        AmountOut(p) == IF zero_for_one
                        THEN get_amount_1_delta(p, current, liquidity, FALSE)
                        ELSE get_amount_0_delta(current, p, liquidity, FALSE)
        less_fee == amount_remaining_less_fee(amount_remaining, fee_pips)
        next == IF less_fee >= AmountIn(target) THEN target
                ELSE get_next_sqrt_price_from_input(current, liquidity,
                                                    less_fee, zero_for_one)
        amount_in == IF next = Err THEN Err ELSE AmountIn(next)
        amount_out == IF next = Err THEN Err ELSE AmountOut(next)
        fee_amount == IF next # target
                      THEN U256(amount_remaining - amount_in)
                      ELSE mul_div_rounding_up(amount_in, fee_pips,
                                               FeeDenom - fee_pips)
    IN  [ok |-> Err \notin {less_fee, AmountIn(target), next, amount_in,
                            amount_out, fee_amount},
         next |-> next, amount_in |-> amount_in,
         amount_out |-> amount_out, fee_amount |-> fee_amount]
-----------------------------------------------------------------------------
(* A snapshot's bitmap is the set of compressed ticks whose bit is set;    *)
(* a word that is missing has no bit set.                                  *)
position(tick) == [word |-> tick \div WordSize, bit |-> tick % WordSize]

(* Rust's / on i32 rounds towards zero.                                    *)
TruncDiv(a, b) == IF a < 0 THEN -((-a) \div b) ELSE a \div b

compress(tick, tick_spacing) ==
    IF tick < 0 /\ tick % tick_spacing # 0
    THEN TruncDiv(tick, tick_spacing) - 1
    ELSE TruncDiv(tick, tick_spacing)

(* The bits of c's word on c's side, as compressed ticks.                  *)
MaskedBelow(bitmap, c) == {b \in bitmap : b \div WordSize = position(c).word
                                       /\ position(b).bit <= position(c).bit}
MaskedAbove(bitmap, c) == {b \in bitmap : b \div WordSize = position(c).word
                                       /\ position(b).bit >= position(c).bit}

next_initialized_tick_within_one_word(bitmap, tick, tick_spacing, lte) ==
    LET compressed == compress(tick, tick_spacing)
        below == MaskedBelow(bitmap, compressed)
        above == MaskedAbove(bitmap, compressed + 1)
        next == IF lte
                THEN IF below # {} THEN Max(below)
                     ELSE compressed - position(compressed).bit
                ELSE IF above # {} THEN Min(above)
                     ELSE compressed + 1 + (WordSize - 1 - position(compressed + 1).bit)
    IN  [tick |-> next * tick_spacing,
         initialized |-> IF lte THEN below # {} ELSE above # {}]

add_delta(x, y) == IF x + y \in 0 .. U128Max THEN x + y ELSE Err

NoTick == MIN_TICK - 1    \* the error of get_tick_at_sqrt_ratio

get_tick_at_sqrt_ratio(price) ==
    IF price < MIN_SQRT_RATIO \/ price >= MAX_SQRT_RATIO THEN NoTick
    ELSE Max({t \in MIN_TICK .. MAX_TICK : Ratio[t] <= price})
=============================================================================

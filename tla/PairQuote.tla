----------------------------- MODULE PairQuote -----------------------------
(***************************************************************************)
(* rust/src/simulation/v2.rs: constant-product quotes for an exact input   *)
(* and for an exact output, and a pair whose reserves follow the quotes    *)
(* that are executed.                                                      *)
(***************************************************************************)
EXTENDS FixedWidth

CONSTANTS Reserves,      \* the reserves a pair may start with
          Fees,          \* in basis points
          MaxDeals       \* bound on the quotes executed

ASSUME PairAssumption == Reserves \subseteq 0 .. U256Max /\ Fees \subseteq Nat

VARIABLES reserves,      \* side (0 or 1) |-> reserve
          pairFee,
          deals          \* quotes executed

pairVars == <<reserves, pairFee, deals>>

Invalid(reserve_in, reserve_out, fee_bps) ==
    reserve_in = 0 \/ reserve_out = 0 \/ fee_bps >= BpsDenom

amount_out(amount_in, reserve_in, reserve_out, fee_bps) ==
    LET amount_in_with_fee == amount_in * (BpsDenom - fee_bps)
        denominator == reserve_in * BpsDenom + amount_in_with_fee
    IN  IF \/ Invalid(reserve_in, reserve_out, fee_bps)
           \/ amount_in = 0
           \/ Err \in {Checked(amount_in_with_fee), Checked(denominator)}
        THEN Err
        ELSE mul_div(amount_in_with_fee, reserve_out, denominator)

(* U512 arithmetic is double width and wraps; only a product of three      *)
(* factors can reach its end.                                              *)
U512(x) == x % ((U256Max + 1) * (U256Max + 1))

\* Mutant: the quotient is always increased by one, as in the library's formula.
amount_in_plus_one(want, reserve_in, reserve_out, fee_bps) ==
    LET numerator == U512(reserve_in * want * BpsDenom)
        denominator == (reserve_out - want) * (BpsDenom - fee_bps)
    IN  IF Invalid(reserve_in, reserve_out, fee_bps) \/ want = 0 \/ want >= reserve_out
        THEN Err
        ELSE Checked((numerator \div denominator) + 1)

(* The divisor is positive whenever the checks pass, so the test for zero  *)
(* that follows them in the code never fires.                              *)
amount_in_for_out(want, reserve_in, reserve_out, fee_bps) ==
    LET numerator == U512(reserve_in * want * BpsDenom)
        denominator == (reserve_out - want) * (BpsDenom - fee_bps)
    IN  IF Invalid(reserve_in, reserve_out, fee_bps) \/ want = 0 \/ want >= reserve_out
        THEN Err
        ELSE Checked((numerator \div denominator)
                     + (IF numerator % denominator = 0 THEN 0 ELSE 1))

PairInit(amounts, fees) ==
    /\ reserves \in [{0, 1} -> amounts]
    /\ pairFee \in fees
    /\ deals = 0

(* The pair takes paid on one side and gives got on the other.             *)
Settle(side, paid, got) ==
    /\ deals < MaxDeals /\ deals' = deals + 1
    /\ Err \notin {paid, got, Checked(reserves[side] + paid)}
    /\ reserves' = [reserves EXCEPT ![side] = @ + paid, ![1 - side] = @ - got]
    /\ UNCHANGED pairFee

Sell(side, amount) ==
    Settle(side, amount, amount_out(amount, reserves[side], reserves[1 - side], pairFee))

Buy(side, want) ==
    Settle(side, amount_in_for_out(want, reserves[side], reserves[1 - side], pairFee), want)

PairNext == \E side \in {0, 1}, amount \in Reserves :
                Sell(side, amount) \/ Buy(side, amount)

PairSpec == PairInit(Reserves, Fees) /\ [][PairNext]_pairVars
-----------------------------------------------------------------------------
(* The exact-output quote is the cheapest input that buys the output:      *)
(* whenever both functions answer, the exact-input quote of it covers the  *)
(* output, and that of one unit less does not.                             *)
Cheapest(want, reserve_in, reserve_out, fee_bps) ==
    LET in == amount_in_for_out(want, reserve_in, reserve_out, fee_bps)
        Buys(a) == amount_out(a, reserve_in, reserve_out, fee_bps)
    IN  in # Err => /\ Buys(in) # Err => Buys(in) >= want
                    /\ in > 1 /\ Buys(in - 1) # Err => Buys(in - 1) < want

(* CheapestInput: amount_in_for_out and amount_out are inverse, roundings  *)
(* included, on every pair of reserves the executed quotes lead to.  Where *)
(* the product of amount_in_for_out wraps, amount_out refuses the pair.    *)
CheapestInput ==
    \A side \in {0, 1} : \A want \in 0 .. reserves[1 - side] :
        Cheapest(want, reserves[side], reserves[1 - side], pairFee)
=============================================================================

------------------------- MODULE SignedOrderAdmission -------------------------
(***************************************************************************)
(* rust/src/signed_order_admission.rs: the preview of a match of one YES   *)
(* and one NO order of a prediction market, and the book of cumulative     *)
(* fills that a run of admitted matches builds.                            *)
(*                                                                         *)
(* An order is signed once and may be filled in any number of parts.  The  *)
(* evaluator sees one part at a time: the fill of each side, what each     *)
(* order had filled before, the clock and the fee rates.  The module       *)
(* composes the evaluator with the caller its header describes, one that   *)
(* supplies the live fills and executes what was admitted, to ask what a   *)
(* whole sequence of parts, each rounded on its own, gives the makers.     *)
(*                                                                         *)
(* Hashes, JSON and the wording of violations are left out.  The two basis *)
(* point constants and the width of U256 are parameters, so that rounding  *)
(* and overflow happen at small amounts.                                   *)
(***************************************************************************)
EXTENDS Integers, FiniteSets, FiniteSetsExt

CONSTANTS
  Order,               \* the signed orders
  IsYes, Deposit, MinShares, Deadline,   \* their fields, functions of Order
  MaxUint,             \* U256::MAX
  BPS_DENOMINATOR, MAX_SOURCE_FEE_BPS,
  Fill, FeeBps, CreatorFeeBps,           \* the fills and rates a caller may pass
  MarketExpiry,
  MaxTime              \* bound on the clock

ASSUME OrdersAssumption ==
  /\ IsFiniteSet(Order)
  /\ IsYes \in [Order -> BOOLEAN]
  /\ Deposit \in [Order -> 0..MaxUint]
  /\ MinShares \in [Order -> 0..MaxUint]
  /\ Deadline \in [Order -> Nat]

ASSUME RatesAssumption ==
  /\ MaxUint \in Nat
  /\ BPS_DENOMINATOR \in Nat \ {0}
  /\ MAX_SOURCE_FEE_BPS \in 0..BPS_DENOMINATOR
  /\ Fill \subseteq 0..MaxUint
  /\ FeeBps \subseteq Nat
  /\ CreatorFeeBps \subseteq Nat

ASSUME TimeAssumption == MarketExpiry \in Nat /\ MaxTime \in Nat

VARIABLES
  filled,     \* order |-> amount of its deposit taken by admitted matches
  minted,     \* order |-> shares minted to its maker
  fees,       \* order |-> fees taken from its fills
  paid,       \* fees paid out: [creator, resolver]
  now, resolved,
  verdict     \* outcome of the last evaluation

vars == <<filled, minted, fees, paid, now, resolved, verdict>>

Verdict == {"none", "error", "refused", "executable"}

-----------------------------------------------------------------------------
(* Checked arithmetic on U256.                                             *)

Overflows(left, right) == left * right > MaxUint

mul_div_floor(value, numerator, denominator) == (value * numerator) \div denominator

remaining_capacity(deposit_amount, already_filled) ==
  IF already_filled >= deposit_amount THEN 0 ELSE deposit_amount - already_filled

(* A rate out of range is reported as a violation and counts as 0 in the   *)
(* amounts of the preview.                                                 *)
EffectiveRate(bps, limit) == IF bps <= limit THEN bps ELSE 0

\* Mutant: the fee is rounded up.
feeRoundedUp(gross, fee_bps) ==
  (gross * fee_bps + BPS_DENOMINATOR - 1) \div BPS_DENOMINATOR

fee(gross, fee_bps) == mul_div_floor(gross, fee_bps, BPS_DENOMINATOR)

\* Mutant: both shares of the fee are rounded down.
splitRoundedTwice(gross, fee_bps, creator_fee_bps) ==
  LET total == fee(gross, fee_bps)
  IN  [fee |-> total,
       creator |-> mul_div_floor(total, creator_fee_bps, BPS_DENOMINATOR),
       resolver |-> mul_div_floor(total, BPS_DENOMINATOR - creator_fee_bps,
                                  BPS_DENOMINATOR),
       net |-> gross - total]

split_prediction_fx_fees(gross, fee_bps, creator_fee_bps) ==
  LET total   == fee(gross, fee_bps)
      creator == mul_div_floor(total, creator_fee_bps, BPS_DENOMINATOR)
  IN  [fee |-> total, creator |-> creator, resolver |-> total - creator,
       net |-> gross - total]

(* The two checked_sub calls of the split cannot fail: see SplitIsSound.   *)
SplitOverflows(gross, fee_bps, creator_fee_bps) ==
  \/ Overflows(gross, fee_bps)
  \/ Overflows(fee(gross, fee_bps), creator_fee_bps)

\* Mutant: only a full fill is held to min_shares.
minSharesOfWholeOrder(shares, deposit, min_shares, fill) ==
  fill = deposit /\ shares < min_shares

proportional_min_shares_not_met(shares, deposit, min_shares, fill) ==
  shares * deposit < min_shares * fill

(***************************************************************************)
(* The evaluation of one match.  An input i names the two orders, the two  *)
(* fills and the two rates; already_filled, now and market_resolved are    *)
(* the live state.                                                         *)
(***************************************************************************)
Input == [yes : Order, no : Order, yes_fill : Fill, no_fill : Fill,
          fee_bps : FeeBps, creator_fee_bps : CreatorFeeBps]

Side(i, gross) ==
  split_prediction_fx_fees(gross, EffectiveRate(i.fee_bps, MAX_SOURCE_FEE_BPS),
                           EffectiveRate(i.creator_fee_bps, BPS_DENOMINATOR))

yes_side(i) == Side(i, i.yes_fill)
no_side(i)  == Side(i, i.no_fill)

(* Each side's shares are the other side's net collateral.                 *)
yes_shares_minted(i) == no_side(i).net
no_shares_minted(i)  == yes_side(i).net

\* Mutant: what was filled before is ignored.
HasCapacityPerMatch(i) ==
  i.yes_fill <= Deposit[i.yes] /\ i.no_fill <= Deposit[i.no]

HasCapacity(i) ==
  /\ i.yes_fill <= remaining_capacity(Deposit[i.yes], filled[i.yes])
  /\ i.no_fill <= remaining_capacity(Deposit[i.no], filled[i.no])

NotExpired(i) ==
  now < MarketExpiry /\ now <= Deadline[i.yes] /\ now <= Deadline[i.no]

(* No violation is collected.                                              *)
BasicMatchAdmits(i) ==
  /\ ~resolved
  /\ NotExpired(i)
  /\ IsYes[i.yes] /\ ~IsYes[i.no]
  /\ i.yes_fill > 0 /\ i.no_fill > 0
  /\ Deposit[i.yes] > 0 /\ Deposit[i.no] > 0
  /\ HasCapacity(i)
  /\ i.fee_bps <= MAX_SOURCE_FEE_BPS
  /\ i.creator_fee_bps <= BPS_DENOMINATOR

MinSharesAdmit(i) ==
  /\ ~proportional_min_shares_not_met(yes_shares_minted(i), Deposit[i.yes],
                                      MinShares[i.yes], i.yes_fill)
  /\ ~proportional_min_shares_not_met(no_shares_minted(i), Deposit[i.no],
                                      MinShares[i.no], i.no_fill)

(* Some checked_mul fails: evaluate_prediction_fx_match returns Err.       *)
EvaluationFails(i) ==
  LET f == EffectiveRate(i.fee_bps, MAX_SOURCE_FEE_BPS)
      c == EffectiveRate(i.creator_fee_bps, BPS_DENOMINATOR)
  IN  \/ SplitOverflows(i.yes_fill, f, c)
      \/ SplitOverflows(i.no_fill, f, c)
      \/ Overflows(yes_shares_minted(i), Deposit[i.yes])
      \/ Overflows(MinShares[i.yes], i.yes_fill)
      \/ Overflows(no_shares_minted(i), Deposit[i.no])
      \/ Overflows(MinShares[i.no], i.no_fill)

executable(i) == BasicMatchAdmits(i) /\ MinSharesAdmit(i)

-----------------------------------------------------------------------------
Init ==
  /\ filled = [o \in Order |-> 0]
  /\ minted = [o \in Order |-> 0]
  /\ fees = [o \in Order |-> 0]
  /\ paid = [creator |-> 0, resolver |-> 0]
  /\ now = 0
  /\ resolved = FALSE
  /\ verdict = "none"

EvaluateFails(i) ==
  /\ EvaluationFails(i)
  /\ verdict' = "error"
  /\ UNCHANGED <<filled, minted, fees, paid, now, resolved>>

EvaluateRefuses(i) ==
  /\ ~EvaluationFails(i)
  /\ ~executable(i)
  /\ verdict' = "refused"
  /\ UNCHANGED <<filled, minted, fees, paid, now, resolved>>

(* The caller executes the match it was given, against the state it was    *)
(* evaluated on.                                                           *)
Execute(i) ==
  /\ filled' = [filled EXCEPT ![i.yes] = @ + i.yes_fill, ![i.no] = @ + i.no_fill]
  /\ minted' = [minted EXCEPT ![i.yes] = @ + yes_shares_minted(i),
                              ![i.no] = @ + no_shares_minted(i)]
  /\ fees' = [fees EXCEPT ![i.yes] = @ + yes_side(i).fee, ![i.no] = @ + no_side(i).fee]
  /\ paid' = [creator |-> paid.creator + yes_side(i).creator + no_side(i).creator,
              resolver |-> paid.resolver + yes_side(i).resolver + no_side(i).resolver]

EvaluateAdmits(i) ==
  /\ ~EvaluationFails(i)
  /\ executable(i)
  /\ verdict' = "executable"
  /\ Execute(i)
  /\ UNCHANGED <<now, resolved>>

Tick ==
  /\ now < MaxTime
  /\ now' = now + 1
  /\ UNCHANGED <<filled, minted, fees, paid, resolved, verdict>>

Resolve ==
  /\ ~resolved
  /\ resolved' = TRUE
  /\ UNCHANGED <<filled, minted, fees, paid, now, verdict>>

Evaluate(i) == EvaluateFails(i) \/ EvaluateRefuses(i) \/ EvaluateAdmits(i)

Next == (\E i \in Input : Evaluate(i)) \/ Tick \/ Resolve

Spec == Init /\ [][Next]_vars

-----------------------------------------------------------------------------
TypeOK ==
  /\ filled \in [Order -> 0..MaxUint]
  /\ minted \in [Order -> Nat]
  /\ fees \in [Order -> Nat]
  /\ paid \in [creator : Nat, resolver : Nat]
  /\ now \in 0..MaxTime
  /\ resolved \in BOOLEAN
  /\ verdict \in Verdict

(* remaining_capacity: however its fills are split over matches and over   *)
(* counterparties, an order never gives more than its deposit.             *)
NeverOverfilled == \A o \in Order : filled[o] <= Deposit[o]

(* proportional_min_shares_not_met looks at one fill; the limit price of   *)
(* the signed order holds for the order as a whole.  Rounding each part    *)
(* down cannot erode it, and a maker whose deposit is used up has at least *)
(* min_shares.                                                             *)
MinimumHonoured ==
  \A o \in Order :
    /\ minted[o] * Deposit[o] >= MinShares[o] * filled[o]
    /\ filled[o] = Deposit[o] /\ filled[o] > 0 => minted[o] >= MinShares[o]

(* split_prediction_fx_fees under MAX_SOURCE_FEE_BPS: the fees taken from  *)
(* an order over all its parts stay within the largest rate of what was    *)
(* filled; rounding is in the maker's favour every time.                   *)
FeesWithinCap ==
  \A o \in Order : fees[o] * BPS_DENOMINATOR <= MAX_SOURCE_FEE_BPS * filled[o]

Total(f, S) == MapThenSumSet(LAMBDA o : f[o], S)

(* The split of each side and the crossing of the two nets: what makers    *)
(* gave is the shares outstanding plus the two fee accounts, and the YES   *)
(* shares are backed by what the NO makers paid in net of fees, and vice   *)
(* versa.  No rounding unit is lost or created.                            *)
CollateralConserved ==
  LET Yes == {o \in Order : IsYes[o]}
      No  == Order \ Yes
  IN  /\ Total(filled, Order) = Total(minted, Order) + paid.creator + paid.resolver
      /\ Total(minted, Yes) = Total(filled, No) - Total(fees, No)
      /\ Total(minted, No) = Total(filled, Yes) - Total(fees, Yes)

=============================================================================

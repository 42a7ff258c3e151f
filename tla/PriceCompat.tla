----------------------------- MODULE PriceCompat -----------------------------
(***************************************************************************)
(* src/degenbot/matching/price_compat.py: prices, clearing price and fill  *)
(* of a pair of match candidates, in integers with floor division.         *)
(* Python's integers are unbounded.  The number of WAD decimals (18) and   *)
(* the base of the decimals (10) are parameters, so that every division    *)
(* rounds at small amounts.                                                *)
(***************************************************************************)
EXTENDS Integers

CONSTANTS
  Candidate,        \* the MatchCandidates (records)
  Base, WAD,        \* 10 and 18 in the code
  MAX_TOKEN_DECIMALS

PRICE_SCALE == Base ^ WAD

ASSUME BaseAssumption ==
  /\ WAD \in Nat /\ MAX_TOKEN_DECIMALS \in Nat
  /\ PRICE_SCALE \in Nat \ {0}
  /\ \A d \in 0..MAX_TOKEN_DECIMALS :
       /\ d <= WAD => Base ^ (WAD - d) \in Nat \ {0}
       /\ d > WAD => Base ^ (d - WAD) \in Nat \ {0}

ASSUME CandidateAssumption ==
  \A c \in Candidate :
    /\ c.amount_sell \in Nat /\ c.amount_buy_min \in Nat
    /\ c.pair_sell_decimals \in 0..MAX_TOKEN_DECIMALS
    /\ c.pair_buy_decimals \in 0..MAX_TOKEN_DECIMALS

-----------------------------------------------------------------------------
normalize_amount_to_wad(amount, decimals) ==
  IF decimals <= WAD THEN amount * Base ^ (WAD - decimals)
                     ELSE amount \div Base ^ (decimals - WAD)

denormalize_amount_from_wad(amount_wad, decimals) ==
  IF decimals <= WAD THEN amount_wad \div Base ^ (WAD - decimals)
                     ELSE amount_wad * Base ^ (decimals - WAD)

project_sell_to_buy(amount_sell, price, sell_decimals, buy_decimals) ==
  LET sell_wad == normalize_amount_to_wad(amount_sell, sell_decimals)
      buy_wad  == (sell_wad * price) \div PRICE_SCALE
  IN  denormalize_amount_from_wad(buy_wad, buy_decimals)

project_buy_to_sell(amount_buy, price, sell_decimals, buy_decimals) ==
  LET buy_wad  == normalize_amount_to_wad(amount_buy, buy_decimals)
      sell_wad == (buy_wad * PRICE_SCALE) \div price
  IN  denormalize_amount_from_wad(sell_wad, sell_decimals)

SellWad(c) == normalize_amount_to_wad(c.amount_sell, c.pair_sell_decimals)
BuyMinWad(c) == normalize_amount_to_wad(c.amount_buy_min, c.pair_buy_decimals)

outbound_min_price(o) == (BuyMinWad(o) * PRICE_SCALE) \div SellWad(o)
counter_max_price(c) == (SellWad(c) * PRICE_SCALE) \div BuyMinWad(c)

is_opposing_pair(o, c) == o.pair_sell = c.pair_buy /\ o.pair_buy = c.pair_sell

(* The price of an opposing pair is asked for although it has none.  (A    *)
(* negative amount would raise as well; amounts are taken to be in Nat.)   *)
PriceRaises(o, c) == is_opposing_pair(o, c) /\ (SellWad(o) = 0 \/ BuyMinWad(c) = 0)

is_price_compatible(o, c) ==
  is_opposing_pair(o, c) /\ outbound_min_price(o) <= counter_max_price(c)

clearing_price(o, c) == (outbound_min_price(o) + counter_max_price(c)) \div 2

\* Mutant: the budget is converted at the outbound side's limit price.
fillAtMinPrice(o, c) ==
  LET lo     == outbound_min_price(o)
      budget == project_buy_to_sell(c.amount_sell, lo, o.pair_sell_decimals,
                                    o.pair_buy_decimals)
  IN  IF lo = 0 THEN 0
      ELSE IF o.amount_sell <= budget THEN o.amount_sell ELSE budget

fill_amount(o, c) ==
  LET cp     == clearing_price(o, c)
      budget == project_buy_to_sell(c.amount_sell, cp, o.pair_sell_decimals,
                                    o.pair_buy_decimals)
  IN  IF cp = 0 THEN 0
      ELSE IF o.amount_sell <= budget THEN o.amount_sell ELSE budget

(* One unit of a token, in WAD.                                            *)
RawUnit(decimals) == IF decimals <= WAD THEN Base ^ (WAD - decimals) ELSE 1

(* fill_amount and clearing_price of a compatible pair, in spite of six    *)
(* floor divisions: the outbound side gives no more than it has; the buy   *)
(* amount encode_match_pair computes for the fill is within what the       *)
(* counter side sells; at that amount the counter side's limit price is    *)
(* kept exactly, and the outbound side's is missed by less than one unit   *)
(* of the bought token and one price unit for each unit sold.              *)
HonoursLimits(o, c) ==
  LET cp      == clearing_price(o, c)
      fill    == fill_amount(o, c)
      fillWad == normalize_amount_to_wad(fill, o.pair_sell_decimals)
      paid    == project_sell_to_buy(fill, cp, o.pair_sell_decimals, o.pair_buy_decimals)
      paidWad == normalize_amount_to_wad(paid, o.pair_buy_decimals)
      unit    == RawUnit(o.pair_buy_decimals)
  IN  /\ fill <= o.amount_sell
      /\ paid <= c.amount_sell
      /\ paidWad * BuyMinWad(c) <= fillWad * SellWad(c)
      /\ fillWad * BuyMinWad(o) * PRICE_SCALE
           < ((paidWad + unit) * PRICE_SCALE + fillWad) * SellWad(o)

=============================================================================

------------------------- MODULE MCInternalMatching -------------------------
(***************************************************************************)
(* Two outbound candidates and three counterparties on the tokens A and B, *)
(* with amounts that make every division round.  WAD has two decimals of   *)
(* base 3; A has three, B has one, so that both branches of the conversion *)
(* are taken.  The minimum of dust is 0 in WAD: asking its price raises.   *)
(* The inbound and the uniswapx candidate share an id.  A second has two   *)
(* milliseconds: the source's expiry of o2 and of the inbound candidate    *)
(* comes first if they are queued late, the time to live of dust always.   *)
(***************************************************************************)
EXTENDS InternalMatching

Cand(id, side, sell, sellDec, buy, buyDec, amount, min, expiry) ==
  [id |-> id, side |-> side, pair_sell |-> sell, pair_sell_decimals |-> sellDec,
   pair_buy |-> buy, pair_buy_decimals |-> buyDec, amount_sell |-> amount,
   amount_buy_min |-> min, source_expires_at |-> expiry]

Candidates ==
  {Cand("o1", "outbound", "A", 3, "B", 1, 30, 4, 0),
   Cand("o2", "outbound", "A", 3, "B", 1, 12, 1, 1),
   Cand("c1", "inbound", "B", 1, "A", 3, 7, 30, 1),
   Cand("c1", "uniswapx", "B", 1, "A", 3, 4, 15, 0),
   Cand("dust", "inbound", "B", 1, "A", 3, 1, 2, 2)}

Natives == {[id |-> "arb"]}

=============================================================================

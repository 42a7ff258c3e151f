------------------------ MODULE InternalMatchingProofs ------------------------
(***************************************************************************)
(* Internal matching, for every set of candidates, every number of decimals *)
(* and every base.                                                         *)
(*   - The arithmetic of price_compat.py: one WAD amount is followed through *)
(*     the divisions; each floor loses less than one unit, and always on the *)
(*     side that keeps the fill within the counter side's limits.          *)
(*   - unified_queue.py: no entry is lost or counted twice (QueueInv), and a *)
(*     sweep removes exactly what has expired.                             *)
(*   - internal_matcher.py: the two nested loops look at every opposing pair, *)
(*     and keep the first of those with the largest fill.                  *)
(***************************************************************************)
EXTENDS InternalMatching, SequenceProofs, TLAPS

\* Most leaves are first-order and go to Zenon; the ones about numbers,
\* records and sequences cite SMT.
USE Zenon

(* Floor division, without the operator.                                   *)
LEMMA Floor ==
  ASSUME NEW x \in Nat, NEW d \in Nat \ {0}
  PROVE  /\ x \div d \in Nat
         /\ (x \div d) * d <= x
         /\ x < (x \div d + 1) * d
<1> QED  BY Z3

(* Multiplying by the same factor keeps an inequality.                     *)
LEMMA TimesMonotone ==
  ASSUME NEW x \in Nat, NEW y \in Nat, NEW k \in Nat, x <= y
  PROVE  x * k <= y * k /\ x * k \in Nat /\ y * k \in Nat
<1> QED  BY Z3

(* A common positive factor may be dropped.                                *)
LEMMA TimesCancels ==
  ASSUME NEW x \in Nat, NEW y \in Nat, NEW k \in Nat \ {0}, x * k <= y * k
  PROVE  x <= y
<1>1. ASSUME y < x  PROVE FALSE
  <2>1. y * k < x * k
    BY <1>1, Z3
  <2>2. x * k \in Nat /\ y * k \in Nat
    BY Z3
  <2> QED  BY <2>1, <2>2, Z3
<1> QED  BY <1>1, Z3

(* Floor division by the same divisor keeps an inequality.                 *)
LEMMA FloorMonotone ==
  ASSUME NEW x \in Nat, NEW y \in Nat, NEW d \in Nat \ {0}, x <= y
  PROVE  x \div d <= y \div d
<1> DEFINE p == x \div d
           q == y \div d
<1>1. /\ p \in Nat /\ q \in Nat /\ p * d <= x /\ y < (q + 1) * d
  BY Floor
<1> HIDE DEF p, q
<1>2. ASSUME q < p  PROVE FALSE
  <2>1. (q + 1) * d <= p * d /\ (q + 1) * d \in Nat /\ p * d \in Nat
    BY <1>1, <1>2, TimesMonotone, SMT
  <2> QED  BY <1>1, <2>1, Z3
<1>3. p <= q
  BY <1>1, <1>2, Z3
<1> QED  BY <1>3 DEF p, q

(* Linear steps, apart from the products they are used on.                 *)
LEMMA LinearBelow ==
  ASSUME NEW x \in Nat, NEW y \in Nat, NEW z \in Nat, x <= y, y <= z
  PROVE  x <= z
<1> QED  BY SMT

(* The conversions to and from WAD for a fixed number of decimals: both    *)
(* are monotone, and a round trip in either direction never gains.         *)
LEMMA Conversions ==
  ASSUME NEW d \in 0..MAX_TOKEN_DECIMALS
  PROVE  /\ \A a \in Nat : normalize_amount_to_wad(a, d) \in Nat
         /\ \A a \in Nat : denormalize_amount_from_wad(a, d) \in Nat
         /\ \A a, b \in Nat : a <= b =>
              normalize_amount_to_wad(a, d) <= normalize_amount_to_wad(b, d)
         /\ \A a, b \in Nat : a <= b =>
              denormalize_amount_from_wad(a, d) <= denormalize_amount_from_wad(b, d)
         /\ \A a \in Nat :
              normalize_amount_to_wad(denormalize_amount_from_wad(a, d), d) <= a
         /\ \A a \in Nat :
              denormalize_amount_from_wad(normalize_amount_to_wad(a, d), d) <= a
<1>1. d \in Nat /\ WAD \in Nat
  BY BaseAssumption, SMT
<1>2. ASSUME NEW k \in Nat \ {0}, NEW a \in Nat
      PROVE  /\ a * k \in Nat /\ a \div k \in Nat
             /\ (a \div k) * k <= a
             /\ (a * k) \div k <= a
  <2>1. a * k \in Nat
    BY Z3
  <2> DEFINE q == (a * k) \div k
  <2>2. q \in Nat /\ q * k <= a * k
    BY <2>1, Floor
  <2> HIDE DEF q
  <2>3. q <= a
    BY <2>2, TimesCancels
  <2> QED  BY <2>1, <2>3, Floor DEF q
<1>3. ASSUME NEW k \in Nat \ {0}, NEW a \in Nat, NEW b \in Nat, a <= b
      PROVE  a * k <= b * k /\ a \div k <= b \div k
  BY <1>3, TimesMonotone, FloorMonotone
<1>4. CASE d <= WAD
  <2> DEFINE k == Base ^ (WAD - d)
  <2>1. k \in Nat \ {0}
    BY <1>4, BaseAssumption
  <2>2. /\ \A a : normalize_amount_to_wad(a, d) = a * k
        /\ \A a : denormalize_amount_from_wad(a, d) = a \div k
    BY <1>4 DEF normalize_amount_to_wad, denormalize_amount_from_wad
  <2> HIDE DEF k
  <2> QED  BY <1>2, <1>3, <2>1, <2>2
<1>5. CASE d > WAD
  <2> DEFINE k == Base ^ (d - WAD)
  <2>1. k \in Nat \ {0}
    BY <1>5, BaseAssumption
  <2>2. ~(d <= WAD)
    BY <1>1, <1>5, SMT
  <2>3. /\ \A a : normalize_amount_to_wad(a, d) = a \div k
        /\ \A a : denormalize_amount_from_wad(a, d) = a * k
    BY <2>2 DEF normalize_amount_to_wad, denormalize_amount_from_wad
  <2> HIDE DEF k
  <2> QED  BY <1>2, <1>3, <2>1, <2>3
<1> QED  BY <1>1, <1>4, <1>5, SMT

(* A WAD amount loses less than one unit of the token when it is paid in   *)
(* whole units.                                                            *)
LEMMA RoundTrip ==
  ASSUME NEW d \in 0..MAX_TOKEN_DECIMALS, NEW a \in Nat
  PROVE  /\ RawUnit(d) \in Nat \ {0}
         /\ a + 1 <= normalize_amount_to_wad(denormalize_amount_from_wad(a, d), d) + RawUnit(d)
<1>1. d \in Nat /\ WAD \in Nat
  BY BaseAssumption, SMT
<1>2. CASE d <= WAD
  <2> DEFINE k == Base ^ (WAD - d)
             q == a \div k
  <2>1. k \in Nat \ {0}
    BY <1>2, BaseAssumption
  <2>2. /\ normalize_amount_to_wad(denormalize_amount_from_wad(a, d), d) = q * k
        /\ RawUnit(d) = k
    BY <1>2 DEF normalize_amount_to_wad, denormalize_amount_from_wad, RawUnit
  <2> HIDE DEF k
  <2>3. q \in Nat /\ a < (q + 1) * k
    BY <2>1, Floor
  <2> HIDE DEF q
  <2>4. (q + 1) * k = q * k + k /\ q * k \in Nat
    BY <2>1, <2>3, Z3
  <2>5. a + 1 <= q * k + k
    BY <2>1, <2>3, <2>4, SMT
  <2> QED  BY <2>1, <2>2, <2>5
<1>3. CASE d > WAD
  <2> DEFINE k == Base ^ (d - WAD)
             q == (a * k) \div k
  <2>1. k \in Nat \ {0}
    BY <1>3, BaseAssumption
  <2>2. ~(d <= WAD)
    BY <1>1, <1>3, SMT
  <2>3. /\ normalize_amount_to_wad(denormalize_amount_from_wad(a, d), d) = q
        /\ RawUnit(d) = 1
    BY <2>2 DEF normalize_amount_to_wad, denormalize_amount_from_wad, RawUnit
  <2> HIDE DEF k
  <2>4. a * k \in Nat
    BY <2>1, Z3
  <2>5. q \in Nat /\ a * k < (q + 1) * k
    BY <2>1, <2>4, Floor
  <2> HIDE DEF q
  <2>6. (q + 1) * k \in Nat /\ q + 1 \in Nat
    BY <2>1, <2>5, Z3
  <2>7. a <= q + 1
    <3>1. a * k <= (q + 1) * k
      BY <2>4, <2>5, <2>6, SMT
    <3> QED  BY <2>1, <2>6, <3>1, TimesCancels
  <2>8. a # q + 1
    BY <2>4, <2>5, SMT
  <2>9. a + 1 <= q + 1 /\ 1 \in Nat \ {0}
    BY <2>5, <2>7, <2>8, SMT
  <2> QED  BY <2>3, <2>9
<1> QED  BY <1>1, <1>2, <1>3, SMT

(* The price bounds of a WAD amount pw hold for the amount pd that is paid *)
(* of it, less than a unit smaller.                                        *)
LEMMA PaidBounds ==
  ASSUME NEW w \in Nat, NEW s \in Nat \ {0}, NEW unit \in Nat,
         NEW cSell \in Nat, NEW cMin \in Nat, NEW oSell \in Nat, NEW oMin \in Nat,
         NEW pw \in Nat, NEW pd \in Nat, pd <= pw, pw + 1 <= pd + unit,
         pw * cMin <= w * cSell,
         w * oMin * s < ((pw + 1) * s + w) * oSell
  PROVE  /\ pd * cMin <= w * cSell
         /\ w * oMin * s < ((pd + unit) * s + w) * oSell
<1>1. pd * cMin <= pw * cMin /\ pd * cMin \in Nat /\ pw * cMin \in Nat
  BY TimesMonotone
<1>2. w * cSell \in Nat /\ w * oMin * s \in Nat
  BY Z3
<1> DEFINE x == (pw + 1) * s
           y == (pd + unit) * s
<1>3. x <= y /\ x \in Nat /\ y \in Nat
  <2>1. pw + 1 \in Nat /\ pd + unit \in Nat
    BY SMT
  <2> QED  BY <2>1, TimesMonotone
<1>4. w * oMin * s < (x + w) * oSell
  OBVIOUS
<1> HIDE DEF x, y
<1>5. x + w \in Nat /\ y + w \in Nat /\ x + w <= y + w
  BY <1>3, SMT
<1>6. (x + w) * oSell <= (y + w) * oSell /\ (x + w) * oSell \in Nat /\ (y + w) * oSell \in Nat
  BY <1>5, TimesMonotone
<1> DEFINE l == w * oMin * s
           u == (x + w) * oSell
           v == (y + w) * oSell
<1>7. l < u /\ u <= v /\ l \in Nat /\ u \in Nat /\ v \in Nat
  BY <1>2, <1>4, <1>6
<1>8. pd * cMin <= w * cSell
  BY <1>1, <1>2, LinearBelow
<1> HIDE DEF l, u, v
<1>9. l < v
  BY <1>7, SMT
<1> QED  BY <1>8, <1>9 DEF l, v, y

(* The core of the three price bounds, on WAD amounts: w sold at cp.       *)
LEMMA PriceBounds ==
  ASSUME NEW w \in Nat, NEW cp \in Nat, NEW s \in Nat \ {0},
         NEW lo \in Nat, NEW hi \in Nat, lo <= cp, cp <= hi,
         NEW cSell \in Nat, NEW cMin \in Nat \ {0}, hi * cMin <= cSell * s,
         NEW oSell \in Nat \ {0}, NEW oMin \in Nat, oMin * s < (lo + 1) * oSell,
         NEW paid \in Nat, paid * s <= w * cp, w * cp < (paid + 1) * s
  PROVE  /\ paid * cMin <= w * cSell
         /\ w * oMin * s < ((paid + 1) * s + w) * oSell
<1>1. paid * cMin <= w * cSell
  <2>1. w * cp <= w * hi /\ w * hi \in Nat /\ w * cp \in Nat /\ paid * s \in Nat
    BY Z3
  <2>2. paid * s <= w * hi
    BY <2>1, Z3
  <2>3. (paid * s) * cMin <= (w * hi) * cMin
    BY <2>1, <2>2, TimesMonotone
  <2>4. hi * cMin \in Nat /\ cSell * s \in Nat
    BY Z3
  <2>5. (hi * cMin) * w <= (cSell * s) * w
    BY <2>4, TimesMonotone
  <2>6. (w * hi) * cMin = (hi * cMin) * w /\ (paid * s) * cMin = (paid * cMin) * s
        /\ (cSell * s) * w = (w * cSell) * s
    BY Z3
  <2>7. /\ paid * cMin \in Nat /\ w * cSell \in Nat
        /\ (paid * cMin) * s \in Nat /\ (w * cSell) * s \in Nat /\ (hi * cMin) * w \in Nat
    BY Z3
  <2>8. (paid * cMin) * s <= (w * cSell) * s
    BY <2>3, <2>5, <2>6, <2>7, Z3
  <2> QED  BY <2>7, <2>8, TimesCancels
<1>2. w * oMin * s < ((paid + 1) * s + w) * oSell
  <2>1. oMin * s \in Nat /\ (lo + 1) * oSell \in Nat /\ oMin * s <= (lo + 1) * oSell
    BY Z3
  <2>2. (oMin * s) * w <= ((lo + 1) * oSell) * w
    BY <2>1, TimesMonotone
  <2>3. w * lo \in Nat /\ w * cp \in Nat /\ w * lo <= w * cp /\ (paid + 1) * s \in Nat
    BY Z3
  <2>4. w * lo + w < (paid + 1) * s + w
    BY <2>3, Z3
  <2> DEFINE x == w * lo + w
             y == (paid + 1) * s + w
  <2>5. x \in Nat /\ y \in Nat /\ x < y
    BY <2>3, <2>4, Z3
  <2>6. ((lo + 1) * oSell) * w = x * oSell /\ (oMin * s) * w = w * oMin * s
    BY Z3
  <2> HIDE DEF x, y
  <2>7. x * oSell < y * oSell
    BY <2>5, Z3
  <2>8. x * oSell \in Nat /\ y * oSell \in Nat /\ w * oMin * s \in Nat
    BY <2>5, Z3
  <2>9. w * oMin * s < y * oSell
    BY <2>2, <2>6, <2>7, <2>8, Z3
  <2> QED  BY <2>9 DEF y
<1> QED  BY <1>1, <1>2

(* The prices of a pair that does not raise, and what dividing lost.       *)
LEMMA Prices ==
  ASSUME NEW o \in Candidate, NEW c \in Candidate,
         ~PriceRaises(o, c), is_price_compatible(o, c)
  PROVE  LET lo == outbound_min_price(o)
             hi == counter_max_price(c)
             cp == clearing_price(o, c)
         IN  /\ SellWad(o) \in Nat \ {0} /\ BuyMinWad(o) \in Nat
             /\ SellWad(c) \in Nat /\ BuyMinWad(c) \in Nat \ {0}
             /\ lo \in Nat /\ hi \in Nat /\ cp \in Nat /\ lo <= cp /\ cp <= hi
             /\ hi * BuyMinWad(c) <= SellWad(c) * PRICE_SCALE
             /\ BuyMinWad(o) * PRICE_SCALE < (lo + 1) * SellWad(o)
<1> DEFINE so == SellWad(o)
           bo == BuyMinWad(o)
           sc == SellWad(c)
           bc == BuyMinWad(c)
           lo == outbound_min_price(o)
           hi == counter_max_price(c)
           S  == PRICE_SCALE
<1>1. so \in Nat /\ bo \in Nat /\ sc \in Nat /\ bc \in Nat
  BY CandidateAssumption, Conversions DEF SellWad, BuyMinWad
<1>2. so # 0 /\ bc # 0
  BY DEF PriceRaises, is_price_compatible
<1>3. S \in Nat \ {0}
  BY BaseAssumption
<1>4. lo = (bo * S) \div so /\ hi = (sc * S) \div bc
  BY DEF outbound_min_price, counter_max_price
<1>5. lo <= hi
  BY DEF is_price_compatible
<1>6. clearing_price(o, c) = (lo + hi) \div 2
  BY DEF clearing_price
<1> HIDE DEF so, bo, sc, bc, lo, hi, S
<1>7. bo * S \in Nat /\ sc * S \in Nat
  BY <1>1, <1>3, Z3
<1>8. lo \in Nat /\ bo * S < (lo + 1) * so
  BY <1>1, <1>2, <1>4, <1>7, Floor
<1>9. hi \in Nat /\ hi * bc <= sc * S
  BY <1>1, <1>2, <1>4, <1>7, Floor
<1>10. /\ (lo + hi) \div 2 \in Nat
       /\ lo <= (lo + hi) \div 2 /\ (lo + hi) \div 2 <= hi
  BY <1>5, <1>8, <1>9, Z3
<1> QED  BY <1>1, <1>2, <1>6, <1>8, <1>9, <1>10 DEF so, bo, sc, bc, lo, hi, S

(* A fill of at most the counter side's budget: what is asked for it is    *)
(* within the amount the counter side sells.                               *)
LEMMA WithinBudget ==
  ASSUME NEW amount \in Nat, NEW cp \in Nat \ {0}, NEW fill \in Nat,
         NEW sd \in 0..MAX_TOKEN_DECIMALS, NEW bd \in 0..MAX_TOKEN_DECIMALS,
         fill <= project_buy_to_sell(amount, cp, sd, bd)
  PROVE  project_sell_to_buy(fill, cp, sd, bd) <= amount
<1> DEFINE S  == PRICE_SCALE
           bw == normalize_amount_to_wad(amount, bd)
           sw == (bw * S) \div cp
           w  == normalize_amount_to_wad(fill, sd)
           pw == (w * cp) \div S
<1>1. S \in Nat \ {0}
  BY BaseAssumption
<1>2. bw \in Nat /\ w \in Nat
  BY Conversions
<1>3. /\ project_buy_to_sell(amount, cp, sd, bd) = denormalize_amount_from_wad(sw, sd)
      /\ project_sell_to_buy(fill, cp, sd, bd) = denormalize_amount_from_wad(pw, bd)
  BY DEF project_buy_to_sell, project_sell_to_buy
<1> HIDE DEF S
<1>4. sw \in Nat /\ sw * cp <= bw * S
  <2>1. bw * S \in Nat
    BY <1>1, <1>2, Z3
  <2> QED  BY <2>1, Floor
<1>5. w <= sw
  <2> DEFINE f == denormalize_amount_from_wad(sw, sd)
  <2>1. f \in Nat /\ fill <= f
    BY <1>3, <1>4, Conversions
  <2>2. normalize_amount_to_wad(fill, sd) <= normalize_amount_to_wad(f, sd)
    <3> HIDE DEF f
    <3> QED  BY <2>1, Conversions
  <2>3. normalize_amount_to_wad(f, sd) <= sw /\ normalize_amount_to_wad(f, sd) \in Nat
    <3> HIDE DEF sw
    <3> QED  BY <1>4, <2>1, Conversions
  <2> HIDE DEF f, sw
  <2> QED  BY <1>2, <1>4, <2>2, <2>3, Z3
<1> HIDE DEF bw, sw, w
<1>6. w * cp <= bw * S /\ w * cp \in Nat /\ bw * S \in Nat
  <2>1. w * cp <= sw * cp /\ w * cp \in Nat /\ sw * cp \in Nat
    BY <1>2, <1>4, <1>5, TimesMonotone
  <2>2. bw * S \in Nat
    BY <1>1, <1>2, Z3
  <2> QED  BY <1>4, <2>1, <2>2, Z3
<1>7. pw \in Nat /\ pw * S <= w * cp
  BY <1>1, <1>6, Floor
<1> HIDE DEF pw
<1>8. pw <= bw
  <2>1. pw * S \in Nat
    BY <1>1, <1>7, Z3
  <2>2. pw * S <= bw * S
    BY <1>6, <1>7, <2>1, Z3
  <2> QED  BY <1>1, <1>2, <1>7, <2>2, TimesCancels
<1>9. denormalize_amount_from_wad(pw, bd) <= denormalize_amount_from_wad(bw, bd)
  BY <1>2, <1>7, <1>8, Conversions
<1>10. denormalize_amount_from_wad(bw, bd) <= amount
  BY Conversions DEF bw
<1>11. denormalize_amount_from_wad(pw, bd) \in Nat /\ denormalize_amount_from_wad(bw, bd) \in Nat
  BY <1>2, <1>7, Conversions
<1> QED  BY <1>3, <1>9, <1>10, <1>11, Z3

(* The fill of such a pair is within what the outbound side has and what   *)
(* the counter side can pay.                                               *)
LEMMA FillType ==
  ASSUME NEW o \in Candidate, NEW c \in Candidate,
         ~PriceRaises(o, c), is_price_compatible(o, c)
  PROVE  LET cp == clearing_price(o, c)
         IN  /\ fill_amount(o, c) \in Nat /\ fill_amount(o, c) <= o.amount_sell
             /\ cp # 0 => fill_amount(o, c) <=
                  project_buy_to_sell(c.amount_sell, cp, o.pair_sell_decimals, o.pair_buy_decimals)
<1> DEFINE sd   == o.pair_sell_decimals
           bd   == o.pair_buy_decimals
           cp   == clearing_price(o, c)
           fill == fill_amount(o, c)
           budget == project_buy_to_sell(c.amount_sell, cp, sd, bd)
<1>1. /\ sd \in 0..MAX_TOKEN_DECIMALS /\ bd \in 0..MAX_TOKEN_DECIMALS
      /\ o.amount_sell \in Nat /\ c.amount_sell \in Nat
  BY CandidateAssumption
<1>2. cp \in Nat
  BY Prices
<1>3. PRICE_SCALE \in Nat \ {0}
  BY BaseAssumption
<1>4. fill = IF cp = 0 THEN 0 ELSE IF o.amount_sell <= budget THEN o.amount_sell ELSE budget
  BY DEF fill_amount
<1>5. cp # 0 => budget \in Nat
  <2> SUFFICES ASSUME cp # 0 PROVE budget \in Nat
    OBVIOUS
  <2> DEFINE bw == normalize_amount_to_wad(c.amount_sell, bd)
  <2>1. bw \in Nat
    BY <1>1, Conversions, SMTT(60)
  <2>2. bw * PRICE_SCALE \in Nat
    <3> HIDE DEF bw
    <3> QED  BY <1>3, <2>1, Z3
  <2>3. (bw * PRICE_SCALE) \div cp \in Nat
    <3> HIDE DEF bw, cp
    <3> QED  BY <1>2, <2>2, Floor
  <2>4. budget = denormalize_amount_from_wad((bw * PRICE_SCALE) \div cp, sd)
    BY DEF project_buy_to_sell
  <2> HIDE DEF bw, cp, budget
  <2> QED  BY <1>1, <2>3, <2>4, Conversions
<1> HIDE DEF sd, bd, cp, fill, budget
<1>6. fill \in Nat /\ fill <= o.amount_sell /\ (cp # 0 => fill <= budget)
  BY <1>1, <1>4, <1>5, Z3
<1> QED BY <1>6 DEF sd, bd, cp, fill, budget

(* Every pair find_matches looks at that has prices and is compatible: the *)
(* fill keeps the limits of both sides as HonoursLimits states them, for   *)
(* all amounts and decimals.                                               *)
THEOREM FillHonoursLimits ==
  ASSUME NEW o \in Candidate, NEW c \in Candidate,
         ~PriceRaises(o, c), is_price_compatible(o, c)
  PROVE  HonoursLimits(o, c)
<1> DEFINE sd   == o.pair_sell_decimals
           bd   == o.pair_buy_decimals
           cp   == clearing_price(o, c)
           fill == fill_amount(o, c)
           budget == project_buy_to_sell(c.amount_sell, cp, sd, bd)
           w    == normalize_amount_to_wad(fill, sd)
           pw   == (w * cp) \div PRICE_SCALE
           paid == project_sell_to_buy(fill, cp, sd, bd)
           pd   == normalize_amount_to_wad(paid, bd)
           unit == RawUnit(bd)
<1>1. /\ sd \in 0..MAX_TOKEN_DECIMALS /\ bd \in 0..MAX_TOKEN_DECIMALS
      /\ o.amount_sell \in Nat /\ c.amount_sell \in Nat
  BY CandidateAssumption
<1>2. cp \in Nat
  BY Prices
<1>3. PRICE_SCALE \in Nat \ {0}
  BY BaseAssumption
<1>7. fill \in Nat /\ fill <= o.amount_sell /\ (cp # 0 => fill <= budget)
  BY FillType
<1>6. HonoursLimits(o, c) <=>
        /\ fill <= o.amount_sell
        /\ paid <= c.amount_sell
        /\ pd * BuyMinWad(c) <= w * SellWad(c)
        /\ w * BuyMinWad(o) * PRICE_SCALE < ((pd + unit) * PRICE_SCALE + w) * SellWad(o)
  BY DEF HonoursLimits
<1>5. paid = denormalize_amount_from_wad(pw, bd)
  BY DEF project_sell_to_buy
<1> HIDE DEF sd, bd, cp, fill, budget, paid
<1>8. w \in Nat
  BY <1>1, <1>7, Conversions
<1> HIDE DEF w
<1>9. w * cp \in Nat
  BY <1>2, <1>8, Z3
<1>10. pw \in Nat /\ pw * PRICE_SCALE <= w * cp /\ w * cp < (pw + 1) * PRICE_SCALE
  BY <1>3, <1>9, Floor
<1> HIDE DEF pw
<1>4. pd \in Nat /\ unit \in Nat /\ pd <= pw /\ pw + 1 <= pd + unit
  <2>1. denormalize_amount_from_wad(pw, bd) \in Nat
    BY <1>1, <1>10, Conversions
  <2>2. pd = normalize_amount_to_wad(denormalize_amount_from_wad(pw, bd), bd)
    BY <1>5
  <2>3. pd \in Nat /\ pd <= pw
    BY <1>1, <1>10, <2>1, <2>2, Conversions
  <2>4. unit \in Nat /\ pw + 1 <= pd + unit
    BY <1>1, <1>10, <2>2, RoundTrip
  <2> QED  BY <2>3, <2>4
<1> HIDE DEF pd, unit
<1>11. /\ pd * BuyMinWad(c) <= w * SellWad(c)
       /\ w * BuyMinWad(o) * PRICE_SCALE < ((pd + unit) * PRICE_SCALE + w) * SellWad(o)
  <2> DEFINE lo == outbound_min_price(o)
             hi == counter_max_price(c)
  <2>1. /\ SellWad(o) \in Nat \ {0} /\ BuyMinWad(o) \in Nat
        /\ SellWad(c) \in Nat /\ BuyMinWad(c) \in Nat \ {0}
        /\ lo \in Nat /\ hi \in Nat /\ lo <= cp /\ cp <= hi
        /\ hi * BuyMinWad(c) <= SellWad(c) * PRICE_SCALE
        /\ BuyMinWad(o) * PRICE_SCALE < (lo + 1) * SellWad(o)
    BY Prices DEF cp
  <2> HIDE DEF lo, hi
  <2>2. /\ pw * BuyMinWad(c) <= w * SellWad(c)
        /\ w * BuyMinWad(o) * PRICE_SCALE < ((pw + 1) * PRICE_SCALE + w) * SellWad(o)
    BY <1>2, <1>3, <1>8, <1>10, <2>1, PriceBounds, SMT
  <2>3. BuyMinWad(c) \in Nat /\ SellWad(o) \in Nat
    BY <2>1
  <2> QED  BY <1>3, <1>4, <1>8, <1>10, <2>1, <2>2, <2>3, PaidBounds
<1>12. paid <= c.amount_sell
  <2>1. CASE cp # 0
    BY <1>1, <1>2, <1>7, <2>1, WithinBudget DEF budget, paid
  <2>2. CASE cp = 0
    <3>1. pw = 0
      <4>1. w * cp = 0
        BY <1>8, <2>2, Z3
      <4>2. pw * PRICE_SCALE <= 0 * PRICE_SCALE
        BY <1>3, <1>10, <4>1, Z3
      <4>3. pw <= 0
        BY <1>3, <1>10, <4>2, TimesCancels
      <4> QED  BY <1>10, <4>3, Z3
    <3> DEFINE n == normalize_amount_to_wad(c.amount_sell, bd)
    <3>3. n \in Nat /\ denormalize_amount_from_wad(n, bd) <= c.amount_sell
      BY <1>1, Conversions
    <3> HIDE DEF n
    <3>4. 0 \in Nat /\ 0 <= n
      BY <3>3, SMT
    <3>5. /\ denormalize_amount_from_wad(0, bd) <= denormalize_amount_from_wad(n, bd)
          /\ denormalize_amount_from_wad(0, bd) \in Nat
          /\ denormalize_amount_from_wad(n, bd) \in Nat
      BY <1>1, <3>3, <3>4, Conversions
    <3> QED  BY <1>1, <1>5, <3>1, <3>3, <3>5, Z3
  <2> QED  BY <2>1, <2>2
<1> QED  BY <1>6, <1>7, <1>11, <1>12

-----------------------------------------------------------------------------
(* The queue.                                                              *)

\* The entries add_* makes for the queue n.
Queued(n) == {e \in Entry : e = Item(e.value, e.enqueued) /\ QueueOf(e.value) = n}

(* The inductive invariant: every entry is in the queue of its value and   *)
(* expires when _wrap_candidate said, the counts add up, and the last      *)
(* match keeps the limits of both sides.                                   *)
QueueInv ==
  /\ queue \in [QueueName -> Seq(Entry)]
  /\ \A n \in QueueName : queue[n] \in Seq(Queued(n))
  /\ now \in Nat
  /\ added \in [Value -> Nat] /\ consumed \in [Value -> Nat] /\ swept \in [Value -> Nat]
  /\ EntriesAccounted
  /\ MatchHonoursLimits

(* _wrap_candidate and add_native: the item is a QueueItem of its queue.   *)
LEMMA ItemQueued ==
  ASSUME NEW v \in Value, NEW t \in Nat
  PROVE  /\ QueueOf(v) \in QueueName
         /\ Item(v, t) \in Queued(QueueOf(v)) /\ Item(v, t) \in Entry
         /\ Item(v, t).value = v
<1>1. v \notin Native => v \in Candidate
  BY DEF Value
<1>2. t + CandidateTtl \in Nat /\ t + NativeTtl \in Nat
  BY QueueAssumption, SMT
<1>3. v \in Candidate => /\ v.side \in {"outbound", "inbound", "uniswapx"}
                         /\ v.source_expires_at \in Nat
  BY QueueAssumption
<1>8. v \in Candidate => v.source_expires_at * MillisPerSecond \in Nat
  BY <1>3, QueueAssumption, SMT
<1>4. v \in Candidate => Expiry(v, t) \in Nat
  BY <1>2, <1>8 DEF Expiry
<1>5. Item(v, t) \in Entry
  BY <1>1, <1>2, <1>4 DEF Item, Entry
<1>6. Item(v, t).value = v /\ Item(v, t).enqueued = t
  BY DEF Item
<1>7. QueueOf(v) \in QueueName
  BY <1>1, <1>3 DEF QueueOf, QueueName
<1> QED BY <1>5, <1>6, <1>7 DEF Queued

Without(q, k) == SubSeq(q, 1, k - 1) \o SubSeq(q, k + 1, Len(q))

(* Removing the element at k: what is selected loses that element only.    *)
LEMMA OnlyRemoved ==
  ASSUME NEW T, NEW q \in Seq(T), NEW k \in 1..Len(q), NEW S
  PROVE  /\ Without(q, k) \in Seq(T)
         /\ Len(Only(Without(q, k), S)) \in Nat
         /\ q[k] \in S    => Len(Only(q, S)) = Len(Only(Without(q, k), S)) + 1
         /\ q[k] \notin S => Len(Only(q, S)) = Len(Only(Without(q, k), S))
<1>0. \A s, t \in Seq(T) : Only(s \o t, S) = Only(s, S) \o Only(t, S)
  BY OnlyConcat, SMTT(30)
<1>a. \A s \in Seq(T), e \in T :
        Only(Append(s, e), S) = IF e \in S THEN Append(Only(s, S), e) ELSE Only(s, S)
  BY OnlyAppend, ZenonT(40)
<1> DEFINE a == SubSeq(q, 1, k - 1)
           b == SubSeq(q, k + 1, Len(q))
<1>1. a \in Seq(T) /\ b \in Seq(T) /\ q[k] \in T
  BY SMT
<1>2. q = Append(a, q[k]) \o b
  <2> DEFINE c == Append(a, q[k]) \o b
  <2>1. Len(a) = k - 1 /\ Len(b) = Len(q) - k
    BY SMT
  <2>2. /\ \A i \in 1..(k - 1) : a[i] = q[i]
        /\ \A i \in 1..(Len(q) - k) : b[i] = q[k + i]
    BY SMT
  <2> HIDE DEF a, b
  <2>3. c \in Seq(T) /\ Len(c) = Len(q)
    BY <1>1, <2>1, SMTT(60)
  <2>4. ASSUME NEW i \in 1..Len(q) PROVE c[i] = q[i]
    <3>1. CASE i < k
      BY <1>1, <2>1, <2>2, <3>1, SMT
    <3>2. CASE i = k
      BY <1>1, <2>1, <3>2, SMT
    <3>3. CASE i > k
      <4>1. i - k \in 1..(Len(q) - k) /\ k + (i - k) = i
        BY <3>3, SMT
      <4>2. c[i] = b[i - k]
        BY <1>1, <2>1, <3>3, SMTT(30)
      <4>3. b[i - k] = q[k + (i - k)]
        BY <2>2, <4>1
      <4> QED BY <4>1, <4>2, <4>3
    <3>4. i < k \/ i = k \/ i > k
      <4> HIDE DEF c
      <4> QED BY SMT
    <3> HIDE DEF c
    <3> QED BY <3>1, <3>2, <3>3, <3>4, Zenon
  <2> HIDE DEF c
  <2>5. c = q
    BY <2>3, <2>4, SMT
  <2> QED BY <2>5 DEF c
<1> HIDE DEF a, b
<1>3. Only(q, S) = Only(Append(a, q[k]), S) \o Only(b, S)
  <2>1. Append(a, q[k]) \in Seq(T)
    BY <1>1, SMT
  <2>2. Only(Append(a, q[k]) \o b, S) = Only(Append(a, q[k]), S) \o Only(b, S)
    BY <1>0, <1>1, <2>1
  <2> QED BY <1>2, <2>2
<1>4. Only(Append(a, q[k]), S) = IF q[k] \in S THEN Append(Only(a, S), q[k]) ELSE Only(a, S)
  BY <1>a, <1>1
<1>5. Only(a \o b, S) = Only(a, S) \o Only(b, S)
  BY <1>0, <1>1
<1>6. Only(a, S) \in Seq(T \cap S) /\ Only(b, S) \in Seq(T \cap S)
  BY <1>1, OnlyType
<1> DEFINE oa == Only(a, S)
           ob == Only(b, S)
<1>7. /\ Len(oa \o ob) \in Nat
      /\ Len(Append(oa, q[k]) \o ob) = Len(oa \o ob) + 1
  <2> HIDE DEF oa, ob
  <2>1. oa \in Seq(T) /\ ob \in Seq(T)
    BY <1>6, SeqWiden DEF oa, ob
  <2> QED BY <1>1, <2>1, SMT
<1>8. a \o b \in Seq(T)
  BY <1>1, SMT
<1> HIDE DEF oa, ob
<1>9. /\ q[k] \in S    => Len(Only(q, S)) = Len(Only(a \o b, S)) + 1
      /\ q[k] \notin S => Len(Only(q, S)) = Len(Only(a \o b, S))
  BY <1>3, <1>4, <1>5, <1>7 DEF oa, ob
<1>10. Without(q, k) = a \o b
  BY DEF Without, a, b
<1> QED BY <1>5, <1>7, <1>8, <1>9, <1>10 DEF oa, ob

\* The empty queues are accounted for.
LEMMA QueueInit ==
  Init => QueueInv
<1> SUFFICES ASSUME Init PROVE QueueInv
  OBVIOUS
<1>1. /\ queue \in [QueueName -> Seq(Entry)] /\ now \in Nat
      /\ \A n \in QueueName : queue[n] \in Seq(Queued(n))
      /\ added \in [Value -> Nat] /\ consumed \in [Value -> Nat] /\ swept \in [Value -> Nat]
  BY SMT DEF Init
<1>2. EntriesAccounted
  <2> SUFFICES ASSUME NEW v \in Value
               PROVE added[v] = Len(Only(queue[QueueOf(v)], Holding(v))) + consumed[v] + swept[v]
    BY DEF EntriesAccounted
  <2>1. queue[QueueOf(v)] = <<>>
    BY ItemQueued DEF Init
  <2>2. Only(<<>>, Holding(v)) = <<>>
    BY OnlyEmpty
  <2>3. added[v] = 0 /\ consumed[v] = 0 /\ swept[v] = 0
    BY DEF Init
  <2> QED BY <2>1, <2>2, <2>3, SMT
<1>3. MatchHonoursLimits
  BY DEF Init, None, MatchHonoursLimits
<1> QED BY <1>1, <1>2, <1>3 DEF QueueInv

\* _wrap_candidate and add_native append one entry and count it.
LEMMA AddKeeps ==
  ASSUME QueueInv, NEW v \in Value, Add(v)
  PROVE  QueueInv'
<1> DEFINE n == QueueOf(v)
           x == Item(v, now)
<1>1. /\ n \in QueueName /\ x \in Queued(n) /\ x \in Entry /\ x.value = v
      /\ \A w \in Value : QueueOf(w) \in QueueName
  BY ItemQueued DEF QueueInv
<1>2. /\ queue' = [queue EXCEPT ![n] = Append(queue[n], x)]
      /\ added' = [added EXCEPT ![v] = @ + 1]
      /\ now' = now /\ match' = match /\ consumed' = consumed /\ swept' = swept
  BY DEF Add
<1> HIDE DEF n, x
<1>3. /\ queue' \in [QueueName -> Seq(Entry)] /\ now' \in Nat
      /\ added' \in [Value -> Nat] /\ consumed' \in [Value -> Nat] /\ swept' \in [Value -> Nat]
  BY <1>1, <1>2, SMTT(30) DEF QueueInv
<1>4. ASSUME NEW m \in QueueName PROVE queue'[m] \in Seq(Queued(m))
  <2>1. CASE m = n
    <3>1. queue'[m] = Append(queue[n], x) /\ queue[n] \in Seq(Queued(n))
      BY <1>1, <1>2, <2>1 DEF QueueInv
    <3> QED BY <1>1, <2>1, <3>1, SMT
  <2>2. CASE m # n
    BY <1>2, <2>2 DEF QueueInv
  <2> QED BY <2>1, <2>2
<1>5. ASSUME NEW w \in Value
      PROVE  added'[w] = Len(Only(queue'[QueueOf(w)], Holding(w))) + consumed'[w] + swept'[w]
  <2> DEFINE q == queue[QueueOf(w)]
             o == Only(q, Holding(w))
  <2>1. /\ q \in Seq(Entry) /\ consumed[w] \in Nat /\ swept[w] \in Nat
        /\ added[w] = Len(o) + consumed[w] + swept[w]
    BY <1>1 DEF QueueInv, EntriesAccounted
  <2>2. o \in Seq(Entry) /\ Len(o) \in Nat
    <3>1. o \in Seq(Entry \cap Holding(w))
      BY <2>1, OnlyType
    <3> HIDE DEF o
    <3> QED BY <3>1, SMT
  <2>3. CASE w = v
    <3>1. queue'[QueueOf(w)] = Append(q, x) /\ added'[w] = added[w] + 1
      BY <1>1, <1>2, <2>3 DEF QueueInv, n
    <3>2. x \in Holding(w)
      BY <1>1, <2>3 DEF Holding
    <3>3. Only(Append(q, x), Holding(w)) = Append(o, x)
      BY <1>1, <2>1, <3>2, OnlyAppend, SMT
    <3> HIDE DEF o
    <3>4. Len(Append(o, x)) = Len(o) + 1
      BY <1>1, <2>2, SMT
    <3>5. Len(Only(queue'[QueueOf(w)], Holding(w))) = Len(o) + 1
      BY <3>1, <3>3, <3>4
    <3>6. consumed'[w] = consumed[w] /\ swept'[w] = swept[w]
      BY <1>2
    <3> QED BY <2>1, <2>2, <3>1, <3>5, <3>6, SMTT(30)
  <2>4. CASE w # v
    <3>1. added'[w] = added[w]
      BY <1>2, <2>4 DEF QueueInv
    <3>2. Only(queue'[QueueOf(w)], Holding(w)) = o
      <4>1. CASE QueueOf(w) = n
        <5>1. queue'[QueueOf(w)] = Append(q, x)
          BY <1>1, <1>2, <4>1 DEF QueueInv
        <5>2. x \notin Holding(w)
          BY <1>1, <2>4 DEF Holding
        <5> QED BY <1>1, <2>1, <5>1, <5>2, OnlyAppend, SMT
      <4>2. CASE QueueOf(w) # n
        BY <1>1, <1>2, <4>2 DEF QueueInv
      <4> QED BY <4>1, <4>2
    <3> QED BY <1>2, <2>1, <3>1, <3>2
  <2> QED BY <2>3, <2>4
<1>6. MatchHonoursLimits'
  BY <1>2 DEF QueueInv, MatchHonoursLimits
<1> QED BY <1>3, <1>4, <1>5, <1>6 DEF QueueInv, EntriesAccounted

(* One more in the history of v.                                           *)
LEMMA Counted ==
  ASSUME NEW V, NEW f \in [V -> Nat], NEW v \in V
  PROVE  /\ [f EXCEPT ![v] = @ + 1] \in [V -> Nat]
         /\ \A w \in V : [f EXCEPT ![v] = @ + 1][w] = f[w] + IF w = v THEN 1 ELSE 0
<1> QED BY SMT

\* consume removes one entry and counts it.
LEMMA ConsumeKeeps ==
  ASSUME QueueInv, NEW x \in Value, consume(x)
  PROVE  QueueInv'
<1>a. \A i \in DOMAIN Searched(x) : Searched(x)[i] \in QueueName
  BY SMT DEF Searched, QueueName
<1>b. PICK n \in QueueName : \E k \in DOMAIN queue[n] :
        /\ queue' = [queue EXCEPT ![n] = SubSeq(queue[n], 1, k - 1)
                                         \o SubSeq(queue[n], k + 1, Len(queue[n]))]
        /\ consumed' = [consumed EXCEPT ![queue[n][k].value] = @ + 1]
        /\ now' = now /\ match' = match /\ added' = added /\ swept' = swept
  BY <1>a DEF consume
<1> DEFINE q == queue[n]
<1>c. PICK k \in DOMAIN q :
        /\ queue' = [queue EXCEPT ![n] = SubSeq(q, 1, k - 1) \o SubSeq(q, k + 1, Len(q))]
        /\ consumed' = [consumed EXCEPT ![q[k].value] = @ + 1]
        /\ now' = now /\ match' = match /\ added' = added /\ swept' = swept
  BY <1>b
<1> DEFINE v == q[k].value
<1>1. /\ v \in Value /\ QueueOf(v) = n
      /\ \A w \in Value : QueueOf(w) \in QueueName
  <2>1. q \in Seq(Queued(n))
    BY DEF QueueInv
  <2>2. q[k] \in Queued(n)
    BY <2>1, SMT
  <2> QED BY <2>2, ItemQueued DEF Queued, Entry, QueueInv
<1>2. /\ q[k].value = v
      /\ queue' = [queue EXCEPT ![n] = SubSeq(q, 1, k - 1) \o SubSeq(q, k + 1, Len(q))]
      /\ consumed' = [consumed EXCEPT ![v] = @ + 1]
      /\ now' = now /\ match' = match /\ added' = added /\ swept' = swept
  BY <1>c
<1> HIDE DEF v
<1> DEFINE r == Without(q, k)
<1>3. q \in Seq(Entry) /\ q \in Seq(Queued(n))
  BY <1>1 DEF QueueInv
<1>4. k \in 1..Len(q) /\ q[k] \in Entry
  BY <1>3, SMT
<1>5. queue' = [queue EXCEPT ![n] = r]
  BY <1>2 DEF Without
<1>6. r \in Seq(Entry) /\ r \in Seq(Queued(n))
  BY <1>3, <1>4, OnlyRemoved
<1>7. ASSUME NEW w \in Value
      PROVE  /\ Len(Only(r, Holding(w))) \in Nat
             /\ w = v => Len(Only(q, Holding(w))) = Len(Only(r, Holding(w))) + 1
             /\ w # v => Len(Only(q, Holding(w))) = Len(Only(r, Holding(w)))
  <2>1. q[k] \in Holding(w) <=> w = v
    BY <1>2, <1>4 DEF Holding
  <2>2. /\ Len(Only(r, Holding(w))) \in Nat
        /\ q[k] \in Holding(w)    => Len(Only(q, Holding(w))) = Len(Only(r, Holding(w))) + 1
        /\ q[k] \notin Holding(w) => Len(Only(q, Holding(w))) = Len(Only(r, Holding(w)))
    <3>1. q \in Seq(Entry) /\ k \in 1..Len(q)
      BY <1>3, <1>4
    <3> HIDE DEF q
    <3>2. ASSUME NEW S
          PROVE  /\ Len(Only(r, S)) \in Nat
                 /\ q[k] \in S    => Len(Only(q, S)) = Len(Only(r, S)) + 1
                 /\ q[k] \notin S => Len(Only(q, S)) = Len(Only(r, S))
      BY <3>1, OnlyRemoved, SMT
    <3> HIDE DEF r
    <3> QED BY <3>2
  <2> HIDE DEF q, r
  <2> QED BY <2>1, <2>2
<1> HIDE DEF r
<1>8. /\ queue' \in [QueueName -> Seq(Entry)] /\ now' \in Nat
      /\ added' \in [Value -> Nat] /\ consumed' \in [Value -> Nat] /\ swept' \in [Value -> Nat]
  <2>1. queue' \in [QueueName -> Seq(Entry)]
    BY <1>1, <1>5, <1>6 DEF QueueInv
  <2>2. consumed' \in [Value -> Nat]
    BY <1>1, <1>2, Counted DEF QueueInv
  <2> QED BY <1>2, <2>1, <2>2, SMTT(60) DEF QueueInv
<1>9. ASSUME NEW m \in QueueName PROVE queue'[m] \in Seq(Queued(m))
  BY <1>1, <1>5, <1>6 DEF QueueInv
<1>10. ASSUME NEW w \in Value
       PROVE  added'[w] = Len(Only(queue'[QueueOf(w)], Holding(w))) + consumed'[w] + swept'[w]
  <2>1. /\ consumed[w] \in Nat /\ swept[w] \in Nat
        /\ added[w] = Len(Only(queue[QueueOf(w)], Holding(w))) + consumed[w] + swept[w]
    BY <1>1 DEF QueueInv, EntriesAccounted
  <2>2. consumed'[w] = consumed[w] + IF w = v THEN 1 ELSE 0
    <3>1. consumed \in [Value -> Nat]
      BY DEF QueueInv
    <3>2. consumed' = [consumed EXCEPT ![v] = @ + 1] /\ v \in Value
      BY <1>1, <1>2
    <3>3. CASE w = v
      <4>1. consumed'[w] = consumed[w] + 1
        BY <3>1, <3>2, <3>3
      <4> QED BY <3>3, <4>1
    <3>4. CASE w # v
      <4>1. consumed'[w] = consumed[w] /\ consumed[w] \in Nat
        BY <3>1, <3>2, <3>4
      <4>2. consumed[w] = consumed[w] + 0
        BY <4>1, SMT
      <4> QED BY <3>4, <4>1, <4>2
    <3> QED BY <3>3, <3>4
  <2>3. CASE QueueOf(w) = n
    <3>1. queue'[QueueOf(w)] = r
      BY <1>1, <1>5, <2>3 DEF QueueInv
    <3> DEFINE y == Len(Only(r, Holding(w)))
    <3>2. y \in Nat /\ Len(Only(queue[QueueOf(w)], Holding(w))) = y + IF w = v THEN 1 ELSE 0
      BY <1>7, <2>3, SMT
    <3> HIDE DEF y
    <3>3. added[w] = y + consumed'[w] + swept[w]
      BY <2>1, <2>2, <3>2, SMTT(30)
    <3> QED BY <1>2, <3>1, <3>3 DEF y
  <2>4. CASE QueueOf(w) # n
    <3>1. queue'[QueueOf(w)] = queue[QueueOf(w)] /\ w # v
      BY <1>1, <1>5, <2>4 DEF QueueInv
    <3> QED BY <1>2, <2>1, <2>2, <3>1, SMT
  <2> QED BY <2>3, <2>4
<1>11. MatchHonoursLimits'
  BY <1>2 DEF QueueInv, MatchHonoursLimits
<1> QED BY <1>8, <1>9, <1>10, <1>11 DEF QueueInv, EntriesAccounted

\* sweep_expired counts exactly the entries it removes.
LEMMA SweepKeeps ==
  ASSUME QueueInv, sweep_expired
  PROVE  QueueInv'
<1> DEFINE Stays == {e \in Entry : e.expires > now}
<1>1. /\ queue' = [n \in QueueName |-> Only(queue[n], Stays)]
      /\ swept' = [v \in Value |-> swept[v] + Len(Only(queue[QueueOf(v)], Holding(v) \ Stays))]
      /\ now' = now /\ match' = match /\ added' = added /\ consumed' = consumed
  BY DEF sweep_expired
<1> HIDE DEF Stays
<1>2. \A w \in Value : QueueOf(w) \in QueueName
  BY ItemQueued
<1>3. ASSUME NEW m \in QueueName
      PROVE  /\ Only(queue[m], Stays) \in Seq(Entry)
             /\ Only(queue[m], Stays) \in Seq(Queued(m))
  <2>1. queue[m] \in Seq(Entry) /\ queue[m] \in Seq(Queued(m))
    BY DEF QueueInv
  <2>2. /\ Only(queue[m], Stays) \in Seq(Entry \cap Stays)
        /\ Only(queue[m], Stays) \in Seq(Queued(m) \cap Stays)
    BY <2>1, OnlyType
  <2> QED BY <2>2, SeqWiden
<1>4. ASSUME NEW w \in Value
      PROVE  LET q == queue[QueueOf(w)]
             IN  /\ Len(Only(q, Holding(w) \ Stays)) \in Nat
                 /\ Len(Only(Only(q, Stays), Holding(w))) \in Nat
                 /\ Len(Only(q, Holding(w)))
                      = Len(Only(Only(q, Stays), Holding(w))) + Len(Only(q, Holding(w) \ Stays))
  <2> DEFINE q == queue[QueueOf(w)]
             A == Stays \cap Holding(w)
             B == Holding(w) \ Stays
  <2>1. q \in Seq(Entry)
    BY <1>2 DEF QueueInv
  <2>2. /\ \A e \in Entry : e \in Holding(w) <=> e \in A \/ e \in B
        /\ \A e \in Entry : ~(e \in A /\ e \in B)
    OBVIOUS
  <2>3. Only(Only(q, Stays), Holding(w)) = Only(q, A)
    BY <2>1, OnlyTwice, SMT
  <2> HIDE DEF q, A, B
  <2>4. /\ Len(Only(q, A)) \in Nat /\ Len(Only(q, B)) \in Nat
        /\ Len(Only(q, Holding(w))) = Len(Only(q, A)) + Len(Only(q, B))
    BY <2>1, <2>2, OnlySplit, SMT
  <2> QED BY <2>3, <2>4 DEF q, B
<1>5. /\ queue' \in [QueueName -> Seq(Entry)] /\ now' \in Nat
      /\ added' \in [Value -> Nat] /\ consumed' \in [Value -> Nat]
  BY <1>1, <1>3 DEF QueueInv
<1>6. swept' \in [Value -> Nat]
  BY <1>1, <1>4, SMT DEF QueueInv
<1>7. ASSUME NEW m \in QueueName PROVE queue'[m] \in Seq(Queued(m))
  BY <1>1, <1>3
<1>8. ASSUME NEW w \in Value
      PROVE  added'[w] = Len(Only(queue'[QueueOf(w)], Holding(w))) + consumed'[w] + swept'[w]
  <2> DEFINE q == queue[QueueOf(w)]
             a == Len(Only(Only(q, Stays), Holding(w)))
             b == Len(Only(q, Holding(w) \ Stays))
  <2>1. queue'[QueueOf(w)] = Only(q, Stays) /\ swept'[w] = swept[w] + b
    BY <1>1, <1>2
  <2>2. /\ consumed[w] \in Nat /\ swept[w] \in Nat
        /\ added[w] = Len(Only(q, Holding(w))) + consumed[w] + swept[w]
    BY <1>2 DEF QueueInv, EntriesAccounted
  <2>3. a \in Nat /\ b \in Nat /\ Len(Only(q, Holding(w))) = a + b
    BY <1>4
  <2>4. Len(Only(queue'[QueueOf(w)], Holding(w))) = a
    BY <2>1
  <2> HIDE DEF a, b, q
  <2> QED BY <1>1, <2>1, <2>2, <2>3, <2>4, SMT
<1>9. MatchHonoursLimits'
  BY <1>1 DEF QueueInv, MatchHonoursLimits
<1> QED BY <1>5, <1>6, <1>7, <1>8, <1>9 DEF QueueInv, EntriesAccounted

-----------------------------------------------------------------------------
(* The matcher.                                                            *)

FillOf(p) == fill_amount(p[1], p[2])

Best(matches) == BestUpTo(matches)[Len(matches)]

(* The loop of find_best_match has its recursive definition.               *)
LEMMA BestUpToDef ==
  ASSUME NEW T, NEW ms \in Seq(T)
  PROVE  LET best == BestUpTo(ms)
         IN  best = [k \in 0..Len(ms) |-> IF k = 0 THEN None ELSE better(best[k - 1], ms[k])]
<1> DEFINE Body(f, i) == IF i = 0 THEN None ELSE better(f[i - 1], ms[i])
           N == {n \in Nat : \E f : f = [i \in 0..n |-> Body(f, i)]}
<1>1. 0 \in N
  <2> DEFINE f == [i \in 0..0 |-> None]
  <2>1. f = [i \in 0..0 |-> Body(f, i)]
    BY SMT
  <2> HIDE DEF f
  <2> QED BY <2>1
<1>2. ASSUME NEW n \in Nat, n \in N PROVE n + 1 \in N
  <2>1. PICK f : f = [i \in 0..n |-> Body(f, i)]
    BY <1>2
  <2> DEFINE g == [i \in 0..(n + 1) |-> IF i = n + 1 THEN Body(f, i) ELSE f[i]]
  <2>2. ASSUME NEW i \in 0..(n + 1) PROVE g[i] = Body(g, i)
    <3>1. CASE i = n + 1
      <4>1. g[i] = Body(f, i) /\ i # 0 /\ i - 1 = n /\ n \in 0..(n + 1) /\ n # n + 1
        BY <3>1, SMT
      <4>2. g[i - 1] = f[i - 1]
        BY <4>1
      <4> QED BY <4>1, <4>2
    <3>2. CASE i # n + 1
      <4>1. i \in 0..n
        BY <3>2, SMT
      <4>2. g[i] = f[i] /\ f[i] = Body(f, i)
        BY <2>1, <3>2, <4>1
      <4>3. i # 0 => i - 1 \in 0..n /\ i - 1 # n + 1 /\ i - 1 \in 0..(n + 1)
        BY <4>1, SMT
      <4>4. i # 0 => g[i - 1] = f[i - 1]
        BY <4>3
      <4> HIDE DEF g
      <4> QED BY <4>2, <4>4
    <3> QED BY <3>1, <3>2
  <2>3. g = [i \in 0..(n + 1) |-> g[i]]
    OBVIOUS
  <2>4. g = [i \in 0..(n + 1) |-> Body(g, i)]
    <3> HIDE DEF g
    <3> QED BY <2>2, <2>3, SMTT(60)
  <2>5. \E h : h = [i \in 0..(n + 1) |-> Body(h, i)]
    <3> HIDE DEF g, Body
    <3> QED BY <2>4
  <2>6. n + 1 \in Nat
    BY SMT
  <2> HIDE DEF Body
  <2> QED BY <2>5, <2>6, Zenon
<1> HIDE DEF N
<1>3. Len(ms) \in N
  BY <1>1, <1>2, SetInduction, SMT
<1>4. \E f : f = [i \in 0..Len(ms) |-> Body(f, i)]
  BY <1>3 DEF N
<1> QED BY <1>4, SMTT(60) DEF BestUpTo

(* The value of best before the loop.                                      *)
LEMMA BestEmpty == Best(<<>>) = None
<1>1. ASSUME NEW ms \in Seq(Nat), Len(ms) = 0 PROVE Best(ms) = None
  <2> DEFINE f == BestUpTo(ms)
  <2>1. f = [k \in 0..Len(ms) |-> IF k = 0 THEN None ELSE better(f[k - 1], ms[k])]
    BY BestUpToDef
  <2>2. Best(ms) = f[0]
    BY <1>1 DEF Best
  <2> HIDE DEF f
  <2> QED BY <1>1, <2>1, <2>2, SMT
<1>2. <<>> \in Seq(Nat) /\ Len(<<>>) = 0
  BY SMT
<1> QED BY <1>1, <1>2

(* One more match: one more turn of the loop.                              *)
LEMMA BestAppend ==
  ASSUME NEW T, NEW ms \in Seq(T), NEW e \in T
  PROVE  Best(Append(ms, e)) = better(Best(ms), e)
<1> DEFINE t == Append(ms, e)
           f == BestUpTo(ms)
           g == BestUpTo(t)
           l == Len(ms)
           N == {n \in Nat : n <= l => g[n] = f[n]}
<1>1. t \in Seq(T) /\ Len(t) = l + 1 /\ l \in Nat /\ t[l + 1] = e
      /\ \A i \in 1..l : t[i] = ms[i]
  BY SMT
<1>2. Best(ms) = f[l] /\ Best(t) = g[Len(t)]
  BY DEF Best
<1> HIDE DEF t
<1>3. f = [k \in 0..l |-> IF k = 0 THEN None ELSE better(f[k - 1], ms[k])]
  BY BestUpToDef
<1>4. g = [k \in 0..Len(t) |-> IF k = 0 THEN None ELSE better(g[k - 1], t[k])]
  BY <1>1, BestUpToDef
<1> HIDE DEF f, g, l
<1>5. 0 \in N
  BY <1>1, <1>3, <1>4, SMT
<1>6. ASSUME NEW n \in Nat, n \in N PROVE n + 1 \in N
  <2> SUFFICES ASSUME n + 1 <= l PROVE g[n + 1] = f[n + 1]
    BY SMT
  <2> DEFINE m == n + 1
  <2>1. m \in 0..l /\ m \in 0..Len(t) /\ m \in 1..l /\ m # 0 /\ m - 1 = n /\ n <= l
    BY <1>1, SMT
  <2>2. g[n] = f[n]
    BY <1>6, <2>1
  <2> HIDE DEF m
  <2>3. f[m] = better(f[m - 1], ms[m]) /\ g[m] = better(g[m - 1], t[m])
    BY <1>3, <1>4, <2>1
  <2>4. g[m] = f[m]
    BY <1>1, <2>1, <2>2, <2>3
  <2> QED BY <2>4 DEF m
<1>7. g[l] = f[l]
  <2> HIDE DEF N
  <2>1. l \in N
    BY <1>1, <1>5, <1>6, SetInduction, SMTT(20)
  <2> QED BY <1>1, <2>1, SMT DEF N
<1>8. l + 1 \in 0..Len(t) /\ l + 1 # 0 /\ (l + 1) - 1 = l
  BY <1>1, SMT
<1>9. g[l + 1] = better(g[l], t[l + 1])
  BY <1>4, <1>8
<1> QED BY <1>1, <1>2, <1>7, <1>9 DEF t

\* b is the first of the elements of s in V that no other exceeds.
FirstBest(s, V, b) ==
  \/ b = None /\ \A i \in 1..Len(s) : s[i] \notin V
  \/ \E i \in 1..Len(s) :
       /\ s[i] \in V /\ b = MatchPair(s[i])
       /\ \A r \in 1..Len(s) : s[r] \in V =>
            FillOf(s[r]) < FillOf(s[i]) \/ (FillOf(s[r]) = FillOf(s[i]) /\ i <= r)

(* MatchPair is no None, and carries its fill.                             *)
LEMMA PairFacts ==
  ASSUME NEW p
  PROVE  MatchPair(p) # None /\ Fill(MatchPair(p)) = FillOf(p) /\ MatchPair(p) # Raised
         /\ MatchPair(p).kind = "match" /\ MatchPair(p).o = p[1] /\ MatchPair(p).c = p[2]
<1>1. MatchPair(p).kind = "match" /\ MatchPair(p).o = p[1] /\ MatchPair(p).c = p[2]
  BY DEF MatchPair
<1>2. None.kind = "none" /\ Raised.kind = "ValueError"
  BY DEF None, Raised
<1> QED BY <1>1, <1>2 DEF Fill, FillOf

(* One turn keeps FirstBest.                                               *)
LEMMA FirstBestAppend ==
  ASSUME NEW T, NEW s \in Seq(T), NEW V, \A p \in T : p \in V => FillOf(p) \in Nat,
         NEW e \in T, NEW b, FirstBest(s, V, b)
  PROVE  FirstBest(Append(s, e), V, IF e \in V THEN better(b, e) ELSE b)
<1> DEFINE t == Append(s, e)
           n == Len(s)
           d == IF e \in V THEN better(b, e) ELSE b
<1>1. /\ n \in Nat /\ Len(t) = n + 1 /\ t[n + 1] = e
      /\ \A i \in 1..n : t[i] = s[i] /\ s[i] \in T
      /\ \A i \in 1..(n + 1) : i = n + 1 \/ i \in 1..n
      /\ n + 1 \in 1..(n + 1) /\ \A i \in 1..n : i \in 1..(n + 1) /\ i <= n + 1
  BY SMT
<1>2. \/ b = None /\ \A i \in 1..n : s[i] \notin V
      \/ \E i \in 1..n :
           /\ s[i] \in V /\ b = MatchPair(s[i])
           /\ \A r \in 1..n : s[r] \in V =>
                FillOf(s[r]) < FillOf(s[i]) \/ (FillOf(s[r]) = FillOf(s[i]) /\ i <= r)
  BY DEF FirstBest
<1> SUFFICES \/ d = None /\ \A i \in 1..(n + 1) : t[i] \notin V
             \/ \E i \in 1..(n + 1) :
                  /\ t[i] \in V /\ d = MatchPair(t[i])
                  /\ \A r \in 1..(n + 1) : t[r] \in V =>
                       FillOf(t[r]) < FillOf(t[i]) \/ (FillOf(t[r]) = FillOf(t[i]) /\ i <= r)
  BY <1>1 DEF FirstBest
<1> HIDE DEF t, n
<1>3. CASE b = None /\ \A i \in 1..n : s[i] \notin V
  <2>1. CASE e \in V
    <3>1. d = MatchPair(e)
      BY <1>3, <2>1 DEF better
    <3>2. FillOf(e) \in Nat
      BY <2>1
    <3> HIDE DEF d
    <3> QED BY <1>1, <1>3, <2>1, <3>1, <3>2, SMTT(30)
  <2>2. CASE e \notin V
    BY <1>1, <1>3, <2>2
  <2> QED BY <2>1, <2>2
<1>4. ASSUME NEW i \in 1..n, s[i] \in V, b = MatchPair(s[i]),
             \A r \in 1..n : s[r] \in V =>
                FillOf(s[r]) < FillOf(s[i]) \/ (FillOf(s[r]) = FillOf(s[i]) /\ i <= r)
      PROVE  \E j \in 1..(n + 1) :
                  /\ t[j] \in V /\ d = MatchPair(t[j])
                  /\ \A r \in 1..(n + 1) : t[r] \in V =>
                       FillOf(t[r]) < FillOf(t[j]) \/ (FillOf(t[r]) = FillOf(t[j]) /\ j <= r)
  <2>1. b # None /\ Fill(b) = FillOf(s[i])
    BY <1>4, PairFacts
  <2>2. FillOf(s[i]) \in Nat /\ \A r \in 1..n : s[r] \in V => FillOf(s[r]) \in Nat
    BY <1>1, <1>4
  <2>3. CASE e \in V /\ FillOf(e) > FillOf(s[i])
    <3>1. d = MatchPair(e)
      BY <2>1, <2>3, PairFacts DEF better
    <3>2. FillOf(e) \in Nat
      BY <2>3
    <3> HIDE DEF d
    <3>3. ASSUME NEW r \in 1..(n + 1), t[r] \in V
          PROVE  FillOf(t[r]) < FillOf(t[n + 1]) \/ (FillOf(t[r]) = FillOf(t[n + 1]) /\ n + 1 <= r)
      <4>1. CASE r = n + 1
        BY <1>1, <4>1, SMT
      <4>2. CASE r \in 1..n
        <5>1. t[r] = s[r] /\ s[r] \in V /\ FillOf(s[r]) \in Nat
          BY <1>1, <2>2, <3>3, <4>2
        <5>2. FillOf(s[r]) < FillOf(s[i]) \/ FillOf(s[r]) = FillOf(s[i])
          BY <1>4, <4>2, <5>1
        <5>3. FillOf(s[r]) < FillOf(e)
          BY <2>2, <2>3, <3>2, <5>1, <5>2, SMT
        <5> QED BY <1>1, <5>1, <5>3
      <4> QED BY <1>1, <4>1, <4>2
    <3> QED BY <1>1, <2>3, <3>1, <3>3
  <2>4. CASE ~(e \in V /\ FillOf(e) > FillOf(s[i]))
    <3>1. d = b
      BY <2>1, <2>4, PairFacts DEF better
    <3>2. e \in V => FillOf(e) \in Nat
      OBVIOUS
    <3> HIDE DEF d
    <3>3. ASSUME NEW r \in 1..(n + 1), t[r] \in V
          PROVE  FillOf(t[r]) < FillOf(t[i]) \/ (FillOf(t[r]) = FillOf(t[i]) /\ i <= r)
      <4>1. CASE r = n + 1
        <5>1. t[r] = e /\ e \in V /\ t[i] = s[i] /\ i <= r
          BY <1>1, <3>3, <4>1
        <5>2. FillOf(e) < FillOf(s[i]) \/ FillOf(e) = FillOf(s[i])
          BY <2>2, <2>4, <3>2, <5>1, SMT
        <5> QED BY <5>1, <5>2
      <4>2. CASE r \in 1..n
        BY <1>1, <1>4, <3>3, <4>2
      <4> QED BY <1>1, <4>1, <4>2
    <3> QED BY <1>1, <1>4, <3>1, <3>3
  <2> QED BY <2>3, <2>4
<1> HIDE DEF d
<1> QED BY <1>2, <1>3, <1>4, SMTT(20)

(* find_best_match on the pairs of s that are in V.                        *)
LEMMA BestIsFirst ==
  ASSUME NEW T, NEW s \in Seq(T), NEW V, \A p \in T : p \in V => FillOf(p) \in Nat
  PROVE  FirstBest(s, V, Best(Only(s, V)))
<1> DEFINE P == {u \in Seq(T) : FirstBest(u, V, Best(Only(u, V)))}
<1>1. <<>> \in P
  <2>1. <<>> \in Seq(T) /\ Len(<<>>) = 0
    BY SMT
  <2>2. Best(Only(<<>>, V)) = None
    BY OnlyEmpty, BestEmpty
  <2>3. FirstBest(<<>>, V, None)
    BY <2>1, SMT DEF FirstBest
  <2> QED BY <2>1, <2>2, <2>3
<1>2. ASSUME NEW u \in Seq(T), NEW e \in T, u \in P PROVE Append(u, e) \in P
  <2>1. Only(Append(u, e), V) = IF e \in V THEN Append(Only(u, V), e) ELSE Only(u, V)
    BY OnlyAppend
  <2>2. Only(u, V) \in Seq(T)
    <3>1. Only(u, V) \in Seq(T \cap V)
      BY OnlyType
    <3> QED BY <3>1, SMT
  <2>3. Best(Append(Only(u, V), e)) = better(Best(Only(u, V)), e)
    BY <2>2, BestAppend
  <2> DEFINE b == Best(Only(u, V))
  <2>4. Best(Only(Append(u, e), V)) = IF e \in V THEN better(b, e) ELSE b
    BY <2>1, <2>3
  <2>5. FirstBest(u, V, b)
    BY <1>2
  <2> HIDE DEF b
  <2>6. FirstBest(Append(u, e), V, IF e \in V THEN better(b, e) ELSE b)
    BY <2>5, FirstBestAppend
  <2>7. Append(u, e) \in Seq(T)
    BY SMT
  <2> QED BY <2>4, <2>6, <2>7
<1> HIDE DEF P
<1>3. Seq(T) \subseteq P
  BY <1>1, <1>2, SeqInduction
<1> QED BY <1>3 DEF P

\* The next multiple.
LEMMA OneMoreTime ==
  ASSUME NEW n \in Nat, NEW m \in Nat
  PROVE  n * m \in Nat /\ (n + 1) * m = n * m + m
<1> QED BY Z3

\* All rows have m elements.
Even(rows, m) == \A k \in 1..Len(rows) : Len(rows[k]) = m

(* The two nested loops: the pair of the k-th outbound and the j-th counter *)
(* candidate is looked at in turn (k - 1) * m + j.                         *)
LEMMA FlatRows ==
  ASSUME NEW T, NEW m \in Nat, NEW rows \in Seq(Seq(T)), Even(rows, m)
  PROVE  /\ Len(Flat(rows)) = Len(rows) * m
         /\ \A k \in 1..Len(rows), j \in 1..m : Flat(rows)[(k - 1) * m + j] = rows[k][j]
<1> DEFINE P == {u \in Seq(Seq(T)) :
                   (\A k \in 1..Len(u) : Len(u[k]) = m) =>
                     /\ Len(Flat(u)) = Len(u) * m
                     /\ \A k \in 1..Len(u), j \in 1..m : Flat(u)[(k - 1) * m + j] = u[k][j]}
<1>1. <<>> \in P
  <2>1. <<>> \in Seq(Seq(T)) /\ Len(<<>>) = 0 /\ 0 * m = 0
    BY Z3
  <2> QED BY <2>1, FlatEmpty, SMT
<1>2. ASSUME NEW u \in Seq(Seq(T)), NEW e \in Seq(T), u \in P PROVE Append(u, e) \in P
  <2> DEFINE v == Append(u, e)
             n == Len(u)
             f == Flat(u)
             g == Flat(v)
  <2>1. v \in Seq(Seq(T)) /\ Len(v) = n + 1 /\ n \in Nat /\ v[n + 1] = e
        /\ \A k \in 1..n : v[k] = u[k]
    BY SMT
  <2>2. f \in Seq(T) /\ g = f \o e
    BY FlatType, FlatAppend
  <2> SUFFICES ASSUME \A k \in 1..(n + 1) : Len(v[k]) = m
               PROVE  /\ Len(g) = (n + 1) * m
                      /\ \A k \in 1..(n + 1), j \in 1..m : g[(k - 1) * m + j] = v[k][j]
    BY <2>1
  <2> HIDE DEF v
  <2>3. Len(e) = m /\ \A k \in 1..n : Len(u[k]) = m
    BY <2>1, SMT
  <2>4. Len(f) = n * m /\ \A k \in 1..n, j \in 1..m : f[(k - 1) * m + j] = u[k][j]
    BY <1>2, <2>3
  <2> HIDE DEF f, g, n, P
  <2>5. n * m \in Nat /\ (n + 1) * m = n * m + m
    BY <2>1, OneMoreTime
  <2>6. Len(g) = (n + 1) * m
    <3>1. Len(f \o e) = Len(f) + Len(e)
      BY <2>2, SMT
    <3> QED BY <2>2, <2>3, <2>4, <2>5, <3>1
  <2>7. ASSUME NEW k \in 1..(n + 1), NEW j \in 1..m PROVE g[(k - 1) * m + j] = v[k][j]
    <3>1. CASE k = n + 1
      <4>1. (k - 1) * m + j = n * m + j
        BY <2>1, <3>1, Z3
      <4> DEFINE x == n * m
      <4>2. x \in Nat /\ Len(f) = x
        BY <2>4, <2>5
      <4> HIDE DEF x
      <4>3. (f \o e)[x + j] = e[j]
        <5>1. \A i \in 1..Len(e) : (f \o e)[Len(f) + i] = e[i]
          BY <2>2, SMT
        <5> QED BY <2>3, <4>2, <5>1
      <4> QED BY <2>1, <2>2, <3>1, <4>1, <4>3 DEF x
    <3>2. CASE k \in 1..n
      <4> DEFINE x == (k - 1) * m
                 y == n * m
      <4>1. x \in Nat /\ x + m <= y /\ y \in Nat /\ Len(f) = y
        <5>1. k \in Nat /\ k - 1 \in Nat /\ k <= n
          BY <2>1, <3>2, SMT
        <5>2. (k - 1) * m \in Nat /\ (k - 1) * m + m = k * m
          BY <5>1, Z3
        <5>3. k * m <= n * m /\ k * m \in Nat
          BY <2>1, <5>1, TimesMonotone
        <5> QED BY <2>4, <2>5, <5>2, <5>3
      <4>2. f[x + j] = u[k][j]
        BY <2>4, <3>2
      <4> HIDE DEF x, y
      <4>3. x + j \in 1..Len(f)
        BY <4>1, SMT
      <4>4. (f \o e)[x + j] = f[x + j]
        BY <2>2, <4>3, SMT
      <4> QED BY <2>1, <2>2, <3>2, <4>2, <4>4 DEF x
    <3>3. k = n + 1 \/ k \in 1..n
      BY <2>1, SMT
    <3> QED BY <3>1, <3>2, <3>3
  <2> QED BY <2>6, <2>7
<1> HIDE DEF P
<1>3. Seq(Seq(T)) \subseteq P
  BY <1>1, <1>2, SeqInduction
<1> QED BY <1>3 DEF P, Even

(* Every turn belongs to one pair of positions, and the turns are in the   *)
(* order of the positions.                                                 *)
LEMMA Turns ==
  ASSUME NEW n \in Nat, NEW m \in Nat
  PROVE  /\ \A k \in 1..n, j \in 1..m : (k - 1) * m + j \in 1..(n * m)
         /\ \A i \in 1..(n * m) : \E k \in 1..n, j \in 1..m : i = (k - 1) * m + j
         /\ \A k, r \in 1..n, j, l \in 1..m :
              (k - 1) * m + j <= (r - 1) * m + l => ~(r < k \/ (r = k /\ l < j))
<1>0. n * m \in Nat
  BY Z3
<1>1. ASSUME NEW k \in 1..n, NEW j \in 1..m
      PROVE (k - 1) * m \in Nat /\ (k - 1) * m + m = k * m /\ k * m <= n * m /\ k * m \in Nat
  <2>1. k \in Nat /\ k - 1 \in Nat /\ k <= n
    BY SMT
  <2>2. (k - 1) * m \in Nat /\ (k - 1) * m + m = k * m
    BY <2>1, Z3
  <2> QED BY <2>1, <2>2, TimesMonotone
<1>2. ASSUME NEW k \in 1..n, NEW j \in 1..m PROVE (k - 1) * m + j \in 1..(n * m)
  <2> DEFINE x == (k - 1) * m
             y == n * m
  <2>1. x \in Nat /\ x + m <= y /\ y \in Nat
    BY <1>0, <1>1
  <2> HIDE DEF x, y
  <2>2. x + j \in 1..y
    BY <2>1, SMT
  <2> QED BY <2>2 DEF x, y
<1>3. ASSUME NEW i \in 1..(n * m) PROVE \E k \in 1..n, j \in 1..m : i = (k - 1) * m + j
  <2>1. m # 0 /\ i - 1 \in Nat
    <3>1. m = 0 => n * m = 0
      BY Z3
    <3> QED BY <1>0, <3>1, SMT
  <2> DEFINE q == (i - 1) \div m
  <2>2. q \in Nat /\ q * m <= i - 1 /\ i - 1 < (q + 1) * m
    BY <2>1, Floor
  <2> HIDE DEF q
  <2>3. q * m \in Nat /\ (q + 1) * m = q * m + m
    BY <2>2, Z3
  <2>4. q < n
    <3>1. ASSUME n <= q PROVE FALSE
      <4>1. n * m <= q * m
        BY <2>2, <3>1, TimesMonotone
      <4> QED BY <1>0, <2>1, <2>2, <2>3, <4>1, SMT
    <3> QED BY <2>2, <3>1, SMT
  <2> DEFINE k == q + 1
             j == i - q * m
  <2>5. k \in 1..n /\ j \in 1..m /\ k - 1 = q
    <3> DEFINE x == q * m
    <3>1. x \in Nat /\ x <= i - 1 /\ i - 1 < x + m
      BY <2>2, <2>3
    <3> HIDE DEF x
    <3>2. i - x \in 1..m
      BY <1>0, <2>1, <3>1, SMT
    <3> QED BY <2>2, <2>4, <3>2, SMT DEF x
  <2>6. i = q * m + j
    BY <1>0, <2>3, SMT
  <2> HIDE DEF k, j
  <2> QED BY <2>5, <2>6
<1>4. ASSUME NEW k \in 1..n, NEW r \in 1..n, NEW j \in 1..m, NEW l \in 1..m,
             (k - 1) * m + j <= (r - 1) * m + l
      PROVE  ~(r < k \/ (r = k /\ l < j))
  <2> DEFINE x == (k - 1) * m
             y == (r - 1) * m
  <2>1. x \in Nat /\ y \in Nat /\ x + j <= y + l
    BY <1>1, <1>4
  <2>2. r = k => x = y
    OBVIOUS
  <2>3. r < k => y + m <= x
    <3> SUFFICES ASSUME r < k PROVE y + m <= x
      OBVIOUS
    <3>1. r \in Nat /\ k - 1 \in Nat /\ r <= k - 1
      BY SMT
    <3>2. r * m <= (k - 1) * m
      BY <3>1, TimesMonotone
    <3> QED BY <1>1, <3>2
  <2> HIDE DEF x, y
  <2> QED BY <2>1, <2>2, <2>3, SMT
<1> QED BY <1>2, <1>3, <1>4

\* What find_best_match returns when no price raises.
Chosen(out, ctr, b) ==
  \/ b = None /\ \A k \in DOMAIN out, j \in DOMAIN ctr : ~Viable(<<out[k], ctr[j]>>)
  \/ \E k \in DOMAIN out, j \in DOMAIN ctr :
       /\ Viable(<<out[k], ctr[j]>>) /\ b = MatchPair(<<out[k], ctr[j]>>)
       /\ \A r \in DOMAIN out, l \in DOMAIN ctr : Viable(<<out[r], ctr[l]>>) =>
            \/ fill_amount(out[r], ctr[l]) < fill_amount(out[k], ctr[j])
            \/ /\ fill_amount(out[r], ctr[l]) = fill_amount(out[k], ctr[j])
               /\ ~(r < k \/ (r = k /\ l < j))

(* The pairs of the two loops, by turn.                                    *)
LEMMA PairsByTurn ==
  ASSUME NEW out \in Seq(Candidate), NEW ctr \in Seq(Candidate),
         \A k \in DOMAIN out, j \in DOMAIN ctr : ~PriceRaises(out[k], ctr[j])
  PROVE  LET T     == {p \in Candidate \X Candidate : ~PriceRaises(p[1], p[2])}
             pairs == PairsOf(out, ctr)
         IN  /\ pairs \in Seq(T) /\ Len(pairs) = Len(out) * Len(ctr)
             /\ \A k \in 1..Len(out), j \in 1..Len(ctr) :
                  pairs[(k - 1) * Len(ctr) + j] = <<out[k], ctr[j]>>
<1> DEFINE T    == {p \in Candidate \X Candidate : ~PriceRaises(p[1], p[2])}
           RowOf(k) == [j \in DOMAIN ctr |-> <<out[k], ctr[j]>>]
           rows == [k \in DOMAIN out |-> RowOf(k)]
           n == Len(out)
           m == Len(ctr)
<1>1. n \in Nat /\ m \in Nat /\ DOMAIN out = 1..n /\ DOMAIN ctr = 1..m
  BY SMT
<1>2. ASSUME NEW k \in 1..n, NEW j \in 1..m PROVE <<out[k], ctr[j]>> \in T
  <2>1. out[k] \in Candidate /\ ctr[j] \in Candidate /\ ~PriceRaises(out[k], ctr[j])
    BY <1>1, SMT
  <2> QED BY <2>1
<1> HIDE DEF T
<1>3. ASSUME NEW k \in 1..n
      PROVE  /\ RowOf(k) \in Seq(T) /\ Len(RowOf(k)) = m
             /\ \A j \in 1..m : RowOf(k)[j] = <<out[k], ctr[j]>>
  BY <1>1, <1>2, SMT
<1> HIDE DEF RowOf
<1>4. /\ rows \in Seq(Seq(T)) /\ Len(rows) = n
      /\ \A k \in 1..n : rows[k] = RowOf(k)
  BY <1>1, <1>3, SMT
<1>5. PairsOf(out, ctr) = Flat(rows)
  BY DEF PairsOf, RowOf
<1> HIDE DEF rows
<1>6. Flat(rows) \in Seq(T)
  BY <1>4, FlatType
<1>7. Even(rows, m)
  BY <1>3, <1>4 DEF Even
<1>8. /\ Len(Flat(rows)) = Len(rows) * m
      /\ \A k \in 1..Len(rows), j \in 1..m : Flat(rows)[(k - 1) * m + j] = rows[k][j]
  <2>1. m \in Nat /\ rows \in Seq(Seq(T))
    BY <1>1, <1>4
  <2> HIDE DEF m, n
  <2> QED BY <1>7, <2>1, FlatRows, SMTT(30)
<1>9. ASSUME NEW k \in 1..n, NEW j \in 1..m
      PROVE  Flat(rows)[(k - 1) * m + j] = <<out[k], ctr[j]>>
  <2>1. Flat(rows)[(k - 1) * m + j] = rows[k][j]
    BY <1>4, <1>8
  <2>2. rows[k][j] = <<out[k], ctr[j]>>
    BY <1>3, <1>4
  <2> QED BY <2>1, <2>2
<1> QED BY <1>4, <1>5, <1>6, <1>8, <1>9 DEF T

(* find_best_match on the lists of a snapshot in which every opposing pair *)
(* has a price.                                                            *)
LEMMA BestMatch ==
  ASSUME NEW out \in Seq(Candidate), NEW ctr \in Seq(Candidate),
         \A k \in DOMAIN out, j \in DOMAIN ctr : ~PriceRaises(out[k], ctr[j])
  PROVE  Chosen(out, ctr, find_best_match(out, ctr))
<1> DEFINE T     == {p \in Candidate \X Candidate : ~PriceRaises(p[1], p[2])}
           pairs == PairsOf(out, ctr)
           V     == {p \in Range(pairs) : Viable(p)}
           n     == Len(out)
           m     == Len(ctr)
           b     == find_best_match(out, ctr)
           Turn(k, j) == (k - 1) * m + j
           N     == n * m
<1>1. n \in Nat /\ m \in Nat /\ DOMAIN out = 1..n /\ DOMAIN ctr = 1..m
  BY SMT
<1>2. /\ pairs \in Seq(T) /\ Len(pairs) = N
      /\ \A k \in 1..n, j \in 1..m : pairs[Turn(k, j)] = <<out[k], ctr[j]>>
  BY PairsByTurn
<1>3. /\ \A k \in 1..n, j \in 1..m : Turn(k, j) \in 1..N
      /\ \A i \in 1..N : \E k \in 1..n, j \in 1..m : i = Turn(k, j)
      /\ \A k, r \in 1..n, j, l \in 1..m :
           Turn(k, j) <= Turn(r, l) => ~(r < k \/ (r = k /\ l < j))
  <2> HIDE DEF n, m
  <2> QED BY <1>1, Turns
<1>4. b = Best(Only(pairs, V))
  BY DEF find_best_match, find_matches, Best
<1>5. \A i \in 1..N : pairs[i] \in V <=> Viable(pairs[i])
  <2> HIDE DEF pairs, N
  <2>1. DOMAIN pairs = 1..N
    BY <1>2, SMT
  <2>2. \A i \in 1..N : pairs[i] \in Range(pairs)
    BY <2>1 DEF Range
  <2> QED BY <2>2
<1>6. \A p \in T : p \in V => FillOf(p) \in Nat
  <2> HIDE DEF pairs
  <2> SUFFICES ASSUME NEW p \in T, Viable(p) PROVE FillOf(p) \in Nat
    OBVIOUS
  <2>1. p[1] \in Candidate /\ p[2] \in Candidate /\ ~PriceRaises(p[1], p[2])
    OBVIOUS
  <2> QED BY <2>1, FillType DEF Viable, FillOf
<1> HIDE DEF b
<1>a. \/ b = None /\ \A k \in 1..n, j \in 1..m : ~Viable(<<out[k], ctr[j]>>)
      \/ \E k \in 1..n, j \in 1..m :
           /\ Viable(<<out[k], ctr[j]>>) /\ b = MatchPair(<<out[k], ctr[j]>>)
           /\ \A r \in 1..n, l \in 1..m : Viable(<<out[r], ctr[l]>>) =>
                \/ fill_amount(out[r], ctr[l]) < fill_amount(out[k], ctr[j])
                \/ /\ fill_amount(out[r], ctr[l]) = fill_amount(out[k], ctr[j])
                   /\ ~(r < k \/ (r = k /\ l < j))
      => Chosen(out, ctr, b)
  BY <1>1, ZenonT(40) DEF Chosen
<1> HIDE DEF T, pairs, V, Turn, N, n, m
<1>7. FirstBest(pairs, V, b)
  BY <1>2, <1>4, <1>6, BestIsFirst
<1>8. \A k \in 1..n, j \in 1..m : FillOf(<<out[k], ctr[j]>>) = fill_amount(out[k], ctr[j])
  BY DEF FillOf
<1>9. ASSUME b = None, \A i \in 1..N : pairs[i] \notin V
      PROVE  Chosen(out, ctr, b)
  <2>1. ASSUME NEW k \in 1..n, NEW j \in 1..m PROVE ~Viable(<<out[k], ctr[j]>>)
    <3>1. Turn(k, j) \in 1..N /\ pairs[Turn(k, j)] = <<out[k], ctr[j]>>
      BY <1>2, <1>3
    <3> QED BY <1>5, <1>9, <3>1
  <2> QED BY <1>9, <1>a, <2>1
<1>10. ASSUME NEW i \in 1..N, pairs[i] \in V, b = MatchPair(pairs[i]),
              \A r \in 1..N : pairs[r] \in V =>
                \/ FillOf(pairs[r]) < FillOf(pairs[i])
                \/ FillOf(pairs[r]) = FillOf(pairs[i]) /\ i <= r
       PROVE  Chosen(out, ctr, b)
  <2>1. PICK k \in 1..n, j \in 1..m : i = Turn(k, j)
    BY <1>3
  <2>2. pairs[i] = <<out[k], ctr[j]>> /\ Viable(<<out[k], ctr[j]>>)
    BY <1>2, <1>5, <1>10, <2>1
  <2>3. ASSUME NEW r \in 1..n, NEW l \in 1..m, Viable(<<out[r], ctr[l]>>)
        PROVE  \/ fill_amount(out[r], ctr[l]) < fill_amount(out[k], ctr[j])
               \/ /\ fill_amount(out[r], ctr[l]) = fill_amount(out[k], ctr[j])
                  /\ ~(r < k \/ (r = k /\ l < j))
    <3>1. Turn(r, l) \in 1..N /\ pairs[Turn(r, l)] = <<out[r], ctr[l]>>
      BY <1>2, <1>3
    <3>2. pairs[Turn(r, l)] \in V
      BY <1>5, <2>3, <3>1
    <3>3. \/ FillOf(<<out[r], ctr[l]>>) < FillOf(<<out[k], ctr[j]>>)
          \/ FillOf(<<out[r], ctr[l]>>) = FillOf(<<out[k], ctr[j]>>) /\ i <= Turn(r, l)
      BY <1>10, <2>2, <3>1, <3>2
    <3>4. i <= Turn(r, l) => ~(r < k \/ (r = k /\ l < j))
      BY <1>3, <2>1
    <3> QED BY <1>8, <3>3, <3>4
  <2>4. b = MatchPair(<<out[k], ctr[j]>>)
    BY <1>10, <2>2
  <2> QED BY <1>a, <2>2, <2>3, <2>4
<1>11. \/ b = None /\ \A i \in 1..N : pairs[i] \notin V
       \/ \E i \in 1..N :
            /\ pairs[i] \in V /\ b = MatchPair(pairs[i])
            /\ \A r \in 1..N : pairs[r] \in V =>
                 \/ FillOf(pairs[r]) < FillOf(pairs[i])
                 \/ FillOf(pairs[r]) = FillOf(pairs[i]) /\ i <= r
  BY <1>2, <1>7 DEF FirstBest
<1>12. Chosen(out, ctr, b)
  BY <1>9, <1>10, <1>11
<1> QED BY <1>12 DEF b

(* The snapshot the engine takes holds candidates only.                    *)
LEMMA SnapshotType ==
  ASSUME QueueInv
  PROVE  /\ Values("outbound") \in Seq(Candidate)
         /\ Values("inbound") \o Values("uniswapx") \in Seq(Candidate)
<1>1. ASSUME NEW n \in {"outbound", "inbound", "uniswapx"} PROVE Values(n) \in Seq(Candidate)
  <2>1. n \in QueueName /\ n # "native"
    BY DEF QueueName
  <2>2. queue[n] \in Seq(Queued(n))
    BY <2>1 DEF QueueInv
  <2>3. ASSUME NEW e \in Queued(n) PROVE e.value \in Candidate
    <3>1. e.value \in Value /\ QueueOf(e.value) = n
      BY DEF Queued, Entry
    <3> QED BY <2>1, <3>1 DEF Value, QueueOf
  <2> QED BY <2>2, <2>3, SMT DEF Values
<1>2. Values("outbound") \in Seq(Candidate)
  BY <1>1
<1>3. Values("inbound") \in Seq(Candidate) /\ Values("uniswapx") \in Seq(Candidate)
  BY <1>1
<1> QED BY <1>2, <1>3, SMT

\* A match is looked for in a snapshot; no queue changes.
LEMMA RouteKeeps ==
  ASSUME QueueInv, Route
  PROVE  QueueInv'
<1> DEFINE out == Values("outbound")
           ctr == Values("inbound") \o Values("uniswapx")
           b   == find_best_match(out, ctr)
<1>1. match' = b /\ UNCHANGED <<queue, now, added, consumed, swept>>
  BY DEF Route, BestNow
<1>2. out \in Seq(Candidate) /\ ctr \in Seq(Candidate)
  BY SnapshotType
<1> HIDE DEF out, ctr
<1>3. MatchHonoursLimits'
  <2> SUFFICES ASSUME b.kind = "match" PROVE HonoursLimits(b.o, b.c)
    BY <1>1 DEF MatchHonoursLimits
  <2>1. b # Raised /\ b # None
    BY SMT DEF Raised, None
  <2>2. \A k \in DOMAIN out, j \in DOMAIN ctr : ~PriceRaises(out[k], ctr[j])
    BY <2>1 DEF find_best_match
  <2>3. Chosen(out, ctr, b)
    BY <1>2, <2>2, BestMatch
  <2> HIDE DEF b
  <2>4. PICK k \in DOMAIN out, j \in DOMAIN ctr :
          Viable(<<out[k], ctr[j]>>) /\ b = MatchPair(<<out[k], ctr[j]>>)
    BY <2>1, <2>3 DEF Chosen
  <2>5. b.o = out[k] /\ b.c = ctr[j]
    BY <2>4 DEF MatchPair
  <2>6. /\ out[k] \in Candidate /\ ctr[j] \in Candidate
        /\ is_price_compatible(out[k], ctr[j])
    BY <1>2, <2>4, SMT DEF Viable
  <2> QED BY <2>2, <2>5, <2>6, FillHonoursLimits
<1>4. EntriesAccounted'
  BY <1>1 DEF QueueInv, EntriesAccounted
<1> HIDE DEF b
<1> QED BY <1>1, <1>3, <1>4 DEF QueueInv

\* Every step keeps the queues accounted for and the match settleable.
LEMMA QueueStep ==
  QueueInv /\ [Next]_vars => QueueInv'
<1> SUFFICES ASSUME QueueInv, [Next]_vars PROVE QueueInv'
  OBVIOUS
<1>1. ASSUME NEW v \in Value, Add(v) PROVE QueueInv'
  BY <1>1, AddKeeps
<1>2. ASSUME NEW v \in Value, consume(v) PROVE QueueInv'
  BY <1>2, ConsumeKeeps
<1>3. CASE sweep_expired
  BY <1>3, SweepKeeps
<1>4. CASE Route
  BY <1>4, RouteKeeps
<1>5. CASE Tick
  <2>1. now' = now + 1 /\ UNCHANGED <<queue, match, added, consumed, swept>>
    BY <1>5 DEF Tick
  <2>2. EntriesAccounted' /\ MatchHonoursLimits'
    BY <2>1 DEF QueueInv, EntriesAccounted, MatchHonoursLimits
  <2>3. now' \in Nat
    BY <2>1, SMT DEF QueueInv
  <2> QED BY <2>1, <2>2, <2>3 DEF QueueInv
<1>6. CASE UNCHANGED vars
  <2>1. UNCHANGED <<queue, now, match, added, consumed, swept>>
    BY <1>6 DEF vars
  <2>2. EntriesAccounted' /\ MatchHonoursLimits'
    BY <2>1 DEF QueueInv, EntriesAccounted, MatchHonoursLimits
  <2> QED BY <2>1, <2>2 DEF QueueInv
<1> QED BY <1>1, <1>2, <1>3, <1>4, <1>5, <1>6 DEF Next

\* The inductive invariant of the queue and of the engine.
LEMMA QueueInvAlways == Spec => []QueueInv
<1> QED BY QueueInit, QueueStep, PTL DEF Spec

(* Every match the decision engine is given can be settled, whatever was   *)
(* queued and for all amounts and decimals: see HonoursLimits.             *)
THEOREM MatchHonoursLimitsAlways == Spec => []MatchHonoursLimits
<1>1. QueueInv => MatchHonoursLimits
  BY DEF QueueInv
<1> QED BY <1>1, QueueInvAlways, PTL

(* No entry of the queue is lost or counted twice by consume and           *)
(* sweep_expired, whatever duplicates it holds.                            *)
THEOREM EntriesAccountedAlways == Spec => []EntriesAccounted
<1>1. QueueInv => EntriesAccounted
  BY DEF QueueInv
<1> QED BY <1>1, QueueInvAlways, PTL

(* find_best_match returns the first of the pairs with the largest fill,   *)
(* None only when no pair is viable, and raises only for want of a price.  *)
THEOREM BestOfSnapshotAlways == Spec => []BestOfSnapshot
<1> DEFINE out == Values("outbound")
           ctr == Values("inbound") \o Values("uniswapx")
           Pos == (DOMAIN out) \X (DOMAIN ctr)
           Ok  == {p \in Pos : Viable(<<out[p[1]], ctr[p[2]]>>)}
           F(p) == fill_amount(out[p[1]], ctr[p[2]])
           Before(p, r) == p[1] < r[1] \/ (p[1] = r[1] /\ p[2] < r[2])
           Right == IF \E p \in Pos : PriceRaises(out[p[1]], ctr[p[2]]) THEN BestNow = Raised
                    ELSE IF Ok = {} THEN BestNow = None
                    ELSE \E p \in Ok :
                           /\ BestNow = MatchPair(<<out[p[1]], ctr[p[2]]>>)
                           /\ \A r \in Ok : F(r) < F(p) \/ (F(r) = F(p) /\ ~Before(r, p))
<1>1. QueueInv => BestOfSnapshot
  <2> SUFFICES ASSUME QueueInv PROVE Right
    BY DEF BestOfSnapshot
  <2>1. BestNow = find_best_match(out, ctr)
    BY DEF BestNow
  <2>2. out \in Seq(Candidate) /\ ctr \in Seq(Candidate)
    BY SnapshotType
  <2> HIDE DEF out, ctr
  <2>3. CASE \E p \in Pos : PriceRaises(out[p[1]], ctr[p[2]])
    <3>1. \E k \in DOMAIN out, j \in DOMAIN ctr : PriceRaises(out[k], ctr[j])
      BY <2>3
    <3>2. BestNow = Raised
      BY <2>1, <3>1 DEF find_best_match
    <3> QED BY <2>3, <3>2
  <2>4. CASE ~\E p \in Pos : PriceRaises(out[p[1]], ctr[p[2]])
    <3>1. \A k \in DOMAIN out, j \in DOMAIN ctr : ~PriceRaises(out[k], ctr[j])
      <4> SUFFICES ASSUME NEW k \in DOMAIN out, NEW j \in DOMAIN ctr
                   PROVE ~PriceRaises(out[k], ctr[j])
        OBVIOUS
      <4>1. <<k, j>> \in Pos /\ <<k, j>>[1] = k /\ <<k, j>>[2] = j
        OBVIOUS
      <4> HIDE DEF Pos
      <4> QED BY <2>4, <4>1
    <3>2. Chosen(out, ctr, BestNow)
      BY <2>1, <2>2, <3>1, BestMatch
    <3>3. CASE BestNow = None /\ \A k \in DOMAIN out, j \in DOMAIN ctr : ~Viable(<<out[k], ctr[j]>>)
      <4>1. Ok = {}
        BY <3>3
      <4> HIDE DEF Ok
      <4> QED BY <2>4, <3>3, <4>1
    <3>4. ASSUME NEW k \in DOMAIN out, NEW j \in DOMAIN ctr,
                 Viable(<<out[k], ctr[j]>>), BestNow = MatchPair(<<out[k], ctr[j]>>),
                 \A r \in DOMAIN out, l \in DOMAIN ctr : Viable(<<out[r], ctr[l]>>) =>
                   \/ fill_amount(out[r], ctr[l]) < fill_amount(out[k], ctr[j])
                   \/ /\ fill_amount(out[r], ctr[l]) = fill_amount(out[k], ctr[j])
                      /\ ~(r < k \/ (r = k /\ l < j))
          PROVE  Right
      <4> DEFINE p == <<k, j>>
      <4>1. p \in Ok /\ p[1] = k /\ p[2] = j
        BY <3>4
      <4>2. ASSUME NEW r \in Ok PROVE F(r) < F(p) \/ (F(r) = F(p) /\ ~Before(r, p))
        <5>1. r[1] \in DOMAIN out /\ r[2] \in DOMAIN ctr /\ Viable(<<out[r[1]], ctr[r[2]]>>)
          OBVIOUS
        <5> HIDE DEF Ok
        <5> QED BY <3>4, <4>1, <5>1
      <4>3. BestNow = MatchPair(<<out[p[1]], ctr[p[2]]>>)
        BY <3>4, <4>1
      <4> HIDE DEF Ok, p, F, Before, Pos
      <4>4. Ok # {}
        BY <4>1
      <4> QED BY <2>4, <4>1, <4>2, <4>3, <4>4
    <3> HIDE DEF Right
    <3> QED BY <3>2, <3>3, <3>4 DEF Chosen
  <2> HIDE DEF Right, Pos
  <2> QED BY <2>3, <2>4
<1> QED BY <1>1, QueueInvAlways, PTL

(* A number of whole seconds has passed when its milliseconds have.        *)
LEMMA WholeSeconds ==
  ASSUME NEW z \in Nat, NEW t \in Nat
  PROVE  /\ z * MillisPerSecond \in Nat
         /\ z \in 1..(t \div MillisPerSecond)
              <=> 0 < z * MillisPerSecond /\ z * MillisPerSecond <= t
<1> DEFINE k == MillisPerSecond
           q == t \div k
           s == z * k
<1>1. k \in Nat \ {0}
  BY QueueAssumption
<1> HIDE DEF k
<1>2. q \in Nat /\ q * k <= t /\ t < (q + 1) * k
  BY <1>1, Floor
<1> HIDE DEF q
<1>3. s \in Nat /\ (0 < s <=> 0 < z) /\ q * k \in Nat /\ (q + 1) * k \in Nat
  BY <1>1, <1>2, Z3
<1>4. ASSUME z <= q PROVE s <= t
  <2>1. s <= q * k
    BY <1>1, <1>2, <1>4, TimesMonotone
  <2> HIDE DEF s
  <2> QED BY <1>2, <1>3, <2>1, LinearBelow
<1>5. ASSUME ~(z <= q) PROVE t < s
  <2>1. q + 1 \in Nat /\ q + 1 <= z
    BY <1>2, <1>5, SMT
  <2>2. (q + 1) * k <= s
    BY <1>1, <2>1, TimesMonotone
  <2> HIDE DEF s
  <2> DEFINE u == (q + 1) * k
  <2>3. t < u /\ u <= s /\ u \in Nat
    BY <1>2, <1>3, <2>2
  <2> HIDE DEF u
  <2> QED BY <1>3, <2>3, SMT
<1> HIDE DEF s
<1>6. z \in 1..q <=> 0 < s /\ s <= t
  BY <1>2, <1>3, <1>4, <1>5, SMT
<1> QED BY <1>3, <1>6 DEF k, q, s

(* A sweep removes exactly what has waited its time to live or whose       *)
(* source's expiry, in whole seconds, has come, for every time to live and *)
(* every expiry: comparing milliseconds after the conversion and comparing *)
(* whole seconds before it come to the same.                               *)
THEOREM SweepsExactlyAlways == Spec => SweepsExactly
<1> DEFINE Due(e) == \/ now >= e.enqueued + Ttl(e.value)
                     \/ /\ e.value \in Candidate
                        /\ e.value.source_expires_at \in 1..(now \div MillisPerSecond)
           Exact == \A n \in QueueName : queue'[n] = Only(queue[n], {e \in Entry : ~Due(e)})
<1>1. QueueInv /\ sweep_expired => Exact
  <2> SUFFICES ASSUME QueueInv, sweep_expired, NEW n \in QueueName
               PROVE  queue'[n] = Only(queue[n], {e \in Entry : ~Due(e)})
    OBVIOUS
  <2> DEFINE Stays == {e \in Entry : e.expires > now}
  <2>1. queue'[n] = Only(queue[n], Stays)
    BY DEF sweep_expired
  <2>2. queue[n] \in Seq(Queued(n)) /\ now \in Nat
    BY DEF QueueInv
  <2>3. ASSUME NEW e \in Queued(n) PROVE e \in Stays <=> e \in {x \in Entry : ~Due(x)}
    <3> DEFINE v == e.value
               t == e.enqueued
    <3>1. e \in Entry /\ v \in Value /\ t \in Nat /\ e = Item(v, t)
      BY DEF Queued, Entry
    <3>2. e.expires = IF v \in Native THEN t + NativeTtl ELSE Expiry(v, t)
      BY <3>1, SMT DEF Item
    <3>3. CASE v \in Native
      <4>1. v \notin Candidate /\ Ttl(v) = NativeTtl /\ NativeTtl \in Nat
        BY <3>3, QueueAssumption DEF Ttl
      <4> QED BY <2>2, <3>1, <3>2, <3>3, <4>1, SMT
    <3>4. CASE v \notin Native
      <4>1. /\ v \in Candidate /\ Ttl(v) = CandidateTtl /\ CandidateTtl \in Nat
            /\ v.source_expires_at \in Nat
        BY <3>1, <3>4, QueueAssumption DEF Ttl, Value
      <4> DEFINE z == v.source_expires_at
                 s == z * MillisPerSecond
                 x == e.expires
      <4>2. x = IF 0 < s /\ s < t + CandidateTtl THEN s ELSE t + CandidateTtl
        BY <3>2, <3>4 DEF Expiry
      <4>3. Due(e) <=> now >= t + CandidateTtl \/ z \in 1..(now \div MillisPerSecond)
        BY <4>1
      <4>4. z \in Nat /\ CandidateTtl \in Nat
        BY <4>1
      <4>6. z \in 1..(now \div MillisPerSecond) <=> 0 < s /\ s <= now
        BY <2>2, <4>4, WholeSeconds
      <4>7. s \in Nat
        BY <2>2, <4>4, WholeSeconds
      <4> HIDE DEF s, x, t, Due, z
      <4>5. x > now <=> ~(now >= t + CandidateTtl \/ (0 < s /\ s <= now))
        BY <2>2, <3>1, <4>2, <4>4, <4>7, SMT
      <4> QED BY <3>1, <4>3, <4>5, <4>6 DEF x
    <3> QED BY <3>3, <3>4
  <2>4. \A i \in 1..Len(queue[n]) : queue[n][i] \in Stays <=> queue[n][i] \in {x \in Entry : ~Due(x)}
    <3>1. \A i \in 1..Len(queue[n]) : queue[n][i] \in Queued(n)
      BY <2>2, SMT
    <3> HIDE DEF Stays, Due
    <3> QED BY <2>3, <3>1
  <2> DEFINE Young == {x \in Entry : ~Due(x)}
  <2> HIDE DEF Stays, Young, Due
  <2>5. Only(queue[n], Stays) = Only(queue[n], Young)
    BY <2>2, <2>4, OnlySame DEF Young
  <2> QED BY <2>1, <2>5 DEF Young
<1>2. QueueInv /\ [Next]_vars => [sweep_expired => Exact]_vars
  BY <1>1, Zenon
<1> QED BY <1>2, QueueInvAlways, PTL DEF Spec, SweepsExactly

=============================================================================

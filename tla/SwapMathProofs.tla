--------------------------- MODULE SwapMathProofs ---------------------------
(***************************************************************************)
(* Proofs about the arithmetic of quotes, for every width, fee and amount: *)
(* the two constant-product quotes (PairQuote) are inverse; the swap loop  *)
(* (V3Swap) spends no more than it was given, ends within a bound that     *)
(* bitmap and range give, and keeps price, tick and liquidity together;    *)
(* the second Newton loop of a StableSwap quote (CurveQuote, whose d and y *)
(* are root and balance here) stops at the root.                           *)
(***************************************************************************)
EXTENDS V3Swap, PairQuote, Sequences, FiniteSetTheorems, WellFoundedInduction, TLAPS

\* Most leaves are first-order and go to Zenon; the ones about numbers,
\* records and sequences cite SMT.
USE Zenon

(***************************************************************************)
(* Quotients.                                                              *)
(***************************************************************************)
LEMMA MulMono ==
    ASSUME NEW x \in Nat, NEW y \in Nat, NEW b \in Nat, x <= y
    PROVE  x * b <= y * b
<1>1. PICK k \in Nat : y = x + k
  <2>1. y - x \in Nat /\ y = x + (y - x)
      BY SMT
  <2> QED BY <2>1
<1>2. y * b = x * b + k * b /\ k * b \in Nat /\ x * b \in Nat
    BY <1>1, SMT
<1> QED BY <1>2, SMT

LEMMA DivFacts ==
    ASSUME NEW a \in Nat, NEW b \in Nat \ {0}
    PROVE  /\ a \div b \in Nat /\ a % b \in Nat
           /\ a = (a \div b) * b + (a % b) /\ a % b < b
<1>1. a \div b \in Int /\ a % b \in Nat /\ a % b < b
    BY SMT
<1>2. a = b * (a \div b) + (a % b)
    BY SMTT(20)
<1> DEFINE q == a \div b
           m == a % b
<1> HIDE DEF q, m
<1>3. ASSUME q < 0 PROVE FALSE
  <2>1. PICK k \in Nat : q = -1 - k
    <3>1. -1 - q \in Nat /\ q = -1 - (-1 - q)
        BY <1>1, <1>3, SMT DEF q
    <3> QED BY <3>1
  <2>2. b * q = -b - b * k /\ b * k \in Nat
      BY <2>1, SMT
  <2>3. m \in Nat /\ m < b /\ a = b * q + m
      BY <1>1, <1>2 DEF q, m
  <2> QED BY <2>2, <2>3, SMT
<1>4. b * q = q * b
    BY <1>1, SMT DEF q
<1>5. q \in Nat
    BY <1>1, <1>3, SMT DEF q
<1> QED BY <1>1, <1>2, <1>4, <1>5 DEF q, m

(* The floor of a quotient reaches w exactly when the dividend reaches     *)
(* w times the divisor.                                                    *)
LEMMA FloorReaches ==
    ASSUME NEW a \in Nat, NEW b \in Nat \ {0}, NEW w \in Nat
    PROVE  w <= a \div b <=> w * b <= a
<1> DEFINE q == a \div b
           m == a % b
<1>1. q \in Nat /\ m \in Nat /\ a = q * b + m /\ m < b
    BY DivFacts
<1> HIDE DEF q, m
<1>2. q * b \in Nat /\ w * b \in Nat /\ (q + 1) * b = q * b + b
    BY <1>1, SMT
<1>3. ASSUME w <= q PROVE w * b <= a
  <2>1. w * b <= q * b
      BY <1>1, <1>3, MulMono
  <2> QED BY <1>1, <1>2, <2>1, SMT
<1>4. ASSUME q < w PROVE a < w * b
  <2>1. (q + 1) * b <= w * b
      BY <1>1, <1>4, MulMono, SMT
  <2> QED BY <1>1, <1>2, <2>1, SMT
<1> QED BY <1>1, <1>2, <1>3, <1>4, SMT DEF q

(* The quotient rounded up is within w exactly when the dividend is        *)
(* within w times the divisor.                                             *)
LEMMA CeilingWithin ==
    ASSUME NEW a \in Nat, NEW b \in Nat \ {0}
    PROVE  /\ div_rounding_up(a, b) \in Nat
           /\ \A w \in Nat : div_rounding_up(a, b) <= w <=> a <= w * b
<1> DEFINE q == a \div b
           m == a % b
<1>1. q \in Nat /\ m \in Nat /\ a = q * b + m /\ m < b
    BY DivFacts
<1>2. div_rounding_up(a, b) = q + (IF m = 0 THEN 0 ELSE 1)
    BY DEF div_rounding_up
<1> HIDE DEF q, m
<1>3. div_rounding_up(a, b) \in Nat
    BY <1>1, <1>2, SMT
<1>4. ASSUME NEW w \in Nat PROVE div_rounding_up(a, b) <= w <=> a <= w * b
  <2>1. q * b \in Nat /\ w * b \in Nat /\ (q + 1) * b = q * b + b /\ (w + 1) * b = w * b + b
      BY <1>1, SMT
  <2>2. CASE m = 0
    <3>1. q <= w => q * b <= w * b
        BY <1>1, MulMono
    <3>2. w + 1 <= q => (w + 1) * b <= q * b
        BY <1>1, MulMono, SMT
    <3> QED BY <1>1, <1>2, <2>1, <2>2, <3>1, <3>2, SMT
  <2>3. CASE m # 0
    <3>1. q + 1 <= w => (q + 1) * b <= w * b
        BY <1>1, MulMono, SMT
    <3>2. w <= q => w * b <= q * b
        BY <1>1, MulMono
    <3> QED BY <1>1, <1>2, <2>1, <2>3, <3>1, <3>2, SMT
  <2> QED BY <2>2, <2>3
<1> QED BY <1>3, <1>4
(***************************************************************************)
(* PairQuote.                                                              *)
(***************************************************************************)
(* The exact-input quote, cleared of its quotient.                         *)
LEMMA QuoteReaches ==
    ASSUME NEW a \in Nat \ {0}, NEW want \in Nat, NEW ri \in Nat, NEW ro \in Nat, NEW fee \in Nat,
           ~Invalid(ri, ro, fee), amount_out(a, ri, ro, fee) # Err
    PROVE  /\ amount_out(a, ri, ro, fee) \in 0 .. ro
           /\ want <= ro =>
                 (want <= amount_out(a, ri, ro, fee)
                     <=> ri * want * BpsDenom <= a * ((ro - want) * (BpsDenom - fee)))
<1> DEFINE g == BpsDenom - fee
           x == a * g
           y == ri * BpsDenom
           q == (x * ro) \div (y + x)
<1>1. g \in Nat \ {0} /\ BpsDenom \in Nat \ {0} /\ ri \in Nat \ {0}
    BY WidthAssumption, SMT DEF Invalid
<1>2. x \in Nat /\ y \in Nat \ {0}
  <2>1. \A m, n \in Nat \ {0} : m * n \in Nat \ {0}
      BY SMT
  <2> QED BY <1>1, <2>1
<1>3. y + x \in Nat \ {0} /\ x * ro \in Nat
    BY <1>2, SMT
<1>4. amount_out(a, ri, ro, fee) = q
    BY <1>3 DEF amount_out, mul_div, Checked
<1> HIDE DEF x, y, q, g
<1>5. q \in Nat /\ \A w \in Nat : w <= q <=> w * (y + x) <= x * ro
    BY <1>3, DivFacts, FloorReaches DEF q
<1>6. q <= ro
  <2>1. ASSUME ro + 1 <= q PROVE FALSE
    <3>1. (ro + 1) * (y + x) <= x * ro
        BY <1>5, <2>1, SMT
    <3>2. (ro + 1) * (y + x) = ro * y + x * ro + y + x /\ ro * y \in Nat
        BY <1>2, SMT
    <3> QED BY <1>2, <1>3, <3>1, <3>2, SMT
  <2> QED BY <1>5, <2>1, SMT
<1>7. ASSUME want <= ro
      PROVE  want <= q <=> ri * want * BpsDenom <= a * ((ro - want) * g)
  <2>1. want * (y + x) = ri * want * BpsDenom + want * x
    <3>1. want * (y + x) = want * y + want * x
        BY <1>2, SMT
    <3>2. want * y = ri * want * BpsDenom
        BY <1>1, SMT DEF y
    <3> QED BY <3>1, <3>2
  <2>2. a * ((ro - want) * g) = x * ro - want * x
      BY <1>1, <1>7, SMT DEF x
  <2>3. want * x \in Nat /\ ri * want * BpsDenom \in Nat
      BY <1>1, <1>2, SMT
  <2> QED BY <1>3, <1>5, <2>1, <2>2, <2>3, SMT
<1> QED BY <1>4, <1>5, <1>6, <1>7, SMT DEF g

(* The U512 product is exact on a pair for which amount_out answers: when  *)
(* the reserve times 10_000 is beyond U256 there is no exact-input quote.  *)
LEMMA ProductIsExact ==
    ASSUME NEW want \in 0 .. U256Max, NEW ri \in Nat, NEW k \in Nat, ri * k <= U256Max
    PROVE  U512(ri * want * k) = ri * want * k
<1> DEFINE y == ri * k
           m == (U256Max + 1) * (U256Max + 1)
<1>1. y \in Nat /\ U256Max \in Nat /\ want \in Nat /\ want <= U256Max
    BY WidthAssumption, SMT
<1>2. ri * want * k = y * want
    BY <1>1, SMT
<1>3. y <= U256Max
    OBVIOUS
<1> HIDE DEF y
<1>4. y * want <= U256Max * U256Max /\ y * want \in Nat
  <2>1. y * want <= U256Max * want
      BY <1>1, <1>3, MulMono
  <2>2. want * U256Max <= U256Max * U256Max
      BY <1>1, MulMono
  <2> QED BY <1>1, <2>1, <2>2, SMT
<1>5. m \in Nat \ {0} /\ U256Max * U256Max < m
    BY <1>1, SMT
<1> HIDE DEF m
<1>6. \A n \in Nat : n < m => n % m = n
    BY <1>5, SMT
<1>7. (y * want) % m = y * want
    BY <1>1, <1>4, <1>5, <1>6, SMT
<1> QED BY <1>2, <1>7 DEF U512, m

LEMMA NoQuoteBeyond ==
    ASSUME NEW a \in Nat, NEW ri \in Nat, NEW ro \in Nat, NEW fee \in Nat,
           ri * BpsDenom > U256Max
    PROVE  amount_out(a, ri, ro, fee) = Err
<1>1. CASE Invalid(ri, ro, fee)
    BY <1>1 DEF amount_out
<1>2. CASE ~Invalid(ri, ro, fee)
  <2> DEFINE x == a * (BpsDenom - fee)
             y == ri * BpsDenom
  <2>1. BpsDenom - fee \in Nat
      BY <1>2, WidthAssumption, SMT DEF Invalid
  <2>2. x \in Nat /\ y \in Nat /\ U256Max \in Nat
      BY <2>1, WidthAssumption, SMT
  <2>3. y > U256Max
      OBVIOUS
  <2>4. Checked(y + x) = Err
    <3> HIDE DEF x, y
    <3> QED BY <2>2, <2>3, SMT DEF Checked
  <2> HIDE DEF x, y
  <2> QED BY <2>4 DEF amount_out, x, y
<1> QED BY <1>1, <1>2

(* The exact-output quote is the rounded-up quotient of the wrapped        *)
(* product; its divisor is positive.                                       *)
LEMMA InputIsQuotient ==
    ASSUME NEW want \in Nat, NEW ri \in Nat, NEW ro \in Nat, NEW fee \in Nat,
           amount_in_for_out(want, ri, ro, fee) # Err
    PROVE  /\ ~Invalid(ri, ro, fee) /\ want # 0 /\ want < ro
           /\ ri * want * BpsDenom \in Nat \ {0}
           /\ (ro - want) * (BpsDenom - fee) \in Nat \ {0}
           /\ amount_in_for_out(want, ri, ro, fee)
                = div_rounding_up(U512(ri * want * BpsDenom), (ro - want) * (BpsDenom - fee))
           /\ amount_in_for_out(want, ri, ro, fee) \in Nat
<1> DEFINE in == amount_in_for_out(want, ri, ro, fee)
           N == ri * want * BpsDenom
           M == (ro - want) * (BpsDenom - fee)
<1>1. ~Invalid(ri, ro, fee) /\ want # 0 /\ want < ro
    BY SMT DEF amount_in_for_out
<1>2. \A m, n \in Nat \ {0} : m * n \in Nat \ {0}
    BY SMT
<1>3. N \in Nat \ {0} /\ M \in Nat \ {0}
  <2>1. /\ ro - want \in Nat \ {0} /\ BpsDenom - fee \in Nat \ {0}
        /\ ri \in Nat \ {0} /\ want \in Nat \ {0} /\ BpsDenom \in Nat \ {0}
      BY <1>1, WidthAssumption, SMT DEF Invalid
  <2> QED BY <1>2, <2>1
<1>4. in = div_rounding_up(U512(N), M)
    BY <1>1 DEF amount_in_for_out, Checked, div_rounding_up
<1> HIDE DEF N, M, in
<1>5. U512(N) \in Nat
  <2>1. (U256Max + 1) * (U256Max + 1) \in Nat \ {0}
    <3>1. U256Max + 1 \in Nat \ {0}
        BY WidthAssumption, SMT
    <3> QED BY <1>2, <3>1
  <2> QED BY <1>3, <2>1, DivFacts DEF U512
<1>6. in \in Nat
    BY <1>3, <1>4, <1>5, CeilingWithin
<1> QED BY <1>1, <1>3, <1>4, <1>6 DEF in, N, M

(* For all reserves, fees and outputs that a U256 holds: v2.rs's           *)
(* amount_in_for_out is the least input whose amount_out covers the        *)
(* output, wherever both functions answer.                                 *)
THEOREM QuotesAreInverse ==
    ASSUME NEW want \in 0 .. U256Max, NEW ri \in Nat, NEW ro \in Nat, NEW fee \in Nat
    PROVE  Cheapest(want, ri, ro, fee)
<1> DEFINE in == amount_in_for_out(want, ri, ro, fee)
           Buys(a) == amount_out(a, ri, ro, fee)
           N == ri * want * BpsDenom
           M == (ro - want) * (BpsDenom - fee)
<1> SUFFICES ASSUME in # Err
             PROVE  /\ Buys(in) # Err => Buys(in) >= want
                    /\ in > 1 /\ Buys(in - 1) # Err => Buys(in - 1) < want
    BY DEF Cheapest
<1>1. want \in Nat
    BY WidthAssumption, SMT
<1>2. /\ ~Invalid(ri, ro, fee) /\ want # 0 /\ want < ro /\ in \in Nat
      /\ N \in Nat \ {0} /\ M \in Nat \ {0} /\ in = div_rounding_up(U512(N), M)
  <2>1. amount_in_for_out(want, ri, ro, fee) # Err
      OBVIOUS
  <2>2. /\ ~Invalid(ri, ro, fee) /\ want # 0 /\ want < ro
        /\ ri * want * BpsDenom \in Nat \ {0}
        /\ (ro - want) * (BpsDenom - fee) \in Nat \ {0}
        /\ amount_in_for_out(want, ri, ro, fee)
             = div_rounding_up(U512(ri * want * BpsDenom), (ro - want) * (BpsDenom - fee))
        /\ amount_in_for_out(want, ri, ro, fee) \in Nat
    <3> HIDE DEF in, N, M, Buys
    <3> QED BY <1>1, <2>1, InputIsQuotient, ZenonT(40)
  <2> QED BY <2>2
<1>3. CASE ri * BpsDenom > U256Max
  <2>1. \A a \in Nat : Buys(a) = Err
      BY <1>3, NoQuoteBeyond
  <2> HIDE DEF in, Buys
  <2>2. in > 1 => in - 1 \in Nat
      BY <1>2, SMT
  <2> QED BY <1>2, <2>1, <2>2
<1>4. CASE ~(ri * BpsDenom > U256Max)
  <2>1. U512(N) = N
    <3>1. ri * BpsDenom <= U256Max /\ BpsDenom \in Nat
        BY <1>4, WidthAssumption, SMT
    <3> QED BY <3>1, ProductIsExact
  <2>2. \A a \in Nat \ {0} : Buys(a) # Err => /\ Buys(a) \in Nat
                                              /\ want <= Buys(a) <=> N <= a * M
      BY <1>1, <1>2, QuoteReaches, SMT
  <2> HIDE DEF N, M, in, Buys
  <2>3. \A w \in Nat : in <= w <=> N <= w * M
      BY <1>2, <2>1, CeilingWithin
  <2>4. in # 0
      BY <1>2, <2>3, SMT
  <2>5. ASSUME Buys(in) # Err PROVE Buys(in) >= want
      BY <1>1, <1>2, <2>2, <2>3, <2>4, <2>5, SMT
  <2>6. ASSUME in > 1, Buys(in - 1) # Err PROVE Buys(in - 1) < want
    <3>1. in - 1 \in Nat \ {0} /\ ~(in <= in - 1)
        BY <1>2, <2>6, SMT
    <3>2. ~(N <= (in - 1) * M)
        BY <2>3, <3>1
    <3>3. Buys(in - 1) \in Nat /\ ~(want <= Buys(in - 1))
        BY <2>2, <2>6, <3>1, <3>2
    <3> QED BY <1>1, <3>3, SMT
  <2> QED BY <2>5, <2>6
<1> QED BY <1>3, <1>4

(* The pair's reserves stay within a U256.                                 *)
PairInv == reserves \in [{0, 1} -> 0 .. U256Max] /\ pairFee \in Nat

LEMMA SettleKeeps ==
    ASSUME PairInv, NEW side \in {0, 1}, NEW paid, NEW got, Settle(side, paid, got),
           paid \in Nat, got \in 0 .. reserves[1 - side]
    PROVE  PairInv'
<1>1. 1 - side \in {0, 1} /\ 1 - side # side
    BY SMT
<1>2. Checked(reserves[side] + paid) # Err
    BY DEF Settle
<1>3. reserves[side] + paid \in 0 .. U256Max /\ reserves[1 - side] - got \in 0 .. U256Max
    BY <1>1, <1>2, WidthAssumption, SMT DEF PairInv, Checked
<1> QED BY <1>1, <1>3 DEF PairInv, Settle

(* The quotes of v2.rs are inverse on every pair that executed quotes lead *)
(* to, whatever the reserves and fees it began with.                       *)
THEOREM PairsStayInverse == PairSpec => []CheapestInput
<1>1. PairInit(Reserves, Fees) => PairInv
    BY PairAssumption DEF PairInit, PairInv
<1>2. PairInv /\ [PairNext]_pairVars => PairInv'
  <2> SUFFICES ASSUME PairInv, [PairNext]_pairVars PROVE PairInv'
      OBVIOUS
  <2>1. ASSUME NEW side \in {0, 1}, NEW amount \in Reserves, Sell(side, amount)
        PROVE  PairInv'
    <3> DEFINE got == amount_out(amount, reserves[side], reserves[1 - side], pairFee)
    <3>1. /\ amount \in Nat /\ reserves[side] \in Nat /\ reserves[1 - side] \in Nat
          /\ pairFee \in Nat
        BY PairAssumption, WidthAssumption, SMT DEF PairInv
    <3>2. Settle(side, amount, got)
        BY <2>1 DEF Sell
    <3>3. got # Err
        BY <3>2 DEF Settle
    <3>4. amount # 0 /\ ~Invalid(reserves[side], reserves[1 - side], pairFee)
        BY <3>3 DEF amount_out
    <3>5. got \in 0 .. reserves[1 - side]
        BY <3>1, <3>3, <3>4, QuoteReaches
    <3> HIDE DEF got
    <3> QED BY <3>1, <3>2, <3>5, SettleKeeps
  <2>2. ASSUME NEW side \in {0, 1}, NEW amount \in Reserves, Buy(side, amount)
        PROVE  PairInv'
    <3> DEFINE ri == reserves[side]
               ro == reserves[1 - side]
               paid == amount_in_for_out(amount, ri, ro, pairFee)
    <3>1. amount \in Nat /\ ri \in Nat /\ ro \in Nat /\ pairFee \in Nat
        BY PairAssumption, WidthAssumption, SMT DEF PairInv
    <3>2. Settle(side, paid, amount) /\ paid # Err
        BY <2>2 DEF Buy, Settle
    <3>3. paid \in Nat /\ amount < ro
        BY <3>1, <3>2, InputIsQuotient, ZenonT(40)
    <3>4. amount \in 0 .. ro
        BY <3>1, <3>3, SMT
    <3> HIDE DEF paid
    <3> QED BY <3>2, <3>3, <3>4, SettleKeeps
  <2>3. CASE UNCHANGED pairVars
      BY <2>3 DEF pairVars, PairInv
  <2> QED BY <2>1, <2>2, <2>3 DEF PairNext
<1>3. PairInv => CheapestInput
  <2> SUFFICES ASSUME PairInv, NEW side \in {0, 1}, NEW want \in 0 .. reserves[1 - side]
               PROVE  Cheapest(want, reserves[side], reserves[1 - side], pairFee)
      BY DEF CheapestInput
  <2>1. /\ want \in 0 .. U256Max /\ reserves[side] \in Nat /\ reserves[1 - side] \in Nat
        /\ pairFee \in Nat
      BY WidthAssumption, SMT DEF PairInv
  <2> QED BY <2>1, QuotesAreInverse
<1> QED BY <1>1, <1>2, <1>3, PTL DEF PairSpec
(***************************************************************************)
(* V3Math: the roundings of a swap step.                                   *)
(***************************************************************************)
LEMMA Widths ==
    /\ U256Max \in Nat /\ I256Max \in Nat /\ 2 * I256Max <= U256Max
    /\ Q96 \in Nat \ {0} /\ FeeDenom \in Nat \ {0} /\ WordSize \in Nat \ {0}
<1>1. \A m, n \in Nat \ {0} : m * n \in Nat \ {0}
    BY SMT
<1>2. FeeDenom \in Nat \ {0}
    BY <1>1, WidthAssumption, FixedPointAssumption DEF FeeDenom
<1>3. I256Max \in Nat /\ 2 * I256Max <= U256Max
    BY WidthAssumption, SMT DEF I256Max
<1> QED BY <1>2, <1>3, WidthAssumption, FixedPointAssumption

LEMMA U256Fits ==
    ASSUME NEW v \in Nat
    PROVE  /\ U256(v) \in 0 .. U256Max /\ U256(v) <= v
           /\ v <= U256Max => U256(v) = v
<1> DEFINE m == U256Max + 1
<1>1. m \in Nat \ {0}
    BY Widths, SMT
<1>2. v % m \in Nat /\ v % m < m /\ (v < m => v % m = v) /\ v % m <= v
  <2> HIDE DEF m
  <2>1. (v < m => v % m = v) /\ v % m \in Nat /\ v % m < m
      BY <1>1, SMT
  <2>2. v \div m \in Nat /\ v = (v \div m) * m + (v % m) /\ (v \div m) * m \in Nat
      BY <1>1, DivFacts, SMT
  <2> QED BY <2>1, <2>2, SMT
<1> QED BY <1>1, <1>2, Widths, SMT DEF U256

LEMMA MulDivFloor ==
    ASSUME NEW a \in Nat, NEW b \in Nat, NEW c \in Nat, mul_div(a, b, c) # Err
    PROVE  /\ c # 0 /\ mul_div(a, b, c) = (a * b) \div c
           /\ mul_div(a, b, c) \in 0 .. U256Max
           /\ mul_div(a, b, c) * c <= a * b
<1>1. c # 0 /\ mul_div(a, b, c) = (a * b) \div c /\ ~(mul_div(a, b, c) > U256Max)
    BY DEF mul_div, Checked
<1>2. a * b \in Nat
    BY SMT
<1> DEFINE q == (a * b) \div c
<1>3. q \in Nat /\ q * c <= a * b
    BY <1>1, <1>2, DivFacts, FloorReaches, SMT
<1> HIDE DEF q
<1> QED BY <1>1, <1>3, Widths, SMT DEF q

LEMMA MulDivCeiling ==
    ASSUME NEW a \in Nat, NEW b \in Nat, NEW c \in Nat, mul_div_rounding_up(a, b, c) # Err
    PROVE  /\ c # 0 /\ mul_div_rounding_up(a, b, c) \in 0 .. U256Max
           /\ \A w \in Nat : mul_div_rounding_up(a, b, c) <= w <=> a * b <= w * c
<1>1. mul_div(a, b, c) # Err
    BY DEF mul_div_rounding_up
<1>2. /\ c \in Nat \ {0} /\ mul_div(a, b, c) = (a * b) \div c
      /\ mul_div(a, b, c) \in 0 .. U256Max
    BY <1>1, MulDivFloor
<1>3. mul_div_rounding_up(a, b, c) = div_rounding_up(a * b, c)
    BY <1>1, <1>2, SMT DEF mul_div_rounding_up, div_rounding_up
<1>4. mul_div_rounding_up(a, b, c) <= U256Max
    BY <1>1, <1>2, Widths, SMT DEF mul_div_rounding_up
<1>5. a * b \in Nat
    BY SMT
<1>6. /\ div_rounding_up(a * b, c) \in Nat
      /\ \A w \in Nat : div_rounding_up(a * b, c) <= w <=> a * b <= w * c
    BY <1>2, <1>5, CeilingWithin
<1> DEFINE r == mul_div_rounding_up(a, b, c)
<1>7. r \in Nat /\ \A w \in Nat : r <= w <=> a * b <= w * c
    BY <1>3, <1>6, Zenon
<1>8. r \in 0 .. U256Max
  <2> HIDE DEF r
  <2>1. r <= U256Max
      BY <1>4 DEF r
  <2> QED BY <1>7, <2>1, Widths, SMT
<1> QED BY <1>2, <1>7, <1>8, Zenon

LEMMA Sorted ==
    ASSUME NEW a \in Nat, NEW b \in Nat
    PROVE  /\ Lower(a, b) \in Nat /\ Higher(a, b) \in Nat
           /\ Higher(a, b) - Lower(a, b) \in Nat
           /\ a <= b => Lower(a, b) = a /\ Higher(a, b) = b
BY SMT DEF Lower, Higher

(* Token 0 between two prices, rounded up, is within w exactly when ...    *)
LEMMA Amount0 ==
    ASSUME NEW a \in Nat, NEW b \in Nat, NEW l \in Nat,
           get_amount_0_delta(a, b, l, TRUE) # Err
    PROVE  /\ get_amount_0_delta(a, b, l, TRUE) \in Nat
           /\ a <= b => \A w \in Nat :
                  get_amount_0_delta(a, b, l, TRUE) <= w
                      <=> (l * Q96) * (b - a) <= (w * a) * b
<1> DEFINE lo == Lower(a, b)
           hi == Higher(a, b)
           n == l * Q96
           partial == mul_div_rounding_up(n, hi - lo, hi)
<1>1. lo # 0 /\ partial # Err /\ get_amount_0_delta(a, b, l, TRUE) = div_rounding_up(partial, lo)
    BY DEF get_amount_0_delta
<1>2. lo \in Nat \ {0} /\ hi \in Nat /\ hi - lo \in Nat /\ n \in Nat
    BY <1>1, Sorted, Widths, SMT
<1> HIDE DEF lo, hi, n
<1>3. partial \in Nat /\ \A w \in Nat : partial <= w <=> n * (hi - lo) <= w * hi
    BY <1>1, <1>2, MulDivCeiling, Widths, SMT
<1> HIDE DEF partial
<1>4. /\ div_rounding_up(partial, lo) \in Nat
      /\ \A w \in Nat : div_rounding_up(partial, lo) <= w <=> partial <= w * lo
    BY <1>2, <1>3, CeilingWithin
<1>5. \A w \in Nat : w * lo \in Nat
    BY <1>2, SMT
<1>6. a <= b => lo = a /\ hi = b
    BY Sorted DEF lo, hi
<1> QED BY <1>1, <1>3, <1>4, <1>5, <1>6 DEF n

(* ... and token 1.                                                        *)
LEMMA Amount1 ==
    ASSUME NEW a \in Nat, NEW b \in Nat, NEW l \in Nat,
           get_amount_1_delta(a, b, l, TRUE) # Err
    PROVE  /\ get_amount_1_delta(a, b, l, TRUE) \in Nat
           /\ a <= b => \A w \in Nat :
                  get_amount_1_delta(a, b, l, TRUE) <= w <=> l * (b - a) <= w * Q96
<1> DEFINE gap == Higher(a, b) - Lower(a, b)
<1>1. get_amount_1_delta(a, b, l, TRUE) = mul_div_rounding_up(l, gap, Q96)
    BY DEF get_amount_1_delta
<1>2. gap \in Nat /\ (a <= b => gap = b - a)
    BY Sorted
<1> HIDE DEF gap
<1>3. /\ mul_div_rounding_up(l, gap, Q96) \in Nat
      /\ \A w \in Nat : mul_div_rounding_up(l, gap, Q96) <= w <=> l * gap <= w * Q96
  <2>1. mul_div_rounding_up(l, gap, Q96) # Err /\ Q96 \in Nat
      BY <1>1, Widths
  <2>2. /\ mul_div_rounding_up(l, gap, Q96) \in 0 .. U256Max
        /\ \A w \in Nat : mul_div_rounding_up(l, gap, Q96) <= w <=> l * gap <= w * Q96
      BY <1>2, <2>1, MulDivCeiling, Zenon
  <2> QED BY <2>2, SMT
<1> QED BY <1>1, <1>2, <1>3
(* The price after adding token 0 is rounded up, in both of its formulas:  *)
(* a higher price than the amount pays for.                                *)
LEMMA Next0 ==
    ASSUME NEW p \in 1 .. U256Max, NEW l \in 0 .. U128Max, NEW a \in 0 .. I256Max,
           get_next_sqrt_price_from_amount_0_rounding_up(p, l, a) # Err
    PROVE  LET next == get_next_sqrt_price_from_amount_0_rounding_up(p, l, a)
           IN  /\ next \in 0 .. U256Max
               /\ (l * Q96) * p <= next * (l * Q96 + a * p)
               /\ next <= p
<1> DEFINE n == l * Q96
           next == get_next_sqrt_price_from_amount_0_rounding_up(p, l, a)
           product == U256(a * p)
           denominator == U256(n + product)
           coarse == U256(n \div p + a)
<1>1. /\ p \in Nat \ {0} /\ p <= U256Max /\ l \in Nat /\ a \in Nat /\ a <= I256Max
      /\ U256Max \in Nat /\ I256Max \in Nat /\ 2 * I256Max <= U256Max /\ Q96 \in Nat \ {0}
    BY Widths, SMT
<1>2. n \in Nat /\ n <= I256Max
  <2>1. l * Q96 <= U128Max * Q96
      BY <1>1, FixedPointAssumption, MulMono, SMT
  <2>2. U128Max * Q96 <= I256Max
    <3>1. 2 * U128Max * Q96 < U256Max
        BY FixedPointAssumption
    <3>2. U128Max * Q96 \in Nat /\ 2 * U128Max * Q96 = 2 * (U128Max * Q96)
        BY FixedPointAssumption, SMT
    <3> HIDE DEF n
    <3> QED BY <1>1, <3>1, <3>2, SMT DEF I256Max
  <2>3. l * Q96 \in Nat /\ U128Max * Q96 \in Nat
      BY <1>1, FixedPointAssumption, SMT
  <2> QED BY <1>1, <2>1, <2>2, <2>3, SMT
<1> HIDE DEF n
<1>3. a * p \in Nat
    BY <1>1, SMT
<1>4. product \in Nat /\ product <= a * p /\ product <= U256Max
    BY <1>1, <1>3, U256Fits, SMT
<1>5. CASE a = 0
  <2>1. next = p
      BY <1>5 DEF get_next_sqrt_price_from_amount_0_rounding_up
  <2>2. a * p = 0 /\ n * p = p * (n + 0)
      BY <1>1, <1>2, <1>5, SMT
  <2> QED BY <1>1, <1>2, <2>1, <2>2, SMT DEF n
<1>6. CASE a # 0 /\ product \div a = p /\ denominator >= n
  <2>1. product = a * p
    <3>1. p * a <= product
        BY <1>1, <1>4, <1>6, FloorReaches, SMT
    <3> QED BY <1>1, <1>3, <1>4, <3>1, SMT
  <2>2. denominator = n + product
    <3>1. n + product \in Nat
        BY <1>2, <1>4, SMT
    <3>2. ASSUME n + product > U256Max PROVE FALSE
      <4>1. denominator = n + product - (U256Max + 1)
        <5> DEFINE v == n + product
        <5>1. v \in Nat /\ v >= U256Max + 1 /\ v < 2 * (U256Max + 1)
            BY <1>1, <1>2, <1>4, <3>1, <3>2, SMTT(30)
        <5>3. denominator = U256(v) /\ v = n + product
            OBVIOUS
        <5> HIDE DEF v, denominator, product
        <5>2. U256(v) = v - (U256Max + 1)
          <6> DEFINE m == U256Max + 1
                     q == v \div m
                     k == v % m
          <6>1. m \in Nat \ {0} /\ v >= m /\ v < 2 * m
              BY <1>1, <5>1, SMT
          <6> HIDE DEF m
          <6>2. q \in Nat /\ k \in Nat /\ v = q * m + k /\ k < m
              BY <5>1, <6>1, DivFacts
          <6>3. 1 <= q /\ ~(2 <= q)
              BY <5>1, <6>1, FloorReaches, SMT
          <6> HIDE DEF q, k
          <6>4. q = 1
              BY <6>2, <6>3, SMT
          <6>5. k = v - m
              BY <5>1, <6>1, <6>2, <6>4, SMT
          <6> QED BY <6>5 DEF U256, k, m
        <5> QED BY <1>1, <1>2, <1>4, <5>2, <5>3, SMT
      <4> HIDE DEF denominator
      <4> QED BY <1>1, <1>2, <1>4, <1>6, <4>1, SMT
    <3> QED BY <3>1, <3>2, <1>1, U256Fits, SMT
  <2>3. next = mul_div_rounding_up(n, p, n + a * p)
      BY <1>6, <2>1, <2>2 DEF get_next_sqrt_price_from_amount_0_rounding_up, n
  <2>4. n + a * p \in Nat
      BY <1>2, <1>3, SMT
  <2> HIDE DEF next
  <2>5. mul_div_rounding_up(n, p, n + a * p) # Err
      BY <2>3 DEF next
  <2>6. next \in 0 .. U256Max /\ \A w \in Nat : next <= w <=> n * p <= w * (n + a * p)
      BY <1>1, <1>2, <2>3, <2>4, <2>5, MulDivCeiling
  <2>7. next \in Nat /\ next <= next
      BY <1>1, <2>6, SMT
  <2>8. next <= p
    <3> DEFINE v == a * p
    <3>1. p * (n + v) = n * p + p * v /\ p * v \in Nat /\ n * p \in Nat
        BY <1>1, <1>2, <1>3, SMT
    <3>2. n * p <= p * (n + v)
        BY <3>1, SMT
    <3> QED BY <1>1, <2>6, <3>2
  <2> QED BY <2>6, <2>7, <2>8 DEF n, next
<1>7. CASE a # 0 /\ ~(product \div a = p /\ denominator >= n)
  <2> DEFINE q == n \div p
  <2>1. q \in Nat /\ q * p <= n /\ q <= n
    <3>1. q \in Nat /\ q * p <= n
        BY <1>1, <1>2, DivFacts, FloorReaches, SMT
    <3> HIDE DEF q
    <3>2. q * 1 <= q * p
        BY <1>1, <3>1, MulMono, SMT
    <3> QED BY <1>1, <1>2, <3>1, <3>2, SMTT(30)
  <2> HIDE DEF q
  <2>2. q + a \in Nat \ {0} /\ q + a <= U256Max
      BY <1>1, <1>2, <1>7, <2>1, SMT
  <2>3. coarse = q + a
      BY <2>2, U256Fits DEF q
  <2>4. next = div_rounding_up(n, q + a)
      BY <1>7, <2>3 DEF get_next_sqrt_price_from_amount_0_rounding_up, n
  <2>5. div_rounding_up(n, q + a) \in Nat
        /\ \A w \in Nat : div_rounding_up(n, q + a) <= w <=> n <= w * (q + a)
      BY <1>2, <2>2, CeilingWithin
  <2> HIDE DEF next
  <2>6. next \in Nat /\ n <= next * (q + a)
      BY <2>4, <2>5, SMT
  <2>7. next <= n
    <3>1. 1 * n <= (q + a) * n
        BY <1>2, <2>2, MulMono, SMT
    <3>2. n <= n * (q + a)
        BY <1>2, <2>2, <3>1, SMT
    <3> QED BY <1>2, <2>4, <2>5, <3>2
  <2>8. n * p <= (next * (q + a)) * p
      BY <1>1, <1>2, <2>2, <2>6, MulMono, SMT
  <2>9. (next * (q + a)) * p = next * (q * p + a * p)
      BY <1>1, <2>1, <2>6, SMT
  <2>10. (q * p + a * p) * next <= (n + a * p) * next
    <3>1. q * p + a * p \in Nat /\ n + a * p \in Nat /\ q * p + a * p <= n + a * p
        BY <1>1, <1>2, <1>3, <2>1, SMT
    <3> QED BY <2>6, <3>1, MulMono
  <2>11. n * p <= next * (n + a * p)
    <3> DEFINE s == q * p + a * p
               t == n + a * p
    <3>1. s \in Nat /\ t \in Nat
        BY <1>1, <1>2, <1>3, <2>1, SMT
    <3>2. n * p <= next * s /\ s * next <= t * next
        BY <2>8, <2>9, <2>10
    <3> HIDE DEF s, t
    <3>3. n * p <= next * t
        BY <1>1, <1>2, <2>6, <3>1, <3>2, SMT
    <3> QED BY <3>3 DEF t
  <2>12. next <= p
    <3>1. n < q * p + p
      <4> DEFINE k == n % p
      <4>1. n = q * p + k /\ k \in Nat /\ k < p
          BY <1>1, <1>2, DivFacts DEF q
      <4> HIDE DEF k
      <4> QED BY <1>1, <1>2, <2>1, <4>1, SMT
    <3>2. p * (q + a) = q * p + p * a /\ q * p \in Nat /\ p * a \in Nat
        BY <1>1, <2>1, SMT
    <3>3. 1 * p <= a * p /\ a * p = p * a
        BY <1>1, <1>7, MulMono, SMT
    <3>4. n <= p * (q + a)
        BY <1>1, <1>2, <3>1, <3>2, <3>3, SMT
    <3> QED BY <1>1, <2>4, <2>5, <3>4
  <2> QED BY <1>1, <1>2, <2>6, <2>7, <2>11, <2>12, SMTT(30) DEF n, next
<1> QED BY <1>5, <1>6, <1>7
(* The price after adding token 1 is rounded down: if it rises, it rises   *)
(* by no more than the amount pays for.                                    *)
LEMMA Next1 ==
    ASSUME NEW p \in 0 .. U256Max, NEW l \in 1 .. U128Max, NEW a \in 0 .. I256Max,
           get_next_sqrt_price_from_amount_1_rounding_down(p, l, a) # Err
    PROVE  LET next == get_next_sqrt_price_from_amount_1_rounding_down(p, l, a)
           IN  /\ next \in 0 .. U256Max
               /\ p < next => l * (next - p) <= a * Q96
               /\ \E q \in Nat : q * l <= a * Q96 /\ (p + q <= U256Max => next = p + q)
<1> DEFINE next == get_next_sqrt_price_from_amount_1_rounding_down(p, l, a)
           quotient == IF a <= U160Max THEN U256(a * Q96) \div l ELSE mul_div(a, Q96, l)
<1>1. /\ p \in Nat /\ p <= U256Max /\ l \in Nat \ {0} /\ a \in Nat
      /\ U256Max \in Nat /\ Q96 \in Nat \ {0} /\ U160Max \in Nat
    BY Widths, FixedPointAssumption, SMT
<1>2. quotient # Err /\ next = U256(p + quotient)
    BY DEF get_next_sqrt_price_from_amount_1_rounding_down
<1>3. quotient \in Nat /\ quotient <= U256Max /\ quotient * l <= a * Q96
  <2>1. CASE a <= U160Max
    <3>1. a * Q96 \in Nat /\ a * Q96 <= U256Max
      <4>1. a * Q96 <= U160Max * Q96
          BY <1>1, <2>1, MulMono
      <4>2. a * Q96 \in Nat /\ U160Max * Q96 \in Nat /\ U160Max * Q96 <= U256Max
          BY <1>1, FixedPointAssumption, SMT
      <4> QED BY <1>1, <4>1, <4>2, SMT
    <3> DEFINE v == a * Q96
               q == v \div l
    <3>2. quotient = q
        BY <2>1, <3>1, U256Fits
    <3>3. v \in Nat /\ v <= U256Max
        BY <3>1
    <3> HIDE DEF v, quotient
    <3>4. q \in Nat /\ q * l <= v
        BY <1>1, <3>3, DivFacts, FloorReaches, SMT
    <3> HIDE DEF q
    <3>5. q * 1 <= q * l
        BY <1>1, <3>4, MulMono, SMT
    <3>6. q <= U256Max
        BY <1>1, <3>3, <3>4, <3>5, SMT
    <3> QED BY <3>2, <3>4, <3>6 DEF v
  <2>2. CASE ~(a <= U160Max)
    <3>1. quotient = mul_div(a, Q96, l)
        BY <2>2
    <3> HIDE DEF quotient
    <3> QED BY <1>1, <1>2, <3>1, MulDivFloor, SMT
  <2> QED BY <2>1, <2>2
<1> HIDE DEF quotient
<1>4. p + quotient \in Nat
    BY <1>1, <1>3, SMT
<1>5. next \in 0 .. U256Max /\ (p + quotient <= U256Max => next = p + quotient)
    BY <1>2, <1>4, U256Fits
<1>6. p + quotient > U256Max => next < p
  <2> SUFFICES ASSUME p + quotient > U256Max PROVE next < p
      OBVIOUS
  <2> DEFINE v == p + quotient
             m == U256Max + 1
             q == v \div m
             k == v % m
  <2>1. v \in Nat /\ m \in Nat \ {0} /\ v >= m /\ v < m + p
      BY <1>1, <1>3, <1>4, SMT
  <2>2. next = k
      BY <1>2 DEF U256
  <2> HIDE DEF v, m, next
  <2>3. q \in Nat /\ k \in Nat /\ v = q * m + k /\ 1 <= q
      BY <2>1, DivFacts, FloorReaches, SMT
  <2> HIDE DEF q, k
  <2>4. 1 * m <= q * m
      BY <2>1, <2>3, MulMono
  <2> QED BY <1>1, <2>1, <2>2, <2>3, <2>4, SMT
<1>7. ASSUME p < next PROVE l * (next - p) <= a * Q96
  <2>1. next = p + quotient
      BY <1>1, <1>3, <1>4, <1>5, <1>6, <1>7, SMT
  <2> HIDE DEF next
  <2>2. next - p = quotient
      BY <1>1, <1>3, <2>1, SMT
  <2>3. l * quotient = quotient * l
      BY <1>1, <1>3, SMT
  <2> QED BY <1>3, <2>2, <2>3
<1>8. \E q \in Nat : q * l <= a * Q96 /\ (p + q <= U256Max => next = p + q)
    BY <1>3, <1>5
<1> QED BY <1>5, <1>7, <1>8

(* An amount and what is left of it, mod 2^256, add up to it.              *)
LEMMA Complement ==
    ASSUME NEW r \in 0 .. I256Max, NEW a \in Nat, a + U256(r - a) <= I256Max
    PROVE  a + U256(r - a) = r
<1> DEFINE m == U256Max + 1
           q == (r - a) \div m
           k == (r - a) % m
<1>1. m \in Nat \ {0} /\ I256Max \in Nat /\ I256Max < m /\ r \in Nat /\ r <= I256Max
    BY Widths, SMT
<1>2. U256(r - a) = k
    BY DEF U256
<1> HIDE DEF m
<1>3. q \in Int /\ k \in Nat /\ k < m
    BY <1>1, SMT
<1>4. r - a = m * q + k
    BY <1>1, SMTT(20)
<1> HIDE DEF q, k
<1>5. ASSUME q > 0 PROVE FALSE
  <2>1. 1 * m <= q * m /\ q * m = m * q
      BY <1>1, <1>3, <1>5, MulMono, SMT
  <2> QED BY <1>1, <1>3, <1>4, <2>1, SMT
<1>6. ASSUME q < 0 PROVE FALSE
  <2>1. -q \in Nat /\ 1 <= -q
      BY <1>3, <1>6, SMT
  <2>2. 1 * m <= (-q) * m
      BY <1>1, <2>1, MulMono
  <2>3. (-q) * m = -(m * q) /\ m * q \in Int
      BY <1>1, <1>3, SMT
  <2>4. a + k = r - m * q
      BY <1>1, <1>3, <1>4, <2>3, SMT
  <2> QED BY <1>1, <1>2, <1>3, <2>2, <2>3, <2>4, SMT
<1>7. q = 0
    BY <1>3, <1>5, <1>6, SMT
<1>8. m * q = 0
    BY <1>1, <1>7, SMT
<1> QED BY <1>1, <1>2, <1>3, <1>4, <1>8, SMT

(* The fee on top of an amount that fits what the fee leaves of r fits r.  *)
LEMMA FeeFits ==
    ASSUME NEW r \in Nat, NEW a \in Nat, NEW f \in Nat, f < FeeDenom,
           mul_div(r, FeeDenom - f, FeeDenom) # Err, a <= mul_div(r, FeeDenom - f, FeeDenom),
           mul_div_rounding_up(a, f, FeeDenom - f) # Err
    PROVE  a + mul_div_rounding_up(a, f, FeeDenom - f) \in 0 .. r
<1> DEFINE D == FeeDenom
           g == FeeDenom - f
           less == mul_div(r, g, D)
           fee == mul_div_rounding_up(a, f, g)
<1>1. D \in Nat \ {0} /\ g \in Nat \ {0} /\ D = g + f
    BY Widths, SMT
<1>2. less \in Nat /\ less * D <= r * g
    BY <1>1, MulDivFloor, Widths, SMT
<1>3. fee \in Nat /\ \A w \in Nat : fee <= w <=> a * f <= w * g
    BY <1>1, MulDivCeiling, Widths, SMT
<1> HIDE DEF D, g, less, fee
<1>4. a * D <= less * D
    BY <1>1, <1>2, MulMono DEF D, g, less
<1>5. a * D = a * g + a * f /\ a * g \in Nat /\ a * f \in Nat /\ r * g \in Nat /\ less * D \in Nat
    BY <1>1, <1>2, SMT
<1>6. a * g + a * f <= r * g
    BY <1>2, <1>4, <1>5, SMT
<1>7. a <= r
  <2>1. ASSUME r + 1 <= a PROVE FALSE
    <3>1. (r + 1) * g <= a * g /\ (r + 1) * g = r * g + g
        BY <1>1, <2>1, MulMono, SMT
    <3> QED BY <1>1, <1>5, <1>6, <3>1, SMTT(30)
  <2> QED BY <2>1, SMT
<1>8. a * f <= (r - a) * g
  <2>1. (r - a) * g = r * g - a * g
      BY <1>1, SMT
  <2> QED BY <1>5, <1>6, <2>1, SMT
<1>9. fee <= r - a
  <2>1. r - a \in Nat
      BY <1>7, SMT
  <2> QED BY <1>3, <1>8, <2>1
<1> QED BY <1>3, <1>7, <1>9, SMT DEF fee, g
(* compute_swap_step never charges more than it was offered, and all of it *)
(* when the price stops short of the target; and the price never leaves    *)
(* the stretch from the present price to the target.  The price it         *)
(* computes from the input stops short of the target, because both of its  *)
(* roundings are undone by the amount's; so the fee is charged on top only *)
(* of an amount that left room for it.                                     *)
THEOREM StepWithinBudget ==
    ASSUME NEW start \in 0 .. U256Max, NEW target \in 0 .. U256Max,
           NEW l \in 0 .. U128Max, NEW r \in 0 .. I256Max, NEW f \in Nat, f < FeeDenom,
           compute_swap_step(start, target, l, r, f).ok,
           ~(compute_swap_step(start, target, l, r, f).amount_in
                 + compute_swap_step(start, target, l, r, f).fee_amount > I256Max)
    PROVE  LET step == compute_swap_step(start, target, l, r, f)
           IN  /\ step.next \in 0 .. U256Max
               /\ step.amount_in + step.fee_amount \in 0 .. r
               /\ step.next # target => step.amount_in + step.fee_amount = r
               /\ target <= start => target <= step.next /\ step.next <= start
               /\ start <= target => start <= step.next /\ step.next <= target
<1> DEFINE step == compute_swap_step(start, target, l, r, f)
           zfo == start >= target
           AmountIn(q) == IF zfo THEN get_amount_0_delta(q, start, l, TRUE)
                                 ELSE get_amount_1_delta(start, q, l, TRUE)
           all == AmountIn(target)
           less == amount_remaining_less_fee(r, f)
           next == IF less >= all THEN target
                   ELSE get_next_sqrt_price_from_input(start, l, less, zfo)
           in == AmountIn(next)
           fee == IF next # target THEN U256(r - in)
                  ELSE mul_div_rounding_up(in, f, FeeDenom - f)
<1>1. /\ less # Err /\ all # Err /\ next # Err /\ in # Err /\ fee # Err
      /\ step.next = next /\ step.amount_in = in /\ step.fee_amount = fee
    BY DEF compute_swap_step
<1>2. /\ start \in Nat /\ target \in Nat /\ l \in Nat /\ r \in Nat /\ r <= I256Max
      /\ U256Max \in Nat /\ I256Max \in Nat /\ Q96 \in Nat \ {0}
      /\ FeeDenom \in Nat \ {0} /\ FeeDenom - f \in Nat \ {0}
    BY Widths, FixedPointAssumption, SMT
<1>3. less = mul_div(r, FeeDenom - f, FeeDenom)
    BY DEF amount_remaining_less_fee
<1> HIDE DEF less
<1>4. less \in 0 .. I256Max
  <2>1. less \in Nat /\ less * FeeDenom <= r * (FeeDenom - f)
    <3>1. mul_div(r, FeeDenom - f, FeeDenom) # Err
        BY <1>1, <1>3
    <3>2. FeeDenom \in Nat /\ FeeDenom - f \in Nat
        BY <1>2
    <3>3. less \in 0 .. U256Max /\ less * FeeDenom <= r * (FeeDenom - f)
        BY <1>2, <1>3, <3>1, <3>2, MulDivFloor, Zenon
    <3> QED BY <3>3, SMTT(20)
  <2>2. (FeeDenom - f) * r <= FeeDenom * r
      BY <1>2, MulMono, SMT
  <2>3. ASSUME r + 1 <= less PROVE FALSE
    <3>1. (r + 1) * FeeDenom <= less * FeeDenom
        BY <1>2, <2>1, <2>3, MulMono, SMT
    <3>2. /\ (r + 1) * FeeDenom = r * FeeDenom + FeeDenom /\ FeeDenom * r = r * FeeDenom
          /\ (FeeDenom - f) * r = r * (FeeDenom - f) /\ r * FeeDenom \in Nat
          /\ r * (FeeDenom - f) \in Nat /\ less * FeeDenom \in Nat
        BY <1>2, <2>1, SMT
    <3> QED BY <1>2, <2>1, <2>2, <3>1, <3>2, SMTT(30)
  <2>4. less <= r
      BY <1>2, <2>1, <2>3, SMT
  <2> QED BY <1>2, <2>1, <2>4, SMT
<1>5. \A q \in Nat : AmountIn(q) # Err => AmountIn(q) \in Nat
    BY <1>2, Amount0, Amount1
<1>6. all \in Nat
    BY <1>1, <1>2, <1>5
<1> HIDE DEF all, zfo
<1>7. ASSUME less < all
      PROVE  /\ next \in 0 .. U256Max
             /\ IF zfo THEN target < next /\ next <= start
                       ELSE start <= next /\ next < target
  <2>0. ~(less >= all)
      BY <1>4, <1>6, <1>7, SMT
  <2>1. next = get_next_sqrt_price_from_input(start, l, less, zfo)
      BY <2>0
  <2> HIDE DEF next
  <2>2. start # 0 /\ l # 0
      BY <1>1, <2>1 DEF get_next_sqrt_price_from_input
  <2>3. CASE zfo
    <3>1. next = get_next_sqrt_price_from_amount_0_rounding_up(start, l, less)
        BY <2>1, <2>2, <2>3 DEF get_next_sqrt_price_from_input
    <3>2. /\ next \in 0 .. U256Max /\ next <= start
          /\ (l * Q96) * start <= next * (l * Q96 + less * start)
      <4>1. start \in 1 .. U256Max
          BY <1>2, <2>2, SMT
      <4>2. get_next_sqrt_price_from_amount_0_rounding_up(start, l, less) # Err
          BY <1>1, <3>1
      <4> QED BY <1>4, <3>1, <4>1, <4>2, Next0
    <3>3. ASSUME next <= target PROVE FALSE
      <4> DEFINE n == l * Q96
                 d == n + less * start
      <4>1. n \in Nat /\ d \in Nat /\ next \in Nat /\ n * start <= next * d
          BY <1>2, <1>4, <3>2, SMT
      <4>2. target <= start /\ all = get_amount_0_delta(target, start, l, TRUE)
          BY <1>2, <2>3 DEF zfo, all
      <4>3. all <= less <=> n * (start - target) <= (less * target) * start
        <5>1. \A w \in Nat : all <= w <=> n * (start - target) <= (w * target) * start
            BY <1>1, <1>2, <4>2, Amount0, Zenon
        <5> QED BY <1>4, <5>1, SMT
      <4>4. next * d <= target * d
        <5> HIDE DEF d
        <5> QED BY <1>2, <3>3, <4>1, MulMono
      <4> HIDE DEF n
      <4>5. n * (start - target) = n * start - n * target
          BY <1>2, <4>1, SMT
      <4>6. target * d = n * target + (less * target) * start
          BY <1>2, <1>4, <4>1, SMT
      <4>7. /\ n * start \in Nat /\ n * target \in Nat /\ next * d \in Nat
            /\ (less * target) * start \in Nat
        <5> HIDE DEF d
        <5> QED BY <1>2, <1>4, <4>1, SMT
      <4> HIDE DEF d
      <4>8. n * (start - target) <= (less * target) * start
          BY <4>1, <4>4, <4>5, <4>6, <4>7, SMT
      <4> QED BY <1>4, <1>6, <1>7, <4>3, <4>8, SMTT(30)
    <3> QED BY <1>2, <2>3, <3>2, <3>3, SMT
  <2>4. CASE ~zfo
    <3>1. next = get_next_sqrt_price_from_amount_1_rounding_down(start, l, less)
        BY <2>1, <2>2, <2>4 DEF get_next_sqrt_price_from_input
    <3>2. PICK q \in Nat : q * l <= less * Q96 /\ (start + q <= U256Max => next = start + q)
      <4>1. l \in 1 .. U128Max
          BY <1>2, <2>2, SMT
      <4>2. get_next_sqrt_price_from_amount_1_rounding_down(start, l, less) # Err
          BY <1>1, <3>1
      <4> QED BY <1>4, <3>1, <4>1, <4>2, Next1
    <3>3. ASSUME target <= start + q PROVE FALSE
      <4>1. start < target /\ all = get_amount_1_delta(start, target, l, TRUE)
          BY <1>2, <2>4, SMT DEF zfo, all
      <4>2. all <= less <=> l * (target - start) <= less * Q96
        <5>1. start <= target
            BY <1>2, <4>1, SMT
        <5>2. \A w \in Nat : all <= w <=> l * (target - start) <= w * Q96
            BY <1>1, <1>2, <4>1, <5>1, Amount1, Zenon
        <5> QED BY <1>4, <5>2, SMT
      <4>3. target - start \in Nat /\ target - start <= q
          BY <1>2, <3>3, <4>1, SMT
      <4>4. (target - start) * l <= q * l
          BY <1>2, <4>3, MulMono
      <4>5. l * (target - start) <= less * Q96
        <5> DEFINE g == target - start
        <5>1. g * l = l * g /\ g * l \in Nat /\ q * l \in Nat /\ less * Q96 \in Nat
            BY <1>2, <1>4, <4>3, SMT
        <5> QED BY <3>2, <4>4, <5>1, SMT
      <4>6. all <= less
          BY <4>2, <4>5
      <4> QED BY <1>4, <1>6, <1>7, <4>6, SMT
    <3> QED BY <1>2, <2>4, <3>2, <3>3, SMT
  <2> QED BY <2>3, <2>4
<1>8. less >= all => next = target
    OBVIOUS
<1> HIDE DEF next
<1>9. next \in 0 .. U256Max /\ next \in Nat
    BY <1>2, <1>4, <1>6, <1>7, <1>8, SMTT(20)
<1>10. in \in Nat
    BY <1>1, <1>5, <1>9
<1>11. /\ target <= start => target <= next /\ next <= start
       /\ start <= target => start <= next /\ next <= target
  <2>1. CASE less >= all
      BY <1>2, <1>8, <2>1, SMT
  <2>2. CASE less < all
    <3>1. IF zfo THEN target < next /\ next <= start ELSE start <= next /\ next < target
        BY <1>7, <2>2
    <3>2. zfo <=> target <= start
        BY <1>2, SMT DEF zfo
    <3> QED BY <1>2, <1>9, <3>1, <3>2, SMT
  <2> QED BY <1>4, <1>6, <2>1, <2>2, SMT
<1>12. CASE next # target
  <2>1. fee = U256(r - in)
      BY <1>12
  <2> HIDE DEF fee, in
  <2>2. in + U256(r - in) <= I256Max
    <3>1. ~(in + U256(r - in) > I256Max)
        BY <1>1, <2>1
    <3>2. U256(r - in) \in Int
        BY <1>2, <1>10, SMT DEF U256
    <3> QED BY <1>2, <1>10, <3>1, <3>2, SMT
  <2>3. in + U256(r - in) = r
      BY <1>10, <2>2, Complement
  <2>4. in + fee = r /\ in + fee \in 0 .. r
      BY <1>2, <2>1, <2>3, SMT
  <2> HIDE DEF step
  <2> QED BY <1>1, <1>9, <1>11, <2>4 DEF step
<1>13. CASE next = target
  <2>1. in = all /\ fee = mul_div_rounding_up(in, f, FeeDenom - f)
      BY <1>13 DEF all
  <2>2. all <= less
    <3>1. ASSUME less < all PROVE FALSE
        BY <1>2, <1>7, <1>13, <3>1, SMT
    <3> QED BY <1>4, <1>6, <3>1, SMT
  <2> HIDE DEF fee, in
  <2>3. in + fee \in 0 .. r
      BY <1>1, <1>2, <1>3, <1>10, <2>1, <2>2, FeeFits
  <2> HIDE DEF step
  <2> QED BY <1>1, <1>9, <1>11, <1>13, <2>3 DEF step
<1> QED BY <1>12, <1>13

(***************************************************************************)
(* V3Math: the tick bitmap.                                                *)
(***************************************************************************)
LEMMA LeastNatural ==
    ASSUME NEW T, T \subseteq Nat, T # {}
    PROVE  \E m \in T : \A k \in T : m <= k
<1> DEFINE R == OpToRel(<, Nat)
<1>1. IsWellFoundedOn(R, Nat)
    BY NatLessThanWellFounded
<1>2. \A j, k \in Nat : <<j, k>> \in R <=> j < k
    BY DEF OpToRel
<1> HIDE DEF R
<1>3. PICK m \in T : \A k \in T : ~(<<k, m>> \in R)
    BY <1>1, WFMin
<1>4. ASSUME NEW k \in T PROVE m <= k
  <2>1. k \in Nat /\ m \in Nat /\ ~(k < m)
      BY <1>2, <1>3
  <2> QED BY <2>1, SMT
<1> QED BY <1>4

LEMMA MaxExists ==
    ASSUME NEW S, S \subseteq Int, S # {}, NEW top \in Int, \A i \in S : i <= top
    PROVE  Max(S) \in S /\ \A i \in S : i <= Max(S)
<1> DEFINE T == {top - i : i \in S}
<1>1. ASSUME NEW j \in T PROVE j \in Nat
  <2>1. PICK i \in S : j = top - i
      OBVIOUS
  <2>2. i \in Int /\ i <= top
      OBVIOUS
  <2> QED BY <2>1, <2>2, SMT
<1>2. T # {}
    OBVIOUS
<1>3. PICK m \in T : \A k \in T : m <= k
  <2> HIDE DEF T
  <2> QED BY <1>1, <1>2, LeastNatural
<1>4. PICK i \in S : m = top - i
    BY <1>3
<1>5. ASSUME NEW k \in S PROVE i >= k
  <2>1. top - k \in T
      OBVIOUS
  <2>2. m <= top - k /\ i \in Int /\ k \in Int
      BY <1>3, <2>1
  <2> QED BY <1>4, <2>2, SMT
<1>6. Max(S) \in S /\ \A k \in S : Max(S) >= k
    BY <1>5 DEF Max
<1> QED BY <1>6, SMT

LEMMA MinExists ==
    ASSUME NEW S, S \subseteq Int, S # {}, NEW low \in Int, \A i \in S : low <= i
    PROVE  Min(S) \in S /\ \A i \in S : Min(S) <= i
<1> DEFINE T == {i - low : i \in S}
<1>1. ASSUME NEW j \in T PROVE j \in Nat
  <2>1. PICK i \in S : j = i - low
      OBVIOUS
  <2>2. i \in Int /\ low <= i
      OBVIOUS
  <2> QED BY <2>1, <2>2, SMT
<1>2. T # {}
    OBVIOUS
<1>3. PICK m \in T : \A k \in T : m <= k
  <2> HIDE DEF T
  <2> QED BY <1>1, <1>2, LeastNatural
<1>4. PICK i \in S : m = i - low
    BY <1>3
<1>5. ASSUME NEW k \in S PROVE i <= k
  <2>1. k - low \in T
      OBVIOUS
  <2>2. m <= k - low /\ i \in Int /\ k \in Int
      BY <1>3, <2>1
  <2> QED BY <1>4, <2>2, SMT
<1> QED BY <1>5 DEF Min

LEMMA IntMono ==
    ASSUME NEW j \in Int, NEW k \in Int, NEW s \in Nat \ {0}
    PROVE  /\ j * s \in Int /\ k * s \in Int
           /\ j <= k => j * s <= k * s
           /\ j < k => j * s + s <= k * s
           /\ j * s < k * s + s => j <= k
<1>1. j * s \in Int /\ k * s \in Int
    BY SMT
<1>2. ASSUME NEW a \in Int, NEW b \in Int, a <= b PROVE a * s <= b * s
  <2>1. b - a \in Nat /\ 0 * s <= (b - a) * s
      BY <1>2, MulMono, SMT
  <2>2. (b - a) * s = b * s - a * s /\ 0 * s = 0 /\ a * s \in Int /\ b * s \in Int
      BY SMT
  <2> QED BY <2>1, <2>2, SMT
<1>3. ASSUME j < k PROVE j * s + s <= k * s
  <2>1. j + 1 \in Int /\ j + 1 <= k
      BY <1>3, SMT
  <2>2. (j + 1) * s <= k * s /\ (j + 1) * s = j * s + s
      BY <1>2, <2>1, SMT
  <2> QED BY <2>2
<1>4. ASSUME j * s < k * s + s PROVE j <= k
  <2>1. ASSUME k < j PROVE FALSE
    <3>1. k + 1 \in Int /\ k + 1 <= j
        BY <2>1, SMT
    <3>2. (k + 1) * s <= j * s /\ (k + 1) * s = k * s + s
        BY <1>2, <3>1, SMT
    <3> QED BY <1>1, <1>4, <3>2, SMT
  <2> QED BY <2>1, SMT
<1> QED BY <1>1, <1>2, <1>3, <1>4

LEMMA IntDiv ==
    ASSUME NEW i \in Int, NEW s \in Nat \ {0}
    PROVE  /\ i \div s \in Int /\ i % s \in Int /\ 0 <= i % s /\ i % s < s
           /\ i = (i \div s) * s + (i % s)
           /\ \A k \in Int : k * s <= i /\ i < k * s + s => k = i \div s
<1> DEFINE q == i \div s
           m == i % s
<1>1. q \in Int /\ m \in Int /\ 0 <= m /\ m < s
    BY SMT
<1>2. i = q * s + m
    BY SMTT(20)
<1> HIDE DEF q, m
<1>3. ASSUME NEW k \in Int, k * s <= i, i < k * s + s PROVE k = q
  <2>1. k * s \in Int /\ q * s \in Int
      BY <1>1, <1>3, IntMono
  <2>2. k * s < q * s + s /\ q * s < k * s + s
      BY <1>1, <1>2, <1>3, <2>1, SMT
  <2>3. k <= q /\ q <= k
      BY <1>1, <2>2, IntMono
  <2> QED BY <1>1, <2>3, SMT
<1> QED BY <1>1, <1>2, <1>3 DEF q, m

(* compress rounds down.                                                   *)
LEMMA CompressFloor ==
    ASSUME NEW t \in Int, NEW s \in Nat \ {0}
    PROVE  compress(t, s) = t \div s
<1>1. CASE t >= 0
    BY <1>1, SMT DEF compress, TruncDiv
<1>2. CASE t < 0
  <2> DEFINE q == (-t) \div s
             m == (-t) % s
  <2>1. -t \in Int /\ ~(t >= 0)
      BY <1>2, SMT
  <2>2. q \in Int /\ m \in Int /\ 0 <= m /\ m < s /\ -t = q * s + m
      BY <2>1, IntDiv
  <2>3. /\ t \div s \in Int /\ t % s \in Int /\ 0 <= t % s /\ t % s < s
        /\ t = (t \div s) * s + (t % s)
        /\ \A k \in Int : k * s <= t /\ t < k * s + s => k = t \div s
      BY IntDiv
  <2>4. compress(t, s) = IF t % s # 0 THEN (-q) - 1 ELSE -q
      BY <1>2 DEF compress, TruncDiv
  <2> HIDE DEF q, m
  <2>5. q * s \in Int /\ (-q) * s = -(q * s) /\ ((-q) - 1) * s = -(q * s) - s
      BY <2>2, SMT
  <2>6. t = -(q * s) - m
      BY <2>2, <2>5, SMT
  <2>7. CASE t % s = 0
    <3> DEFINE d == t \div s
    <3>1. t = d * s /\ d \in Int
        BY <2>3, <2>7, SMT
    <3> HIDE DEF d
    <3>2. (-d) * s = -t /\ -d \in Int
        BY <3>1, SMT
    <3>3. \A k \in Int : k * s <= -t /\ -t < k * s + s => k = q
        BY <2>1, IntDiv DEF q
    <3>4. -d = q
        BY <3>2, <3>3, SMT
    <3>5. -q = d
        BY <2>2, <3>1, <3>4, SMT
    <3> QED BY <2>4, <2>7, <3>5 DEF d
  <2>8. CASE t % s # 0
    <3>1. m # 0
      <4> SUFFICES ASSUME m = 0 PROVE FALSE
          OBVIOUS
      <4>1. -q \in Int /\ (-q) * s <= t /\ t < (-q) * s + s
          BY <2>2, <2>5, <2>6, SMT
      <4>2. t \div s = -q
          BY <2>3, <4>1
      <4>3. t = (-q) * s + (t % s)
          BY <2>3, <4>2
      <4> QED BY <2>2, <2>3, <2>5, <2>6, <2>8, <4>3, SMT
    <3>2. /\ (-q) - 1 \in Int /\ ((-q) - 1) * s <= t /\ t < ((-q) - 1) * s + s
        BY <2>2, <2>5, <2>6, <3>1, SMT
    <3>3. (-q) - 1 = t \div s
        BY <2>3, <3>2
    <3> QED BY <2>4, <2>8, <3>3
  <2> QED BY <2>7, <2>8
<1> QED BY <1>1, <1>2, SMT

(* Bits of one word are ordered as their places in it; between two bits of *)
(* a word there are only bits of that word.                                *)
LEMMA SameWord ==
    ASSUME NEW b \in Int, NEW c \in Int
    PROVE  LET w == (c \div WordSize) * WordSize
           IN  /\ w \in Int /\ w <= c /\ c < w + WordSize /\ c % WordSize = c - w
               /\ b \div WordSize = position(c).word <=> w <= b /\ b < w + WordSize
               /\ b \div WordSize = position(c).word =>
                      (position(b).bit <= position(c).bit <=> b <= c)
<1> DEFINE W == WordSize
           w == (c \div W) * W
           v == (b \div W) * W
<1>1. W \in Nat \ {0}
    BY Widths
<1> HIDE DEF W
<1>2. /\ c \div W \in Int /\ c % W \in Int /\ 0 <= c % W /\ c % W < W /\ c = w + (c % W)
      /\ b \div W \in Int /\ b % W \in Int /\ 0 <= b % W /\ b % W < W /\ b = v + (b % W)
      /\ \A k \in Int : k * W <= b /\ b < k * W + W => k = b \div W
    BY <1>1, IntDiv
<1>3. w \in Int /\ v \in Int
    BY <1>1, <1>2, IntMono
<1>4. position(c).word = c \div W /\ position(c).bit = c % W /\ position(b).bit = b % W
    BY DEF position, W
<1>5. w <= b /\ b < w + W => b \div W = c \div W
    BY <1>2
<1>6. b \div W = c \div W => v = w
    OBVIOUS
<1> HIDE DEF w, v
<1>7. w <= c /\ c < w + W /\ c % W = c - w /\ v <= b /\ b < v + W
    BY <1>1, <1>2, <1>3, SMT
<1>8. v = w => (b % W <= c % W <=> b <= c)
    BY <1>1, <1>2, <1>3, SMT
<1> QED BY <1>3, <1>4, <1>5, <1>6, <1>7, <1>8 DEF w, W

(* What next_initialized_tick_within_one_word promises, downwards: the     *)
(* highest set bit of the word at or below the tick, or else the word's    *)
(* lowest place; no set bit is passed over.                                *)
LEMMA NextBelow ==
    ASSUME NEW bitmap, bitmap \subseteq Int, NEW t \in Int, NEW s \in Nat \ {0}
    PROVE  LET c == compress(t, s)
               w == (c \div WordSize) * WordSize
               n == next_initialized_tick_within_one_word(bitmap, t, s, TRUE)
           IN  \E k \in Int :
                   /\ n.tick = k * s /\ w <= k /\ k <= c
                   /\ n.initialized <=> k \in bitmap
                   /\ ~n.initialized => k = w
                   /\ \A b \in bitmap : ~(k < b /\ b <= c)
<1> DEFINE c == compress(t, s)
           w == (c \div WordSize) * WordSize
           n == next_initialized_tick_within_one_word(bitmap, t, s, TRUE)
           below == MaskedBelow(bitmap, c)
           k == IF below # {} THEN Max(below) ELSE c - position(c).bit
<1>1. c \in Int
  <2>1. c = t \div s
      BY CompressFloor
  <2> QED BY <2>1, IntDiv
<1>2. n.tick = k * s /\ (n.initialized <=> below # {})
    BY DEF next_initialized_tick_within_one_word
<1> HIDE DEF n
<1>3. w \in Int /\ w <= c /\ c < w + WordSize /\ c % WordSize = c - w
    BY <1>1, SameWord
<1>4. \A b \in Int : b \in below <=> b \in bitmap /\ w <= b /\ b <= c
  <2> SUFFICES ASSUME NEW b \in Int
               PROVE  b \in below <=> b \in bitmap /\ w <= b /\ b <= c
      OBVIOUS
  <2>1. /\ b \div WordSize = position(c).word <=> w <= b /\ b < w + WordSize
        /\ b \div WordSize = position(c).word =>
               (position(b).bit <= position(c).bit <=> b <= c)
      BY <1>1, SameWord
  <2>2. b <= c => b < w + WordSize
      BY <1>1, <1>3, Widths, SMT
  <2> HIDE DEF c, w
  <2> QED BY <2>1, <2>2 DEF MaskedBelow
<1>5. position(c).bit = c % WordSize
    BY DEF position
<1> HIDE DEF c, w
<1>6. CASE below # {}
  <2>1. below \subseteq Int /\ \A b \in below : b <= c
      BY <1>4 DEF MaskedBelow
  <2>2. k = Max(below)
      BY <1>6
  <2> HIDE DEF below, k
  <2>3. k \in below /\ \A b \in below : b <= k
      BY <1>1, <1>6, <2>1, <2>2, MaxExists
  <2>4. k \in Int /\ k \in bitmap /\ w <= k /\ k <= c
      BY <1>4, <2>1, <2>3
  <2>5. ASSUME NEW b \in bitmap, k < b, b <= c PROVE FALSE
    <3>1. b \in Int /\ w <= b /\ ~(b <= k)
        BY <1>3, <2>4, <2>5, SMT
    <3> QED BY <1>4, <2>3, <2>5, <3>1
  <2> QED BY <1>2, <1>6, <2>4, <2>5 DEF n, c, w
<1>7. CASE below = {}
  <2>1. k = c - (c % WordSize)
      BY <1>5, <1>7
  <2>2. k = w
      BY <1>1, <1>3, <2>1, SMT
  <2> HIDE DEF below, k
  <2>3. w \notin bitmap
    <3>1. w <= w
        BY <1>3, SMT
    <3> QED BY <1>3, <1>4, <1>7, <3>1
  <2>4. ASSUME NEW b \in bitmap, w < b, b <= c PROVE FALSE
    <3>1. b \in Int /\ w <= b
        BY <1>3, <2>4, SMT
    <3> QED BY <1>4, <1>7, <2>4, <3>1
  <2>5. w <= w
      BY <1>3, SMT
  <2> QED BY <1>2, <1>3, <1>7, <2>2, <2>3, <2>4, <2>5 DEF n, c, w
<1> QED BY <1>6, <1>7

(* Upwards: the lowest set bit above the tick in the word of the next      *)
(* place, or else that word's highest place; no set bit is passed over.    *)
LEMMA NextAbove ==
    ASSUME NEW bitmap, bitmap \subseteq Int, NEW t \in Int, NEW s \in Nat \ {0}
    PROVE  LET c == compress(t, s)
               w == ((c + 1) \div WordSize) * WordSize
               n == next_initialized_tick_within_one_word(bitmap, t, s, FALSE)
           IN  \E k \in Int :
                   /\ n.tick = k * s /\ c < k /\ w <= k /\ k <= w + (WordSize - 1)
                   /\ n.initialized <=> k \in bitmap
                   /\ ~n.initialized => k = w + (WordSize - 1)
                   /\ \A b \in bitmap : ~(c < b /\ b < k)
<1> DEFINE c == compress(t, s)
           d == c + 1
           w == (d \div WordSize) * WordSize
           n == next_initialized_tick_within_one_word(bitmap, t, s, FALSE)
           above == MaskedAbove(bitmap, d)
           k == IF above # {} THEN Min(above) ELSE d + (WordSize - 1 - position(d).bit)
<1>1. c \in Int /\ d \in Int /\ WordSize \in Nat \ {0}
  <2>1. c = t \div s
      BY CompressFloor
  <2>2. c \in Int
      BY <2>1, IntDiv
  <2> HIDE DEF c
  <2> QED BY <2>2, Widths, SMT
<1>2. n.tick = k * s /\ (n.initialized <=> above # {})
    BY DEF next_initialized_tick_within_one_word
<1> HIDE DEF n, c
<1>3. w \in Int /\ w <= d /\ d < w + WordSize /\ d % WordSize = d - w
  <2> HIDE DEF d
  <2> QED BY <1>1, SameWord
<1>4. \A b \in Int : b \in above <=> b \in bitmap /\ d <= b /\ b < w + WordSize
  <2> HIDE DEF d
  <2> SUFFICES ASSUME NEW b \in Int
               PROVE  b \in above <=> b \in bitmap /\ d <= b /\ b < w + WordSize
      OBVIOUS
  <2>1. /\ b \div WordSize = position(d).word <=> w <= b /\ b < w + WordSize
        /\ b \div WordSize = position(d).word =>
               (position(b).bit <= position(d).bit <=> b <= d)
      BY <1>1, SameWord
  <2>2. position(b).bit \in Int /\ position(d).bit \in Int
      BY <1>1, IntDiv DEF position
  <2>3. position(b).bit >= position(d).bit <=>
            ~(position(b).bit <= position(d).bit) \/ position(b).bit = position(d).bit
      BY <2>2, SMT
  <2>4. b \div WordSize = position(d).word =>
            (position(b).bit = position(d).bit <=> b = d)
    <3>1. /\ b = (b \div WordSize) * WordSize + (b % WordSize)
          /\ d = (d \div WordSize) * WordSize + (d % WordSize)
        BY <1>1, IntDiv
    <3> QED BY <3>1 DEF position
  <2>5. (d <= b => w <= b) /\ (d <= b <=> ~(b <= d) \/ b = d)
      BY <1>1, <1>3, SMT
  <2> HIDE DEF w
  <2> QED BY <2>1, <2>3, <2>4, <2>5 DEF MaskedAbove
<1>5. position(d).bit = d % WordSize
    BY DEF position
<1> HIDE DEF w
<1>6. \A b \in Int : (c < b <=> d <= b) /\ (b < w + WordSize <=> b <= w + (WordSize - 1))
    BY <1>1, <1>3, SMT
<1> HIDE DEF d
<1>7. CASE above # {}
  <2>1. above \subseteq Int /\ \A b \in above : d <= b
      BY <1>4 DEF MaskedAbove
  <2>2. k = Min(above)
      BY <1>7
  <2> HIDE DEF above, k
  <2>3. k \in above /\ \A b \in above : k <= b
      BY <1>1, <1>7, <2>1, <2>2, MinExists
  <2>4. k \in Int /\ k \in bitmap /\ d <= k /\ k < w + WordSize
      BY <1>4, <2>1, <2>3
  <2>5. w <= k
      BY <1>1, <1>3, <2>4, SMT
  <2>6. ASSUME NEW b \in bitmap, c < b, b < k PROVE FALSE
    <3>1. b \in Int /\ d <= b /\ ~(k <= b) /\ b < w + WordSize
        BY <1>1, <1>3, <1>6, <2>4, <2>6, SMT
    <3> QED BY <1>4, <2>3, <2>6, <3>1
  <2> QED BY <1>2, <1>6, <1>7, <2>4, <2>5, <2>6 DEF n, c, d, w
<1>8. CASE above = {}
  <2>1. k = d + (WordSize - 1 - (d % WordSize))
      BY <1>5, <1>8
  <2> HIDE DEF above, k
  <2>2. /\ k = w + (WordSize - 1) /\ k \in Int /\ d <= k /\ w <= k
        /\ k < w + WordSize /\ k <= w + (WordSize - 1)
      BY <1>1, <1>3, <2>1, SMT
  <2>3. k \notin bitmap
      BY <1>4, <1>8, <2>2
  <2>4. ASSUME NEW b \in bitmap, c < b, b < k PROVE FALSE
    <3>1. b \in Int /\ d <= b /\ b < w + WordSize
        BY <1>1, <1>3, <1>6, <2>2, <2>4, SMT
    <3> QED BY <1>4, <1>8, <2>4, <3>1
  <2>5. k = w + (WordSize - 1) /\ c < k
      BY <1>6, <2>2
  <2> QED BY <1>2, <1>8, <2>2, <2>3, <2>4, <2>5 DEF n, c, d, w
<1> QED BY <1>7, <1>8

(* The bitmap's answer is a tick, whichever bits are set.                  *)
LEMMA NextTickIsTick ==
    ASSUME NEW bitmap, bitmap \subseteq Int, NEW t \in Int, NEW s \in Nat \ {0},
           NEW lte \in BOOLEAN
    PROVE  next_initialized_tick_within_one_word(bitmap, t, s, lte).tick \in Int
<1>1. \A k \in Int : k * s \in Int
    BY SMT
<1>2. CASE lte = TRUE
  <2> DEFINE c == compress(t, s)
             w == (c \div WordSize) * WordSize
             n == next_initialized_tick_within_one_word(bitmap, t, s, TRUE)
  <2>1. PICK k \in Int : /\ n.tick = k * s /\ w <= k /\ k <= c
                         /\ n.initialized <=> k \in bitmap
                         /\ ~n.initialized => k = w
                         /\ \A b \in bitmap : ~(k < b /\ b <= c)
      BY NextBelow
  <2> QED BY <1>1, <1>2, <2>1
<1>3. CASE lte = FALSE
  <2> DEFINE c == compress(t, s)
             w == ((c + 1) \div WordSize) * WordSize
             n == next_initialized_tick_within_one_word(bitmap, t, s, FALSE)
  <2>1. PICK k \in Int : /\ n.tick = k * s /\ c < k /\ w <= k /\ k <= w + (WordSize - 1)
                         /\ n.initialized <=> k \in bitmap
                         /\ ~n.initialized => k = w + (WordSize - 1)
                         /\ \A b \in bitmap : ~(c < b /\ b < k)
      BY NextAbove
  <2> QED BY <1>1, <1>3, <2>1
<1> QED BY <1>2, <1>3

(***************************************************************************)
(* V3Swap: the loop.                                                       *)
(***************************************************************************)
LEMMA TickOfPrice ==
    ASSUME NEW p \in Nat
    PROVE  get_tick_at_sqrt_ratio(p) \in Int
<1> DEFINE S == {t \in MIN_TICK .. MAX_TICK : Ratio[t] <= p}
<1>1. CASE p < MIN_SQRT_RATIO \/ p >= MAX_SQRT_RATIO
    BY <1>1, TickAssumption, SMT DEF get_tick_at_sqrt_ratio, NoTick
<1>2. CASE ~(p < MIN_SQRT_RATIO \/ p >= MAX_SQRT_RATIO)
  <2>1. MIN_TICK \in MIN_TICK .. MAX_TICK /\ Ratio[MIN_TICK] \in Nat
      BY TickAssumption, FixedPointAssumption, SMT
  <2>2. MIN_TICK \in S
      BY <1>2, <2>1, SMT DEF MIN_SQRT_RATIO
  <2>3. S \subseteq Int /\ \A i \in S : i <= MAX_TICK
      BY TickAssumption, SMT
  <2>4. get_tick_at_sqrt_ratio(p) = Max(S)
      BY <1>2 DEF get_tick_at_sqrt_ratio
  <2> HIDE DEF S
  <2> QED BY <2>2, <2>3, <2>4, TickAssumption, MaxExists
<1> QED BY <1>1, <1>2
Calls == [active : {TRUE}, amount_in : 0 .. I256Max, zero_for_one : BOOLEAN, keep : BOOLEAN]

(* While a call runs: the checks before the loop have passed, the loop's   *)
(* locals have their types and the budget is kept.                         *)
SwapInv ==
    /\ IsSnapshot(pool)
    /\ call = NoCall \/ call \in Calls
    /\ call.active => /\ pool.fee_bps < BpsDenom /\ pool.tick_spacing > 0
                      /\ price \in 0 .. U256Max /\ tick \in Int
                      /\ liquidity \in 0 .. U128Max
                      /\ remaining \in 0 .. call.amount_in

LEMMA TargetFits ==
    ASSUME call \in Calls, NEW t \in MIN_TICK .. MAX_TICK
    PROVE  Target(Ratio[t]) \in 0 .. U256Max
<1>1. U160Max \in Nat /\ U160Max <= U256Max
  <2>1. 1 * U160Max <= Q96 * U160Max /\ Q96 * U160Max = U160Max * Q96
      BY FixedPointAssumption, MulMono, SMTT(30)
  <2> QED BY <2>1, FixedPointAssumption, Widths, SMT
<1>2. \A u \in MIN_TICK .. MAX_TICK : Ratio[u] \in 1 .. U256Max
    BY <1>1, TickAssumption, Widths, SMT
<1>3. /\ MIN_TICK \in MIN_TICK .. MAX_TICK /\ MAX_TICK \in MIN_TICK .. MAX_TICK
      /\ Ratio[MIN_TICK] < Ratio[MAX_TICK]
    BY TickAssumption, SMT
<1>4. MIN_SQRT_RATIO + 1 \in 0 .. U256Max /\ MAX_SQRT_RATIO - 1 \in 0 .. U256Max
    BY <1>2, <1>3, Widths, SMT DEF MIN_SQRT_RATIO, MAX_SQRT_RATIO
<1>5. limit \in 0 .. U256Max
    BY <1>4 DEF limit
<1>6. Ratio[t] \in 0 .. U256Max
    BY <1>2, Widths, SMT
<1> QED BY <1>5, <1>6 DEF Target, Higher, Lower

(* One iteration of the loop that does not fail.                           *)
LEMMA IterationKeeps ==
    ASSUME SwapInv, call.active, NEW n, n = NextTick, NEW step, step = StepTo(n),
           ~StepFails(n, step)
    PROVE  /\ step.next \in 0 .. U256Max
           /\ remaining - (step.amount_in + step.fee_amount) \in 0 .. call.amount_in
           /\ LiquidityAfter(n, step.next) \in 0 .. U128Max
           /\ TickAfter(n, step.next) \in Int
           /\ n.tick \in MIN_TICK .. MAX_TICK
           /\ LET target == Target(Ratio[n.tick])
              IN  /\ step.next # target => remaining - (step.amount_in + step.fee_amount) = 0
                  /\ target <= price => target <= step.next /\ step.next <= price
                  /\ price <= target => price <= step.next /\ step.next <= target
<1>1. call \in Calls
    BY SMT DEF SwapInv, NoCall
<1>2. call.amount_in \in 0 .. I256Max /\ call.zero_for_one \in BOOLEAN
    BY <1>1 DEF Calls
<1>3. n.tick \in MIN_TICK .. MAX_TICK
  <2> DEFINE m == next_initialized_tick_within_one_word(pool.bitmap, tick,
                      pool.tick_spacing, call.zero_for_one)
  <2>1. m.tick \in Int
    <3>1. pool.bitmap \subseteq Int /\ tick \in Int
        BY DEF SwapInv, IsSnapshot
    <3>2. pool.tick_spacing \in Nat \ {0}
        BY SMT DEF SwapInv, IsSnapshot
    <3> QED BY <1>2, <3>1, <3>2, NextTickIsTick
  <2>2. n.tick = Clamp(m.tick)
      BY DEF NextTick, next_initialized_tick_within_one_word
  <2> HIDE DEF m
  <2> QED BY <2>1, <2>2, TickAssumption, SMTT(20) DEF Clamp, Higher, Lower
<1>4. Target(Ratio[n.tick]) \in 0 .. U256Max
    BY <1>1, <1>3, TargetFits
<1>5. fee_pips \in Nat /\ fee_pips < FeeDenom
  <2>1. /\ pool.fee_bps \in Nat /\ pool.fee_bps + 1 <= BpsDenom
        /\ BpsDenom \in Nat /\ PipsPerBps \in Nat \ {0}
      BY WidthAssumption, FixedPointAssumption, SMT DEF SwapInv, IsSnapshot
  <2> DEFINE b == pool.fee_bps
  <2>2. (b + 1) * PipsPerBps <= BpsDenom * PipsPerBps
      BY <2>1, MulMono, SMT
  <2>3. (b + 1) * PipsPerBps = b * PipsPerBps + PipsPerBps /\ b * PipsPerBps \in Nat
        /\ BpsDenom * PipsPerBps \in Nat
      BY <2>1, SMT
  <2> QED BY <2>1, <2>2, <2>3, SMTT(30) DEF fee_pips, FeeDenom
<1>6. /\ price \in 0 .. U256Max /\ liquidity \in 0 .. U128Max /\ remaining \in 0 .. I256Max
      /\ remaining \in 0 .. call.amount_in /\ tick \in Int
    BY <1>2, Widths, SMT DEF SwapInv
<1> DEFINE target == Target(Ratio[n.tick])
           s == compute_swap_step(price, target, liquidity, remaining, fee_pips)
<1>7. step = s
    BY ZenonT(30) DEF StepTo
<1>8. s.ok /\ ~(s.amount_in + s.fee_amount > I256Max)
    BY <1>7, SMTT(20) DEF StepFails
<1> HIDE DEF target
<1>9. /\ step.next \in 0 .. U256Max
      /\ step.amount_in + step.fee_amount \in 0 .. remaining
      /\ step.next # target => step.amount_in + step.fee_amount = remaining
      /\ target <= price => target <= step.next /\ step.next <= price
      /\ price <= target => price <= step.next /\ step.next <= target
  <2>1. target \in 0 .. U256Max
      BY <1>4 DEF target
  <2>2. /\ s.next \in 0 .. U256Max
        /\ s.amount_in + s.fee_amount \in 0 .. remaining
        /\ s.next # target => s.amount_in + s.fee_amount = remaining
        /\ target <= price => target <= s.next /\ s.next <= price
        /\ price <= target => price <= s.next /\ s.next <= target
      BY <1>5, <1>6, <1>8, <2>1, StepWithinBudget
  <2> HIDE DEF s
  <2> QED BY <1>7, <2>2
<1>10. remaining - (step.amount_in + step.fee_amount) \in 0 .. call.amount_in
    BY <1>2, <1>6, <1>9, Widths, SMT
<1>11. LiquidityAfter(n, step.next) \in 0 .. U128Max
  <2>1. LiquidityAfter(n, step.next) # Err
      BY DEF StepFails
  <2>2. LiquidityAfter(n, step.next) = liquidity
        \/ LiquidityAfter(n, step.next) = add_delta(liquidity, NetLiquidity(n.tick))
      BY DEF LiquidityAfter, Crossing
  <2> QED BY <1>6, <2>1, <2>2 DEF add_delta
<1>12. TickAfter(n, step.next) \in Int
  <2>1. get_tick_at_sqrt_ratio(step.next) \in Int
      BY <1>9, TickOfPrice, Widths, SMT
  <2> QED BY <1>3, <1>6, <2>1, TickAssumption, SMTT(30) DEF TickAfter
<1>13. step.next # target => remaining - (step.amount_in + step.fee_amount) = 0
    BY <1>6, <1>9, <1>10, SMT
<1> QED BY <1>3, <1>9, <1>10, <1>11, <1>12, <1>13 DEF target

(* What one iteration does, from the locals it starts with.                *)
LEMMA IterateSteps ==
    ASSUME Iterate
    PROVE  /\ InLoop /\ iterations' = iterations + 1 /\ pool' = pool
           /\ \/ call' = NoCall
              \/ \E n, step :
                    /\ n = NextTick /\ step = StepTo(n) /\ ~StepFails(n, step)
                    /\ price' = step.next
                    /\ remaining' = remaining - (step.amount_in + step.fee_amount)
                    /\ liquidity' = LiquidityAfter(n, step.next)
                    /\ tick' = TickAfter(n, step.next)
                    /\ call' = call
<1>1. PICK n \in {NextTick} : \E step \in {StepTo(n)} :
          IF StepFails(n, step)
          THEN /\ call' = NoCall
               /\ outcome' = "err"
               /\ UNCHANGED <<price, tick, liquidity, remaining, calculated>>
          ELSE /\ price' = step.next
               /\ remaining' = remaining - (step.amount_in + step.fee_amount)
               /\ calculated' = calculated + step.amount_out
               /\ liquidity' = LiquidityAfter(n, step.next)
               /\ tick' = TickAfter(n, step.next)
               /\ UNCHANGED <<call, outcome>>
    BY DEF Iterate
<1>2. PICK step \in {StepTo(n)} :
          IF StepFails(n, step)
          THEN call' = NoCall
          ELSE /\ price' = step.next
               /\ remaining' = remaining - (step.amount_in + step.fee_amount)
               /\ liquidity' = LiquidityAfter(n, step.next)
               /\ tick' = TickAfter(n, step.next)
               /\ call' = call
    BY <1>1
<1>3. InLoop /\ iterations' = iterations + 1 /\ pool' = pool
    BY DEF Iterate
<1>4. n = NextTick /\ step = StepTo(n)
    BY <1>1, <1>2
<1>5. CASE StepFails(n, step)
    BY <1>2, <1>3, <1>5
<1>6. CASE ~StepFails(n, step)
    BY <1>2, <1>3, <1>4, <1>6
<1> QED BY <1>5, <1>6

LEMMA SwapInvStep == SwapInv /\ [SwapNext]_swapVars => SwapInv'
<1> SUFFICES ASSUME SwapInv, [SwapNext]_swapVars PROVE SwapInv'
    OBVIOUS
<1>1. ASSUME NEW amount_in \in AmountsIn, NEW zero_for_one \in BOOLEAN, NEW keep \in BOOLEAN,
             Call(amount_in, zero_for_one, keep)
      PROVE  SwapInv'
  <2>1. pool' = pool
      BY <1>1 DEF Call
  <2>2. CASE amount_in = 0 \/ Rejected(amount_in, keep)
    <3>1. call' = call /\ ~call.active
        BY <1>1, <2>2, SMTT(20) DEF Call
    <3> QED BY <2>1, <3>1 DEF SwapInv
  <2>3. CASE ~(amount_in = 0 \/ Rejected(amount_in, keep))
    <3>1. amount_in \in 0 .. I256Max
        BY <2>3, SwapAssumption, Widths, SMTT(30) DEF Rejected
    <3>2. pool.fee_bps < BpsDenom /\ pool.tick_spacing > 0
        BY <2>3, WidthAssumption, SMT DEF Rejected, SwapInv, IsSnapshot
    <3>3. /\ call' = [active |-> TRUE, amount_in |-> amount_in,
                      zero_for_one |-> zero_for_one, keep |-> keep]
          /\ price' = pool.sqrt_price /\ tick' = pool.tick /\ liquidity' = pool.liquidity
          /\ remaining' = amount_in
        BY <1>1, <2>3 DEF Call
    <3>4. call' \in Calls /\ call'.amount_in = amount_in
        BY <3>1, <3>3 DEF Calls
    <3>5. remaining' \in 0 .. call'.amount_in
        BY <3>1, <3>3, <3>4, Widths, SMT
    <3> QED BY <2>1, <3>2, <3>3, <3>4, <3>5 DEF SwapInv, IsSnapshot
  <2> QED BY <2>2, <2>3
<1>2. CASE Iterate
  <2>1. call.active /\ pool' = pool
      BY <1>2, IterateSteps DEF InLoop
  <2>2. CASE call' = NoCall
      BY <2>1, <2>2 DEF SwapInv, NoCall
  <2>3. ASSUME NEW n, NEW step, n = NextTick, step = StepTo(n), ~StepFails(n, step),
               price' = step.next,
               remaining' = remaining - (step.amount_in + step.fee_amount),
               liquidity' = LiquidityAfter(n, step.next),
               tick' = TickAfter(n, step.next), call' = call
        PROVE  SwapInv'
    <3>1. /\ price' \in 0 .. U256Max /\ remaining' \in 0 .. call.amount_in
          /\ liquidity' \in 0 .. U128Max /\ tick' \in Int
        BY <2>1, <2>3, IterationKeeps
    <3> QED BY <2>1, <2>3, <3>1 DEF SwapInv
  <2> QED BY <1>2, <2>2, <2>3, IterateSteps
<1>3. CASE Return
  <2>1. call' = NoCall /\ call.active
      BY <1>3 DEF Return
  <2>2. pool' = pool \/ pool' = [pool EXCEPT !.sqrt_price = price, !.tick = tick,
                                             !.liquidity = liquidity]
      BY <1>3 DEF Return
  <2>3. IsSnapshot(pool')
    <3>1. price \in 0 .. U256Max /\ tick \in Int /\ liquidity \in 0 .. U128Max
        BY <2>1 DEF SwapInv
    <3> QED BY <2>2, <3>1 DEF SwapInv, IsSnapshot
  <2> QED BY <2>1, <2>3 DEF SwapInv, NoCall, IsSnapshot
<1>4. CASE UNCHANGED swapVars
    BY <1>4 DEF swapVars, SwapInv, IsSnapshot
<1> QED BY <1>1, <1>2, <1>3, <1>4 DEF SwapNext

(* For every width, tick table, snapshot, fee and amount: the loop of      *)
(* v3.rs never spends more than the caller gave it, so the subtraction     *)
(* from amount_remaining never goes below zero.                            *)
THEOREM SwapsNeverOverspend == SwapSpec => []NeverOverspends
<1>1. SwapInit(Pools) => SwapInv
    BY SwapAssumption, SMT DEF SwapInit, SwapInv, NoCall
<1>2. SwapInv /\ [SwapNext]_swapVars => SwapInv'
    BY SwapInvStep
<1>3. SwapInv => NeverOverspends
    BY DEF SwapInv, NeverOverspends
<1> QED BY <1>1, <1>2, <1>3, PTL DEF SwapSpec

(***************************************************************************)
(* V3Swap: the number of iterations.                                       *)
(***************************************************************************)
LEMMA CardinalityGrows ==
    ASSUME NEW T, IsFiniteSet(T), NEW S, S \subseteq T
    PROVE  /\ Cardinality(S) \in Nat /\ Cardinality(T) \in Nat
           /\ Cardinality(S) <= Cardinality(T)
           /\ \A x \in T : x \notin S => Cardinality(S) + 1 <= Cardinality(T)
<1>1. IsFiniteSet(S) /\ Cardinality(S) <= Cardinality(T)
    BY FS_Subset
<1>2. Cardinality(S) \in Nat /\ Cardinality(T) \in Nat
    BY <1>1, FS_CardinalityType
<1>3. ASSUME NEW x \in T, x \notin S PROVE Cardinality(S) + 1 <= Cardinality(T)
  <2>1. IsFiniteSet(S \cup {x}) /\ Cardinality(S \cup {x}) = Cardinality(S) + 1
      BY <1>1, <1>3, FS_AddElement
  <2>2. S \cup {x} \subseteq T
      OBVIOUS
  <2>3. Cardinality(S \cup {x}) <= Cardinality(T)
      BY <2>2, FS_Subset
  <2> QED BY <2>1, <2>3
<1> QED BY <1>1, <1>2, <1>3

Place(t) == compress(t, pool.tick_spacing)
WordOf(c) == position(c).word
Words == {WordOf(Place(t)) : t \in MIN_TICK .. MAX_TICK}

(* The bits and the words a call has left behind for good when it stands   *)
(* at tick t.                                                              *)
PassedBits(t) ==
    {b \in pool.bitmap : IF call.zero_for_one THEN Place(t) < b ELSE b <= Place(t)}
PassedWords(t) ==
    {w \in Words : IF call.zero_for_one THEN WordOf(Place(t)) < w
                   ELSE w * WordSize + (WordSize - 1) <= Place(t)}

(* A call that goes on has spent every iteration but its first on a bit or *)
(* a word.                                                                 *)
BoundInv ==
    /\ iterations \in Nat
    /\ SwapBounded
    /\ InLoop /\ iterations # 0 =>
           /\ tick \in MIN_TICK .. MAX_TICK
           /\ iterations <= 1 + Cardinality(PassedBits(tick)) + Cardinality(PassedWords(tick))

LEMMA PlaceFacts ==
    ASSUME NEW t \in Int, NEW s \in Nat \ {0}
    PROVE  LET c == compress(t, s)
           IN  /\ c \in Int /\ c * s \in Int /\ c * s <= t /\ t < c * s + s
               /\ \A k \in Int : k * s <= t /\ t < k * s + s => k = c
<1>1. compress(t, s) = t \div s
    BY CompressFloor
<1> DEFINE c == compress(t, s)
<1>2. /\ c \in Int /\ t % s \in Int /\ 0 <= t % s /\ t % s < s /\ t = c * s + (t % s)
      /\ \A k \in Int : k * s <= t /\ t < k * s + s => k = c
    BY <1>1, IntDiv
<1> HIDE DEF c
<1>3. c * s \in Int
    BY <1>2, IntMono
<1>4. c * s <= t /\ t < c * s + s
    BY <1>2, <1>3, SMT
<1> QED BY <1>2, <1>3, <1>4 DEF c

LEMMA WordsFinite == IsFiniteSet(Words)
<1>1. IsFiniteSet(MIN_TICK .. MAX_TICK)
    BY TickAssumption, FS_Interval
<1> DEFINE f == [t \in MIN_TICK .. MAX_TICK |-> WordOf(Place(t))]
<1>2. f \in Surjection(MIN_TICK .. MAX_TICK, Words)
    BY DEF Surjection, Words
<1> HIDE DEF f
<1> QED BY <1>1, <1>2, FS_Surjection

LEMMA WordsAreInts ==
    ASSUME pool.tick_spacing \in Nat \ {0}
    PROVE  Words \subseteq Int
<1> SUFFICES ASSUME NEW t \in MIN_TICK .. MAX_TICK PROVE WordOf(Place(t)) \in Int
    BY DEF Words
<1>1. t \in Int
    BY TickAssumption, SMT
<1>2. Place(t) \in Int
    BY <1>1, PlaceFacts DEF Place
<1> QED BY <1>2, Widths, IntDiv DEF WordOf, position

(* Only the clamped end of the range is not a multiple of the spacing.     *)
LEMMA ClampInside ==
    ASSUME NEW x \in Int
    PROVE  /\ Clamp(x) \in MIN_TICK .. MAX_TICK
           /\ x <= MAX_TICK /\ Clamp(x) # MIN_TICK => Clamp(x) = x
           /\ MIN_TICK <= x /\ Clamp(x) # MAX_TICK => Clamp(x) = x
           /\ x <= MAX_TICK => x <= Clamp(x)
           /\ MIN_TICK <= x => Clamp(x) <= x
           /\ \A t \in MIN_TICK .. MAX_TICK : (x <= t => Clamp(x) <= t) /\ (t <= x => t <= Clamp(x))
BY TickAssumption, SMTT(20) DEF Clamp, Higher, Lower

(* Crossing downwards.                                                     *)
LEMMA ProgressDown ==
    ASSUME SwapInv, call.active, call.zero_for_one = TRUE, tick \in MIN_TICK .. MAX_TICK,
           NextTick.tick # MIN_TICK
    PROVE  LET t == NextTick.tick - 1
           IN  /\ PassedBits(tick) \subseteq PassedBits(t)
               /\ PassedWords(tick) \subseteq PassedWords(t)
               /\ \/ \E b \in PassedBits(t) : b \notin PassedBits(tick)
                  \/ \E w \in PassedWords(t) : w \notin PassedWords(tick)
<1> DEFINE s == pool.tick_spacing
           W == WordSize
           c == Place(tick)
           t == NextTick.tick - 1
           m == next_initialized_tick_within_one_word(pool.bitmap, tick, s, TRUE)
<1>1. /\ s \in Nat \ {0} /\ W \in Nat \ {0} /\ tick \in Int /\ tick <= MAX_TICK
      /\ MAX_TICK \in Int /\ MIN_TICK \in Int /\ pool.bitmap \subseteq Int
    BY Widths, TickAssumption, SMTT(30) DEF SwapInv, IsSnapshot
<1>2. PICK k \in Int :
          /\ m.tick = k * s /\ (c \div WordSize) * WordSize <= k /\ k <= c
          /\ m.initialized <=> k \in pool.bitmap
          /\ ~m.initialized => k = (c \div WordSize) * WordSize
          /\ \A b \in pool.bitmap : ~(k < b /\ b <= c)
    BY <1>1, NextBelow DEF Place
<1>3. NextTick.tick = Clamp(m.tick)
    BY DEF NextTick, next_initialized_tick_within_one_word
<1> HIDE DEF m, s
<1>4. c \in Int /\ c * s \in Int /\ c * s <= tick
    BY <1>1, PlaceFacts DEF Place, s
<1> HIDE DEF c
<1>5. k * s \in Int /\ k * s <= c * s
    BY <1>1, <1>2, <1>4, IntMono
<1>6. NextTick.tick = k * s /\ k * s \in MIN_TICK .. MAX_TICK
  <2>1. k * s <= MAX_TICK
      BY <1>1, <1>4, <1>5, SMT
  <2>2. NextTick.tick = Clamp(k * s)
      BY <1>2, <1>3
  <2>3. Clamp(k * s) \in MIN_TICK .. MAX_TICK /\ (Clamp(k * s) # MIN_TICK => Clamp(k * s) = k * s)
      BY <1>5, <2>1, ClampInside
  <2> QED BY <2>2, <2>3
<1>7. t = k * s - 1 /\ t \in Int
    BY <1>5, <1>6, SMT
<1> HIDE DEF t
<1>8. Place(t) = k - 1
  <2>1. k - 1 \in Int /\ (k - 1) * s = k * s - s
      BY <1>1, SMT
  <2>2. (k - 1) * s <= t /\ t < (k - 1) * s + s
      BY <1>1, <1>5, <1>7, <2>1, SMTT(30)
  <2> QED BY <1>1, <1>7, <2>1, <2>2, PlaceFacts DEF Place, s
<1>9. \A b \in Int : c < b => k - 1 < b
    BY <1>2, <1>4, SMT
<1> DEFINE x == c \div W
           y == (k - 1) \div W
<1>10. /\ x \in Int /\ x * W \in Int /\ x * W <= c /\ c < x * W + W
       /\ y \in Int /\ y * W \in Int /\ y * W <= k - 1 /\ k - 1 < y * W + W
  <2>1. k - 1 \in Int
      BY SMT
  <2>2. /\ x \in Int /\ c % W \in Int /\ 0 <= c % W /\ c % W < W /\ c = x * W + (c % W)
        /\ y \in Int /\ (k - 1) % W \in Int /\ 0 <= (k - 1) % W /\ (k - 1) % W < W
        /\ k - 1 = y * W + ((k - 1) % W)
      BY <1>1, <1>4, <2>1, IntDiv
  <2> HIDE DEF x, y
  <2>3. x * W \in Int /\ y * W \in Int
      BY <1>1, <2>2, IntMono
  <2> QED BY <1>1, <2>2, <2>3, SMT
<1>11. WordOf(c) = x /\ WordOf(k - 1) = y
    BY DEF WordOf, position
<1>12. \A w \in Int : x < w => y < w
  <2> HIDE DEF x, y
  <2>1. y * W < x * W + W
      BY <1>1, <1>2, <1>4, <1>10, SMT
  <2>2. y <= x
      BY <1>1, <1>10, <2>1, IntMono
  <2> QED BY <1>10, <2>2, SMTT(30)
<1>13. Words \subseteq Int
    BY <1>1, WordsAreInts DEF s
<1>14. PassedBits(tick) \subseteq PassedBits(t)
    BY <1>1, <1>8, <1>9 DEF PassedBits, c
<1>15. PassedWords(tick) \subseteq PassedWords(t)
    BY <1>8, <1>11, <1>12, <1>13 DEF PassedWords, c
<1>16. CASE m.initialized
  <2>1. k - 1 < k /\ ~(c < k)
      BY <1>2, <1>4, SMT
  <2>2. k \in PassedBits(t) /\ k \notin PassedBits(tick)
      BY <1>2, <1>8, <1>16, <2>1 DEF PassedBits, c
  <2> QED BY <1>14, <1>15, <2>2 DEF t
<1>17. CASE ~m.initialized
  <2>1. k = x * W
      BY <1>2, <1>17
  <2>2. WordOf(k) = x
    <3> HIDE DEF x
    <3>1. x * W <= k /\ k < x * W + W
        BY <1>1, <1>10, <2>1, SMT
    <3>2. x = k \div W
        BY <1>1, <1>10, <3>1, IntDiv
    <3> QED BY <3>2 DEF WordOf, position
  <2>3. Place(k * s) = k
    <3>1. k * s <= k * s /\ k * s < k * s + s
        BY <1>1, <1>5, SMT
    <3> QED BY <1>1, <1>5, <3>1, PlaceFacts DEF Place, s
  <2>4. x \in Words
      BY <1>6, <2>2, <2>3 DEF Words
  <2>5. y < x /\ ~(x < x)
    <3> HIDE DEF x, y
    <3>1. ASSUME x <= y PROVE FALSE
      <4>1. x * W <= y * W
          BY <1>1, <1>10, <3>1, IntMono
      <4> QED BY <1>10, <2>1, <4>1, SMT
    <3> QED BY <1>10, <3>1, SMT
  <2>6. x \in PassedWords(t) /\ x \notin PassedWords(tick)
      BY <1>8, <1>11, <2>4, <2>5 DEF PassedWords, c
  <2> QED BY <1>14, <1>15, <2>6 DEF t
<1> QED BY <1>16, <1>17

(* Crossing upwards.                                                       *)
LEMMA ProgressUp ==
    ASSUME SwapInv, call.active, call.zero_for_one = FALSE, tick \in MIN_TICK .. MAX_TICK,
           NextTick.tick # MAX_TICK
    PROVE  LET t == NextTick.tick
           IN  /\ PassedBits(tick) \subseteq PassedBits(t)
               /\ PassedWords(tick) \subseteq PassedWords(t)
               /\ \/ \E b \in PassedBits(t) : b \notin PassedBits(tick)
                  \/ \E w \in PassedWords(t) : w \notin PassedWords(tick)
<1> DEFINE s == pool.tick_spacing
           W == WordSize
           c == Place(tick)
           x == (c + 1) \div W
           t == NextTick.tick
           m == next_initialized_tick_within_one_word(pool.bitmap, tick, s, FALSE)
<1>1. /\ s \in Nat \ {0} /\ W \in Nat \ {0} /\ tick \in Int /\ MIN_TICK <= tick
      /\ MAX_TICK \in Int /\ MIN_TICK \in Int /\ pool.bitmap \subseteq Int
    BY Widths, TickAssumption, SMTT(30) DEF SwapInv, IsSnapshot
<1>2. PICK k \in Int :
          /\ m.tick = k * s /\ c < k /\ ((c + 1) \div WordSize) * WordSize <= k
          /\ k <= ((c + 1) \div WordSize) * WordSize + (WordSize - 1)
          /\ m.initialized <=> k \in pool.bitmap
          /\ ~m.initialized => k = ((c + 1) \div WordSize) * WordSize + (WordSize - 1)
          /\ \A b \in pool.bitmap : ~(c < b /\ b < k)
    BY <1>1, NextAbove DEF Place
<1>3. NextTick.tick = Clamp(m.tick)
    BY DEF NextTick, next_initialized_tick_within_one_word
<1> HIDE DEF m, s
<1>4. c \in Int /\ c * s \in Int /\ tick < c * s + s
    BY <1>1, PlaceFacts DEF Place, s
<1> HIDE DEF c
<1>5. k * s \in Int /\ c * s + s <= k * s
    BY <1>1, <1>2, <1>4, IntMono
<1>6. t = k * s /\ k * s \in MIN_TICK .. MAX_TICK
  <2>1. MIN_TICK <= k * s
      BY <1>1, <1>4, <1>5, SMT
  <2>2. t = Clamp(k * s)
      BY <1>2, <1>3
  <2>3. Clamp(k * s) \in MIN_TICK .. MAX_TICK /\ (Clamp(k * s) # MAX_TICK => Clamp(k * s) = k * s)
      BY <1>5, <2>1, ClampInside
  <2> QED BY <2>2, <2>3
<1> HIDE DEF t
<1>7. Place(t) = k
  <2>1. k * s <= k * s /\ k * s < k * s + s
      BY <1>1, <1>5, SMT
  <2> QED BY <1>1, <1>5, <1>6, <2>1, PlaceFacts DEF Place, s
<1>8. \A b \in Int : b <= c => b <= k
    BY <1>2, <1>4, SMT
<1>9. PassedBits(tick) \subseteq PassedBits(t)
    BY <1>1, <1>7, <1>8 DEF PassedBits, c
<1>10. PassedWords(tick) \subseteq PassedWords(t)
  <2> SUFFICES ASSUME NEW w \in Words, w * W + (W - 1) <= c PROVE w * W + (W - 1) <= k
      BY <1>7 DEF PassedWords, c
  <2>1. w \in Int
      BY <1>1, WordsAreInts DEF s
  <2>2. w * W + (W - 1) \in Int
      BY <1>1, <2>1, SMT
  <2> QED BY <1>8, <2>2
<1>11. ~(k <= c) /\ k <= k
    BY <1>2, <1>4, SMT
<1>12. CASE m.initialized
  <2>1. k \in PassedBits(t) /\ k \notin PassedBits(tick)
      BY <1>2, <1>7, <1>11, <1>12 DEF PassedBits, c
  <2> QED BY <1>9, <1>10, <2>1 DEF t
<1>13. CASE ~m.initialized
  <2>1. k = x * W + (W - 1)
      BY <1>2, <1>13
  <2>2. x \in Int
    <3>1. c + 1 \in Int
        BY <1>4, SMT
    <3> QED BY <1>1, <3>1, IntDiv
  <2> HIDE DEF x
  <2>3. WordOf(k) = x
    <3>1. x * W <= k /\ k < x * W + W
        BY <1>1, <2>1, <2>2, IntMono, SMT
    <3>2. x = k \div W
        BY <1>1, <2>2, <3>1, IntDiv
    <3> QED BY <3>2 DEF WordOf, position
  <2>4. x \in Words
      BY <1>6, <1>7, <2>3 DEF Words
  <2>5. x \in PassedWords(t) /\ x \notin PassedWords(tick)
      BY <1>7, <1>11, <2>1, <2>4 DEF PassedWords, c
  <2> QED BY <1>9, <1>10, <2>5 DEF t
<1> QED BY <1>12, <1>13

(* A call that goes on leaves a bit or a word behind.                      *)
LEMMA Progress ==
    ASSUME SwapInv, call.active, tick \in MIN_TICK .. MAX_TICK,
           NEW t, t = IF call.zero_for_one THEN NextTick.tick - 1 ELSE NextTick.tick,
           NextTick.tick # IF call.zero_for_one THEN MIN_TICK ELSE MAX_TICK
    PROVE  Cardinality(PassedBits(tick)) + Cardinality(PassedWords(tick)) + 1
               <= Cardinality(PassedBits(t)) + Cardinality(PassedWords(t))
<1>1. call.zero_for_one \in BOOLEAN
  <2>1. call \in Calls
      BY SMT DEF SwapInv, NoCall
  <2> QED BY <2>1 DEF Calls
<1>2. /\ PassedBits(tick) \subseteq PassedBits(t)
      /\ PassedWords(tick) \subseteq PassedWords(t)
      /\ \/ \E b \in PassedBits(t) : b \notin PassedBits(tick)
         \/ \E w \in PassedWords(t) : w \notin PassedWords(tick)
  <2>1. CASE call.zero_for_one = TRUE
      BY <2>1, ProgressDown
  <2>2. CASE call.zero_for_one = FALSE
      BY <2>2, ProgressUp
  <2> QED BY <1>1, <2>1, <2>2
<1>3. IsFiniteSet(PassedBits(t)) /\ IsFiniteSet(PassedWords(t))
  <2>1. IsFiniteSet(pool.bitmap) /\ PassedBits(t) \subseteq pool.bitmap /\ PassedWords(t) \subseteq Words
      BY DEF SwapInv, IsSnapshot, PassedBits, PassedWords
  <2> QED BY <2>1, WordsFinite, FS_Subset
<1> DEFINE a == Cardinality(PassedBits(tick))
           b == Cardinality(PassedWords(tick))
           c == Cardinality(PassedBits(t))
           d == Cardinality(PassedWords(t))
<1>4. a \in Nat /\ b \in Nat /\ c \in Nat /\ d \in Nat /\ a <= c /\ b <= d
    BY <1>2, <1>3, CardinalityGrows
<1>5. a + 1 <= c \/ b + 1 <= d
    BY <1>2, <1>3, CardinalityGrows
<1> HIDE DEF a, b, c, d
<1>6. a + b + 1 <= c + d
    BY <1>4, <1>5, SMT
<1> QED BY <1>6 DEF a, b, c, d

(* The end of the range is behind the price limit.                         *)
LEMMA LimitFirst ==
    /\ MIN_SQRT_RATIO \in Nat /\ MAX_SQRT_RATIO \in Nat /\ MIN_SQRT_RATIO < MAX_SQRT_RATIO
    /\ call.zero_for_one = TRUE => limit = MIN_SQRT_RATIO + 1 /\ Target(Ratio[MIN_TICK]) = limit
    /\ call.zero_for_one = FALSE => limit = MAX_SQRT_RATIO - 1 /\ Target(Ratio[MAX_TICK]) = limit
<1>1. /\ MIN_SQRT_RATIO \in Nat /\ MAX_SQRT_RATIO \in Nat /\ MIN_SQRT_RATIO < MAX_SQRT_RATIO
  <2>1. MIN_TICK \in MIN_TICK .. MAX_TICK /\ MAX_TICK \in MIN_TICK .. MAX_TICK
      BY TickAssumption, SMT
  <2>2. Ratio[MIN_TICK] \in 1 .. U160Max /\ Ratio[MAX_TICK] \in 1 .. U160Max
      BY <2>1, TickAssumption
  <2>3. Ratio[MIN_TICK] < Ratio[MAX_TICK]
      BY <2>1, TickAssumption
  <2> QED BY <2>2, <2>3, FixedPointAssumption, SMT DEF MIN_SQRT_RATIO, MAX_SQRT_RATIO
<1>2. Higher(MIN_SQRT_RATIO, MIN_SQRT_RATIO + 1) = MIN_SQRT_RATIO + 1
    BY <1>1, SMT DEF Higher
<1>3. Lower(MAX_SQRT_RATIO, MAX_SQRT_RATIO - 1) = MAX_SQRT_RATIO - 1
    BY <1>1, SMT DEF Lower
<1> QED BY <1>1, <1>2, <1>3 DEF limit, Target, MIN_SQRT_RATIO, MAX_SQRT_RATIO

(* An iteration after which the loop goes on has crossed a tick.           *)
LEMMA GoesOnAcross ==
    ASSUME SwapInv, Iterate, InLoop'
    PROVE  /\ call' = call /\ NextTick.tick \in MIN_TICK .. MAX_TICK
           /\ NextTick.tick # IF call.zero_for_one THEN MIN_TICK ELSE MAX_TICK
           /\ tick' = IF call.zero_for_one THEN NextTick.tick - 1 ELSE NextTick.tick
<1>1. InLoop /\ call' # NoCall
  <2>1. call'.active
      BY DEF InLoop
  <2>2. ~NoCall.active
      BY DEF NoCall
  <2> QED BY <2>1, <2>2, IterateSteps
<1>2. PICK n, step :
          /\ n = NextTick /\ step = StepTo(n) /\ ~StepFails(n, step)
          /\ price' = step.next
          /\ remaining' = remaining - (step.amount_in + step.fee_amount)
          /\ tick' = TickAfter(n, step.next)
          /\ call' = call
    BY <1>1, IterateSteps
<1> DEFINE target == Target(Ratio[n.tick])
<1>3. /\ n.tick \in MIN_TICK .. MAX_TICK
      /\ step.next # target => remaining - (step.amount_in + step.fee_amount) = 0
    BY <1>1, <1>2, IterationKeeps DEF InLoop
<1>4. price' # limit /\ remaining' # 0
    BY <1>2 DEF InLoop, limit
<1>5. step.next = target /\ target # limit
    BY <1>2, <1>3, <1>4
<1>6. target = Ratio[n.tick]
    BY <1>5 DEF Target, Higher, Lower
<1>7. call.zero_for_one \in BOOLEAN
  <2>1. call \in Calls
      BY <1>1, SMT DEF SwapInv, NoCall, InLoop
  <2> QED BY <2>1 DEF Calls
<1>8. n.tick # IF call.zero_for_one THEN MIN_TICK ELSE MAX_TICK
    BY <1>5, <1>7, LimitFirst
<1>9. tick' = IF call.zero_for_one THEN n.tick - 1 ELSE n.tick
    BY <1>2, <1>5, <1>6 DEF TickAfter
<1> QED BY <1>2, <1>3, <1>8, <1>9

LEMMA BoundStep == SwapInv /\ BoundInv /\ [SwapNext]_swapVars => BoundInv'
<1> SUFFICES ASSUME SwapInv, BoundInv, [SwapNext]_swapVars PROVE BoundInv'
    OBVIOUS
<1> DEFINE all == Cardinality(pool.bitmap)
           words == Cardinality(Words)
<1>1. all \in Nat /\ words \in Nat
    BY WordsFinite, FS_CardinalityType DEF SwapInv, IsSnapshot
<1>2. ASSUME NEW amount_in \in AmountsIn, NEW zero_for_one \in BOOLEAN, NEW keep \in BOOLEAN,
             Call(amount_in, zero_for_one, keep)
      PROVE  BoundInv'
  <2>1. iterations' = 0 /\ pool' = pool
      BY <1>2 DEF Call
  <2>2. 0 <= 2 + all + words /\ 0 \in Nat
      BY <1>1, SMT
  <2>3. SwapBounded'
      BY <2>1, <2>2 DEF SwapBounded, Words, WordOf, Place
  <2> QED BY <2>1, <2>2, <2>3 DEF BoundInv
<1>3. CASE Iterate
  <2> DEFINE a == Cardinality(PassedBits(tick))
             b == Cardinality(PassedWords(tick))
             c == Cardinality(PassedBits(tick'))
             d == Cardinality(PassedWords(tick'))
  <2>1. InLoop /\ iterations' = iterations + 1 /\ pool' = pool
      BY <1>3, IterateSteps
  <2>2. iterations \in Nat /\ iterations' \in Nat
      BY <2>1, SMT DEF BoundInv
  <2>3. ASSUME NEW t
        PROVE  /\ Cardinality(PassedBits(t)) \in Nat /\ Cardinality(PassedWords(t)) \in Nat
               /\ Cardinality(PassedBits(t)) <= all /\ Cardinality(PassedWords(t)) <= words
    <3>1. PassedBits(t) \subseteq pool.bitmap /\ PassedWords(t) \subseteq Words
        BY DEF PassedBits, PassedWords
    <3>2. IsFiniteSet(pool.bitmap)
        BY DEF SwapInv, IsSnapshot
    <3> QED BY <3>1, <3>2, WordsFinite, CardinalityGrows
  <2>4. iterations # 0 => tick \in MIN_TICK .. MAX_TICK /\ iterations <= 1 + a + b
      BY <2>1 DEF BoundInv
  <2>5. iterations' <= 2 + all + words
    <3>1. a \in Nat /\ b \in Nat /\ a <= all /\ b <= words
        BY <2>3
    <3> HIDE DEF a, b, all, words
    <3> QED BY <1>1, <2>1, <2>2, <2>4, <3>1, SMTT(30)
  <2>6. SwapBounded'
      BY <2>1, <2>5 DEF SwapBounded, Words, WordOf, Place
  <2>7. ASSUME InLoop'
        PROVE  /\ tick' \in MIN_TICK .. MAX_TICK
               /\ iterations' <= 1 + Cardinality(PassedBits(tick)') + Cardinality(PassedWords(tick)')
    <3>1. /\ call' = call /\ NextTick.tick \in MIN_TICK .. MAX_TICK
          /\ NextTick.tick # IF call.zero_for_one THEN MIN_TICK ELSE MAX_TICK
          /\ tick' = IF call.zero_for_one THEN NextTick.tick - 1 ELSE NextTick.tick
        BY <1>3, <2>7, GoesOnAcross
    <3>2. tick' \in MIN_TICK .. MAX_TICK
        BY <3>1, TickAssumption, SMT
    <3>3. PassedBits(tick)' = PassedBits(tick') /\ PassedWords(tick)' = PassedWords(tick')
        BY <2>1, <3>1 DEF PassedBits, PassedWords, Words, WordOf, Place
    <3>4. iterations # 0 => a + b + 1 <= c + d
        BY <2>1, <2>4, <3>1, Progress DEF InLoop
    <3>5. iterations' <= 1 + c + d
      <4>1. a \in Nat /\ b \in Nat /\ c \in Nat /\ d \in Nat
          BY <2>3
      <4> HIDE DEF a, b, c, d
      <4> QED BY <2>1, <2>2, <2>4, <3>4, <4>1, SMT
    <3> QED BY <3>2, <3>3, <3>5
  <2> QED BY <2>2, <2>6, <2>7 DEF BoundInv
<1>4. CASE Return
  <2>1. call' = NoCall /\ iterations' = iterations
      BY <1>4 DEF Return
  <2>2. pool' = pool \/ pool' = [pool EXCEPT !.sqrt_price = price, !.tick = tick,
                                             !.liquidity = liquidity]
      BY <1>4 DEF Return
  <2>3. pool'.bitmap = pool.bitmap /\ pool'.tick_spacing = pool.tick_spacing
      BY <2>2 DEF SwapInv, IsSnapshot
  <2>4. SwapBounded'
      BY <2>1, <2>3 DEF BoundInv, SwapBounded
  <2>5. ~InLoop'
      BY <2>1 DEF InLoop, NoCall
  <2> QED BY <2>1, <2>4, <2>5 DEF BoundInv
<1>5. CASE UNCHANGED swapVars
    BY <1>5 DEF swapVars, BoundInv, SwapBounded, InLoop, limit, PassedBits, PassedWords, Words, Place
<1> QED BY <1>2, <1>3, <1>4, <1>5 DEF SwapNext

(* For every bitmap, spacing, word size, table of prices and start: the    *)
(* loop of v3.rs ends, after no more iterations than the bitmap has bits   *)
(* and the range of ticks has words, and two.                              *)
THEOREM SwapBoundedAlways == SwapSpec => []SwapBounded
<1>1. SwapInit(Pools) => SwapInv
    BY SwapAssumption, SMT DEF SwapInit, SwapInv, NoCall
<1>2. SwapInv /\ [SwapNext]_swapVars => SwapInv'
    BY SwapInvStep
<1>3. SwapInit(Pools) => BoundInv
  <2> SUFFICES ASSUME SwapInit(Pools) PROVE BoundInv
      OBVIOUS
  <2>1. IsFiniteSet(pool.bitmap) /\ iterations = 0 /\ call = NoCall
      BY SwapAssumption DEF SwapInit, IsSnapshot
  <2>2. Cardinality(pool.bitmap) \in Nat /\ Cardinality(Words) \in Nat
      BY <2>1, WordsFinite, FS_CardinalityType
  <2>3. iterations \in Nat /\ iterations <= 2 + Cardinality(pool.bitmap) + Cardinality(Words)
      BY <2>1, <2>2, SMT
  <2>4. SwapBounded
      BY <2>3 DEF SwapBounded, Words, WordOf, Place
  <2>5. ~InLoop
      BY <2>1 DEF InLoop, NoCall
  <2> QED BY <2>3, <2>4, <2>5 DEF BoundInv
<1>4. SwapInv /\ BoundInv /\ [SwapNext]_swapVars => BoundInv'
    BY BoundStep
<1>5. BoundInv => SwapBounded
    BY DEF BoundInv
<1> QED BY <1>1, <1>2, <1>3, <1>4, <1>5, PTL DEF SwapSpec

(***************************************************************************)
(* V3Swap: the ladder.                                                     *)
(***************************************************************************)
LEMMA FromZero ==
    ASSUME NEW N, 0 \in N, \A n \in Nat : n \in N => n + 1 \in N
    PROVE  \A n \in Nat : n \in N
<1> SUFFICES ASSUME NEW n \in Nat, n \notin N PROVE FALSE
    OBVIOUS
<1> DEFINE T == {k \in Nat : k \notin N}
<1>1. T \subseteq Nat /\ T # {}
    OBVIOUS
<1>2. PICK m \in T : \A k \in T : m <= k
  <2> HIDE DEF T
  <2> QED BY <1>1, LeastNatural
<1>3. m \in Nat /\ m \notin N /\ m # 0
    BY <1>2
<1>4. m - 1 \in Nat /\ (m - 1) + 1 = m /\ ~(m <= m - 1)
    BY <1>3, SMT
<1> QED BY <1>2, <1>3, <1>4

(* The ladder has its recursive definition.                                *)
LEMMA LadderDef ==
    ASSUME NEW net
    PROVE  Ladder(net) = [t \in MIN_TICK - 1 .. MAX_TICK |->
                             IF t = MIN_TICK - 1 THEN 0 ELSE Ladder(net)[t - 1] + NetAt(net, t)]
<1> DEFINE low == MIN_TICK - 1
           Body(f, t) == IF t = low THEN 0 ELSE f[t - 1] + NetAt(net, t)
           N == {n \in Nat : \E f : f = [t \in low .. low + n |-> Body(f, t)]}
<1>1. low \in Int /\ MAX_TICK \in Int /\ MAX_TICK - low \in Nat /\ low + (MAX_TICK - low) = MAX_TICK
    BY TickAssumption, SMT
<1> HIDE DEF low
<1>2. 0 \in N
  <2> DEFINE f == [t \in low .. low + 0 |-> 0]
  <2>1. \A t \in low .. low + 0 : t = low
      BY <1>1, SMT
  <2>2. f = [t \in low .. low + 0 |-> Body(f, t)]
      BY <2>1
  <2> HIDE DEF f
  <2> QED BY <2>2
<1>3. ASSUME NEW n \in Nat, n \in N PROVE n + 1 \in N
  <2>1. PICK f : f = [t \in low .. low + n |-> Body(f, t)]
      BY <1>3
  <2> DEFINE top == low + (n + 1)
             g == [t \in low .. top |-> IF t = top THEN Body(f, t) ELSE f[t]]
  <2>2. ASSUME NEW t \in low .. top PROVE g[t] = Body(g, t)
    <3>1. CASE t = top
      <4>1. /\ g[t] = Body(f, t) /\ t # low /\ t - 1 \in low .. top /\ t - 1 # top
          BY <1>1, <3>1, SMT
      <4>2. g[t - 1] = f[t - 1]
          BY <4>1
      <4> QED BY <4>1, <4>2
    <3>2. CASE t # top
      <4>1. t \in low .. low + n /\ t \in Int
          BY <1>1, <3>2, SMT
      <4>2. g[t] = f[t] /\ f[t] = Body(f, t)
          BY <2>1, <3>2, <4>1
      <4>3. t # low => t - 1 \in low .. top /\ t - 1 # top
          BY <1>1, <4>1, SMT
      <4>4. t # low => g[t - 1] = f[t - 1]
          BY <4>3
      <4> HIDE DEF g
      <4> QED BY <4>2, <4>4
    <3> QED BY <3>1, <3>2
  <2>3. g = [t \in low .. top |-> g[t]]
      OBVIOUS
  <2>4. g = [t \in low .. top |-> Body(g, t)]
    <3> HIDE DEF g
    <3> HIDE DEF Body
    <3> QED BY <2>2, <2>3
  <2>5. \E h : h = [t \in low .. top |-> Body(h, t)]
    <3> HIDE DEF g, Body
    <3> QED BY <2>4
  <2>6. n + 1 \in Nat
      BY SMT
  <2> HIDE DEF Body
  <2> QED BY <2>5, <2>6
<1> HIDE DEF N
<1>4. MAX_TICK - low \in N
    BY <1>1, <1>2, <1>3, FromZero
<1>5. \E f : f = [t \in low .. MAX_TICK |-> Body(f, t)]
    BY <1>1, <1>4 DEF N
<1> QED BY <1>5 DEF Ladder, low

LEMMA LadderStep ==
    ASSUME NEW net, NEW t \in MIN_TICK .. MAX_TICK
    PROVE  Ladder(net)[t] = Ladder(net)[t - 1] + NetAt(net, t)
<1>1. t \in MIN_TICK - 1 .. MAX_TICK /\ t # MIN_TICK - 1
    BY TickAssumption, SMT
<1> DEFINE f == Ladder(net)
<1>2. f = [u \in MIN_TICK - 1 .. MAX_TICK |->
              IF u = MIN_TICK - 1 THEN 0 ELSE f[u - 1] + NetAt(net, u)]
    BY LadderDef
<1> HIDE DEF f
<1> QED BY <1>1, <1>2 DEF f

LEMMA LadderType ==
    ASSUME NEW net, net \in [DOMAIN net -> Int], NEW t \in MIN_TICK - 1 .. MAX_TICK
    PROVE  Ladder(net)[t] \in Int
<1> DEFINE low == MIN_TICK - 1
           N == {n \in Nat : low + n <= MAX_TICK => Ladder(net)[low + n] \in Int}
<1>1. low \in Int /\ MAX_TICK \in Int /\ MIN_TICK \in Int /\ low < MIN_TICK /\ low <= MAX_TICK
    BY TickAssumption, SMT
<1>2. 0 \in N
  <2> DEFINE f == Ladder(net)
  <2>1. f = [u \in low .. MAX_TICK |-> IF u = low THEN 0 ELSE f[u - 1] + NetAt(net, u)]
      BY LadderDef
  <2>2. low + 0 = low /\ low \in low .. MAX_TICK
      BY <1>1, SMT
  <2> HIDE DEF f, low
  <2>3. f[low] = 0
      BY <2>1, <2>2
  <2>4. f[low + 0] \in Int
      BY <2>2, <2>3, SMT
  <2> QED BY <2>4 DEF f
<1>3. ASSUME NEW n \in Nat, n \in N PROVE n + 1 \in N
  <2> DEFINE u == low + (n + 1)
  <2> SUFFICES ASSUME u <= MAX_TICK PROVE Ladder(net)[u] \in Int
      BY SMT
  <2>1. u \in MIN_TICK .. MAX_TICK /\ u - 1 = low + n /\ low + n <= MAX_TICK
      BY <1>1, SMT
  <2> HIDE DEF u
  <2>2. Ladder(net)[u] = Ladder(net)[u - 1] + NetAt(net, u)
      BY <2>1, LadderStep
  <2>3. NetAt(net, u) \in Int
      BY SMT DEF NetAt
  <2>4. Ladder(net)[u - 1] \in Int
      BY <1>3, <2>1
  <2> QED BY <2>2, <2>3, <2>4, SMT
<1>4. t - low \in Nat /\ low + (t - low) = t /\ t <= MAX_TICK
    BY <1>1, SMT
<1> HIDE DEF low
<1>5. t - low \in N
  <2> HIDE DEF N
  <2> QED BY <1>2, <1>3, <1>4, FromZero
<1> QED BY <1>4, <1>5

(* Over a stretch without initialized ticks the ladder is level.           *)
LEMMA LadderLevel ==
    ASSUME NEW net, net \in [DOMAIN net -> Int],
           NEW u \in MIN_TICK - 1 .. MAX_TICK, NEW v \in MIN_TICK - 1 .. MAX_TICK, u <= v,
           \A x \in Int : u < x /\ x <= v => x \notin DOMAIN net
    PROVE  Ladder(net)[v] = Ladder(net)[u]
<1> DEFINE N == {n \in Nat : u + n <= v => Ladder(net)[u + n] = Ladder(net)[u]}
<1>1. u \in Int /\ v \in Int /\ v <= MAX_TICK /\ MIN_TICK - 1 <= u /\ MIN_TICK \in Int /\ MAX_TICK \in Int
    BY TickAssumption, SMT
<1>2. 0 \in N
  <2>1. u + 0 = u
      BY <1>1, SMT
  <2> QED BY <2>1
<1>3. ASSUME NEW n \in Nat, n \in N PROVE n + 1 \in N
  <2> DEFINE x == u + (n + 1)
  <2> SUFFICES ASSUME x <= v PROVE Ladder(net)[x] = Ladder(net)[u]
      BY SMT
  <2>1. x \in MIN_TICK .. MAX_TICK /\ x \in Int /\ u < x /\ x - 1 = u + n /\ u + n <= v
        /\ x - 1 \in MIN_TICK - 1 .. MAX_TICK
      BY <1>1, SMT
  <2> HIDE DEF x
  <2>2. Ladder(net)[x] = Ladder(net)[x - 1] + NetAt(net, x)
      BY <2>1, LadderStep
  <2>3. NetAt(net, x) = 0
      BY <2>1 DEF NetAt
  <2>4. Ladder(net)[x - 1] = Ladder(net)[u] /\ Ladder(net)[x - 1] \in Int
      BY <1>3, <2>1, LadderType
  <2> QED BY <2>2, <2>3, <2>4, SMTT(30)
<1>4. v - u \in Nat /\ u + (v - u) = v /\ v <= v
    BY <1>1, SMT
<1>5. v - u \in N
  <2> HIDE DEF N
  <2> QED BY <1>2, <1>3, <1>4, FromZero
<1> QED BY <1>4, <1>5

LEMMA RatioRises ==
    ASSUME NEW u \in MIN_TICK .. MAX_TICK, NEW v \in MIN_TICK .. MAX_TICK
    PROVE  /\ Ratio[u] \in Nat /\ Ratio[v] \in Nat
           /\ u <= v => Ratio[u] <= Ratio[v]
           /\ Ratio[u] <= Ratio[v] => u <= v
<1>1. u \in Int /\ v \in Int
    BY TickAssumption, SMT
<1>2. Ratio[u] \in 1 .. U160Max /\ Ratio[v] \in 1 .. U160Max
    BY TickAssumption
<1>3. (u < v => Ratio[u] < Ratio[v]) /\ (v < u => Ratio[v] < Ratio[u])
    BY TickAssumption
<1> QED BY <1>1, <1>2, <1>3, FixedPointAssumption, SMT

(* get_tick_at_sqrt_ratio finds the tick a price lies in.                  *)
LEMMA TickOfInside ==
    ASSUME NEW q \in Nat, MIN_SQRT_RATIO <= q, q < MAX_SQRT_RATIO
    PROVE  LET t == get_tick_at_sqrt_ratio(q)
           IN  /\ t \in MIN_TICK .. MAX_TICK - 1
               /\ Ratio[t] <= q /\ q < Ratio[t + 1]
               /\ \A u \in MIN_TICK .. MAX_TICK : Ratio[u] <= q => u <= t
<1> DEFINE S == {t \in MIN_TICK .. MAX_TICK : Ratio[t] <= q}
           t == get_tick_at_sqrt_ratio(q)
<1>1. /\ MIN_TICK \in Int /\ MAX_TICK \in Int
      /\ MIN_TICK \in MIN_TICK .. MAX_TICK /\ MAX_TICK \in MIN_TICK .. MAX_TICK
    BY TickAssumption, SMT
<1>2. MIN_TICK \in S
    BY <1>1 DEF MIN_SQRT_RATIO
<1>3. S \subseteq Int /\ \A i \in S : i <= MAX_TICK
    BY <1>1, SMT
<1>4. t = Max(S)
  <2>1. ~(q < MIN_SQRT_RATIO) /\ ~(q >= MAX_SQRT_RATIO)
      BY LimitFirst, SMT
  <2> QED BY <2>1 DEF get_tick_at_sqrt_ratio
<1>5. t \in S /\ \A i \in S : i <= t
  <2> HIDE DEF S, t
  <2> QED BY <1>1, <1>2, <1>3, <1>4, MaxExists
<1> HIDE DEF t
<1>6. t \in MIN_TICK .. MAX_TICK /\ Ratio[t] <= q /\ t \in Int
    BY <1>3, <1>5
<1>7. t # MAX_TICK
  <2>1. MAX_SQRT_RATIO \in Nat /\ ~(MAX_SQRT_RATIO <= q)
      BY LimitFirst, SMT
  <2> QED BY <1>6, <2>1 DEF MAX_SQRT_RATIO
<1>8. t \in MIN_TICK .. MAX_TICK - 1 /\ t + 1 \in MIN_TICK .. MAX_TICK /\ ~(t + 1 <= t)
    BY <1>1, <1>6, <1>7, SMT
<1>9. ~(Ratio[t + 1] <= q)
    BY <1>5, <1>8
<1>10. Ratio[t + 1] \in Nat
    BY <1>8, RatioRises
<1>11. q < Ratio[t + 1]
    BY <1>9, <1>10, SMT
<1> QED BY <1>5, <1>6, <1>8, <1>11 DEF t

(* In a whole snapshot the set bits are the initialized ticks.             *)
LEMMA WholeBits ==
    ASSUME SwapInv, Whole, \A t \in DOMAIN pool.net : t % pool.tick_spacing = 0, NEW k \in Int
    PROVE  k \in pool.bitmap <=> k * pool.tick_spacing \in DOMAIN pool.net
<1> DEFINE s == pool.tick_spacing
<1>1. s \in Nat \ {0} /\ DOMAIN pool.net \subseteq Int
    BY SMT DEF SwapInv, IsSnapshot, Whole, IsWhole
<1>2. pool.bitmap = {compress(t, s) : t \in DOMAIN pool.net}
    BY DEF Whole, IsWhole
<1>3. \A t \in DOMAIN pool.net : t % s = 0
    OBVIOUS
<1> HIDE DEF s
<1>4. ASSUME NEW t \in DOMAIN pool.net PROVE t = compress(t, s) * s
  <2>1. t \in Int /\ compress(t, s) = t \div s /\ t % s = 0
      BY <1>1, <1>3, CompressFloor
  <2>2. t = (t \div s) * s + (t % s) /\ t \div s \in Int
      BY <1>1, <2>1, IntDiv
  <2>3. (t \div s) * s \in Int
      BY <1>1, <2>2, IntMono
  <2>4. t = (t \div s) * s
    <3> DEFINE v == (t \div s) * s
    <3>1. v \in Int /\ t = v + 0
        BY <2>1, <2>2, <2>3
    <3> HIDE DEF v
    <3>2. t = v
        BY <3>1, SMT
    <3> QED BY <3>2 DEF v
  <2> QED BY <2>1, <2>4
<1>5. compress(k * s, s) = k
  <2>1. k * s \in Int
      BY <1>1, IntMono
  <2>2. k * s <= k * s /\ k * s < k * s + s
      BY <1>1, <2>1, SMT
  <2> QED BY <1>1, <2>1, <2>2, PlaceFacts
<1> QED BY <1>2, <1>4, <1>5 DEF s

(* Downwards no initialized tick is passed over, and the one found is told *)
(* to be initialized.                                                      *)
LEMMA NoneSkippedDown ==
    ASSUME SwapInv, Whole, \A t \in DOMAIN pool.net : t % pool.tick_spacing = 0,
           call.zero_for_one = TRUE, tick \in MIN_TICK .. MAX_TICK
    PROVE  LET n == NextTick
           IN  /\ n.tick \in MIN_TICK .. MAX_TICK /\ n.tick <= tick
               /\ \A u \in Int : n.tick < u /\ u <= tick => u \notin DOMAIN pool.net
               /\ n.tick # MIN_TICK => (n.initialized <=> n.tick \in DOMAIN pool.net)
<1> DEFINE s == pool.tick_spacing
           c == Place(tick)
           m == next_initialized_tick_within_one_word(pool.bitmap, tick, s, TRUE)
<1>1. /\ s \in Nat \ {0} /\ tick \in Int /\ tick <= MAX_TICK
      /\ MAX_TICK \in Int /\ MIN_TICK \in Int /\ pool.bitmap \subseteq Int
    BY TickAssumption, SMT DEF SwapInv, IsSnapshot, Whole, IsWhole
<1>2. PICK k \in Int :
          /\ m.tick = k * s /\ (c \div WordSize) * WordSize <= k /\ k <= c
          /\ m.initialized <=> k \in pool.bitmap
          /\ ~m.initialized => k = (c \div WordSize) * WordSize
          /\ \A b \in pool.bitmap : ~(k < b /\ b <= c)
    BY <1>1, NextBelow DEF Place
<1>3. NextTick.tick = Clamp(m.tick) /\ NextTick.initialized = m.initialized
    BY DEF NextTick, next_initialized_tick_within_one_word
<1> HIDE DEF m
<1>4. \A b \in Int : b \in pool.bitmap <=> b * s \in DOMAIN pool.net
    BY WholeBits
<1> HIDE DEF s
<1>5. c \in Int /\ c * s \in Int /\ c * s <= tick /\ tick < c * s + s
    BY <1>1, PlaceFacts DEF Place, s
<1> HIDE DEF c
<1>6. k * s \in Int /\ k * s <= tick /\ k * s <= MAX_TICK
  <2>1. k * s \in Int /\ k * s <= c * s
      BY <1>1, <1>2, <1>5, IntMono
  <2> QED BY <1>1, <1>5, <2>1, SMT
<1>7. /\ NextTick.tick \in MIN_TICK .. MAX_TICK /\ k * s <= NextTick.tick
      /\ NextTick.tick # MIN_TICK => NextTick.tick = k * s
      /\ NextTick.tick <= tick
  <2>1. NextTick.tick = Clamp(k * s)
      BY <1>2, <1>3
  <2> DEFINE x == k * s
  <2> HIDE DEF x
  <2>2. /\ Clamp(x) \in MIN_TICK .. MAX_TICK /\ x <= Clamp(x)
        /\ Clamp(x) # MIN_TICK => Clamp(x) = x
        /\ Clamp(x) <= tick
      BY <1>6, ClampInside DEF x
  <2> QED BY <2>1, <2>2 DEF x
<1>8. ASSUME NEW u \in Int, NextTick.tick < u, u <= tick, u \in DOMAIN pool.net PROVE FALSE
  <2> DEFINE b == u \div s
  <2>1. u % s = 0 /\ u = b * s + (u % s) /\ b \in Int
      BY <1>1, <1>8, IntDiv DEF s
  <2> HIDE DEF b
  <2>2. b * s \in Int /\ u = b * s
      BY <1>1, <2>1, IntMono, SMTT(30)
  <2>3. b \in pool.bitmap
      BY <1>4, <1>8, <2>1, <2>2
  <2>4. b <= c
    <3>1. b * s < c * s + s
        BY <1>1, <1>5, <1>8, <2>2, SMTT(30)
    <3> QED BY <1>1, <1>5, <2>1, <3>1, IntMono
  <2>5. k < b
    <3>1. ASSUME b <= k PROVE FALSE
      <4>1. b * s <= k * s
          BY <1>1, <2>1, <3>1, IntMono
      <4>2. NextTick.tick \in Int
          BY <1>1, <1>7, SMT
      <4> QED BY <1>6, <1>7, <1>8, <2>2, <4>1, <4>2, SMTT(30)
    <3> QED BY <2>1, <3>1, SMT
  <2> QED BY <1>2, <2>3, <2>4, <2>5
<1>9. NextTick.tick # MIN_TICK => (NextTick.initialized <=> NextTick.tick \in DOMAIN pool.net)
    BY <1>2, <1>3, <1>4, <1>7
<1> QED BY <1>7, <1>8, <1>9

LEMMA NoneSkippedUp ==
    ASSUME SwapInv, Whole, \A t \in DOMAIN pool.net : t % pool.tick_spacing = 0,
           call.zero_for_one = FALSE, tick \in MIN_TICK .. MAX_TICK - 1
    PROVE  LET n == NextTick
           IN  /\ n.tick \in MIN_TICK .. MAX_TICK /\ tick < n.tick
               /\ \A u \in Int : tick < u /\ u < n.tick => u \notin DOMAIN pool.net
               /\ n.tick # MAX_TICK => (n.initialized <=> n.tick \in DOMAIN pool.net)
<1> DEFINE s == pool.tick_spacing
           c == Place(tick)
           m == next_initialized_tick_within_one_word(pool.bitmap, tick, s, FALSE)
<1>1. /\ s \in Nat \ {0} /\ tick \in Int /\ MIN_TICK <= tick /\ tick + 1 \in MIN_TICK .. MAX_TICK
      /\ MAX_TICK \in Int /\ MIN_TICK \in Int /\ pool.bitmap \subseteq Int
    BY TickAssumption, SMT DEF SwapInv, IsSnapshot, Whole, IsWhole
<1>2. PICK k \in Int :
          /\ m.tick = k * s /\ c < k /\ ((c + 1) \div WordSize) * WordSize <= k
          /\ k <= ((c + 1) \div WordSize) * WordSize + (WordSize - 1)
          /\ m.initialized <=> k \in pool.bitmap
          /\ ~m.initialized => k = ((c + 1) \div WordSize) * WordSize + (WordSize - 1)
          /\ \A b \in pool.bitmap : ~(c < b /\ b < k)
    BY <1>1, NextAbove DEF Place
<1>3. NextTick.tick = Clamp(m.tick) /\ NextTick.initialized = m.initialized
    BY DEF NextTick, next_initialized_tick_within_one_word
<1> HIDE DEF m
<1>4. \A b \in Int : b \in pool.bitmap <=> b * s \in DOMAIN pool.net
    BY WholeBits
<1> HIDE DEF s
<1>5. c \in Int /\ c * s \in Int /\ c * s <= tick /\ tick < c * s + s
    BY <1>1, PlaceFacts DEF Place, s
<1> HIDE DEF c
<1>6. k * s \in Int /\ tick + 1 <= k * s /\ MIN_TICK <= k * s
  <2>1. k * s \in Int /\ c * s + s <= k * s
      BY <1>1, <1>2, <1>5, IntMono
  <2> QED BY <1>1, <1>5, <2>1, SMT
<1>7. /\ NextTick.tick \in MIN_TICK .. MAX_TICK /\ NextTick.tick <= k * s
      /\ NextTick.tick # MAX_TICK => NextTick.tick = k * s
      /\ tick + 1 <= NextTick.tick
  <2>1. NextTick.tick = Clamp(k * s)
      BY <1>2, <1>3
  <2> DEFINE x == k * s
  <2> HIDE DEF x
  <2>2. /\ Clamp(x) \in MIN_TICK .. MAX_TICK /\ Clamp(x) <= x
        /\ Clamp(x) # MAX_TICK => Clamp(x) = x
        /\ tick + 1 <= Clamp(x)
      BY <1>1, <1>6, ClampInside DEF x
  <2> QED BY <2>1, <2>2 DEF x
<1>8. ASSUME NEW u \in Int, tick < u, u < NextTick.tick, u \in DOMAIN pool.net PROVE FALSE
  <2> DEFINE b == u \div s
  <2>1. u % s = 0 /\ u = b * s + (u % s) /\ b \in Int
      BY <1>1, <1>8, IntDiv DEF s
  <2> HIDE DEF b
  <2>2. b * s \in Int /\ u = b * s
      BY <1>1, <2>1, IntMono, SMT
  <2>3. b \in pool.bitmap
      BY <1>4, <1>8, <2>1, <2>2
  <2>4. c < b
    <3>1. ASSUME b <= c PROVE FALSE
      <4>1. b * s <= c * s
          BY <1>1, <1>5, <2>1, <3>1, IntMono
      <4> QED BY <1>1, <1>5, <1>8, <2>2, <4>1, SMTT(30)
    <3> QED BY <1>5, <2>1, <3>1, SMTT(30)
  <2>5. b < k
    <3>1. ASSUME k <= b PROVE FALSE
      <4>1. k * s <= b * s
          BY <1>1, <2>1, <3>1, IntMono
      <4>2. NextTick.tick \in Int
          BY <1>1, <1>7, SMT
      <4> QED BY <1>6, <1>7, <1>8, <2>2, <4>1, <4>2, SMTT(30)
    <3> QED BY <2>1, <3>1, SMTT(30)
  <2> QED BY <1>2, <2>3, <2>4, <2>5
<1>9. NextTick.tick # MAX_TICK => (NextTick.initialized <=> NextTick.tick \in DOMAIN pool.net)
    BY <1>2, <1>3, <1>4, <1>7
<1>10. tick < NextTick.tick
  <2>1. NextTick.tick \in Int
      BY <1>1, <1>7, SMT
  <2> QED BY <1>1, <1>7, <2>1, SMTT(30)
<1> QED BY <1>7, <1>8, <1>9, <1>10

Inside == MIN_SQRT_RATIO + 1 .. MAX_SQRT_RATIO - 1

(* In the range every swap stays in, price, tick and liquidity belong      *)
(* together.                                                               *)
LadderInv ==
    Whole => /\ \A t \in DOMAIN pool.net : t % pool.tick_spacing = 0
             /\ pool.sqrt_price \in Inside
             /\ Agrees(pool.net, pool.sqrt_price, pool.tick, pool.liquidity)
             /\ call.active => price \in Inside /\ Agrees(pool.net, price, tick, liquidity)

LEMMA InsideFacts ==
    ASSUME NEW q \in Inside
    PROVE  q \in Nat /\ MIN_SQRT_RATIO + 1 <= q /\ q <= MAX_SQRT_RATIO - 1
           /\ MIN_SQRT_RATIO <= q /\ q < MAX_SQRT_RATIO
           /\ q # Ratio[MIN_TICK] /\ q # Ratio[MAX_TICK]
<1>1. q \in MIN_SQRT_RATIO + 1 .. MAX_SQRT_RATIO - 1
    BY DEF Inside
<1>2. q \in Nat /\ MIN_SQRT_RATIO + 1 <= q /\ q <= MAX_SQRT_RATIO - 1
      /\ MIN_SQRT_RATIO <= q /\ q < MAX_SQRT_RATIO
      /\ q # MIN_SQRT_RATIO /\ q # MAX_SQRT_RATIO
    BY <1>1, LimitFirst, SMT
<1> QED BY <1>2 DEF MIN_SQRT_RATIO, MAX_SQRT_RATIO

(* From price q in tick t down to price r, the next tick being n.          *)
LEMMA LadderDown ==
    ASSUME NEW net, net \in [DOMAIN net -> Int],
           NEW q \in Inside, NEW t, NEW l, Agrees(net, q, t, l),
           NEW n \in MIN_TICK .. MAX_TICK, n <= t,
           \A u \in Int : n < u /\ u <= t => u \notin DOMAIN net,
           NEW r \in Inside, Ratio[n] <= r, r <= q
    PROVE  /\ r = Ratio[n] => n # MIN_TICK /\ Agrees(net, r, n - 1, l - NetAt(net, n))
           /\ r # q => Agrees(net, r, get_tick_at_sqrt_ratio(r), l)
<1>0. /\ t \in MIN_TICK .. MAX_TICK - 1 /\ q <= Ratio[t + 1] /\ l = Ladder(net)[t]
    BY DEF Agrees
<1>1. /\ t \in Int /\ n \in Int /\ MIN_TICK \in Int /\ MAX_TICK \in Int
      /\ t \in MIN_TICK - 1 .. MAX_TICK /\ n \in MIN_TICK - 1 .. MAX_TICK
      /\ t + 1 \in MIN_TICK .. MAX_TICK
    BY <1>0, TickAssumption, SMT
<1>2. /\ q \in Nat /\ r \in Nat /\ MIN_SQRT_RATIO <= r /\ r < MAX_SQRT_RATIO
      /\ r # Ratio[MIN_TICK]
    BY InsideFacts
<1>3. ASSUME r = Ratio[n]
      PROVE  n # MIN_TICK /\ Agrees(net, r, n - 1, l - NetAt(net, n))
  <2>1. n # MIN_TICK
      BY <1>2, <1>3
  <2>2. /\ n - 1 \in MIN_TICK .. MAX_TICK - 1 /\ n - 1 \in MIN_TICK .. MAX_TICK
        /\ n - 1 <= n /\ (n - 1) + 1 = n /\ n - 1 \in MIN_TICK - 1 .. MAX_TICK
      BY <1>1, <2>1, SMT
  <2>3. Ratio[n - 1] <= r
      BY <1>3, <2>2, RatioRises
  <2>4. r <= Ratio[(n - 1) + 1]
      BY <1>2, <1>3, <2>2, SMT
  <2>5. Ladder(net)[t] = Ladder(net)[n] /\ Ladder(net)[n] = Ladder(net)[n - 1] + NetAt(net, n)
      BY <1>1, LadderLevel, LadderStep
  <2>6. Ladder(net)[n - 1] \in Int /\ NetAt(net, n) \in Int
    <3>1. NetAt(net, n) \in Int
        BY SMT DEF NetAt
    <3> QED BY <2>2, <3>1, LadderType
  <2>7. Ladder(net)[n - 1] = Ladder(net)[t] - NetAt(net, n)
      BY <2>5, <2>6, SMT
  <2> QED BY <1>0, <2>1, <2>2, <2>3, <2>4, <2>7 DEF Agrees
<1>4. ASSUME r # q
      PROVE  Agrees(net, r, get_tick_at_sqrt_ratio(r), l)
  <2> DEFINE x == get_tick_at_sqrt_ratio(r)
  <2>1. /\ x \in MIN_TICK .. MAX_TICK - 1 /\ Ratio[x] <= r /\ r < Ratio[x + 1]
        /\ \A u \in MIN_TICK .. MAX_TICK : Ratio[u] <= r => u <= x
      BY <1>2, TickOfInside
  <2> HIDE DEF x
  <2>2. x \in Int /\ x \in MIN_TICK .. MAX_TICK /\ x \in MIN_TICK - 1 .. MAX_TICK /\ x + 1 \in MIN_TICK .. MAX_TICK
      BY <1>1, <2>1, SMT
  <2>3. n <= x
      BY <2>1
  <2>4. x <= t
    <3>1. ASSUME t + 1 <= x PROVE FALSE
      <4>1. Ratio[t + 1] <= Ratio[x] /\ Ratio[x] \in Nat /\ Ratio[t + 1] \in Nat
          BY <1>1, <2>2, <3>1, RatioRises
      <4> QED BY <1>0, <1>2, <1>4, <2>1, <4>1, SMTT(30)
    <3> QED BY <1>1, <2>2, <3>1, SMTT(30)
  <2>5. Ladder(net)[t] = Ladder(net)[x]
    <3>1. \A u \in Int : x < u /\ u <= t => u \notin DOMAIN net
      <4> SUFFICES ASSUME NEW u \in Int, x < u, u <= t PROVE u \notin DOMAIN net
          OBVIOUS
      <4>1. n < u
          BY <1>1, <2>2, <2>3, SMTT(30)
      <4> QED BY <4>1
    <3> QED BY <1>1, <2>2, <2>4, <3>1, LadderLevel
  <2>6. r <= Ratio[x + 1]
    <3>1. Ratio[x + 1] \in Nat
        BY <2>2, RatioRises
    <3> QED BY <1>2, <2>1, <3>1, SMT
  <2> QED BY <1>0, <2>1, <2>5, <2>6 DEF x, Agrees
<1> QED BY <1>3, <1>4

(* From price q in tick t up to price r, the next tick being n.            *)
LEMMA LadderUp ==
    ASSUME NEW net, net \in [DOMAIN net -> Int],
           NEW q \in Inside, NEW t, NEW l, Agrees(net, q, t, l),
           NEW n \in MIN_TICK .. MAX_TICK, t < n,
           \A u \in Int : t < u /\ u < n => u \notin DOMAIN net,
           NEW r \in Inside, q <= r, r <= Ratio[n]
    PROVE  /\ r = Ratio[n] => n # MAX_TICK /\ Agrees(net, r, n, l + NetAt(net, n))
           /\ r # Ratio[n] => Agrees(net, r, get_tick_at_sqrt_ratio(r), l)
<1>0. /\ t \in MIN_TICK .. MAX_TICK - 1 /\ Ratio[t] <= q /\ l = Ladder(net)[t]
    BY DEF Agrees
<1>1. /\ t \in Int /\ n \in Int /\ MIN_TICK \in Int /\ MAX_TICK \in Int
      /\ t \in MIN_TICK - 1 .. MAX_TICK /\ t \in MIN_TICK .. MAX_TICK
      /\ n - 1 \in MIN_TICK - 1 .. MAX_TICK /\ t <= n - 1
      /\ \A u \in Int : u <= n - 1 <=> u < n
    BY <1>0, TickAssumption, SMT
<1>2. /\ q \in Nat /\ r \in Nat /\ MIN_SQRT_RATIO <= r /\ r < MAX_SQRT_RATIO
      /\ r # Ratio[MAX_TICK]
    BY InsideFacts
<1>3. ASSUME r = Ratio[n]
      PROVE  n # MAX_TICK /\ Agrees(net, r, n, l + NetAt(net, n))
  <2>1. n # MAX_TICK
      BY <1>2, <1>3
  <2>2. n \in MIN_TICK .. MAX_TICK - 1 /\ n + 1 \in MIN_TICK .. MAX_TICK /\ n <= n + 1
      BY <1>1, <2>1, SMT
  <2>3. Ratio[n] <= r
      BY <1>2, <1>3, SMT
  <2>4. r <= Ratio[n + 1]
      BY <1>3, <2>2, RatioRises
  <2>5. Ladder(net)[n - 1] = Ladder(net)[t]
      BY <1>1, LadderLevel
  <2>6. Ladder(net)[n] = Ladder(net)[n - 1] + NetAt(net, n)
      BY LadderStep
  <2> QED BY <1>0, <2>1, <2>2, <2>3, <2>4, <2>5, <2>6 DEF Agrees
<1>4. ASSUME r # Ratio[n]
      PROVE  Agrees(net, r, get_tick_at_sqrt_ratio(r), l)
  <2> DEFINE x == get_tick_at_sqrt_ratio(r)
  <2>1. /\ x \in MIN_TICK .. MAX_TICK - 1 /\ Ratio[x] <= r /\ r < Ratio[x + 1]
        /\ \A u \in MIN_TICK .. MAX_TICK : Ratio[u] <= r => u <= x
      BY <1>2, TickOfInside
  <2> HIDE DEF x
  <2>2. x \in Int /\ x \in MIN_TICK .. MAX_TICK /\ x \in MIN_TICK - 1 .. MAX_TICK /\ x + 1 \in MIN_TICK .. MAX_TICK
      BY <1>1, <2>1, SMT
  <2>3. t <= x
    <3>1. Ratio[t] \in Nat
        BY <1>1, RatioRises
    <3>2. Ratio[t] <= r
        BY <1>0, <1>2, <3>1, SMTT(30)
    <3> QED BY <1>1, <2>1, <3>2
  <2>4. x < n
    <3>1. ASSUME n <= x PROVE FALSE
      <4>1. Ratio[n] <= Ratio[x] /\ Ratio[x] \in Nat /\ Ratio[n] \in Nat
          BY <2>2, <3>1, RatioRises
      <4> QED BY <1>2, <1>4, <2>1, <4>1, SMTT(30)
    <3> QED BY <1>1, <2>2, <3>1, SMTT(30)
  <2>5. Ladder(net)[x] = Ladder(net)[t]
    <3>1. \A u \in Int : t < u /\ u <= x => u \notin DOMAIN net
      <4> SUFFICES ASSUME NEW u \in Int, t < u, u <= x PROVE u \notin DOMAIN net
          OBVIOUS
      <4>1. u < n
          BY <1>1, <2>2, <2>4, SMTT(30)
      <4> QED BY <4>1
    <3> QED BY <1>1, <2>2, <2>3, <3>1, LadderLevel
  <2>6. r <= Ratio[x + 1]
    <3>1. Ratio[x + 1] \in Nat
        BY <2>2, RatioRises
    <3> QED BY <1>2, <2>1, <3>1, SMTT(30)
  <2> QED BY <1>0, <2>1, <2>5, <2>6 DEF x, Agrees
<1> QED BY <1>3, <1>4

(* The liquidity on the other side of a tick found by the bitmap.          *)
LEMMA CrossingAdds ==
    ASSUME NEW n, Crossing(n) # Err, liquidity \in Int, pool.net \in [DOMAIN pool.net -> Int],
           n.initialized <=> n.tick \in DOMAIN pool.net
    PROVE  /\ NetAt(pool.net, n.tick) \in Int
           /\ Crossing(n) = IF call.zero_for_one THEN liquidity - NetAt(pool.net, n.tick)
                                                 ELSE liquidity + NetAt(pool.net, n.tick)
<1> DEFINE d == NetAt(pool.net, n.tick)
<1>1. d \in Int
    BY SMT DEF NetAt
<1>2. CASE n.initialized
  <2>1. /\ Crossing(n) = add_delta(liquidity, NetLiquidity(n.tick))
        /\ add_delta(liquidity, NetLiquidity(n.tick)) # Err
      BY <1>2 DEF Crossing
  <2>2. Crossing(n) = liquidity + NetLiquidity(n.tick)
      BY <2>1 DEF add_delta
  <2>3. NetLiquidity(n.tick) = IF call.zero_for_one THEN -d ELSE d
      BY DEF NetLiquidity
  <2> HIDE DEF d
  <2>4. liquidity + (-d) = liquidity - d
      BY <1>1, SMT
  <2> QED BY <1>1, <2>2, <2>3, <2>4 DEF d
<1>3. CASE ~n.initialized
  <2>1. Crossing(n) = liquidity /\ d = 0
      BY <1>3 DEF Crossing, NetAt
  <2>2. liquidity - 0 = liquidity /\ liquidity + 0 = liquidity
      BY SMT
  <2> HIDE DEF d
  <2> QED BY <1>1, <2>1, <2>2 DEF d
<1> QED BY <1>2, <1>3

LEMMA LadderIteration ==
    ASSUME SwapInv, LadderInv, Whole, call.active,
           NEW n, n = NextTick, NEW step, step = StepTo(n), ~StepFails(n, step)
    PROVE  /\ step.next \in Inside
           /\ Agrees(pool.net, step.next, TickAfter(n, step.next), LiquidityAfter(n, step.next))
<1> DEFINE net == pool.net
           r == step.next
           target == Target(Ratio[n.tick])
<1>1. /\ \A t \in DOMAIN pool.net : t % pool.tick_spacing = 0
      /\ price \in Inside
      /\ tick \in MIN_TICK .. MAX_TICK - 1 /\ Ratio[tick] <= price /\ price <= Ratio[tick + 1]
      /\ Agrees(net, price, tick, liquidity)
    BY DEF LadderInv, Agrees
<1>2. net \in [DOMAIN net -> Int] /\ liquidity \in Int /\ tick \in MIN_TICK .. MAX_TICK
      /\ tick \in Int
  <2>1. liquidity \in Int
      BY FixedPointAssumption, SMT DEF SwapInv
  <2>2. tick \in MIN_TICK .. MAX_TICK /\ tick \in Int
      BY <1>1, TickAssumption, SMT
  <2> QED BY <2>1, <2>2 DEF SwapInv, IsSnapshot
<1>3. /\ price \in Nat /\ MIN_SQRT_RATIO + 1 <= price /\ price <= MAX_SQRT_RATIO - 1
    BY <1>1, InsideFacts
<1>4. call.zero_for_one \in BOOLEAN
  <2>1. call \in Calls
      BY SMT DEF SwapInv, NoCall
  <2> QED BY <2>1 DEF Calls
<1>5. /\ r \in 0 .. U256Max /\ n.tick \in MIN_TICK .. MAX_TICK
      /\ target <= price => target <= r /\ r <= price
      /\ price <= target => price <= r /\ r <= target
    BY IterationKeeps
<1>6. r \in Nat /\ Ratio[n.tick] \in Nat /\ MIN_SQRT_RATIO \in Nat /\ MAX_SQRT_RATIO \in Nat
  <2>1. r \in Nat
      BY <1>5, Widths, SMT
  <2> QED BY <1>5, <2>1, RatioRises, LimitFirst
<1>7. r = Ratio[n.tick] => LiquidityAfter(n, r) = Crossing(n) /\ Crossing(n) # Err
    BY DEF LiquidityAfter, StepFails
<1>8. r # Ratio[n.tick] => LiquidityAfter(n, r) = liquidity
    BY DEF LiquidityAfter
<1>9. /\ r = Ratio[n.tick] =>
             TickAfter(n, r) = IF call.zero_for_one THEN n.tick - 1 ELSE n.tick
      /\ r # Ratio[n.tick] /\ r # price => TickAfter(n, r) = get_tick_at_sqrt_ratio(r)
      /\ r # Ratio[n.tick] /\ r = price => TickAfter(n, r) = tick
    BY DEF TickAfter
<1>10. CASE call.zero_for_one = TRUE
  <2>1. /\ n.tick <= tick
        /\ \A u \in Int : n.tick < u /\ u <= tick => u \notin DOMAIN net
        /\ n.tick # MIN_TICK => (n.initialized <=> n.tick \in DOMAIN net)
      BY <1>1, <1>2, <1>10, NoneSkippedDown, ZenonT(30)
  <2>2. /\ target \in Nat /\ Ratio[n.tick] <= target /\ MIN_SQRT_RATIO + 1 <= target
        /\ target <= price
    <3>1. Ratio[n.tick] <= Ratio[tick] /\ Ratio[tick] \in Nat
        BY <1>2, <1>5, <2>1, RatioRises
    <3>2. target = Higher(Ratio[n.tick], MIN_SQRT_RATIO + 1)
        BY <1>10, LimitFirst DEF Target
    <3> HIDE DEF target
    <3> QED BY <1>1, <1>3, <1>6, <3>1, <3>2, SMTT(30) DEF Higher
  <2> HIDE DEF target
  <2>3. r \in Inside /\ Ratio[n.tick] <= r /\ r <= price
      BY <1>3, <1>5, <1>6, <2>2, SMTT(30) DEF Inside
  <2>4. /\ r = Ratio[n.tick] =>
               n.tick # MIN_TICK /\ Agrees(net, r, n.tick - 1, liquidity - NetAt(net, n.tick))
        /\ r # price => Agrees(net, r, get_tick_at_sqrt_ratio(r), liquidity)
    <3>1. net \in [DOMAIN net -> Int] /\ price \in Inside /\ Agrees(net, price, tick, liquidity)
        BY <1>1, <1>2
    <3>2. /\ n.tick \in MIN_TICK .. MAX_TICK /\ n.tick <= tick
          /\ \A u \in Int : n.tick < u /\ u <= tick => u \notin DOMAIN net
        BY <1>5, <2>1
    <3> HIDE DEF net, r
    <3> QED BY <2>3, <3>1, <3>2, LadderDown
  <2>5. CASE r = Ratio[n.tick]
    <3>1. Crossing(n) = liquidity - NetAt(net, n.tick)
        BY <1>2, <1>7, <1>10, <2>1, <2>4, <2>5, CrossingAdds, ZenonT(40)
    <3>2. TickAfter(n, r) = n.tick - 1 /\ LiquidityAfter(n, r) = Crossing(n)
        BY <1>7, <1>9, <1>10, <2>5
    <3> QED BY <2>3, <2>4, <2>5, <3>1, <3>2
  <2>6. CASE r # Ratio[n.tick] /\ r # price
      BY <1>8, <1>9, <2>3, <2>4, <2>6, ZenonT(30)
  <2>7. CASE r # Ratio[n.tick] /\ r = price
      BY <1>1, <1>8, <1>9, <2>7
  <2> QED BY <2>5, <2>6, <2>7
<1>11. CASE call.zero_for_one = FALSE
  <2>1. /\ tick < n.tick
        /\ \A u \in Int : tick < u /\ u < n.tick => u \notin DOMAIN net
        /\ n.tick # MAX_TICK => (n.initialized <=> n.tick \in DOMAIN net)
      BY <1>1, <1>11, NoneSkippedUp
  <2>2. /\ target \in Nat /\ target <= Ratio[n.tick] /\ target <= MAX_SQRT_RATIO - 1
        /\ price <= target
    <3>1. tick + 1 \in MIN_TICK .. MAX_TICK /\ tick + 1 <= n.tick
        BY <1>1, <1>5, <2>1, TickAssumption, SMTT(30)
    <3>2. Ratio[tick + 1] <= Ratio[n.tick] /\ Ratio[tick + 1] \in Nat
        BY <1>5, <3>1, RatioRises
    <3>3. target = Lower(Ratio[n.tick], MAX_SQRT_RATIO - 1)
        BY <1>11, LimitFirst DEF Target
    <3> HIDE DEF target
    <3> QED BY <1>1, <1>3, <1>6, <3>2, <3>3, SMTT(30) DEF Lower
  <2> HIDE DEF target
  <2>3. r \in Inside /\ r <= Ratio[n.tick] /\ price <= r
      BY <1>3, <1>5, <1>6, <2>2, SMTT(30) DEF Inside
  <2>4. /\ r = Ratio[n.tick] =>
               n.tick # MAX_TICK /\ Agrees(net, r, n.tick, liquidity + NetAt(net, n.tick))
        /\ r # Ratio[n.tick] => Agrees(net, r, get_tick_at_sqrt_ratio(r), liquidity)
    <3>1. net \in [DOMAIN net -> Int] /\ price \in Inside /\ Agrees(net, price, tick, liquidity)
        BY <1>1, <1>2
    <3>2. /\ n.tick \in MIN_TICK .. MAX_TICK /\ tick < n.tick
          /\ \A u \in Int : tick < u /\ u < n.tick => u \notin DOMAIN net
        BY <1>5, <2>1
    <3> HIDE DEF net, r
    <3> QED BY <2>3, <3>1, <3>2, LadderUp
  <2>5. CASE r = Ratio[n.tick]
    <3>1. Crossing(n) = liquidity + NetAt(net, n.tick)
        BY <1>2, <1>7, <1>11, <2>1, <2>4, <2>5, CrossingAdds
    <3>2. TickAfter(n, r) = n.tick /\ LiquidityAfter(n, r) = Crossing(n)
        BY <1>7, <1>9, <1>11, <2>5
    <3> QED BY <2>3, <2>4, <2>5, <3>1, <3>2
  <2>6. CASE r # Ratio[n.tick] /\ r # price
      BY <1>8, <1>9, <2>3, <2>4, <2>6, ZenonT(30)
  <2>7. CASE r # Ratio[n.tick] /\ r = price
      BY <1>1, <1>8, <1>9, <2>7
  <2> QED BY <2>5, <2>6, <2>7
<1> QED BY <1>4, <1>10, <1>11

LEMMA LadderInvStep == SwapInv /\ LadderInv /\ [SwapNext]_swapVars => LadderInv'
<1> SUFFICES ASSUME SwapInv, LadderInv, [SwapNext]_swapVars PROVE LadderInv'
    OBVIOUS
<1>1. ASSUME NEW amount_in \in AmountsIn, NEW zero_for_one \in BOOLEAN, NEW keep \in BOOLEAN,
             Call(amount_in, zero_for_one, keep)
      PROVE  LadderInv'
  <2>1. pool' = pool /\ ~call.active
      BY <1>1 DEF Call
  <2>2. CASE amount_in = 0 \/ Rejected(amount_in, keep)
    <3>1. call' = call
        BY <1>1, <2>2 DEF Call
    <3> QED BY <2>1, <3>1 DEF LadderInv, Whole
  <2>3. CASE ~(amount_in = 0 \/ Rejected(amount_in, keep))
    <3>1. price' = pool.sqrt_price /\ tick' = pool.tick /\ liquidity' = pool.liquidity
        BY <1>1, <2>3 DEF Call
    <3> QED BY <2>1, <3>1 DEF LadderInv, Whole
  <2> QED BY <2>2, <2>3
<1>2. CASE Iterate
  <2>1. InLoop /\ pool' = pool
      BY <1>2, IterateSteps
  <2>2. CASE call' = NoCall
    <3>1. ~call'.active
        BY <2>2 DEF NoCall
    <3> QED BY <2>1, <3>1 DEF LadderInv, Whole
  <2>3. CASE call' # NoCall
    <3>1. PICK n, step :
              /\ n = NextTick /\ step = StepTo(n) /\ ~StepFails(n, step)
              /\ price' = step.next
              /\ liquidity' = LiquidityAfter(n, step.next)
              /\ tick' = TickAfter(n, step.next)
              /\ call' = call
        BY <1>2, <2>3, IterateSteps
    <3>2. Whole => price' \in Inside /\ Agrees(pool.net, price', tick', liquidity')
        BY <2>1, <3>1, LadderIteration DEF InLoop
    <3> QED BY <2>1, <3>1, <3>2 DEF LadderInv, Whole
  <2> QED BY <2>2, <2>3
<1>3. CASE Return
  <2>1. call' = NoCall /\ call.active
      BY <1>3 DEF Return
  <2>2. ~call'.active
      BY <2>1 DEF NoCall
  <2>3. CASE pool' = pool
      BY <2>2, <2>3 DEF LadderInv, Whole
  <2>4. CASE pool' = [pool EXCEPT !.sqrt_price = price, !.tick = tick, !.liquidity = liquidity]
    <3>1. /\ pool'.net = pool.net /\ pool'.bitmap = pool.bitmap
          /\ pool'.tick_spacing = pool.tick_spacing /\ pool'.sqrt_price = price
          /\ pool'.tick = tick /\ pool'.liquidity = liquidity
        BY <2>4 DEF SwapInv, IsSnapshot
    <3>2. Whole' <=> Whole
        BY <3>1 DEF Whole, IsWhole
    <3>3. Whole => price \in Inside /\ Agrees(pool'.net, price, tick, liquidity)
        BY <2>1, <3>1 DEF LadderInv, Agrees
    <3>4. Whole => \A t \in DOMAIN pool'.net : t % pool'.tick_spacing = 0
        BY <3>1 DEF LadderInv
    <3> QED BY <2>2, <3>1, <3>2, <3>3, <3>4 DEF LadderInv
  <2> QED BY <1>3, <2>3, <2>4 DEF Return
<1>4. CASE UNCHANGED swapVars
    BY <1>4, ZenonT(30) DEF swapVars, LadderInv, Whole
<1> QED BY <1>1, <1>2, <1>3, <1>4 DEF SwapNext

(* For every table of prices, spacing, bitmap and set of positions: along  *)
(* every sequence of swaps and quotes on a whole snapshot, the liquidity   *)
(* of the loop and of the snapshot is the sum of the net liquidity below   *)
(* its tick, and the tick is the one its price lies in.                    *)
THEOREM LadderAgreesAlways == SwapSpec => []LadderAgrees
<1>1. SwapInit(Pools) => SwapInv
    BY SwapAssumption, SMT DEF SwapInit, SwapInv, NoCall
<1>2. SwapInv /\ [SwapNext]_swapVars => SwapInv'
    BY SwapInvStep
<1>3. SwapInit(Pools) => LadderInv
  <2> SUFFICES ASSUME SwapInit(Pools), Whole PROVE LadderInv
      BY DEF LadderInv
  <2>1. pool \in Pools /\ call = NoCall /\ IsWhole(pool) /\ IsSnapshot(pool)
      BY SwapAssumption DEF SwapInit, Whole
  <2>2. /\ \A t \in DOMAIN pool.net : t % pool.tick_spacing = 0
        /\ MIN_SQRT_RATIO < pool.sqrt_price /\ pool.sqrt_price < MAX_SQRT_RATIO
        /\ Agrees(pool.net, pool.sqrt_price, pool.tick, pool.liquidity)
      BY <2>1, LadderAssumption, ZenonT(30)
  <2>3. pool.sqrt_price \in Inside
    <3>1. pool.sqrt_price \in 0 .. U256Max
        BY <2>1 DEF IsSnapshot
    <3> QED BY <2>2, <3>1, Widths, LimitFirst, SMTT(30) DEF Inside
  <2>4. ~call.active
      BY <2>1 DEF NoCall
  <2> QED BY <2>2, <2>3, <2>4 DEF LadderInv
<1>4. SwapInv /\ LadderInv /\ [SwapNext]_swapVars => LadderInv'
    BY LadderInvStep
<1>5. LadderInv => LadderAgrees
    BY DEF LadderInv, LadderAgrees
<1> QED BY <1>1, <1>2, <1>3, <1>4, <1>5, PTL DEF SwapSpec

(***************************************************************************)
(* CurveQuote: the balance that keeps the invariant.                       *)
(***************************************************************************)

(* The arithmetic of a step down by one, its products named.               *)
LEMMA StepFromAbove ==
    ASSUME NEW n \in Nat, NEW m \in Nat, NEW f \in Nat, NEW e \in Int,
           NEW x \in Nat, NEW z \in Int, NEW u \in Int, NEW v \in Int,
           f = (2 * (x + n) + z + m) - (x + 2 * n + 1), 2 * n + e >= 2,
           u = x - 2 * n + 1, v = z - e
    PROVE  u + v <= f
BY SMT

(* One step of Newton's iteration for the larger root of                   *)
(* m * m + e * m - f, truncated: it never leads below the floor of the     *)
(* root, and a step by at most one leads to it or to one above.            *)
LEMMA NewtonStep ==
    ASSUME NEW p \in Nat, NEW f \in Nat, NEW e \in Int, 2 * p + e > 0,
           NEW n, n = (p * p + f) \div (2 * p + e)
    PROVE  /\ n \in Nat
           /\ ~((n + 1) * (n + 1) + e * (n + 1) <= f)
           /\ n <= p + 1 /\ p <= n + 1 /\ n > 1 => (n - 1) * (n - 1) + e * (n - 1) <= f
<1> DEFINE g == 2 * p + e
           m == (p * p + f) % g
<1>1. p * p + f \in Nat /\ g \in Nat \ {0}
    BY SMT
<1>2. n \in Nat /\ m \in Nat /\ p * p + f = n * g + m /\ m < g
    BY <1>1, DivFacts
<1> HIDE DEF m
<1>3. n * g = 2 * (n * p) + n * e /\ n * p \in Nat /\ n * e \in Int /\ p * p \in Nat
    BY <1>2, SMTT(30)
<1>4. ~((n + 1) * (n + 1) + e * (n + 1) <= f)
  <2>1. /\ (n + 1) * (n + 1) = n * n + 2 * n + 1 /\ e * (n + 1) = n * e + e /\ n * n \in Nat
      BY <1>2, SMT
  <2>2. ((n + 1) - p) * ((n + 1) - p) >= 0
      BY <1>2, SMT
  <2>3. ((n + 1) - p) * ((n + 1) - p) = n * n + 2 * n + 1 - 2 * (n * p) - 2 * p + p * p
      BY <1>2, SMT
  <2> QED BY <1>2, <1>3, <2>1, <2>2, <2>3, SMTT(30)
<1>5. ASSUME n <= p + 1, p <= n + 1, n > 1
      PROVE  (n - 1) * (n - 1) + e * (n - 1) <= f
  <2>1. /\ (n - 1) * (n - 1) = n * n - 2 * n + 1 /\ e * (n - 1) = n * e - e /\ n * n \in Nat
      BY <1>2, SMTT(30)
  <2>2. CASE n = p
    <3>1. n * p = n * n /\ p * p = n * n
        BY <2>2
    <3> QED BY <1>1, <1>2, <1>3, <2>1, <2>2, <3>1, SMTT(30)
  <2>3. CASE n = p + 1
    <3>1. n * p = p * p + p /\ n * n = p * p + 2 * p + 1
        BY <2>3, SMT
    <3> QED BY <1>1, <1>2, <1>3, <2>1, <2>3, <3>1, SMTT(30)
  <2>4. CASE p = n + 1
    <3>1. n * p = n * n + n /\ p * p = n * n + 2 * n + 1
      <4>1. n \in Nat
          BY <1>2
      <4>2. n * (n + 1) = n * n + n /\ (n + 1) * (n + 1) = n * n + 2 * n + 1
          BY <4>1, SMTT(30)
      <4> QED BY <2>4, <4>2
    <3>2. CASE g >= 4
      <4> DEFINE x == n * n
                 z == n * e
      <4>1. x \in Nat /\ z \in Int /\ f = (2 * (x + n) + z + m) - (x + 2 * n + 1)
          BY <1>2, <1>3, <2>1, <3>1, SMTT(30)
      <4>2. 2 * n + e >= 2
          BY <1>2, <2>4, <3>2, SMT
      <4>3. (n - 1) * (n - 1) = x - 2 * n + 1 /\ e * (n - 1) = z - e
          BY <2>1
      <4> DEFINE u == (n - 1) * (n - 1)
                 v == e * (n - 1)
      <4>4. u = x - 2 * n + 1 /\ v = z - e
          BY <4>3
      <4> HIDE DEF x, z, u, v
      <4>5. u + v <= f
        <5>1. n \in Nat /\ m \in Nat
            BY <1>2
        <5>2. u \in Int /\ v \in Int
            BY <4>1, <4>4, <5>1, SMTT(30)
        <5> QED BY <4>1, <4>2, <4>4, <5>1, <5>2, StepFromAbove
      <4> QED BY <4>5 DEF u, v
    <3>3. CASE g <= 3
      <4>1. n * g + g <= n * 3 + 3 /\ n * n >= 2 * n
        <5>1. n * g <= n * 3 /\ 2 * n <= n * n
            BY <1>1, <1>2, <1>5, <3>3, SMTT(30)
        <5> QED BY <1>1, <1>2, <3>3, <5>1, SMTT(30)
      <4>2. n * n + 2 * n + 1 + f < 3 * n + 3
          BY <1>1, <1>2, <3>1, <4>1, SMTT(30)
      <4> QED BY <1>2, <1>5, <4>1, <4>2, SMTT(30)
    <3> QED BY <1>1, <3>2, <3>3, SMTT(30)
  <2> QED BY <1>2, <1>5, <2>2, <2>3, <2>4, SMTT(30)
<1> QED BY <1>2, <1>4, <1>5

(* f starts with a and takes the step g[k] to k.                           *)
Rules(V, top, g) == g \in [1 .. top -> [V -> V]]
Follows(V, top, g, a, f) ==
    /\ f \in [0 .. top -> V]
    /\ \A k \in 0 .. top : f[k] = IF k = 0 THEN a ELSE g[k][f[k - 1]]

(* A function defined by recursion over an interval exists when each step  *)
(* stays among the values.                                                 *)
LEMMA RecursionExists ==
    ASSUME NEW top \in Nat, NEW V, NEW a \in V, NEW g, Rules(V, top, g)
    PROVE  \E f : Follows(V, top, g, a, f)
<1> USE DEF Rules, Follows
<1> DEFINE Upto(n, f) == /\ f \in [0 .. n -> V]
                         /\ \A k \in 0 .. n : f[k] = IF k = 0 THEN a ELSE g[k][f[k - 1]]
           N == {n \in Nat : n <= top => \E f : Upto(n, f)}
<1>1. 0 \in N
  <2> DEFINE f == [k \in 0 .. 0 |-> a]
  <2>1. \A k \in 0 .. 0 : k = 0
      BY SMT
  <2>2. Upto(0, f)
      BY <2>1
  <2> HIDE DEF f, Upto
  <2> QED BY <2>2, SMT
<1>2. ASSUME NEW n \in Nat, n \in N PROVE n + 1 \in N
  <2> SUFFICES ASSUME n + 1 <= top PROVE \E f : Upto(n + 1, f)
      BY SMT
  <2>1. PICK f : Upto(n, f)
    <3>1. n <= top
        BY SMT
    <3> QED BY <1>2, <3>1
  <2> DEFINE h == [k \in 0 .. n + 1 |-> IF k = n + 1 THEN g[n + 1][f[n]] ELSE f[k]]
  <2>2. n \in 0 .. n /\ n + 1 \in 1 .. top /\ n + 1 # 0 /\ (n + 1) - 1 = n
        /\ n \in 0 .. n + 1 /\ n # n + 1
      BY SMT
  <2>3. f[n] \in V /\ g[n + 1][f[n]] \in V
      BY <2>1, <2>2
  <2>4. \A k \in 0 .. n + 1 : k # n + 1 => k \in 0 .. n
      BY SMT
  <2>5. h \in [0 .. n + 1 -> V]
      BY <2>1, <2>3, <2>4
  <2>6. ASSUME NEW k \in 0 .. n + 1 PROVE h[k] = IF k = 0 THEN a ELSE g[k][h[k - 1]]
    <3>1. CASE k = n + 1
      <4>1. h[k] = g[n + 1][f[n]] /\ h[n] = f[n]
          BY <2>2, <3>1
      <4> HIDE DEF h
      <4> QED BY <2>2, <3>1, <4>1
    <3>2. CASE k # n + 1
      <4>1. k \in 0 .. n /\ h[k] = f[k]
          BY <2>4, <3>2
      <4>2. k # 0 => k - 1 \in 0 .. n + 1 /\ k - 1 # n + 1
          BY SMT
      <4>3. k # 0 => h[k - 1] = f[k - 1]
          BY <4>2
      <4>4. f[k] = IF k = 0 THEN a ELSE g[k][f[k - 1]]
          BY <2>1, <4>1
      <4> HIDE DEF h
      <4> QED BY <4>1, <4>3, <4>4
    <3> QED BY <3>1, <3>2
  <2> HIDE DEF h
  <2>7. Upto(n + 1, h)
      BY <2>5, <2>6
  <2> HIDE DEF Upto
  <2> QED BY <2>7
<1> HIDE DEF N
<1>3. top \in N
    BY <1>1, <1>2, FromZero
<1>4. \E f : Upto(top, f)
    BY <1>3, SMT DEF N
<1> QED BY <1>4

(* Induction over an interval.                                             *)
LEMMA StaysIn ==
    ASSUME NEW top \in Nat, NEW V, NEW f, f[0] \in V,
           \A k \in 1 .. top : f[k - 1] \in V => f[k] \in V
    PROVE  f[top] \in V
<1> DEFINE N == {n \in Nat : n <= top => f[n] \in V}
<1>1. 0 \in N
    OBVIOUS
<1>2. ASSUME NEW n \in Nat, n \in N PROVE n + 1 \in N
  <2>1. n + 1 \in Nat /\ (n + 1) - 1 = n /\ (n + 1 <= top => n + 1 \in 1 .. top /\ n <= top)
      BY SMT
  <2> QED BY <1>2, <2>1
<1> HIDE DEF N
<1>3. top \in N
    BY <1>1, <1>2, FromZero
<1> QED BY <1>3, SMT DEF N

CONSTANT NewtonLimit
VARIABLES stage, quote, root, balance, newton, answer
Curve == INSTANCE CurveQuote WITH d <- root, y <- balance

(* A checked quotient is a number or the error.                            *)
LEMMA MulDivType ==
    ASSUME NEW m \in Nat, NEW k \in Nat, NEW q \in Nat
    PROVE  Curve!mul_div(m, k, q) \in Nat \cup {Curve!Err}
<1>1. m * k \in Nat
    BY SMT
<1>2. q # 0 => (m * k) \div q \in Nat
    BY <1>1, DivFacts
<1> QED BY <1>2 DEF Curve!mul_div, Curve!Checked, Curve!Err

LEMMA SumType ==
    ASSUME Curve!coins \in Nat, NEW s \in [1 .. Curve!coins -> Nat], NEW skip
    PROVE  Curve!SumBut(s, skip) \in Nat
<1> DEFINE top == Curve!coins
           Body(f, k) == IF k = 0 THEN 0 ELSE IF k = skip THEN f[k - 1] ELSE f[k - 1] + s[k]
           sum == CHOOSE f : f = [k \in 0 .. top |-> Body(f, k)]
<1>1. Curve!SumBut(s, skip) = sum[top]
    BY DEF Curve!SumBut
<1>2. \E f : f = [k \in 0 .. top |-> Body(f, k)]
  <2> DEFINE g == [k \in 1 .. top |-> [m \in Nat |-> IF k = skip THEN m ELSE m + s[k]]]
  <2>1. g \in [1 .. top -> [Nat -> Nat]]
    <3>1. ASSUME NEW k \in 1 .. top, NEW m \in Nat
          PROVE  (IF k = skip THEN m ELSE m + s[k]) \in Nat
        BY SMT
    <3> QED BY <3>1
  <2>2. ASSUME NEW m \in Nat, NEW k \in 1 .. top
        PROVE  g[k][m] = IF k = skip THEN m ELSE m + s[k]
      OBVIOUS
  <2> HIDE DEF g, top
  <2>3. PICK f : Follows(Nat, top, g, 0, f)
    <3>1. 0 \in Nat /\ top \in Nat
        BY SMT DEF top
    <3>2. Rules(Nat, top, g)
        BY <2>1 DEF Rules
    <3> QED BY <3>1, <3>2, RecursionExists
  <2>4. ASSUME NEW k \in 0 .. top PROVE f[k] = Body(f, k)
    <3>1. CASE k = 0
        BY <2>3, <3>1 DEF Follows
    <3>2. CASE k # 0
      <4>1. k \in 1 .. top /\ k - 1 \in 0 .. top
          BY <3>2, SMT DEF top
      <4>2. f[k - 1] \in Nat /\ f[k] = g[k][f[k - 1]]
          BY <2>3, <3>2, <4>1 DEF Follows
      <4> QED BY <2>2, <3>2, <4>1, <4>2
    <3> QED BY <3>1, <3>2
  <2>5. f = [k \in 0 .. top |-> f[k]]
      BY <2>3 DEF Follows
  <2>6. f = [k \in 0 .. top |-> Body(f, k)]
    <3> HIDE DEF Body
    <3> QED BY <2>4, <2>5
  <2> HIDE DEF Body
  <2> QED BY <2>6
<1>3. sum = [k \in 0 .. top |-> Body(sum, k)]
  <2> HIDE DEF Body, top
  <2> QED BY <1>2
<1> HIDE DEF sum, top
<1>4. top \in Nat /\ \A k \in 1 .. top : k \in 0 .. top /\ k # 0
    BY SMT DEF top
<1>5. sum[0] \in Nat
  <2>1. 0 \in 0 .. top
      BY <1>4, SMT
  <2>2. sum[0] = 0
      BY <1>3, <2>1
  <2> QED BY <2>2, SMT
<1>6. ASSUME NEW k \in 1 .. top, sum[k - 1] \in Nat PROVE sum[k] \in Nat
  <2>1. sum[k] = IF k = skip THEN sum[k - 1] ELSE sum[k - 1] + s[k]
      BY <1>3, <1>4
  <2>2. s[k] \in Nat
      BY DEF top
  <2> QED BY <1>6, <2>1, <2>2, SMTT(30)
<1>7. top \in Nat /\ \A k \in 1 .. top : sum[k - 1] \in Nat => sum[k] \in Nat
    BY <1>4, <1>6
<1>8. sum[top] \in Nat
    BY <1>5, <1>7, StaysIn
<1> QED BY <1>1, <1>8

(* The quotient d_p is a number or the error.                              *)
LEMMA DivideType ==
    ASSUME Curve!coins \in Nat, root \in Nat, NEW s \in [1 .. Curve!coins -> Nat], NEW skip
    PROVE  Curve!DivideBy(s, skip) \in Nat \cup {Curve!Err}
<1> DEFINE top == Curve!coins
           V == Nat \cup {Curve!Err}
           Step(m, k) == IF k = skip THEN m
                         ELSE Curve!Guarded({m, Curve!Checked(s[k] * top)},
                                            Curve!mul_div(m, root, s[k] * top))
           Body(f, k) == IF k = 0 THEN root ELSE Step(f[k - 1], k)
           part == CHOOSE f : f = [k \in 0 .. top |-> Body(f, k)]
<1>1. Curve!DivideBy(s, skip) = part[top]
    BY DEF Curve!DivideBy
<1>2. ASSUME NEW m \in V, NEW k \in 1 .. top PROVE Step(m, k) \in V
  <2>1. s[k] * top \in Nat
      BY SMT
  <2>2. CASE m = Curve!Err
      BY <2>2 DEF Curve!Guarded
  <2>3. CASE m \in Nat
    <3>1. Curve!mul_div(m, root, s[k] * top) \in V
      <4> HIDE DEF top
      <4> QED BY <2>1, <2>3, MulDivType
    <3> HIDE DEF top
    <3> QED BY <3>1, <2>3 DEF Curve!Guarded
  <2> QED BY <2>2, <2>3
<1>3. top \in Nat /\ root \in V /\ \A k \in 1 .. top : k \in 0 .. top /\ k # 0
    BY SMT
<1> HIDE DEF top, V, Step
<1>4. \E f : f = [k \in 0 .. top |-> Body(f, k)]
  <2> DEFINE g == [k \in 1 .. top |-> [m \in V |-> Step(m, k)]]
  <2>1. Rules(V, top, g)
      BY <1>2 DEF Rules
  <2>2. \A m \in V, k \in 1 .. top : g[k][m] = Step(m, k)
      OBVIOUS
  <2> HIDE DEF g
  <2>3. PICK f : Follows(V, top, g, root, f)
      BY <1>3, <2>1, RecursionExists
  <2>4. ASSUME NEW k \in 0 .. top PROVE f[k] = Body(f, k)
    <3>1. CASE k = 0
        BY <2>3, <3>1 DEF Follows
    <3>2. CASE k # 0
      <4>1. k \in 1 .. top /\ k - 1 \in 0 .. top
          BY <1>3, <3>2, SMTT(30)
      <4>2. f[k - 1] \in V /\ f[k] = g[k][f[k - 1]]
          BY <2>3, <3>2, <4>1 DEF Follows
      <4> QED BY <2>2, <3>2, <4>1, <4>2
    <3> QED BY <3>1, <3>2
  <2>5. f = [k \in 0 .. top |-> f[k]]
      BY <2>3 DEF Follows
  <2>6. f = [k \in 0 .. top |-> Body(f, k)]
    <3> HIDE DEF Body
    <3> QED BY <2>4, <2>5
  <2> HIDE DEF Body
  <2> QED BY <2>6
<1>5. part = [k \in 0 .. top |-> Body(part, k)]
  <2> HIDE DEF Body
  <2> QED BY <1>4
<1> HIDE DEF part
<1>6. part[0] \in V
  <2>1. 0 \in 0 .. top
      BY <1>3, SMT
  <2> QED BY <1>3, <1>5, <2>1
<1>7. \A k \in 1 .. top : part[k - 1] \in V => part[k] \in V
    BY <1>2, <1>3, <1>5
<1>8. part[top] \in V
    BY <1>3, <1>6, <1>7, StaysIn
<1> QED BY <1>1, <1>8 DEF V

(* A call that passed the checks has a natural d, and its result is the    *)
(* root.                                                                   *)
CurveInv ==
    /\ quote \in [pool : Curve!CurveSnapshot, i : Nat \ {0}, j : Nat \ {0},
                  amount_in : 0 .. U256Max]
    /\ stage \in {"d", "y"} => ~Curve!CurveRejected /\ root \in Nat
    /\ stage = "y" => balance \in Nat
    /\ Curve!LandsOnY

LEMMA CurveFacts ==
    ASSUME CurveInv, ~Curve!CurveRejected
    PROVE  /\ Curve!coins \in Nat /\ Curve!coins >= 2 /\ Curve!ann \in Nat \ {0}
           /\ Curve!xp \in [1 .. Curve!coins -> Nat] /\ Curve!Paid \in [1 .. Curve!coins -> Nat]
           /\ Curve!xp[quote.j] \in 0 .. U256Max
           /\ quote.pool.fee_bps \in Nat /\ quote.pool.fee_bps < BpsDenom
<1>1. /\ quote.pool \in Curve!CurveSnapshot /\ quote.amount_in \in 0 .. U256Max
      /\ quote.i \in Nat \ {0} /\ quote.j \in Nat \ {0}
    BY DEF CurveInv
<1>2. /\ Curve!xp \in Seq(0 .. U256Max) /\ quote.pool.A \in 0 .. U256Max
      /\ quote.pool.fee_bps \in Nat
    BY <1>1 DEF Curve!CurveSnapshot, Curve!xp
<1>3. Curve!coins \in Nat /\ Curve!xp \in [1 .. Curve!coins -> 0 .. U256Max]
  <2> DEFINE T == 0 .. U256Max
             s == Curve!xp
  <2>1. s \in Seq(T)
      BY <1>2
  <2> HIDE DEF T, s
  <2>2. Len(s) \in Nat /\ s \in [1 .. Len(s) -> T]
      BY <2>1, SMT
  <2> QED BY <2>2 DEF s, T, Curve!coins
<1>4. /\ ~(Curve!coins < 2) /\ ~(quote.i > Curve!coins) /\ ~(quote.j > Curve!coins)
      /\ ~(quote.pool.fee_bps >= BpsDenom) /\ quote.pool.A # 0
    BY DEF Curve!CurveRejected
<1>5. quote.i \in 1 .. Curve!coins /\ quote.j \in 1 .. Curve!coins /\ Curve!coins >= 2
    BY <1>1, <1>3, <1>4, SMTT(30)
<1>6. quote.pool.fee_bps < BpsDenom
    BY <1>2, <1>4, WidthAssumption, SMTT(30)
<1>7. Curve!ann \in Nat \ {0}
  <2>1. quote.pool.A \in Nat \ {0} /\ Curve!coins \in Nat \ {0}
      BY <1>2, <1>3, <1>4, WidthAssumption, SMTT(30)
  <2> HIDE DEF Curve!coins
  <2>2. quote.pool.A * Curve!coins \in Nat \ {0}
      BY <2>1, SMT
  <2> QED BY <2>2 DEF Curve!ann
<1>8. \A m \in 0 .. U256Max : m \in Nat
    BY WidthAssumption, SMT
<1>9. Curve!xp \in [1 .. Curve!coins -> Nat]
    BY <1>3, <1>8
<1>10. Curve!x \in Nat
  <2>1. Curve!xp[quote.i] \in Nat /\ quote.amount_in \in Nat
      BY <1>1, <1>5, <1>8, <1>9
  <2> QED BY <2>1, SMT DEF Curve!x
<1>11. Curve!Paid \in [1 .. Curve!coins -> Nat]
    BY <1>9, <1>10 DEF Curve!Paid
<1>12. Curve!xp[quote.j] \in 0 .. U256Max
    BY <1>3, <1>5
<1> QED BY <1>2, <1>3, <1>5, <1>6, <1>7, <1>9, <1>11, <1>12, ZenonT(30)

LEMMA CheckedIs ==
    ASSUME NEW v, Curve!Checked(v) # Curve!Err
    PROVE  Curve!Checked(v) = v
BY DEF Curve!Checked

LEMMA NextDType ==
    ASSUME CurveInv, ~Curve!CurveRejected, root \in Nat
    PROVE  Curve!NextD \in Nat \cup {Curve!Err}
<1> DEFINE d_p == Curve!DivideBy(Curve!xp, 0)
           sum == Curve!SumBut(Curve!xp, 0)
           num == Curve!ann * sum + d_p * Curve!coins
           den == (Curve!ann - 1) * root + (Curve!coins + 1) * d_p
<1>1. /\ Curve!coins \in Nat /\ Curve!ann \in Nat \ {0} /\ Curve!xp \in [1 .. Curve!coins -> Nat]
    BY CurveFacts
<1>2. d_p \in Nat \cup {Curve!Err} /\ sum \in Nat
    BY <1>1, DivideType, SumType
<1>3. Curve!NextD = Curve!Guarded({d_p, Curve!Checked(num), Curve!Checked(den)},
                                  Curve!mul_div(Curve!Checked(num), root, Curve!Checked(den)))
    BY DEF Curve!NextD
<1> HIDE DEF d_p, sum
<1>4. CASE Curve!Err \in {d_p, Curve!Checked(num), Curve!Checked(den)}
    BY <1>3, <1>4 DEF Curve!Guarded
<1>5. CASE ~(Curve!Err \in {d_p, Curve!Checked(num), Curve!Checked(den)})
  <2>1. d_p \in Nat
      BY <1>2, <1>5
  <2>2. num \in Nat /\ den \in Nat
    <3> DEFINE n == Curve!coins
               a == Curve!ann
    <3>1. n \in Nat /\ a \in Nat \ {0}
        BY <1>1
    <3> HIDE DEF n, a
    <3>2. a * sum \in Nat /\ d_p * n \in Nat /\ (a - 1) * root \in Nat /\ (n + 1) * d_p \in Nat
      <4>1. a - 1 \in Nat /\ n + 1 \in Nat
          BY <3>1, SMTT(30)
      <4> QED BY <1>2, <2>1, <3>1, <4>1, SMTT(30)
    <3>3. a * sum + d_p * n \in Nat /\ (a - 1) * root + (n + 1) * d_p \in Nat
        BY <3>2, SMTT(30)
    <3> QED BY <3>3 DEF n, a
  <2> HIDE DEF num, den
  <2>3. Curve!Checked(num) = num /\ Curve!Checked(den) = den
      BY <1>5, CheckedIs
  <2>4. Curve!NextD = Curve!mul_div(num, root, den)
      BY <1>3, <1>5, <2>3 DEF Curve!Guarded
  <2> QED BY <2>2, <2>4, MulDivType
<1> QED BY <1>4, <1>5

(* The checks depend on the call only, the parameters of the quadratic     *)
(* on the call and d.                                                      *)
LEMMA SameQuadratic ==
    ASSUME quote' = quote
    PROVE  /\ Curve!xp' = Curve!xp /\ Curve!CurveRejected' = Curve!CurveRejected
           /\ root' = root => Curve!c' = Curve!c /\ Curve!b' = Curve!b
<1>1. Curve!xp' = Curve!xp
    BY DEF Curve!xp
<1>2. Curve!coins' = Curve!coins /\ Curve!x' = Curve!x
    BY <1>1 DEF Curve!coins, Curve!x
<1>3. Curve!ann' = Curve!ann /\ Curve!Paid' = Curve!Paid
    BY <1>1, <1>2 DEF Curve!ann, Curve!Paid
<1> DEFINE Sum(n, s, skip) ==
               LET sum[k \in 0 .. n] ==
                       IF k = 0 THEN 0 ELSE IF k = skip THEN sum[k - 1] ELSE sum[k - 1] + s[k]
               IN  sum[n]
           Part(n, m, s, skip) ==
               LET part[k \in 0 .. n] ==
                       IF k = 0 THEN m
                       ELSE IF k = skip THEN part[k - 1]
                       ELSE Curve!Guarded({part[k - 1], Curve!Checked(s[k] * n)},
                                          Curve!mul_div(part[k - 1], m, s[k] * n))
               IN  part[n]
<1>4. /\ Curve!SumBut(Curve!Paid, quote.j) = Sum(Curve!coins, Curve!Paid, quote.j)
      /\ Curve!SumBut(Curve!Paid, quote.j)' = Sum(Curve!coins', Curve!Paid', quote'.j)
      /\ Curve!SumBut(Curve!xp, 0) = Sum(Curve!coins, Curve!xp, 0)
      /\ Curve!SumBut(Curve!xp, 0)' = Sum(Curve!coins', Curve!xp', 0)
    BY DEF Curve!SumBut
<1>5. /\ Curve!DivideBy(Curve!Paid, quote.j) = Part(Curve!coins, root, Curve!Paid, quote.j)
      /\ Curve!DivideBy(Curve!Paid, quote.j)' = Part(Curve!coins', root', Curve!Paid', quote'.j)
    BY DEF Curve!DivideBy
<1> HIDE DEF Sum, Part
<1>6. /\ Curve!SumBut(Curve!Paid, quote.j)' = Curve!SumBut(Curve!Paid, quote.j)
      /\ Curve!SumBut(Curve!xp, 0)' = Curve!SumBut(Curve!xp, 0)
    BY <1>1, <1>2, <1>3, <1>4
<1>7. root' = root =>
          Curve!DivideBy(Curve!Paid, quote.j)' = Curve!DivideBy(Curve!Paid, quote.j)
    BY <1>2, <1>3, <1>5
<1>8. root' = root => Curve!b' = Curve!b
    BY <1>3, <1>6 DEF Curve!b, Curve!Checked
<1>9. root' = root => Curve!c' = Curve!c
    BY <1>2, <1>3, <1>7 DEF Curve!c, Curve!Guarded, Curve!Checked, Curve!mul_div
<1>10. Curve!CurveRejected' = Curve!CurveRejected
    BY <1>1, <1>2, <1>3, <1>6 DEF Curve!CurveRejected, Curve!Checked
<1> QED BY <1>1, <1>8, <1>9, <1>10

(* What the loop for y returns.                                            *)
LEMMA LastY ==
    ASSUME CurveInv, ~Curve!CurveRejected, root \in Nat, balance \in Nat,
           Curve!c # Curve!Err, Curve!b # Curve!Err, Curve!NextY # Curve!Err
    PROVE  /\ Curve!NextY \in Nat
           /\ ~Curve!BelowY(Curve!NextY + 1)
           /\ Curve!AbsDiff(Curve!NextY, balance) <= 1 => Curve!BelowY(Curve!NextY - 1)
<1> DEFINE b == Curve!b
           c == Curve!c
           n == Curve!NextY
           e == b - root
<1>1. /\ Curve!coins \in Nat /\ Curve!ann \in Nat \ {0} /\ Curve!Paid \in [1 .. Curve!coins -> Nat]
    BY CurveFacts
<1>2. b \in Nat
  <2> DEFINE sum == Curve!SumBut(Curve!Paid, quote.j)
             q == root \div Curve!ann
  <2>1. sum \in Nat /\ q \in Nat
      BY <1>1, SumType, DivFacts
  <2>2. b = sum + q
      BY CheckedIs DEF Curve!b
  <2> HIDE DEF sum, q
  <2> QED BY <2>1, <2>2, SMTT(30)
<1>3. c \in Nat
  <2> DEFINE c1 == Curve!DivideBy(Curve!Paid, quote.j)
             w == Curve!ann * Curve!coins
  <2>1. c1 \in Nat \cup {Curve!Err}
      BY <1>1, DivideType
  <2>2. c1 # Curve!Err /\ c = Curve!mul_div(c1, root, w)
      BY DEF Curve!c, Curve!Guarded
  <2>3. w \in Nat
      BY <1>1, SMT
  <2> HIDE DEF c1, w
  <2>4. c \in Nat \cup {Curve!Err}
      BY <2>1, <2>2, <2>3, MulDivType
  <2> QED BY <2>4
<1>4. n = (balance * balance + c) \div (2 * balance + e) /\ 2 * balance + e > 0
  <2> DEFINE num == balance * balance + c
             den == 2 * balance + b - root
  <2>1. /\ Curve!Checked(num) # Curve!Err /\ ~(den <= 0)
        /\ n = Curve!Checked(num) \div den
      BY DEF Curve!NextY
  <2>2. Curve!Checked(num) = num
      BY <2>1, CheckedIs
  <2> HIDE DEF b, c, n
  <2>3. den = 2 * balance + e /\ den \in Int
      BY <1>2, SMTT(30)
  <2>4. den > 0
    <3> HIDE DEF den
    <3> QED BY <2>1, <2>3, SMTT(30)
  <2> QED BY <2>1, <2>2, <2>3, <2>4
<1> HIDE DEF b, c, n
<1>5. e \in Int
    BY <1>2, SMT
<1> HIDE DEF e
<1>6. /\ n \in Nat
      /\ ~((n + 1) * (n + 1) + e * (n + 1) <= c)
      /\ n <= balance + 1 /\ balance <= n + 1 /\ n > 1 => (n - 1) * (n - 1) + e * (n - 1) <= c
    BY <1>3, <1>4, <1>5, NewtonStep
<1>7. ~(n + 1 <= 0)
    BY <1>6, SMT
<1>8. ~Curve!BelowY(n + 1)
    BY <1>6, <1>7 DEF Curve!BelowY, b, c, e
<1>9. ASSUME Curve!AbsDiff(n, balance) <= 1 PROVE Curve!BelowY(n - 1)
  <2>1. n <= balance + 1 /\ balance <= n + 1
      BY <1>6, <1>9, SMTT(30) DEF Curve!AbsDiff
  <2>2. n > 1 \/ n - 1 <= 0
      BY <1>6, SMTT(30)
  <2> QED BY <1>6, <2>1, <2>2 DEF Curve!BelowY, b, c, e
<1> QED BY <1>6, <1>8, <1>9 DEF n

(* The fee is at most the output, so what is paid is less than the pool    *)
(* has.                                                                    *)
LEMMA PaidFromPool ==
    ASSUME NEW held \in 0 .. U256Max, NEW n \in Nat, NEW fee \in Nat, fee < BpsDenom,
           NEW dy, dy = held - n - 1, ~(dy < 0)
    PROVE  dy - Curve!mul_div(dy, fee, BpsDenom) < held
<1> DEFINE q == (dy * fee) \div BpsDenom
<1>1. BpsDenom \in Nat \ {0} /\ U256Max \in Nat
    BY WidthAssumption
<1>2. dy \in Nat /\ dy < held /\ dy <= U256Max /\ held \in Nat
    BY <1>1, SMTT(30)
<1>3. dy * fee \in Nat
    BY <1>2, SMT
<1>4. q \in Nat
    BY <1>1, <1>3, DivFacts
<1>5. ~(dy + 1 <= q)
  <2>1. fee * dy <= BpsDenom * dy /\ fee * dy = dy * fee
    <3>1. fee <= BpsDenom
        BY <1>1, SMT
    <3>2. fee * dy <= BpsDenom * dy
        BY <1>1, <1>2, <3>1, MulMono
    <3> QED BY <1>2, <3>2, SMTT(30)
  <2>2. (dy + 1) * BpsDenom = BpsDenom * dy + BpsDenom /\ BpsDenom * dy \in Nat
      BY <1>1, <1>2, SMTT(30)
  <2>3. ~((dy + 1) * BpsDenom <= dy * fee)
      BY <1>1, <1>3, <2>1, <2>2, SMTT(30)
  <2>4. dy + 1 \in Nat
      BY <1>2, SMTT(30)
  <2> QED BY <1>1, <1>3, <2>3, <2>4, FloorReaches
<1> HIDE DEF q
<1>6. ~(q > U256Max) /\ dy - q < held
    BY <1>1, <1>2, <1>4, <1>5, SMTT(30)
<1> QED BY <1>1, <1>6 DEF Curve!mul_div, Curve!Checked, q

LEMMA CurveInvStep == CurveInv /\ [Curve!CurveNext]_Curve!curveVars => CurveInv'
<1> SUFFICES ASSUME CurveInv, [Curve!CurveNext]_Curve!curveVars PROVE CurveInv'
    OBVIOUS
<1>1. CASE Curve!CurveStart
  <2>1. quote' = quote /\ stage' # "y" /\ stage' # "ok"
        /\ (stage' = "d" => ~Curve!CurveRejected /\ root' = Curve!SumBut(Curve!xp, 0))
      BY <1>1, SMT DEF Curve!CurveStart
  <2>2. stage' = "d" => root' \in Nat
      BY <2>1, CurveFacts, SumType
  <2>3. Curve!CurveRejected' = Curve!CurveRejected
      BY <2>1, SameQuadratic
  <2> QED BY <2>1, <2>2, <2>3 DEF CurveInv, Curve!LandsOnY
<1>2. CASE Curve!IterateD
  <2>1. stage = "d" /\ quote' = quote
      BY <1>2 DEF Curve!IterateD
  <2>2. /\ stage' # "ok"
        /\ stage' \in {"d", "y"} => Curve!NextD # Curve!Err /\ root' = Curve!NextD
        /\ stage' = "y" => balance' = Curve!NextD
      BY <1>2, <2>1, SMTT(30) DEF Curve!IterateD
  <2>3. ~Curve!CurveRejected /\ root \in Nat
      BY <2>1 DEF CurveInv
  <2>4. Curve!NextD # Curve!Err => Curve!NextD \in Nat
      BY <2>3, NextDType
  <2>5. Curve!CurveRejected' = Curve!CurveRejected
      BY <2>1, SameQuadratic
  <2> QED BY <2>1, <2>2, <2>3, <2>4, <2>5 DEF CurveInv, Curve!LandsOnY
<1>3. CASE Curve!IterateY
  <2> DEFINE n == Curve!NextY
             dy == Curve!xp[quote.j] - n - 1
  <2>1. stage = "y" /\ quote' = quote /\ root' = root
      BY <1>3 DEF Curve!IterateY
  <2>2. ~Curve!CurveRejected /\ root \in Nat /\ balance \in Nat
      BY <2>1 DEF CurveInv
  <2>3. /\ stage' \in {"y", "ok", "err"}
        /\ stage' # "err" => /\ Curve!c # Curve!Err /\ Curve!b # Curve!Err /\ n # Curve!Err
                             /\ balance' = n
        /\ stage' = "ok" => /\ Curve!AbsDiff(n, balance) <= 1 /\ ~(dy < 0)
                            /\ answer' = dy - Curve!mul_div(dy, quote.pool.fee_bps, BpsDenom)
      BY <1>3, <2>1, SMTT(30) DEF Curve!IterateY
  <2>4. stage' # "err" =>
            /\ n \in Nat /\ ~Curve!BelowY(n + 1)
            /\ Curve!AbsDiff(n, balance) <= 1 => Curve!BelowY(n - 1)
      BY <2>2, <2>3, LastY
  <2>5. stage' = "ok" => answer' < Curve!xp[quote.j]
    <3>1. /\ Curve!xp[quote.j] \in 0 .. U256Max
          /\ quote.pool.fee_bps \in Nat /\ quote.pool.fee_bps < BpsDenom
        BY <2>2, CurveFacts
    <3> HIDE DEF n
    <3> QED BY <2>3, <2>4, <3>1, PaidFromPool
  <2>6. /\ Curve!CurveRejected' = Curve!CurveRejected /\ Curve!xp' = Curve!xp
        /\ Curve!c' = Curve!c /\ Curve!b' = Curve!b
      BY <2>1, SameQuadratic
  <2> HIDE DEF n
  <2>7. Curve!LandsOnY'
    <3> SUFFICES ASSUME stage' = "ok"
                 PROVE  /\ Curve!BelowY(balance - 1)' /\ ~Curve!BelowY(balance + 1)'
                        /\ answer' < Curve!xp'[quote'.j]
        BY DEF Curve!LandsOnY
    <3>1. balance' = n /\ Curve!BelowY(n - 1) /\ ~Curve!BelowY(n + 1)
        BY <2>3, <2>4
    <3> QED BY <2>1, <2>5, <2>6, <3>1 DEF Curve!BelowY
  <2> QED BY <2>1, <2>2, <2>3, <2>4, <2>6, <2>7 DEF CurveInv
<1>4. CASE UNCHANGED Curve!curveVars
  <2>1. /\ quote' = quote /\ root' = root /\ stage' = stage /\ balance' = balance
        /\ answer' = answer
      BY <1>4 DEF Curve!curveVars
  <2>2. /\ Curve!CurveRejected' = Curve!CurveRejected /\ Curve!xp' = Curve!xp
        /\ Curve!c' = Curve!c /\ Curve!b' = Curve!b
      BY <2>1, SameQuadratic
  <2> QED BY <2>1, <2>2 DEF CurveInv, Curve!LandsOnY, Curve!BelowY
<1> QED BY <1>1, <1>2, <1>3, <1>4 DEF Curve!CurveNext

(* For every pool, pair of coins and amount: when the loop for y of        *)
(* curve.rs returns, it has found the floor of the exact root of its       *)
(* quadratic or one more, and the amount paid is less than the pool has.   *)
THEOREM LandsOnYAlways == Curve!CurveSpec => []Curve!LandsOnY
<1>1. Curve!CurveInit(Curve!CurveSnapshot, Nat \ {0}, 0 .. U256Max) => CurveInv
    BY SMT DEF Curve!CurveInit, CurveInv, Curve!LandsOnY
<1>2. CurveInv /\ [Curve!CurveNext]_Curve!curveVars => CurveInv'
    BY CurveInvStep
<1>3. CurveInv => Curve!LandsOnY
    BY DEF CurveInv
<1> QED BY <1>1, <1>2, <1>3, PTL DEF Curve!CurveSpec
=============================================================================

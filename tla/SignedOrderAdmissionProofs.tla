---------------------- MODULE SignedOrderAdmissionProofs ----------------------
(***************************************************************************)
(* What admitted matches guarantee an order, for every set of orders, every*)
(* width of the integers and every pair of rates.  The capacity check, the *)
(* proportional minimum and the fee cap are inequalities about one fill;   *)
(* the inductive invariant is their sum over the fills so far.             *)
(***************************************************************************)
EXTENDS SignedOrderAdmission, SequenceProofs, FiniteSetTheorems, TLAPS

\* Most leaves are first-order and go to Zenon; the ones about numbers,
\* records and sequences cite SMT.
USE Zenon

(* Inductive: the sums of the checked inequalities, without the division   *)
(* by the deposit that the second half of MinimumHonoured draws from them. *)
ProportionalMinimum ==
  \A o \in Order : minted[o] * Deposit[o] >= MinShares[o] * filled[o]

IInv == TypeOK /\ NeverOverfilled /\ ProportionalMinimum /\ FeesWithinCap

-----------------------------------------------------------------------------
(* Floor division gives back at most what it was given.                    *)
LEMMA FloorBound ==
  ASSUME NEW x \in Nat, NEW d \in Nat \ {0}
  PROVE  /\ x \div d \in Nat
         /\ (x \div d) * d <= x
<1> QED  BY Z3

(* A product with a factor of at most d, divided by d, does not grow.      *)
LEMMA MulDivFloor ==
  ASSUME NEW v \in Nat, NEW n \in Nat, NEW d \in Nat \ {0}, n <= d
  PROVE  /\ mul_div_floor(v, n, d) \in Nat
         /\ mul_div_floor(v, n, d) * d <= v * n
         /\ mul_div_floor(v, n, d) <= v
<1> DEFINE q == (v * n) \div d
<1>1. v * n \in Nat
  BY Z3
<1>2. q \in Nat /\ q * d <= v * n
  BY <1>1, FloorBound
<1>3. v * n <= v * d
  BY Z3
<1>4. ASSUME q > v  PROVE FALSE
  <2>1. q * d > v * d
    BY <1>2, <1>4, Z3
  <2> QED  BY <1>1, <1>2, <1>3, <2>1, Z3
<1> QED  BY <1>2, <1>4, Z3 DEF mul_div_floor

(* split_prediction_fx_fees at rates in range: neither checked_sub can     *)
(* underflow, the parts add up to the gross amount, and the fee is at most *)
(* its rate of it.                                                         *)
LEMMA SplitIsSound ==
  ASSUME NEW g \in Nat, NEW f \in Nat, NEW c \in Nat,
         f <= BPS_DENOMINATOR, c <= BPS_DENOMINATOR
  PROVE  LET s == split_prediction_fx_fees(g, f, c)
         IN  /\ s.fee \in Nat /\ s.creator \in Nat /\ s.resolver \in Nat /\ s.net \in Nat
             /\ s.fee = s.creator + s.resolver
             /\ g = s.net + s.fee
             /\ s.fee * BPS_DENOMINATOR <= g * f
<1> DEFINE t == fee(g, f)
           k == mul_div_floor(t, c, BPS_DENOMINATOR)
<1>1. BPS_DENOMINATOR \in Nat \ {0}
  BY RatesAssumption
<1>2. t \in Nat /\ t * BPS_DENOMINATOR <= g * f /\ t <= g
  BY <1>1, MulDivFloor DEF fee
<1>3. k \in Nat /\ k <= t
  BY <1>1, <1>2, MulDivFloor
<1>4. split_prediction_fx_fees(g, f, c)
        = [fee |-> t, creator |-> k, resolver |-> t - k, net |-> g - t]
  BY DEF split_prediction_fx_fees
<1> HIDE DEF t, k
<1> QED  BY <1>1, <1>2, <1>3, <1>4, Z3

(* Two bounds of the same proportion add up.                               *)
LEMMA ProportionsAdd ==
  ASSUME NEW a \in Nat, NEW b \in Nat, NEW x \in Nat, NEW y \in Nat,
         NEW d \in Nat, NEW n \in Nat,
         a * d >= n * x, b * d >= n * y
  PROVE  (a + b) * d >= n * (x + y)
<1>1. (a + b) * d = a * d + b * d
  BY Z3
<1>2. n * (x + y) = n * x + n * y
  BY Z3
<1>3. a * d \in Nat /\ b * d \in Nat /\ n * x \in Nat /\ n * y \in Nat
  BY Z3
<1> QED  BY <1>1, <1>2, <1>3, Z3

(* What an executable preview says of its two sides.                       *)
LEMMA AdmittedSide ==
  ASSUME IInv, NEW i \in Input, executable(i), NEW g \in Nat
  PROVE  LET s == Side(i, g)
         IN  /\ s.fee \in Nat /\ s.creator \in Nat /\ s.resolver \in Nat /\ s.net \in Nat
             /\ s.fee <= g /\ g = s.net + s.fee /\ s.fee = s.creator + s.resolver
             /\ s.fee * BPS_DENOMINATOR <= MAX_SOURCE_FEE_BPS * g
<1> DEFINE s == Side(i, g)
<1>1. i.fee_bps \in Nat /\ i.creator_fee_bps \in Nat
  BY RatesAssumption DEF Input
<1>2. i.fee_bps <= MAX_SOURCE_FEE_BPS /\ i.creator_fee_bps <= BPS_DENOMINATOR
  BY DEF executable, BasicMatchAdmits
<1>3. s = split_prediction_fx_fees(g, i.fee_bps, i.creator_fee_bps)
  BY <1>2 DEF Side, EffectiveRate
<1>4. BPS_DENOMINATOR \in Nat /\ MAX_SOURCE_FEE_BPS \in Nat /\ i.fee_bps <= BPS_DENOMINATOR
  BY <1>1, <1>2, RatesAssumption, SMT
<1>5. /\ s.fee \in Nat /\ s.creator \in Nat /\ s.resolver \in Nat /\ s.net \in Nat
      /\ g = s.net + s.fee /\ s.fee = s.creator + s.resolver
      /\ s.fee * BPS_DENOMINATOR <= g * i.fee_bps
  <2> DEFINE p == split_prediction_fx_fees(g, i.fee_bps, i.creator_fee_bps)
  <2>1. /\ p.fee \in Nat /\ p.creator \in Nat /\ p.resolver \in Nat /\ p.net \in Nat
        /\ g = p.net + p.fee /\ p.fee = p.creator + p.resolver
        /\ p.fee * BPS_DENOMINATOR <= g * i.fee_bps
    <3>1. i.creator_fee_bps \in Nat /\ i.creator_fee_bps <= BPS_DENOMINATOR
          /\ i.fee_bps \in Nat /\ i.fee_bps <= BPS_DENOMINATOR
      BY <1>1, <1>2, <1>4
    <3> QED  BY <3>1, SplitIsSound, ZenonT(60)
  <2> HIDE DEF s, p
  <2> QED  BY <1>3, <2>1 DEF p
<1> HIDE DEF s
<1>6. g * i.fee_bps <= MAX_SOURCE_FEE_BPS * g
  BY <1>1, <1>2, <1>4, Z3
<1>7. s.fee <= g
  BY <1>5, Z3
<1>8. s.fee * BPS_DENOMINATOR <= MAX_SOURCE_FEE_BPS * g
  <2>1. s.fee * BPS_DENOMINATOR \in Nat /\ g * i.fee_bps \in Nat /\ MAX_SOURCE_FEE_BPS * g \in Nat
    BY <1>1, <1>4, <1>5, Z3
  <2> QED  BY <2>1, <1>5, <1>6, Z3
<1> QED  BY <1>5, <1>7, <1>8 DEF s

-----------------------------------------------------------------------------
(* An empty book satisfies the bounds.                                     *)
LEMMA InitIInv == Init => IInv
<1> SUFFICES ASSUME Init PROVE IInv
  OBVIOUS
<1>1. TypeOK
  <2>1. 0 \in 0..MaxUint /\ 0 \in 0..MaxTime
    BY RatesAssumption, TimeAssumption, SMT
  <2> QED  BY <2>1 DEF Init, TypeOK, Verdict
<1>2. ASSUME NEW o \in Order
      PROVE  /\ filled[o] <= Deposit[o]
             /\ minted[o] * Deposit[o] >= MinShares[o] * filled[o]
             /\ fees[o] * BPS_DENOMINATOR <= MAX_SOURCE_FEE_BPS * filled[o]
  BY OrdersAssumption, RatesAssumption, Z3 DEF Init
<1> QED  BY <1>1, <1>2 DEF IInv, NeverOverfilled, ProportionalMinimum, FeesWithinCap

(* The steps that leave the book alone.                                    *)
LEMMA BookUnchanged ==
  ASSUME IInv, UNCHANGED <<filled, minted, fees, paid>>,
         now' \in 0..MaxTime, resolved' \in BOOLEAN, verdict' \in Verdict
  PROVE  IInv'
<1>1. TypeOK'
  BY DEF IInv, TypeOK
<1>2. NeverOverfilled' /\ ProportionalMinimum' /\ FeesWithinCap'
  BY DEF IInv, NeverOverfilled, ProportionalMinimum, FeesWithinCap
<1> QED  BY <1>1, <1>2 DEF IInv

(* One order's entries, when a fill g with fee e and shares h is added.    *)
LEMMA FillKeepsBounds ==
  ASSUME IInv, NEW o \in Order, NEW g \in Nat, NEW e \in Nat, NEW h \in Nat,
         g <= remaining_capacity(Deposit[o], filled[o]),
         ~proportional_min_shares_not_met(h, Deposit[o], MinShares[o], g),
         e * BPS_DENOMINATOR <= MAX_SOURCE_FEE_BPS * g, e <= g
  PROVE  /\ filled[o] + g \in 0..MaxUint
         /\ fees[o] + e \in Nat
         /\ minted[o] + h \in Nat
         /\ filled[o] + g <= Deposit[o]
         /\ (minted[o] + h) * Deposit[o] >= MinShares[o] * (filled[o] + g)
         /\ (fees[o] + e) * BPS_DENOMINATOR <= MAX_SOURCE_FEE_BPS * (filled[o] + g)
<1>1. /\ filled[o] \in Nat /\ fees[o] \in Nat /\ minted[o] \in Nat
      /\ Deposit[o] \in Nat /\ MinShares[o] \in Nat /\ Deposit[o] <= MaxUint
      /\ MaxUint \in Nat /\ BPS_DENOMINATOR \in Nat /\ MAX_SOURCE_FEE_BPS \in Nat
  BY OrdersAssumption, RatesAssumption, SMT DEF IInv, TypeOK
<1>2. filled[o] <= Deposit[o]
  BY DEF IInv, NeverOverfilled
<1>3. filled[o] + g <= Deposit[o]
  BY <1>1, <1>2, Z3 DEF remaining_capacity
<1>4. h * Deposit[o] >= MinShares[o] * g
  <2>1. h * Deposit[o] \in Nat /\ MinShares[o] * g \in Nat
    BY <1>1, Z3
  <2> QED  BY <2>1, Z3 DEF proportional_min_shares_not_met
<1>5. minted[o] * Deposit[o] >= MinShares[o] * filled[o]
  BY DEF IInv, ProportionalMinimum
<1>6. (minted[o] + h) * Deposit[o] >= MinShares[o] * (filled[o] + g)
  BY <1>1, <1>4, <1>5, ProportionsAdd
<1>7. fees[o] * BPS_DENOMINATOR <= MAX_SOURCE_FEE_BPS * filled[o]
  BY DEF IInv, FeesWithinCap
<1>8. (fees[o] + e) * BPS_DENOMINATOR <= MAX_SOURCE_FEE_BPS * (filled[o] + g)
  <2> DEFINE D == BPS_DENOMINATOR
             M == MAX_SOURCE_FEE_BPS
             F == filled[o]
             E == fees[o]
  <2>1. (E + e) * D = E * D + e * D /\ M * (F + g) = M * F + M * g
    BY <1>1, Z3
  <2>2. E * D \in Nat /\ e * D \in Nat /\ M * F \in Nat /\ M * g \in Nat
    BY <1>1, Z3
  <2> QED  BY <2>1, <2>2, <1>7, Z3
<1> QED  BY <1>1, <1>3, <1>6, <1>8, Z3

(* An admitted match keeps the bounds of its two orders and of the others. *)
LEMMA AdmitsIInv ==
  ASSUME IInv, NEW i \in Input, EvaluateAdmits(i)
  PROVE  IInv'
<1> DEFINE y == i.yes
           n == i.no
           Y == yes_side(i)
           N == no_side(i)
<1>1. executable(i)
  BY DEF EvaluateAdmits
<1>2. y \in Order /\ n \in Order /\ i.yes_fill \in Nat /\ i.no_fill \in Nat
  <2>1. y \in Order /\ n \in Order /\ i.yes_fill \in Fill /\ i.no_fill \in Fill
    BY DEF Input
  <2>2. Fill \subseteq Nat
    BY RatesAssumption, SMT
  <2> QED  BY <2>1, <2>2
<1>3. y # n
  BY <1>1 DEF executable, BasicMatchAdmits
<1>4. /\ Y.fee \in Nat /\ Y.creator \in Nat /\ Y.resolver \in Nat /\ Y.net \in Nat
      /\ Y.fee <= i.yes_fill /\ Y.fee * BPS_DENOMINATOR <= MAX_SOURCE_FEE_BPS * i.yes_fill
  BY <1>1, <1>2, AdmittedSide DEF yes_side
<1>5. /\ N.fee \in Nat /\ N.creator \in Nat /\ N.resolver \in Nat /\ N.net \in Nat
      /\ N.fee <= i.no_fill /\ N.fee * BPS_DENOMINATOR <= MAX_SOURCE_FEE_BPS * i.no_fill
  BY <1>1, <1>2, AdmittedSide DEF no_side
<1>6. /\ i.yes_fill <= remaining_capacity(Deposit[y], filled[y])
      /\ i.no_fill <= remaining_capacity(Deposit[n], filled[n])
  BY <1>1 DEF executable, BasicMatchAdmits, HasCapacity
<1>7. /\ ~proportional_min_shares_not_met(N.net, Deposit[y], MinShares[y], i.yes_fill)
      /\ ~proportional_min_shares_not_met(Y.net, Deposit[n], MinShares[n], i.no_fill)
  BY <1>1 DEF executable, MinSharesAdmit, yes_shares_minted, no_shares_minted
<1>8. /\ filled' = [filled EXCEPT ![y] = @ + i.yes_fill, ![n] = @ + i.no_fill]
      /\ minted' = [minted EXCEPT ![y] = @ + N.net, ![n] = @ + Y.net]
      /\ fees' = [fees EXCEPT ![y] = @ + Y.fee, ![n] = @ + N.fee]
      /\ paid' = [creator |-> paid.creator + Y.creator + N.creator,
                  resolver |-> paid.resolver + Y.resolver + N.resolver]
  BY DEF EvaluateAdmits, Execute, yes_shares_minted, no_shares_minted
<1> HIDE DEF y, n, Y, N
<1>9. /\ filled[y] + i.yes_fill \in 0..MaxUint
      /\ fees[y] + Y.fee \in Nat
      /\ minted[y] + N.net \in Nat
      /\ filled[y] + i.yes_fill <= Deposit[y]
      /\ (minted[y] + N.net) * Deposit[y] >= MinShares[y] * (filled[y] + i.yes_fill)
      /\ (fees[y] + Y.fee) * BPS_DENOMINATOR
           <= MAX_SOURCE_FEE_BPS * (filled[y] + i.yes_fill)
  BY <1>2, <1>4, <1>5, <1>6, <1>7, FillKeepsBounds
<1>10. /\ filled[n] + i.no_fill \in 0..MaxUint
       /\ fees[n] + N.fee \in Nat
       /\ minted[n] + Y.net \in Nat
       /\ filled[n] + i.no_fill <= Deposit[n]
       /\ (minted[n] + Y.net) * Deposit[n] >= MinShares[n] * (filled[n] + i.no_fill)
       /\ (fees[n] + N.fee) * BPS_DENOMINATOR
            <= MAX_SOURCE_FEE_BPS * (filled[n] + i.no_fill)
  BY <1>2, <1>4, <1>5, <1>6, <1>7, FillKeepsBounds
<1>11. /\ filled \in [Order -> 0..MaxUint] /\ minted \in [Order -> Nat]
       /\ fees \in [Order -> Nat] /\ paid \in [creator : Nat, resolver : Nat]
  BY DEF IInv, TypeOK
<1>12. ASSUME NEW o \in Order
       PROVE  /\ filled'[o] = IF o = y THEN filled[y] + i.yes_fill
                              ELSE IF o = n THEN filled[n] + i.no_fill ELSE filled[o]
              /\ minted'[o] = IF o = y THEN minted[y] + N.net
                              ELSE IF o = n THEN minted[n] + Y.net ELSE minted[o]
              /\ fees'[o] = IF o = y THEN fees[y] + Y.fee
                            ELSE IF o = n THEN fees[n] + N.fee ELSE fees[o]
  BY <1>2, <1>3, <1>8, <1>11
<1>13. TypeOK'
  <2>1. filled' \in [Order -> 0..MaxUint]
    BY <1>2, <1>3, <1>8, <1>9, <1>10, <1>11
  <2>2. minted' \in [Order -> Nat] /\ fees' \in [Order -> Nat]
    BY <1>2, <1>3, <1>8, <1>9, <1>10, <1>11
  <2>3. paid' \in [creator : Nat, resolver : Nat]
    BY <1>4, <1>5, <1>8, <1>11, SMT
  <2>4. now' \in 0..MaxTime /\ resolved' \in BOOLEAN /\ verdict' \in Verdict
    BY DEF IInv, TypeOK, EvaluateAdmits, Verdict
  <2> QED  BY <2>1, <2>2, <2>3, <2>4 DEF TypeOK
<1>14. ASSUME NEW o \in Order
       PROVE  /\ filled'[o] <= Deposit[o]
              /\ minted'[o] * Deposit[o] >= MinShares[o] * filled'[o]
              /\ fees'[o] * BPS_DENOMINATOR <= MAX_SOURCE_FEE_BPS * filled'[o]
  <2>1. CASE o = y
    BY <2>1, <1>9, <1>12
  <2>2. CASE o = n /\ o # y
    BY <2>2, <1>10, <1>12
  <2>3. CASE o # y /\ o # n
    BY <2>3, <1>12 DEF IInv, NeverOverfilled, ProportionalMinimum, FeesWithinCap
  <2> QED  BY <2>1, <2>2, <2>3
<1>15. NeverOverfilled' /\ ProportionalMinimum' /\ FeesWithinCap'
  BY <1>14 DEF NeverOverfilled, ProportionalMinimum, FeesWithinCap
<1> QED  BY <1>13, <1>15 DEF IInv

(* Every step keeps the inductive invariant.                               *)
LEMMA NextIInv == IInv /\ [Next]_vars => IInv'
<1> SUFFICES ASSUME IInv, [Next]_vars PROVE IInv'
  OBVIOUS
<1>1. ASSUME NEW i \in Input, EvaluateFails(i) \/ EvaluateRefuses(i)  PROVE IInv'
  <2>1. /\ UNCHANGED <<filled, minted, fees, paid>>
        /\ now' \in 0..MaxTime /\ resolved' \in BOOLEAN /\ verdict' \in Verdict
    BY <1>1 DEF EvaluateFails, EvaluateRefuses, IInv, TypeOK, Verdict
  <2> QED  BY <2>1, BookUnchanged
<1>2. ASSUME NEW i \in Input, EvaluateAdmits(i)  PROVE IInv'
  BY <1>2, AdmitsIInv
<1>3. CASE Tick
  <2>1. /\ UNCHANGED <<filled, minted, fees, paid>>
        /\ now' \in 0..MaxTime /\ resolved' \in BOOLEAN /\ verdict' \in Verdict
    BY <1>3, TimeAssumption, SMT DEF Tick, IInv, TypeOK
  <2> QED  BY <2>1, BookUnchanged
<1>4. CASE Resolve
  <2>1. /\ UNCHANGED <<filled, minted, fees, paid>>
        /\ now' \in 0..MaxTime /\ resolved' \in BOOLEAN /\ verdict' \in Verdict
    BY <1>4 DEF Resolve, IInv, TypeOK
  <2> QED  BY <2>1, BookUnchanged
<1>5. CASE UNCHANGED vars
  <2>1. /\ UNCHANGED <<filled, minted, fees, paid>>
        /\ now' \in 0..MaxTime /\ resolved' \in BOOLEAN /\ verdict' \in Verdict
    BY <1>5 DEF vars, IInv, TypeOK
  <2> QED  BY <2>1, BookUnchanged
<1> QED  BY <1>1, <1>2, <1>3, <1>4, <1>5 DEF Next, Evaluate

(* The sums of the per-fill checks hold in every reachable state.          *)
THEOREM BoundsAlways == Spec => []IInv
<1> QED  BY InitIInv, NextIInv, PTL DEF Spec

(* Every amount stays what the code's types hold, filled within U256.      *)
THEOREM TypeCorrect == Spec => []TypeOK
<1>1. IInv => TypeOK
  BY DEF IInv
<1> QED  BY <1>1, BoundsAlways, PTL

(* remaining_capacity: no sequence of matches takes more than the deposit. *)
THEOREM NeverOverfilledAlways == Spec => []NeverOverfilled
<1>1. IInv => NeverOverfilled
  BY DEF IInv
<1> QED  BY <1>1, BoundsAlways, PTL

(* proportional_min_shares_not_met: the limit price of an order holds over *)
(* all its partial fills, and a full fill yields at least min_shares.      *)
THEOREM MinimumHonouredAlways == Spec => []MinimumHonoured
<1>1. ASSUME NEW a \in Nat, NEW d \in Nat, NEW n \in Nat, d > 0, a * d >= n * d
      PROVE  a >= n
  <2>1. ASSUME n > a  PROVE FALSE
    <3>1. n * d > a * d
      BY <1>1, <2>1, Z3
    <3>2. n * d \in Nat /\ a * d \in Nat
      BY Z3
    <3> QED  BY <1>1, <3>1, <3>2, Z3
  <2> QED  BY <2>1, Z3
<1>2. IInv => MinimumHonoured
  <2> SUFFICES ASSUME IInv, NEW o \in Order
               PROVE  /\ minted[o] * Deposit[o] >= MinShares[o] * filled[o]
                      /\ filled[o] = Deposit[o] /\ filled[o] > 0 => minted[o] >= MinShares[o]
    BY DEF MinimumHonoured
  <2>1. minted[o] * Deposit[o] >= MinShares[o] * filled[o]
    BY DEF IInv, ProportionalMinimum
  <2>2. minted[o] \in Nat /\ Deposit[o] \in Nat /\ MinShares[o] \in Nat
    BY OrdersAssumption, RatesAssumption, SMT DEF IInv, TypeOK
  <2>3. ASSUME filled[o] = Deposit[o], filled[o] > 0  PROVE minted[o] >= MinShares[o]
    BY <1>1, <2>1, <2>2, <2>3
  <2> QED  BY <2>1, <2>3
<1> QED  BY <1>2, BoundsAlways, PTL

(* MAX_SOURCE_FEE_BPS caps the fees of an order over all its fills.        *)
THEOREM FeesWithinCapAlways == Spec => []FeesWithinCap
<1>1. IInv => FeesWithinCap
  BY DEF IInv
<1> QED  BY <1>1, BoundsAlways, PTL

-----------------------------------------------------------------------------
(* The sums of CollateralConserved.  MapThenSumSet is a recursion over the  *)
(* subsets of a finite set that takes out a chosen element at a time.      *)

Pick(s) == CHOOSE x \in s : TRUE

\* The equation of the recursion in MapThenSumSet.
Summed(f, g, s) == IF s = {} THEN 0 ELSE f[Pick(s)] + g[s \ {Pick(s)}]

LEMMA SubsetFacts ==
  ASSUME NEW S, IsFiniteSet(S), NEW s \in SUBSET S
  PROVE  /\ IsFiniteSet(s) /\ Cardinality(s) \in Nat /\ Cardinality(s) <= Cardinality(S)
         /\ Cardinality(s) = 0 <=> s = {}
         /\ s # {} => /\ Pick(s) \in s
                      /\ s \ {Pick(s)} \in SUBSET S
                      /\ Cardinality(s \ {Pick(s)}) = Cardinality(s) - 1
<1>1. IsFiniteSet(s) /\ Cardinality(s) <= Cardinality(S)
  BY FS_Subset
<1>2. s # {} => Pick(s) \in s
  BY DEF Pick
<1> QED BY <1>1, <1>2, FS_CardinalityType, FS_EmptySet, FS_RemoveElement

LEMMA TotalIs ==
  ASSUME NEW f, NEW S
  PROVE  Total(f, S) = (CHOOSE g : g = [s \in SUBSET S |-> Summed(f, g, s)])[S]
BY DEF Total, MapThenSumSet, MapThenFoldSet, Summed, Pick

LEMMA TotalDef ==
  ASSUME NEW f, NEW S, IsFiniteSet(S)
  PROVE  \E g : g[S] = Total(f, S) /\ \A s \in SUBSET S : g[s] = Summed(f, g, s)
<1> DEFINE Dom(n) == {s \in SUBSET S : Cardinality(s) <= n}
           N == {n \in Nat : \E g : g = [s \in Dom(n) |-> Summed(f, g, s)]}
<1>1. \A s \in SUBSET S :
         /\ Cardinality(s) \in Nat /\ Cardinality(s) <= Cardinality(S)
         /\ Cardinality(s) = 0 <=> s = {}
         /\ s # {} => s \ {Pick(s)} \in SUBSET S
         /\ s # {} => Cardinality(s \ {Pick(s)}) = Cardinality(s) - 1
  BY SubsetFacts
<1>2. 0 \in N
  <2> DEFINE g == [s \in Dom(0) |-> 0]
  <2>1. ASSUME NEW s \in Dom(0) PROVE Summed(f, g, s) = 0
    BY <1>1, SMT DEF Summed
  <2>2. g = [s \in Dom(0) |-> Summed(f, g, s)]
    <3> HIDE DEF Dom
    <3> QED BY <2>1
  <2> HIDE DEF g
  <2> QED BY <2>2
<1>3. ASSUME NEW n \in Nat, n \in N PROVE n + 1 \in N
  <2>1. PICK g : g = [s \in Dom(n) |-> Summed(f, g, s)]
    BY <1>3
  <2> DEFINE h == [s \in Dom(n + 1) |-> IF s \in Dom(n) THEN g[s] ELSE Summed(f, g, s)]
  <2>2. ASSUME NEW s \in Dom(n + 1) PROVE h[s] = Summed(f, h, s)
    <3>1. h[s] = Summed(f, g, s)
      <4>1. s \in Dom(n) => g[s] = Summed(f, g, s)
        BY <2>1
      <4> QED BY <4>1
    <3>2. s # {} => s \ {Pick(s)} \in Dom(n) /\ s \ {Pick(s)} \in Dom(n + 1)
      BY <1>1, SMT
    <3>3. s # {} => h[s \ {Pick(s)}] = g[s \ {Pick(s)}]
      <4> HIDE DEF Dom
      <4> QED BY <3>2
    <3> HIDE DEF h
    <3> QED BY <3>1, <3>3 DEF Summed
  <2>3. h = [s \in Dom(n + 1) |-> h[s]]
    OBVIOUS
  <2>4. h = [s \in Dom(n + 1) |-> Summed(f, h, s)]
    <3> HIDE DEF h, Dom
    <3> QED BY <2>2, <2>3
  <2> HIDE DEF h
  <2> QED BY <2>4, SMT
<1>4. Cardinality(S) \in N
  <2> HIDE DEF N
  <2> QED BY <1>1, <1>2, <1>3, SetInduction
<1>5. Dom(Cardinality(S)) = SUBSET S
  BY <1>1
<1> HIDE DEF Dom
<1> DEFINE g == CHOOSE g : g = [s \in SUBSET S |-> Summed(f, g, s)]
<1>6. g = [s \in SUBSET S |-> Summed(f, g, s)]
  <2>1. \E h : h = [s \in SUBSET S |-> Summed(f, h, s)]
    BY <1>4, <1>5
  <2> QED BY <2>1
<1>7. g[S] = Total(f, S)
  BY TotalIs
<1> HIDE DEF g
<1>8. \A s \in SUBSET S : g[s] = Summed(f, g, s)
  BY <1>6
<1> QED BY <1>7, <1>8

LEMMA TotalZero ==
  ASSUME NEW S, IsFiniteSet(S), NEW f, \A o \in S : f[o] = 0
  PROVE  Total(f, S) = 0
<1>1. PICK g : g[S] = Total(f, S) /\ \A s \in SUBSET S : g[s] = Summed(f, g, s)
  BY TotalDef
<1> DEFINE N == {n \in Nat : \A s \in SUBSET S : Cardinality(s) = n => g[s] = 0}
<1>2. 0 \in N
  <2>1. ASSUME NEW s \in SUBSET S, Cardinality(s) = 0 PROVE g[s] = 0
    BY <1>1, <2>1, SubsetFacts DEF Summed
  <2> QED BY <2>1
<1>3. ASSUME NEW n \in Nat, n \in N PROVE n + 1 \in N
  <2>1. ASSUME NEW s \in SUBSET S, Cardinality(s) = n + 1 PROVE g[s] = 0
    <3>1. s # {} /\ Pick(s) \in S /\ s \ {Pick(s)} \in SUBSET S /\ Cardinality(s \ {Pick(s)}) = n
      BY <2>1, SubsetFacts, SMT
    <3>2. g[s \ {Pick(s)}] = 0
      BY <1>3, <3>1
    <3> QED BY <1>1, <3>1, <3>2, SMT DEF Summed
  <2> QED BY <2>1, SMT
<1>4. Cardinality(S) \in N
  <2> HIDE DEF N
  <2> QED BY <1>2, <1>3, SetInduction, SubsetFacts
<1> QED BY <1>1, <1>4

\* Two entries change, by a and by b.
Changed(D, f, h, y, n, a, b) ==
  /\ f \in [D -> Int] /\ h \in [D -> Int]
  /\ y \in D /\ n \in D /\ y # n /\ a \in Int /\ b \in Int
  /\ \A o \in D : h[o] = f[o] + (IF o = y THEN a ELSE IF o = n THEN b ELSE 0)

LEMMA TotalChange ==
  ASSUME NEW D, NEW S, IsFiniteSet(S), S \subseteq D,
         NEW f, NEW h, NEW y, NEW n, NEW a, NEW b, Changed(D, f, h, y, n, a, b)
  PROVE  /\ Total(f, S) \in Int
         /\ Total(h, S) = Total(f, S) + (IF y \in S THEN a ELSE 0) + (IF n \in S THEN b ELSE 0)
<1>0. /\ f \in [D -> Int] /\ h \in [D -> Int]
      /\ y \in D /\ n \in D /\ y # n /\ a \in Int /\ b \in Int
      /\ \A o \in D : h[o] = f[o] + (IF o = y THEN a ELSE IF o = n THEN b ELSE 0)
  BY DEF Changed
<1> DEFINE A(s) == IF y \in s THEN a ELSE 0
           B(s) == IF n \in s THEN b ELSE 0
<1>1. PICK g : g[S] = Total(f, S) /\ \A s \in SUBSET S : g[s] = Summed(f, g, s)
  BY TotalDef
<1>2. PICK k : k[S] = Total(h, S) /\ \A s \in SUBSET S : k[s] = Summed(h, k, s)
  BY TotalDef
<1> DEFINE N == {m \in Nat : \A s \in SUBSET S :
                    Cardinality(s) = m => g[s] \in Int /\ k[s] = g[s] + A(s) + B(s)}
<1>3. 0 \in N
  <2>1. ASSUME NEW s \in SUBSET S, Cardinality(s) = 0 PROVE g[s] \in Int /\ k[s] = g[s] + A(s) + B(s)
    <3>1. s = {}
      BY <2>1, SubsetFacts
    <3>2. g[s] = 0 /\ k[s] = 0
      BY <1>1, <1>2, <3>1 DEF Summed
    <3> QED BY <3>1, <3>2, SMT
  <2> QED BY <2>1
<1>4. ASSUME NEW m \in Nat, m \in N PROVE m + 1 \in N
  <2>1. ASSUME NEW s \in SUBSET S, Cardinality(s) = m + 1
        PROVE  g[s] \in Int /\ k[s] = g[s] + A(s) + B(s)
    <3> DEFINE x == Pick(s)
               r == s \ {Pick(s)}
    <3>1. s # {} /\ x \in s /\ x \in D /\ r \in SUBSET S /\ Cardinality(r) = m
      BY <2>1, SubsetFacts, SMT
    <3>2. g[r] \in Int /\ k[r] = g[r] + A(r) + B(r)
      BY <1>4, <3>1
    <3>3. g[s] = f[x] + g[r] /\ k[s] = h[x] + k[r]
      BY <1>1, <1>2, <3>1 DEF Summed
    <3>4. f[x] \in Int /\ h[x] = f[x] + (IF x = y THEN a ELSE IF x = n THEN b ELSE 0)
      BY <1>0, <3>1
    <3>5. /\ A(s) = A(r) + (IF x = y THEN a ELSE 0) /\ B(s) = B(r) + (IF x = n THEN b ELSE 0)
          /\ A(s) \in Int /\ B(s) \in Int /\ A(r) \in Int /\ B(r) \in Int
      BY <1>0, <3>1, SMT
    <3> HIDE DEF x, r, A, B
    <3> QED BY <1>0, <3>2, <3>3, <3>4, <3>5, SMTT(30)
  <2> QED BY <2>1, SMT
<1>5. Cardinality(S) \in N
  <2> HIDE DEF N
  <2>1. Cardinality(S) \in Nat
    BY SubsetFacts
  <2> QED BY <1>3, <1>4, <2>1, SetInduction
<1> QED BY <1>1, <1>2, <1>5

(* The orders of one side, and those of the other.                         *)
Yes == {o \in Order : IsYes[o]}
No  == Order \ Yes

(* The three equations of CollateralConserved over these two sets.         *)
Conserved ==
  /\ Total(filled, Order) = Total(minted, Order) + paid.creator + paid.resolver
  /\ Total(minted, Yes) = Total(filled, No) - Total(fees, No)
  /\ Total(minted, No) = Total(filled, Yes) - Total(fees, Yes)

LEMMA SidesFinite == IsFiniteSet(Order) /\ IsFiniteSet(Yes) /\ IsFiniteSet(No)
<1>1. IsFiniteSet(Order) /\ Yes \subseteq Order /\ No \subseteq Order
  BY OrdersAssumption DEF Yes, No
<1> QED  BY <1>1, FS_Subset

(* A match adds a to the entry of the YES order and b to the NO order's.   *)
MatchAdds(f, h, y, n, a, b) ==
  /\ f \in [Order -> Int] /\ h \in [Order -> Int]
  /\ y \in Yes /\ n \in No /\ a \in Int /\ b \in Int
  /\ h = [f EXCEPT ![y] = @ + a, ![n] = @ + b]

(* What a match adds to the sum over the YES orders, the NO orders or all. *)
LEMMA MatchTotals ==
  ASSUME NEW f, NEW h, NEW y, NEW n, NEW a, NEW b, MatchAdds(f, h, y, n, a, b)
  PROVE  /\ Total(f, Order) \in Int /\ Total(f, Yes) \in Int /\ Total(f, No) \in Int
         /\ Total(h, Order) = Total(f, Order) + a + b
         /\ Total(h, Yes) = Total(f, Yes) + a
         /\ Total(h, No) = Total(f, No) + b
<1>0. /\ f \in [Order -> Int] /\ h \in [Order -> Int]
      /\ y \in Yes /\ n \in No /\ a \in Int /\ b \in Int
      /\ h = [f EXCEPT ![y] = @ + a, ![n] = @ + b]
  BY DEF MatchAdds
<1>1. /\ y \in Order /\ n \in Order /\ y # n /\ y \notin No /\ n \notin Yes
      /\ Yes \subseteq Order /\ No \subseteq Order
  BY <1>0 DEF Yes, No
<1>2. Changed(Order, f, h, y, n, a, b)
  BY <1>0, <1>1, SMT DEF Changed
<1>3. ASSUME NEW S, IsFiniteSet(S), S \subseteq Order
      PROVE  /\ Total(f, S) \in Int
             /\ Total(h, S) = Total(f, S) + (IF y \in S THEN a ELSE 0) + (IF n \in S THEN b ELSE 0)
  BY <1>2, <1>3, TotalChange, SMT
<1>4. Total(f, Order) \in Int /\ Total(h, Order) = Total(f, Order) + a + b
  BY <1>0, <1>1, <1>3, SidesFinite
<1>5. Total(f, Yes) \in Int /\ Total(h, Yes) = Total(f, Yes) + a
  <2>1. a \in Int /\ b \in Int /\ y \in Yes /\ n \in No
    BY <1>0
  <2>2. /\ Total(f, Yes) \in Int
        /\ Total(h, Yes) = Total(f, Yes) + (IF y \in Yes THEN a ELSE 0) + (IF n \in Yes THEN b ELSE 0)
    BY <1>1, <1>3, SidesFinite
  <2> QED  BY <1>1, <2>1, <2>2, SMT
<1>6. Total(f, No) \in Int /\ Total(h, No) = Total(f, No) + b
  <2>1. a \in Int /\ b \in Int /\ y \in Yes /\ n \in No
    BY <1>0
  <2>2. /\ Total(f, No) \in Int
        /\ Total(h, No) = Total(f, No) + (IF y \in No THEN a ELSE 0) + (IF n \in No THEN b ELSE 0)
    BY <1>1, <1>3, SidesFinite
  <2> QED  BY <1>1, <2>1, <2>2, SMT
<1> QED  BY <1>4, <1>5, <1>6

(* An admitted match moves the same amounts on both sides of each equation.*)
LEMMA AdmitsConserved ==
  ASSUME IInv, IInv', Conserved, NEW i \in Input, EvaluateAdmits(i)
  PROVE  Conserved'
<1> DEFINE y == i.yes
           n == i.no
           Y == yes_side(i)
           N == no_side(i)
           g == i.yes_fill
           k == i.no_fill
<1>1. executable(i)
  BY DEF EvaluateAdmits
<1>2. y \in Yes /\ n \in No /\ g \in Nat /\ k \in Nat
  <2>1. y \in Order /\ n \in Order /\ g \in Fill /\ k \in Fill
    BY DEF Input
  <2>2. Fill \subseteq Nat
    BY RatesAssumption, SMT
  <2>3. IsYes[y] /\ ~IsYes[n]
    BY <1>1 DEF executable, BasicMatchAdmits
  <2> QED  BY <2>1, <2>2, <2>3 DEF Yes, No
<1>3. /\ Y.fee \in Nat /\ Y.creator \in Nat /\ Y.resolver \in Nat /\ Y.net \in Nat
      /\ g = Y.net + Y.fee /\ Y.fee = Y.creator + Y.resolver
  BY <1>1, <1>2, AdmittedSide DEF yes_side
<1>4. /\ N.fee \in Nat /\ N.creator \in Nat /\ N.resolver \in Nat /\ N.net \in Nat
      /\ k = N.net + N.fee /\ N.fee = N.creator + N.resolver
  BY <1>1, <1>2, AdmittedSide DEF no_side
<1>5. /\ filled' = [filled EXCEPT ![y] = @ + g, ![n] = @ + k]
      /\ minted' = [minted EXCEPT ![y] = @ + N.net, ![n] = @ + Y.net]
      /\ fees' = [fees EXCEPT ![y] = @ + Y.fee, ![n] = @ + N.fee]
      /\ paid' = [creator |-> paid.creator + Y.creator + N.creator,
                  resolver |-> paid.resolver + Y.resolver + N.resolver]
  BY DEF EvaluateAdmits, Execute, yes_shares_minted, no_shares_minted
<1> HIDE DEF y, n, Y, N, g, k
<1>6. /\ filled \in [Order -> Int] /\ minted \in [Order -> Int] /\ fees \in [Order -> Int]
      /\ filled' \in [Order -> Int] /\ minted' \in [Order -> Int] /\ fees' \in [Order -> Int]
      /\ paid.creator \in Nat /\ paid.resolver \in Nat
  BY SMT DEF IInv, TypeOK
<1>7. /\ Total(filled, Order) \in Int /\ Total(filled, Yes) \in Int /\ Total(filled, No) \in Int
      /\ Total(filled', Order) = Total(filled, Order) + g + k
      /\ Total(filled', Yes) = Total(filled, Yes) + g
      /\ Total(filled', No) = Total(filled, No) + k
  <2>1. MatchAdds(filled, filled', y, n, g, k)
    BY <1>2, <1>5, <1>6, SMT DEF MatchAdds
  <2> QED  BY <2>1, MatchTotals, SMT
<1>8. /\ Total(minted, Order) \in Int /\ Total(minted, Yes) \in Int /\ Total(minted, No) \in Int
      /\ Total(minted', Order) = Total(minted, Order) + N.net + Y.net
      /\ Total(minted', Yes) = Total(minted, Yes) + N.net
      /\ Total(minted', No) = Total(minted, No) + Y.net
  <2>1. MatchAdds(minted, minted', y, n, N.net, Y.net)
    BY <1>2, <1>3, <1>4, <1>5, <1>6, SMTT(30) DEF MatchAdds
  <2> QED  BY <2>1, MatchTotals, SMTT(30)
<1>9. /\ Total(fees, Yes) \in Int /\ Total(fees, No) \in Int
      /\ Total(fees', Yes) = Total(fees, Yes) + Y.fee
      /\ Total(fees', No) = Total(fees, No) + N.fee
  <2>1. MatchAdds(fees, fees', y, n, Y.fee, N.fee)
    BY <1>2, <1>3, <1>4, <1>5, <1>6, SMT DEF MatchAdds
  <2> QED  BY <2>1, MatchTotals, SMTT(30)
<1>10. /\ paid'.creator = paid.creator + Y.creator + N.creator
       /\ paid'.resolver = paid.resolver + Y.resolver + N.resolver
  BY <1>5
<1>11. Total(filled', Order) = Total(minted', Order) + paid'.creator + paid'.resolver
  <2>1. Total(filled, Order) = Total(minted, Order) + paid.creator + paid.resolver
    BY DEF Conserved
  <2>2. g + k = Y.net + Y.creator + Y.resolver + N.net + N.creator + N.resolver
    BY <1>2, <1>3, <1>4, SMTT(30)
  <2> QED  BY <1>2, <1>3, <1>4, <1>6, <1>7, <1>8, <1>10, <2>1, <2>2, SMTT(30)
<1>12. Total(minted', Yes) = Total(filled', No) - Total(fees', No)
  BY <1>2, <1>4, <1>7, <1>8, <1>9, SMTT(30) DEF Conserved
<1>13. Total(minted', No) = Total(filled', Yes) - Total(fees', Yes)
  BY <1>2, <1>3, <1>7, <1>8, <1>9, SMTT(30) DEF Conserved
<1> QED  BY <1>11, <1>12, <1>13 DEF Conserved

(* split_prediction_fx_fees and the crossing of the nets: what the makers  *)
(* gave is what was minted and paid out in fees, to the unit, whatever the *)
(* rates and however the fills are split.                                  *)
THEOREM CollateralConservedAlways == Spec => []CollateralConserved
<1>1. Init => Conserved
  <2> SUFFICES ASSUME Init PROVE Conserved
    OBVIOUS
  <2>1. ASSUME NEW S \in {Order, Yes, No}
        PROVE  Total(filled, S) = 0 /\ Total(minted, S) = 0 /\ Total(fees, S) = 0
    <3>1. IsFiniteSet(S) /\ S \subseteq Order
      BY SidesFinite DEF Yes, No
    <3>2. \A o \in S : filled[o] = 0 /\ minted[o] = 0 /\ fees[o] = 0
      BY <3>1 DEF Init
    <3> QED  BY <3>1, <3>2, TotalZero
  <2>2. paid.creator = 0 /\ paid.resolver = 0
    BY DEF Init
  <2> QED  BY <2>1, <2>2, SMT DEF Conserved
<1>2. IInv /\ IInv' /\ Conserved /\ [Next]_vars => Conserved'
  <2> SUFFICES ASSUME IInv, IInv', Conserved, [Next]_vars PROVE Conserved'
    OBVIOUS
  <2>1. ASSUME NEW i \in Input, EvaluateAdmits(i) PROVE Conserved'
    BY <2>1, AdmitsConserved
  <2>2. CASE UNCHANGED <<filled, minted, fees, paid>>
    BY <2>2 DEF Conserved
  <2> QED  BY <2>1, <2>2 DEF Next, Evaluate, EvaluateFails, EvaluateRefuses, Tick, Resolve, vars
<1>3. Conserved => CollateralConserved
  BY DEF Conserved, CollateralConserved, Yes, No
<1> QED  BY <1>1, <1>2, <1>3, BoundsAlways, PTL DEF Spec

=============================================================================

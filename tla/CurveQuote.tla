----------------------------- MODULE CurveQuote -----------------------------
(***************************************************************************)
(* rust/src/simulation/curve.rs: a StableSwap quote.  Two Newton loops run *)
(* one after the other, for the invariant d of the present balances and    *)
(* for the balance y that keeps it; a step of this module is one iteration *)
(* of one of them.                                                         *)
(***************************************************************************)
EXTENDS FixedWidth, Sequences

CONSTANT NewtonLimit      \* 255 in the code

CurveSnapshot == [balances : Seq(0 .. U256Max), A : 0 .. U256Max, fee_bps : Nat]

VARIABLES stage,          \* "start", "d", "y", "ok" or "err"
          quote,          \* the call: pool, i, j (from 1) and amount_in
          d, y,
          newton,         \* iterations of the present loop
          answer          \* amount out

curveVars == <<stage, quote, d, y, newton, answer>>

xp  == quote.pool.balances
coins == Len(xp)
ann == quote.pool.A * coins
x   == xp[quote.i] + quote.amount_in

(* The sum of the balances, coin skip left out (0 leaves out none).        *)
SumBut(balances, skip) ==
    LET sum[k \in 0 .. coins] ==
            IF k = 0 THEN 0 ELSE IF k = skip THEN sum[k - 1] ELSE sum[k - 1] + balances[k]
    IN  sum[coins]

(* The failure of a checked operand is that of the whole.                  *)
Guarded(vals, val) == IF Err \in vals THEN Err ELSE val

(* d, times d and divided by n x_k for one coin k after the other, each    *)
(* quotient truncated.                                                     *)
DivideBy(balances, skip) ==
    LET part[k \in 0 .. coins] ==
            IF k = 0 THEN d
            ELSE IF k = skip THEN part[k - 1]
            ELSE Guarded({part[k - 1], Checked(balances[k] * coins)},
                         mul_div(part[k - 1], d, balances[k] * coins))
    IN  part[coins]

\* Mutant: the denominator weighs d_p with n instead of n + 1.
NextDLight ==
    LET d_p == DivideBy(xp, 0)
        sum == SumBut(xp, 0)
        numerator == Checked(ann * sum + d_p * coins)
        denominator == Checked((ann - 1) * d + coins * d_p)
    IN  Guarded({d_p, numerator, denominator}, mul_div(numerator, d, denominator))

NextD ==
    LET d_p == DivideBy(xp, 0)
        sum == SumBut(xp, 0)
        numerator == Checked(ann * sum + d_p * coins)
        denominator == Checked((ann - 1) * d + (coins + 1) * d_p)
    IN  Guarded({d_p, numerator, denominator}, mul_div(numerator, d, denominator))

(* The balances with the input added to i's; the loop leaves out j's.      *)
Paid == [xp EXCEPT ![quote.i] = x]
c == LET c1 == DivideBy(Paid, quote.j)
     IN  Guarded({c1, Checked(ann * coins)}, mul_div(c1, d, ann * coins))
b == Checked(SumBut(Paid, quote.j) + d \div ann)

NextY ==
    LET numerator == Checked(y * y + c)
        denominator == 2 * y + b - d
    IN  IF Err \in {numerator, Checked(2 * y + b)} \/ denominator <= 0 THEN Err
        ELSE numerator \div denominator
-----------------------------------------------------------------------------
CurveInit(pools, indices, amounts) ==
    /\ stage = "start"
    /\ \E pool \in pools, i, j \in indices, a \in amounts :
          quote = [pool |-> pool, i |-> i, j |-> j, amount_in |-> a]
    /\ d = 0 /\ y = 0 /\ newton = 0 /\ answer = 0

CurveRejected ==
    \/ coins < 2
    \/ quote.i > coins \/ quote.j > coins \/ quote.i = quote.j
    \/ quote.amount_in = 0
    \/ quote.pool.fee_bps >= BpsDenom
    \/ quote.pool.A = 0
    \/ \E k \in 1 .. coins : xp[k] = 0
    \/ Err \in {Checked(x), Checked(SumBut(xp, 0)), Checked(ann)}

CurveStart ==
    /\ stage = "start"
    /\ IF CurveRejected THEN stage' = "err" /\ UNCHANGED d
                        ELSE stage' = "d" /\ d' = SumBut(xp, 0)
    /\ UNCHANGED <<quote, y, newton, answer>>

AbsDiff(m, n) == IF m > n THEN m - n ELSE n - m

IterateD ==
    /\ stage = "d"
    /\ \E next \in {NextD} :
          IF next = Err \/ (AbsDiff(next, d) > 1 /\ newton + 1 = NewtonLimit)
          THEN stage' = "err" /\ UNCHANGED <<d, y, newton>>
          ELSE /\ d' = next
               /\ IF AbsDiff(next, d) <= 1
                  THEN stage' = "y" /\ y' = next /\ newton' = 0
                  ELSE newton' = newton + 1 /\ UNCHANGED <<stage, y>>
    /\ UNCHANGED <<quote, answer>>

(* The fee is floor(dy * fee_bps / 10_000) and never exceeds dy.           *)
IterateY ==
    /\ stage = "y"
    /\ \E next \in {IF Err \in {c, b} THEN Err ELSE NextY} :
          LET dy == xp[quote.j] - next - 1
              settled == AbsDiff(next, y) <= 1
          IN  IF next = Err \/ (~settled /\ newton + 1 = NewtonLimit) \/ (settled /\ dy < 0)
              THEN stage' = "err" /\ UNCHANGED <<y, newton, answer>>
              ELSE /\ y' = next
                   /\ IF settled
                      THEN /\ stage' = "ok" /\ UNCHANGED newton
                           /\ answer' = dy - mul_div(dy, quote.pool.fee_bps, BpsDenom)
                      ELSE newton' = newton + 1 /\ UNCHANGED <<stage, answer>>
    /\ UNCHANGED <<quote, d>>

CurveNext == CurveStart \/ IterateD \/ IterateY

(* Any call on any pool.                                                   *)
CurveSpec == CurveInit(CurveSnapshot, Nat \ {0}, 0 .. U256Max) /\ [][CurveNext]_curveVars
-----------------------------------------------------------------------------
(* The divisors of d_p up to coin k multiplied, and what the truncations   *)
(* of d_p may cost up to coin k when d is m, on that scale.                *)
Divisors == LET by[k \in 0 .. coins] == IF k = 0 THEN 1 ELSE by[k - 1] * coins * xp[k]
            IN  by
Losses(m) == LET lost[k \in 0 .. coins] == IF k = 0 THEN 0 ELSE lost[k - 1] * m + Divisors[k]
             IN  lost

(* Whether m is at most the real root of the invariant's polynomial, or,   *)
(* with a slack, of the polynomial less the slack.                         *)
BelowD(m, slack) == m ^ (coins + 1) + Divisors[coins] * (ann - 1) * m
                        <= Divisors[coins] * ann * SumBut(xp, 0) + slack
BelowY(m) == m <= 0 \/ m * m + (b - d) * m <= c

(* The loop for y stops at the floor of the exact root of its quadratic or *)
(* one above, and the answer leaves the pool something of the coin it pays *)
(* out.                                                                    *)
LandsOnY == stage = "ok" => BelowY(y - 1) /\ ~BelowY(y + 1) /\ answer < xp[quote.j]

(* A Newton loop that stops because two iterates are a unit apart has      *)
(* found the root.  d is never below the floor of the exact root; it is    *)
(* more than one above only by what the truncated divisions of d_p         *)
(* account for, which is nothing in a balanced pool and two units or more  *)
(* in a very uneven one.                                                   *)
LandsOnRoot ==
    /\ stage \in {"y", "ok"} => BelowD(d - 1, Losses(d + 1)[coins]) /\ ~BelowD(d + 1, 0)
    /\ LandsOnY
=============================================================================

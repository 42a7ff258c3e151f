------------------------------ MODULE FullMath ------------------------------
(***************************************************************************)
(* rust/src/simulation/uniswap_v3_math/full_math.rs: a * b / d through a   *)
(* double-width product held in two words and a modular inverse, on words  *)
(* of 2^(NewtonSteps + 2) bits.  The code has six Newton steps and 256     *)
(* bits; each step doubles the bits of the inverse that are right, so the  *)
(* width and the number of steps shrink together.                          *)
(***************************************************************************)
EXTENDS Integers, Bitwise

CONSTANT NewtonSteps

VARIABLE operands      \* the arguments [a, b, denominator] of a call

Wide == 2 ^ (2 ^ (NewtonSteps + 2))
Word(x) == x % Wide
DivisionErr == -1

(* Most significant word of a * b, by the Chinese remainder theorem from   *)
(* the products modulo Wide and Wide - 1.                                  *)
HighWord(a, b) ==
    LET mm == (a * b) % (Wide - 1)
        prod_0 == Word(a * b)
    IN  Word(Word(mm - prod_0) - (IF mm < prod_0 THEN 1 ELSE 0))

\* Mutant: one Newton step is missing.
inverse_short(denominator) ==
    LET inv[n \in 0 .. NewtonSteps] ==
            IF n = 0 THEN Word(3 * denominator) ^^ 2
            ELSE IF n = NewtonSteps THEN inv[n - 1]
            ELSE Word(inv[n - 1] * Word(2 - denominator * inv[n - 1]))
    IN  inv[NewtonSteps]

(* Inverse of an odd number modulo Wide.                                   *)
inverse(denominator) ==
    LET inv[n \in 0 .. NewtonSteps] ==
            IF n = 0 THEN Word(3 * denominator) ^^ 2
            ELSE Word(inv[n - 1] * Word(2 - denominator * inv[n - 1]))
    IN  inv[NewtonSteps]

mul_div(a, b, denominator) ==
    LET low == Word(a * b)
        high == HighWord(a, b)
        remainder == (a * b) % denominator
        prod_1 == Word(high - (IF remainder > low THEN 1 ELSE 0))
        prod_0 == Word(low - remainder)
        twos == Word(-denominator) & denominator
        flipped == Word((Word(-twos) \div twos) + 1)
        exact == (prod_0 \div twos) | Word(prod_1 * flipped)
    IN  IF high = 0
        THEN IF denominator = 0 THEN DivisionErr ELSE low \div denominator
        ELSE IF denominator <= high THEN DivisionErr
        ELSE Word(exact * inverse(denominator \div twos))

FullInit(samples) ==
    operands \in [a : samples, b : samples, denominator : samples]
-----------------------------------------------------------------------------
(* The two-word division returns the floor of the exact quotient, and an   *)
(* error exactly when the quotient does not fit a word or the divisor is   *)
(* zero: carries between the two words, even divisors and the last Newton  *)
(* step included.                                                          *)
MulDivExact ==
    LET a == operands.a
        b == operands.b
        d == operands.denominator
    IN  mul_div(a, b, d) = IF d = 0 \/ (a * b) \div d >= Wide
                           THEN DivisionErr
                           ELSE (a * b) \div d
=============================================================================

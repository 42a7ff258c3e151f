----------------------------- MODULE FixedWidth -----------------------------
(***************************************************************************)
(* The unsigned arithmetic the pool simulations share: U256 with its       *)
(* largest value as a constant, and the checked products and quotients of  *)
(* rust/src/utils/u256.rs.                                                 *)
(***************************************************************************)
EXTENDS Integers

CONSTANTS U256Max,
          BpsDenom        \* 10_000 basis points

ASSUME WidthAssumption == U256Max \in Nat /\ BpsDenom \in Nat \ {0}

(* The error of a Result or the None of a checked operation.               *)
Err == -1

(* What a checked_add or checked_mul gives for the exact value x.          *)
Checked(x) == IF x > U256Max THEN Err ELSE x

(* floor(a * b / denominator), the product being taken in double width.    *)
mul_div(a, b, denominator) ==
    IF denominator = 0 THEN Err ELSE Checked((a * b) \div denominator)
=============================================================================

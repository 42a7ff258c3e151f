----------------------- MODULE MCSignedOrderAdmission -----------------------
(***************************************************************************)
(* One YES order and two NO orders.  A basis point is a third, so that     *)
(* every fill rounds; U256 holds 0..15, so that the products of the checks *)
(* overflow; n1's deadline falls before the market's expiry.               *)
(***************************************************************************)
EXTENDS SignedOrderAdmission

CONSTANTS y1, n1, n2

Orders == {y1, n1, n2}
Yes == [o \in Orders |-> o = y1]
Deposits == [o \in Orders |-> CASE o = y1 -> 5 [] o = n1 -> 2 [] o = n2 -> 3]
Minimums == [o \in Orders |-> CASE o = y1 -> 3 [] o = n1 -> 1 [] o = n2 -> 0]
Deadlines == [o \in Orders |-> CASE o = y1 -> 2 [] o = n1 -> 0 [] o = n2 -> 2]

=============================================================================

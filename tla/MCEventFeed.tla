----------------------------- MODULE MCEventFeed -----------------------------
(* Instances of EventFeed for TLC. *)
EXTENDS EventFeed

TwoPools == [n \in 1..MaxLog |-> IF n = 2 THEN "b" ELSE "a"]
=============================================================================

---------------------------- MODULE MCLiveBackend ----------------------------
(* Instances of LiveBackend for TLC.                                          *)
EXTENDS LiveBackend

OneLane  == [p \in Plan |-> "Kairos"]    \* falls back to Default when unconfigured
\* Two lanes for two or three plans.
TwoLanes == [p \in Plan |-> IF p = CHOOSE q \in Plan : TRUE THEN "Timeboost" ELSE "Default"]
AtOne    == [p \in Plan |-> 1]
Profits  == [p \in Plan |-> 1]
=============================================================================

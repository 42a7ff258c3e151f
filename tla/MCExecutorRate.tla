--------------------------- MODULE MCExecutorRate ----------------------------
(* ExecutorActor with interchangeable plans that all reach the rate ceiling. *)
EXTENDS ExecutorActor, TLC

Fields == [p \in Plan |-> [deadline_ms |-> MaxTime, dry_run |-> FALSE,
                           require_preflight |-> FALSE, admission_hash |-> "Sealed",
                           submission_lane |-> "Default", timeboost_bid |-> 0, floor |-> 1]]

PlanSymmetry == Permutations(Plan)
=============================================================================

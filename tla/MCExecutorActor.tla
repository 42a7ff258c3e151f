--------------------------- MODULE MCExecutorActor ---------------------------
(* Instances of ExecutorActor for TLC: between them the plans take every way  *)
(* through run_one_plan's checks.                                            *)
EXTENDS ExecutorActor

Ordinary == [deadline_ms |-> 1, dry_run |-> FALSE, require_preflight |-> TRUE,
             admission_hash |-> "Sealed", submission_lane |-> "Default",
             timeboost_bid |-> 0, floor |-> 1]
Express  == [Ordinary EXCEPT !.submission_lane = "Timeboost",
                             !.timeboost_bid = 1, !.floor = 2]

Fields == [unchecked |-> [Ordinary EXCEPT !.require_preflight = FALSE],
           dryrun    |-> [Ordinary EXCEPT !.dry_run = TRUE, !.require_preflight = FALSE,
                                          !.admission_hash = "None", !.deadline_ms = 0],
           unsealed  |-> [Ordinary EXCEPT !.admission_hash = "Zero"],
           express   |-> Express,
           overbid   |-> [Express EXCEPT !.timeboost_bid = 2]]

AllPlans  == DOMAIN Fields
SmallDeltas == 1..2
=============================================================================

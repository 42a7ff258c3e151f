------------------------- MODULE SettlementProtocol -------------------------
(***************************************************************************)
(* What the executor promises the coordinator about the Settlements of a   *)
(* Plan, without saying how they come about: a Plan is settled either in   *)
(* one step that carries no transaction hash, or in two, Submitted and     *)
(* then an outcome, both carrying the hash.  Plans are worked on one at a  *)
(* time.  ExecutorActor implements this specification.                     *)
(***************************************************************************)
EXTENDS Sequences

CONSTANT Plan

VARIABLE settled    \* settled[p]: the Settlements emitted for p, in order

\* Outcomes of a plan that was never broadcast (Settlement.tx_hash is None).
UnsentStatus == {"Dropped", "PreflightFailed", "PreflightPassed", "BroadcastFailed"}

\* Outcomes of a plan whose transaction was handed to an endpoint.
SentStatus == {"Included", "Reverted", "Replaced", "Dropped", "BroadcastFailed"}

Settlement(s, h) == [status |-> s, hash |-> h]

Submitted == Settlement("Submitted", TRUE)

\* Plans with a transaction in flight: announced, outcome not yet known.
InFlight == {p \in Plan : settled[p] = <<Submitted>>}

Init == settled = [p \in Plan |-> <<>>]

\* The plan ends without a broadcast.
Refuse(p, s) ==
    /\ InFlight = {}
    /\ settled[p] = <<>>
    /\ settled' = [settled EXCEPT ![p] = <<Settlement(s, FALSE)>>]

\* The transaction is out.
Announce(p) ==
    /\ InFlight = {}
    /\ settled[p] = <<>>
    /\ settled' = [settled EXCEPT ![p] = <<Submitted>>]

\* The fate of the announced transaction.
Conclude(p, s) ==
    /\ settled[p] = <<Submitted>>
    /\ settled' = [settled EXCEPT ![p] = Append(@, Settlement(s, TRUE))]

Next ==
    \E p \in Plan :
        \/ \E s \in UnsentStatus : Refuse(p, s)
        \/ Announce(p)
        \/ \E s \in SentStatus : Conclude(p, s)

Spec == Init /\ [][Next]_settled
=============================================================================

---------------------------- MODULE ExecutorActor ----------------------------
(***************************************************************************)
(* The executor of rust/src/executor/mod.rs: the router that moves Plans    *)
(* from the coordinator's broadcast bus to the executor's queue            *)
(* (serve_message_bus), and the actor that takes them one at a time        *)
(* through deadline check, submission policy, pre-flight, rate ceiling,    *)
(* submission and inclusion watch (serve_with_rate_ceiling, run_one_plan). *)
(*                                                                         *)
(* The three calls of the ExecutorBackend trait are awaits: each is a      *)
(* state of the actor that any other step may interleave with, and returns *)
(* any result its type allows.  LiveBackend models what the live           *)
(* implementation returns.                                                 *)
(***************************************************************************)
EXTENDS Integers, Sequences, FiniteSets, Functions, SequenceOps

CONSTANTS
    Plan,          \* the Plans a coordinator may send
    Other,         \* a bus message that is not a Plan (heartbeat, settlement...)
    Field,         \* Field[p]: the fields of Plan p that run_one_plan reads
    Delta,         \* balance deltas a pre-flight simulation may return
    Ceiling,       \* tx_rate_ceiling_per_min; 0 disables the limiter
    Interval,      \* ticks in which the limiter regains one broadcast
    BusCapacity,   \* slots of the coordinator's broadcast channel
    QueueCapacity, \* slots of the private plan queue (1024 in the code)
    MaxPublished,  \* bound: messages published on the bus
    MaxTime        \* bound: last tick of the clock

Lane == {"Default", "PrivateRelay", "Kairos", "Timeboost"}

PlanRecord == [deadline_ms       : Nat,
               dry_run           : BOOLEAN,
               require_preflight : BOOLEAN,
               admission_hash    : {"None", "Zero", "Sealed"},
               submission_lane   : Lane,
               timeboost_bid     : Nat,
               floor             : Int]

ASSUME PlanAssumption == Field \in [Plan -> PlanRecord] /\ Other \notin Plan
ASSUME DeltaAssumption == Delta \subseteq Int
ASSUME LimiterAssumption == Ceiling \in Nat /\ Interval \in Nat
ASSUME BoundAssumption ==
    /\ BusCapacity \in Nat \ {0}
    /\ QueueCapacity \in Nat \ {0}
    /\ MaxPublished \in Nat
    /\ MaxTime \in Nat

VARIABLES
    now,         \* the clock
    bus,         \* messages the router's receiver has not read yet
    lagged,      \* messages overwritten since the receiver last looked
    busOpen,     \* some sender of the bus is alive
    published,   \* history: the Plans sent on the bus, in order
    overwritten, \* history: Plans lost because the receiver lagged
    router,      \* "recv", "send" (waiting for queue space), "drain", "stopped"
    routing,     \* the Plan held by the router while it waits to send
    planQ,       \* the private plan queue
    queueOpen,   \* the router still holds plan_tx
    actor,       \* "recv", "preflight", "submit", "watch", "stopped"
    current,     \* the Plan being run, as a sequence of at most one
    settled,     \* settled[p]: the Settlements emitted for p, in order
    tat,         \* the rate limiter's theoretical arrival time
    simulated,   \* history: Plans whose pre-flight met their floor
    attempts     \* history: when each broadcast attempt was let through

busVars == <<bus, lagged, busOpen, published, overwritten>>
routerVars == <<router, routing, queueOpen>>
actorVars == <<actor, current, settled, tat, simulated, attempts>>
vars == <<now, busVars, routerVars, planQ, actorVars>>

Protocol == INSTANCE SettlementProtocol

Init ==
    /\ now = 0
    /\ bus = <<>> /\ lagged = 0 /\ busOpen = TRUE
    /\ published = <<>> /\ overwritten = {}
    /\ router = "recv" /\ routing = <<>> /\ queueOpen = TRUE
    /\ planQ = <<>>
    /\ actor = "recv" /\ current = <<>>
    /\ settled = [p \in Plan |-> <<>>]
    /\ tat = 0
    /\ simulated = {}
    /\ attempts = <<>>

-----------------------------------------------------------------------------
(* The coordinator's side of the bus, and the clock. *)

\* A send on a full broadcast channel overwrites the oldest unread message;
\* the receiver learns how many it lost on its next recv.
Publish(m) ==
    /\ busOpen
    /\ IF Len(bus) < BusCapacity
       THEN /\ bus' = Append(bus, m)
            /\ UNCHANGED <<lagged, overwritten>>
       ELSE /\ bus' = Append(Tail(bus), m)
            /\ lagged' = lagged + 1
            /\ overwritten' = overwritten \cup ({Head(bus)} \cap Plan)
    /\ UNCHANGED <<now, busOpen, routerVars, planQ, actorVars>>

PublishPlan(p) ==
    /\ Len(published) < MaxPublished
    /\ p \notin Range(published)
    /\ published' = Append(published, p)
    /\ Publish(p)

PublishOther ==
    /\ Other \notin Range(bus)     \* bound: one unread foreign message at a time
    /\ UNCHANGED published
    /\ Publish(Other)

CloseBus ==
    /\ busOpen
    /\ busOpen' = FALSE
    /\ UNCHANGED <<now, bus, lagged, published, overwritten, routerVars, planQ, actorVars>>

Tick ==
    /\ now < MaxTime
    /\ now' = now + 1
    /\ UNCHANGED <<busVars, routerVars, planQ, actorVars>>
-----------------------------------------------------------------------------
(* serve_message_bus *)

\* Mutant: a lagging router starts over with an empty receiver.
RouterLaggedResubscribes ==
    /\ router = "recv" /\ lagged > 0
    /\ lagged' = 0 /\ bus' = <<>>
    /\ UNCHANGED <<now, busOpen, published, overwritten, routerVars, planQ, actorVars>>

\* RecvError::Lagged: warn and continue with the oldest message still held.
RouterLagged ==
    /\ router = "recv" /\ lagged > 0
    /\ lagged' = 0
    /\ UNCHANGED <<now, bus, busOpen, published, overwritten, routerVars, planQ, actorVars>>

RouterPlan ==
    /\ router = "recv" /\ lagged = 0 /\ bus # <<>>
    /\ Head(bus) \in Plan
    /\ bus' = Tail(bus)
    /\ router' = "send" /\ routing' = <<Head(bus)>>
    /\ UNCHANGED <<now, lagged, busOpen, published, overwritten, queueOpen, planQ, actorVars>>

RouterIgnore ==
    /\ router = "recv" /\ lagged = 0 /\ bus # <<>>
    /\ Head(bus) \notin Plan
    /\ bus' = Tail(bus)
    /\ UNCHANGED <<now, lagged, busOpen, published, overwritten, routerVars, planQ, actorVars>>

\* Mutant: the queue is unbounded.
RouterSendUnbounded ==
    /\ router = "send"
    /\ planQ' = planQ \o routing
    /\ router' = "recv" /\ routing' = <<>>
    /\ UNCHANGED <<now, busVars, queueOpen, actorVars>>

\* plan_tx.send(plan).await: waits while the queue is full.
RouterSend ==
    /\ router = "send" /\ Len(planQ) < QueueCapacity
    /\ planQ' = planQ \o routing
    /\ router' = "recv" /\ routing' = <<>>
    /\ UNCHANGED <<now, busVars, queueOpen, actorVars>>

\* Mutant: the router waits for the actor while it still holds plan_tx.
RouterClosedKeepsSender ==
    /\ router = "recv" /\ lagged = 0 /\ bus = <<>> /\ ~busOpen
    /\ router' = "drain"
    /\ UNCHANGED <<now, busVars, routing, queueOpen, planQ, actorVars>>

\* RecvError::Closed, reported once every buffered message is read: drop
\* plan_tx and wait for the actor.
RouterClosed ==
    /\ router = "recv" /\ lagged = 0 /\ bus = <<>> /\ ~busOpen
    /\ router' = "drain" /\ queueOpen' = FALSE
    /\ UNCHANGED <<now, busVars, routing, planQ, actorVars>>

\* Mutant: the router returns without awaiting the actor's task.
RouterJoinEarly ==
    /\ router = "drain"
    /\ router' = "stopped"
    /\ UNCHANGED <<now, busVars, routing, queueOpen, planQ, actorVars>>

\* executor.await
RouterJoin ==
    /\ router = "drain" /\ actor = "stopped"
    /\ router' = "stopped"
    /\ UNCHANGED <<now, busVars, routing, queueOpen, planQ, actorVars>>
-----------------------------------------------------------------------------
(* run_one_plan *)

\* validate_submission_policy
PolicyAccepts(p) ==
    \/ Field[p].dry_run
    \/ /\ Field[p].admission_hash = "Sealed"
       /\ IF Field[p].submission_lane = "Timeboost"
          THEN 0 < Field[p].timeboost_bid /\ 0 < Field[p].floor /\ Field[p].timeboost_bid < Field[p].floor
          ELSE Field[p].timeboost_bid = 0

\* Mutant: only dry runs are simulated.
DryRunOnly(p) == Field[p].dry_run

PreflightRequired(p) == Field[p].dry_run \/ Field[p].require_preflight

Later(a, b) == IF a < b THEN b ELSE a

\* Mutant: the bucket holds one broadcast more.
LimiterAllowsOneMore == Ceiling = 0 \/ Later(tat, now) - now <= Ceiling * Interval

\* RateLimiter::check: a bucket of Ceiling broadcasts that regains one every
\* Interval, kept as the time at which it would be full again.
LimiterAllows == Ceiling = 0 \/ Later(tat, now) + Interval - now <= Ceiling * Interval

Emit(p, status, hash) ==
    settled' = [settled EXCEPT ![p] = Append(@, Protocol!Settlement(status, hash))]

\* The end of run_one_plan: the actor goes back to plan_rx.recv().
Settle(p, status, hash) ==
    /\ Emit(p, status, hash)
    /\ actor' = "recv" /\ current' = <<>>

\* 2.6, then the call to sign_and_submit.
TryBroadcast(p) ==
    \/ /\ LimiterAllows
       /\ tat' = IF Ceiling = 0 THEN tat ELSE Later(tat, now) + Interval
       /\ attempts' = Append(attempts, now)
       /\ actor' = "submit" /\ current' = <<p>>
       /\ UNCHANGED settled
    \/ /\ ~LimiterAllows
       /\ Settle(p, "Dropped", FALSE)
       /\ UNCHANGED <<tat, attempts>>

\* plan_rx.recv() and everything up to the first await.
ActorTake ==
    /\ actor = "recv" /\ planQ # <<>>
    /\ planQ' = Tail(planQ)
    /\ LET p == Head(planQ) IN
       \/ /\ Field[p].deadline_ms < now
          /\ Settle(p, "Dropped", FALSE)
          /\ UNCHANGED <<tat, attempts>>
       \/ /\ Field[p].deadline_ms >= now /\ ~PolicyAccepts(p)
          /\ Settle(p, "Dropped", FALSE)
          /\ UNCHANGED <<tat, attempts>>
       \/ /\ Field[p].deadline_ms >= now /\ PolicyAccepts(p) /\ PreflightRequired(p)
          /\ actor' = "preflight" /\ current' = <<p>>
          /\ UNCHANGED <<settled, tat, attempts>>
       \/ /\ Field[p].deadline_ms >= now /\ PolicyAccepts(p) /\ ~PreflightRequired(p)
          /\ TryBroadcast(p)
    /\ UNCHANGED <<now, busVars, routerVars, simulated>>

\* backend.preflight returns a delta; dry runs stop here.
PreflightReturns(delta) ==
    /\ actor = "preflight"
    /\ LET p == Head(current) IN
       \/ /\ delta < Field[p].floor
          /\ Settle(p, "PreflightFailed", FALSE)
          /\ UNCHANGED <<tat, attempts, simulated>>
       \/ /\ delta >= Field[p].floor /\ Field[p].dry_run
          /\ Settle(p, "PreflightPassed", FALSE)
          /\ simulated' = simulated \cup {p}
          /\ UNCHANGED <<tat, attempts>>
       \/ /\ delta >= Field[p].floor /\ ~Field[p].dry_run
          /\ simulated' = simulated \cup {p}
          /\ TryBroadcast(p)
    /\ UNCHANGED <<now, busVars, routerVars, planQ>>

PreflightFails ==
    /\ actor = "preflight"
    /\ Settle(Head(current), "PreflightFailed", FALSE)
    /\ UNCHANGED <<now, busVars, routerVars, planQ, tat, simulated, attempts>>

\* backend.sign_and_submit returns a hash: announce it and start watching.
SubmitReturns ==
    /\ actor = "submit"
    /\ Emit(Head(current), "Submitted", TRUE)
    /\ actor' = "watch"
    /\ UNCHANGED <<now, busVars, routerVars, planQ, current, tat, simulated, attempts>>

\* Mutant: a failed broadcast is still reported as Submitted and watched.
SubmitFailsUnnoticed ==
    /\ actor = "submit"
    /\ Emit(Head(current), "BroadcastFailed", FALSE)
    /\ actor' = "watch"
    /\ UNCHANGED <<now, busVars, routerVars, planQ, current, tat, simulated, attempts>>

SubmitFails ==
    /\ actor = "submit"
    /\ Settle(Head(current), "BroadcastFailed", FALSE)
    /\ UNCHANGED <<now, busVars, routerVars, planQ, tat, simulated, attempts>>

\* The status emitted for each result of backend.await_inclusion.
InclusionStatus == [MinedOk       |-> "Included",
                    MinedReverted |-> "Reverted",
                    Replaced      |-> "Replaced",
                    Dropped       |-> "Dropped",
                    Error         |-> "BroadcastFailed"]

InclusionReturns(outcome) ==
    /\ actor = "watch"
    /\ Settle(Head(current), InclusionStatus[outcome], TRUE)
    /\ UNCHANGED <<now, busVars, routerVars, planQ, tat, simulated, attempts>>

\* Mutant: the actor stops as soon as the senders are gone.
ActorStopUndrained ==
    /\ actor = "recv" /\ ~queueOpen
    /\ actor' = "stopped"
    /\ UNCHANGED <<now, busVars, routerVars, planQ, current, settled, tat, simulated, attempts>>

\* plan_rx.recv() returns None: every sender is gone and the queue is empty.
ActorStop ==
    /\ actor = "recv" /\ planQ = <<>> /\ ~queueOpen
    /\ actor' = "stopped"
    /\ UNCHANGED <<now, busVars, routerVars, planQ, current, settled, tat, simulated, attempts>>
-----------------------------------------------------------------------------
Router == RouterLagged \/ RouterPlan \/ RouterIgnore \/ RouterSend
          \/ RouterClosed \/ RouterJoin

Actor == \/ ActorTake
         \/ \E delta \in Delta : PreflightReturns(delta)
         \/ PreflightFails
         \/ SubmitReturns
         \/ SubmitFails
         \/ \E outcome \in DOMAIN InclusionStatus : InclusionReturns(outcome)
         \/ ActorStop

Environment == (\E p \in Plan : PublishPlan(p)) \/ PublishOther \/ CloseBus \/ Tick

\* Both tasks have returned.
Finished == router = "stopped" /\ UNCHANGED vars

Next == Router \/ Actor \/ Environment \/ Finished

\* The tasks are polled whenever they can run (tokio), and the backend's
\* calls return; coordinators owe nothing.
Spec == Init /\ [][Next]_vars /\ WF_vars(Router) /\ WF_vars(Actor)
-----------------------------------------------------------------------------
(* Properties *)

SettlementRecord ==
    [status : {"Submitted"} \cup Protocol!UnsentStatus \cup Protocol!SentStatus,
     hash   : BOOLEAN]

\* Types, and the channels never hold more than their capacity.
TypeOK ==
    /\ now \in Nat /\ tat \in Nat
    /\ bus \in Seq(Plan \cup {Other}) /\ Len(bus) <= BusCapacity
    /\ lagged \in Nat /\ busOpen \in BOOLEAN
    /\ published \in Seq(Plan) /\ overwritten \subseteq Plan
    /\ router \in {"recv", "send", "drain", "stopped"}
    /\ routing \in Seq(Plan) /\ queueOpen \in BOOLEAN
    /\ planQ \in Seq(Plan) /\ Len(planQ) <= QueueCapacity
    /\ actor \in {"recv", "preflight", "submit", "watch", "stopped"}
    /\ current \in Seq(Plan)
    /\ settled \in [Plan -> Seq(SettlementRecord)]
    /\ simulated \subseteq Plan
    /\ attempts \in Seq(Nat)

\* p has its last Settlement.
Final(p) == settled[p] # <<>> /\ settled[p] # <<Protocol!Submitted>>

\* The Plans whose fate is open: not lost to lag, and no last Settlement yet.
Waiting == {p \in Plan : p \notin overwritten /\ ~Final(p)}

\* Nothing is lost, duplicated or overtaken between the bus and the actor:
\* the published Plans that were not overwritten by a lagging receiver and
\* have no final Settlement are exactly those in the actor's hands, the
\* queue, the router's hands and the bus, in publication order.
InOrder ==
    Only(published, Waiting) = current \o planQ \o routing \o Only(bus, Plan)

\* A transaction is handed to the backend only for a Plan that is no dry
\* run, passed validate_submission_policy, and, when it asks for a
\* pre-flight, was simulated to at least its floor.
AuthorisedBroadcast ==
    \A p \in Plan :
        (p \in Range(current) /\ actor \in {"submit", "watch"})
            \/ Protocol!Submitted \in Range(settled[p])
        => /\ ~Field[p].dry_run
           /\ PolicyAccepts(p)
           /\ Field[p].require_preflight => p \in simulated

\* serve_message_bus returns only when the actor has stopped and every Plan
\* the receiver did not lose has its final Settlement.
DrainedOnReturn ==
    router = "stopped" =>
        /\ actor = "stopped"
        /\ \A p \in Range(published) : p \in overwritten \/ Final(p)

\* Attempts let through in the Minute that starts at t.
Minute == Ceiling * Interval
AttemptsInMinute(t) ==
    Cardinality({i \in DOMAIN attempts : t <= attempts[i] /\ attempts[i] < t + Minute})

\* The limiter starts full and regains Ceiling broadcasts per minute, so a
\* minute sees fewer than twice the ceiling.
RateBound ==
    Ceiling > 0 => \A t \in 0..now : AttemptsInMinute(t) < 2 * Ceiling

\* What the comment on serve_with_rate_ceiling says: a broadcast that would
\* exceed tx_rate_ceiling_per_min transactions per minute is blocked.
CeilingPerMinute ==
    Ceiling > 0 => \A t \in 0..now : AttemptsInMinute(t) <= Ceiling

\* The Settlements the actor emits follow the protocol: refused without a
\* hash, or Submitted and then one outcome, one Plan at a time.
FollowsProtocol == Protocol!Spec

\* Every Plan that reaches the bus is settled, unless the receiver lagged.
EveryPlanSettled ==
    \A p \in Plan : p \in Range(published) ~> p \in overwritten \/ Final(p)

\* Once the last sender is gone the router and the actor both return.
ShutdownCompletes == ~busOpen ~> router = "stopped"
=============================================================================

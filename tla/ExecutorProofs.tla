--------------------------- MODULE ExecutorProofs ---------------------------
(***************************************************************************)
(* Proofs about ExecutorActor for every set of Plans, every limiter quota   *)
(* and every channel capacity: types and authorisation (SafetyInv), the     *)
(* Settlement protocol (Once), the order of the Plans between the bus and   *)
(* the actor (Ordered), what a shutdown leaves behind (Shutdown) and the    *)
(* rate ceiling (Paced).                                                   *)
(***************************************************************************)
EXTENDS ExecutorActor, SequenceProofs, FiniteSetTheorems, TLAPS

\* Most leaves are first-order and go to Zenon; the ones about numbers,
\* records and sequences cite SMT.
USE Zenon

USE PlanAssumption, DeltaAssumption, LimiterAssumption, BoundAssumption

\* What the two tasks hold in each of their states.
Hands ==
    /\ actor \in {"recv", "stopped"} => current = <<>>
    /\ actor \in {"preflight", "submit", "watch"} => \E p \in Plan : current = <<p>>
    /\ router = "send" => \E p \in Plan : routing = <<p>>
    /\ router # "send" => routing = <<>>

\* What run_one_plan has established about the Plan it holds, before each await.
Checked ==
    \A p \in Plan : current = <<p>> =>
        /\ PolicyAccepts(p)
        /\ actor \in {"submit", "watch"} =>
               /\ ~Field[p].dry_run
               /\ Field[p].require_preflight => p \in simulated

\* A Plan that was announced had passed the same checks.
Announced ==
    \A p \in Plan : Protocol!Submitted \in Range(settled[p]) =>
        /\ ~Field[p].dry_run
        /\ PolicyAccepts(p)
        /\ Field[p].require_preflight => p \in simulated

SafetyInv == TypeOK /\ Hands /\ Checked /\ Announced
-----------------------------------------------------------------------------
LEMMA AppendFacts ==
    ASSUME NEW S, NEW s \in Seq(S), NEW e \in S
    PROVE  /\ Append(s, e) \in Seq(S)
           /\ Len(Append(s, e)) = Len(s) + 1
           /\ Range(Append(s, e)) = Range(s) \cup {e}
<1>1. /\ Append(s, e) \in Seq(S) /\ Len(Append(s, e)) = Len(s) + 1
      /\ \A i \in 1..Len(s) : Append(s, e)[i] = s[i]
      /\ Append(s, e)[Len(s) + 1] = e
      /\ DOMAIN Append(s, e) = 1..(Len(s) + 1) /\ DOMAIN s = 1..Len(s) /\ Len(s) \in Nat
  BY SMT
<1>2. ASSUME NEW x PROVE x \in Range(Append(s, e)) <=> x \in Range(s) \cup {e}
  BY <1>1, SMT DEF Range
<1> QED BY <1>1, <1>2

LEMMA TailFacts ==
    ASSUME NEW S, NEW s \in Seq(S), s # <<>>
    PROVE  /\ Head(s) \in S /\ Tail(s) \in Seq(S)
           /\ Len(Tail(s)) = Len(s) - 1
           /\ Range(s) = Range(Tail(s)) \cup {Head(s)}
<1>1. /\ Head(s) \in S /\ Tail(s) \in Seq(S) /\ Len(Tail(s)) = Len(s) - 1
      /\ Head(s) = s[1] /\ \A i \in 1..(Len(s) - 1) : Tail(s)[i] = s[i + 1]
      /\ DOMAIN Tail(s) = 1..(Len(s) - 1) /\ DOMAIN s = 1..Len(s) /\ Len(s) \in Nat \ {0}
  BY SMT
<1>2. ASSUME NEW x PROVE x \in Range(s) <=> x \in Range(Tail(s)) \cup {Head(s)}
  <2>1. ASSUME x \in Range(s) PROVE x \in Range(Tail(s)) \cup {Head(s)}
    <3>1. PICK i \in 1..Len(s) : x = s[i]  BY <1>1, <2>1 DEF Range
    <3>2. CASE i = 1  BY <3>1, <3>2, <1>1
    <3>3. CASE i # 1
      <4>1. i - 1 \in 1..(Len(s) - 1) /\ Tail(s)[i - 1] = s[i]  BY <3>3, <1>1, SMT
      <4> QED BY <4>1, <3>1, <1>1 DEF Range
    <3> QED BY <3>2, <3>3
  <2>2. ASSUME x \in Range(Tail(s)) \cup {Head(s)} PROVE x \in Range(s)
    <3>1. 1 \in DOMAIN s  BY <1>1, SMT
    <3>2. \A i \in 1..(Len(s) - 1) : i + 1 \in DOMAIN s  BY <1>1, SMT
    <3> QED BY <2>2, <1>1, <3>1, <3>2, SMT DEF Range
  <2> QED BY <2>1, <2>2
<1> QED BY <1>1, <1>2
-----------------------------------------------------------------------------

\* Emitting a Settlement other than Submitted keeps settled well-typed and
\* announces nothing.
LEMMA EmitFacts ==
    ASSUME TypeOK, NEW p \in Plan, NEW e \in SettlementRecord,
           settled' = [settled EXCEPT ![p] = Append(@, e)]
    PROVE  /\ settled' \in [Plan -> Seq(SettlementRecord)]
           /\ \A q \in Plan : Range(settled'[q]) =
                  IF q = p THEN Range(settled[q]) \cup {e} ELSE Range(settled[q])
<1>1. settled \in [Plan -> Seq(SettlementRecord)]  BY DEF TypeOK
<1>2. settled[p] \in Seq(SettlementRecord)  BY <1>1
<1>3. /\ Append(settled[p], e) \in Seq(SettlementRecord)
      /\ Range(Append(settled[p], e)) = Range(settled[p]) \cup {e}
  BY <1>2, AppendFacts, ZenonT(40)
<1>4. settled'[p] = Append(settled[p], e)  BY <1>1
<1>5. \A q \in Plan : q # p => settled'[q] = settled[q]  BY <1>1
<1>6. settled' \in [Plan -> Seq(SettlementRecord)]  BY <1>1, <1>3
<1> QED BY <1>3, <1>4, <1>5, <1>6

LEMMA SettlementTypes ==
    /\ Protocol!Submitted \in SettlementRecord
    /\ \A s \in Protocol!UnsentStatus : \A h \in BOOLEAN :
           /\ Protocol!Settlement(s, h) \in SettlementRecord
           /\ Protocol!Settlement(s, h) # Protocol!Submitted
    /\ \A s \in Protocol!SentStatus : \A h \in BOOLEAN :
           /\ Protocol!Settlement(s, h) \in SettlementRecord
           /\ Protocol!Settlement(s, h) # Protocol!Submitted
BY DEF SettlementRecord, Protocol!Submitted, Protocol!Settlement,
       Protocol!UnsentStatus, Protocol!SentStatus

\* run_one_plan returns with a Settlement that is not Submitted.
LEMMA SettleFacts ==
    ASSUME SafetyInv, NEW p \in Plan, NEW h \in BOOLEAN,
           NEW s \in Protocol!UnsentStatus \cup Protocol!SentStatus,
           Settle(p, s, h), simulated \subseteq simulated'
    PROVE  /\ settled' \in [Plan -> Seq(SettlementRecord)]
           /\ Announced'
           /\ Checked'
           /\ actor' = "recv" /\ current' = <<>>
<1>1. Protocol!Settlement(s, h) \in SettlementRecord /\ Protocol!Settlement(s, h) # Protocol!Submitted
  BY SettlementTypes
<1>2. settled' = [settled EXCEPT ![p] = Append(@, Protocol!Settlement(s, h))]
  BY DEF Settle, Emit
<1>3. /\ settled' \in [Plan -> Seq(SettlementRecord)]
      /\ \A q \in Plan : Range(settled'[q]) = IF q = p THEN Range(settled[q]) \cup {Protocol!Settlement(s, h)} ELSE Range(settled[q])
  BY <1>1, <1>2, EmitFacts DEF SafetyInv
<1>4. \A q \in Plan : Protocol!Submitted \in Range(settled'[q]) => Protocol!Submitted \in Range(settled[q])
  BY <1>1, <1>3
<1>5. Announced'
  BY <1>4 DEF SafetyInv, Announced, PolicyAccepts, Protocol!Submitted, Protocol!Settlement
<1>6. Checked'  BY DEF Settle, Checked
<1> QED BY <1>3, <1>5, <1>6 DEF Settle

\* The rate ceiling lets the broadcast through, or drops the Plan.
LEMMA TryBroadcastFacts ==
    ASSUME SafetyInv, NEW p \in Plan, TryBroadcast(p), simulated \subseteq simulated',
           PolicyAccepts(p), ~Field[p].dry_run, Field[p].require_preflight => p \in simulated'
    PROVE  /\ settled' \in [Plan -> Seq(SettlementRecord)]
           /\ Announced'
           /\ Checked'
           /\ \/ actor' = "recv" /\ current' = <<>>
              \/ actor' = "submit" /\ current' = <<p>>
           /\ tat' \in Nat /\ attempts' \in Seq(Nat)
<1>1. CASE LimiterAllows /\ actor' = "submit" /\ current' = <<p>> /\ UNCHANGED settled
           /\ tat' = (IF Ceiling = 0 THEN tat ELSE Later(tat, now) + Interval)
           /\ attempts' = Append(attempts, now)
  <2>1. tat' \in Nat /\ attempts' \in Seq(Nat)
    BY <1>1, SMT DEF SafetyInv, TypeOK, Later
  <2>2. Announced'  BY <1>1 DEF SafetyInv, Announced, PolicyAccepts, Protocol!Submitted, Protocol!Settlement
  <2>3. Checked'  BY <1>1 DEF Checked, PolicyAccepts
  <2> QED BY <1>1, <2>1, <2>2, <2>3 DEF SafetyInv, TypeOK
<1>2. CASE Settle(p, "Dropped", FALSE) /\ UNCHANGED <<tat, attempts>>
  <2>1. "Dropped" \in Protocol!UnsentStatus  BY DEF Protocol!UnsentStatus
  <2> QED BY <1>2, <2>1, SettleFacts DEF SafetyInv, TypeOK
<1> QED BY <1>1, <1>2 DEF TryBroadcast

LEMMA InitSafety == Init => SafetyInv
<1> SUFFICES ASSUME Init PROVE SafetyInv  OBVIOUS
<1>1. TypeOK  BY SMT DEF Init, TypeOK
<1>2. Hands  BY DEF Init, Hands
<1>3. Checked  BY DEF Init, Checked
<1>4. Announced  BY SMT DEF Init, Announced, Range
<1> QED BY <1>1, <1>2, <1>3, <1>4 DEF SafetyInv

LEMMA NextSafety == SafetyInv /\ [Next]_vars => SafetyInv'
<1> SUFFICES ASSUME SafetyInv, [Next]_vars PROVE SafetyInv'  OBVIOUS
<1> USE DEF SafetyInv
<1>a. ASSUME UNCHANGED actorVars PROVE Checked' /\ Announced'
  BY <1>a DEF actorVars, Checked, Announced, PolicyAccepts, Protocol!Submitted, Protocol!Settlement
<1>1. CASE UNCHANGED vars
  <2>1. TypeOK' /\ Hands'
    BY <1>1 DEF vars, busVars, routerVars, actorVars, TypeOK, Hands
  <2> QED BY <2>1, <1>1, <1>a DEF vars
<1>2. ASSUME NEW m \in Plan \cup {Other}, Publish(m), published' \in Seq(Plan) PROVE SafetyInv'
  <2>1. bus' \in Seq(Plan \cup {Other}) /\ Len(bus') <= BusCapacity /\ lagged' \in Nat /\ overwritten' \subseteq Plan
    <3>1. CASE Len(bus) < BusCapacity
      <4>1. Append(bus, m) \in Seq(Plan \cup {Other}) /\ Len(Append(bus, m)) = Len(bus) + 1
        BY AppendFacts, SMT DEF TypeOK
      <4>2. bus' = Append(bus, m) /\ lagged' = lagged /\ overwritten' = overwritten
        BY <1>2, <3>1 DEF Publish
      <4>3. Len(bus) \in Nat  BY SMT DEF TypeOK
      <4> QED BY <3>1, <4>1, <4>2, <4>3, SMT DEF TypeOK
    <3>2. CASE ~(Len(bus) < BusCapacity)
      <4>1. bus # <<>> /\ Len(bus) = BusCapacity  BY <3>2, SMT DEF TypeOK
      <4>2. Tail(bus) \in Seq(Plan \cup {Other}) /\ Len(Tail(bus)) = Len(bus) - 1
        BY <4>1, TailFacts DEF TypeOK
      <4>3. /\ Append(Tail(bus), m) \in Seq(Plan \cup {Other})
            /\ Len(Append(Tail(bus), m)) = Len(Tail(bus)) + 1
        BY <4>2, AppendFacts, SMTT(30)
      <4>4. /\ bus' = Append(Tail(bus), m) /\ lagged' = lagged + 1
            /\ overwritten' = overwritten \cup ({Head(bus)} \cap Plan)
        BY <1>2, <3>2 DEF Publish
      <4>5. overwritten' \subseteq Plan  BY <4>4 DEF TypeOK
      <4> QED BY <4>1, <4>2, <4>3, <4>4, <4>5, SMTT(30) DEF TypeOK
    <3> QED BY <3>1, <3>2
  <2>2. TypeOK' /\ Hands'
    BY <1>2, <2>1 DEF Publish, TypeOK, Hands, routerVars, actorVars
  <2> QED BY <2>2, <1>2, <1>a DEF Publish
<1>3. CASE \E p \in Plan : PublishPlan(p)
  <2>1. PICK p \in Plan : PublishPlan(p)  BY <1>3
  <2>2. published' \in Seq(Plan)  BY <2>1, AppendFacts DEF PublishPlan, TypeOK
  <2> QED BY <2>1, <2>2, <1>2 DEF PublishPlan
<1>4. CASE PublishOther
  BY <1>4, <1>2, SMTT(30) DEF PublishOther, TypeOK
<1>5. CASE CloseBus
  <2>1. TypeOK' /\ Hands'
    BY <1>5 DEF CloseBus, TypeOK, Hands, routerVars, actorVars
  <2> QED BY <2>1, <1>5, <1>a DEF CloseBus
<1>6. CASE Tick
  <2>1. TypeOK' /\ Hands'
    BY <1>6, SMTT(30) DEF Tick, TypeOK, Hands, busVars, routerVars, actorVars
  <2> QED BY <2>1, <1>6, <1>a DEF Tick
<1>7. CASE RouterLagged
  <2>1. TypeOK' /\ Hands'
    BY <1>7 DEF RouterLagged, TypeOK, Hands, routerVars, actorVars
  <2> QED BY <2>1, <1>7, <1>a DEF RouterLagged
<1>8. CASE RouterPlan
  <2>1. Tail(bus) \in Seq(Plan \cup {Other}) /\ Len(Tail(bus)) <= BusCapacity
    BY <1>8, TailFacts, SMTT(30) DEF RouterPlan, TypeOK
  <2>2. TypeOK' /\ Hands'
    BY <1>8, <2>1, SMTT(30) DEF RouterPlan, TypeOK, Hands, actorVars
  <2> QED BY <2>2, <1>8, <1>a DEF RouterPlan
<1>9. CASE RouterIgnore
  <2>1. Tail(bus) \in Seq(Plan \cup {Other}) /\ Len(Tail(bus)) <= BusCapacity
    BY <1>9, TailFacts, SMT DEF RouterIgnore, TypeOK
  <2>2. TypeOK' /\ Hands'
    BY <1>9, <2>1 DEF RouterIgnore, TypeOK, Hands, routerVars, actorVars
  <2> QED BY <2>2, <1>9, <1>a DEF RouterIgnore
<1>10. CASE RouterSend
  <2>1. PICK p \in Plan : routing = <<p>>  BY <1>10 DEF RouterSend, Hands
  <2>2. planQ' \in Seq(Plan) /\ Len(planQ') <= QueueCapacity
    BY <1>10, <2>1, SMTT(30) DEF RouterSend, TypeOK
  <2>3. TypeOK' /\ Hands'
    BY <1>10, <2>2, SMTT(30) DEF RouterSend, TypeOK, Hands, busVars, actorVars
  <2> QED BY <2>3, <1>10, <1>a DEF RouterSend
<1>11. CASE RouterClosed
  <2>1. TypeOK' /\ Hands'
    BY <1>11 DEF RouterClosed, TypeOK, Hands, busVars, actorVars
  <2> QED BY <2>1, <1>11, <1>a DEF RouterClosed
<1>12. CASE RouterJoin
  <2>1. TypeOK' /\ Hands'
    BY <1>12 DEF RouterJoin, TypeOK, Hands, busVars, actorVars
  <2> QED BY <2>1, <1>12, <1>a DEF RouterJoin
<1>b. ASSUME NEW p \in Plan, NEW h \in BOOLEAN,
             NEW s \in Protocol!UnsentStatus \cup Protocol!SentStatus,
             Settle(p, s, h), simulated \subseteq simulated', simulated' \subseteq Plan,
             UNCHANGED <<now, busVars, routerVars, tat, attempts>>,
             planQ' \in Seq(Plan), Len(planQ') <= QueueCapacity
      PROVE  SafetyInv'
  <2>1. /\ settled' \in [Plan -> Seq(SettlementRecord)]
        /\ Announced' /\ Checked' /\ actor' = "recv" /\ current' = <<>>
    BY <1>b, SettleFacts
  <2>2. TypeOK' /\ Hands'
    BY <2>1, <1>b, SMTT(30) DEF TypeOK, Hands, busVars, routerVars
  <2> QED BY <2>1, <2>2
<1>c. ASSUME NEW p \in Plan, TryBroadcast(p), simulated \subseteq simulated',
             simulated' \subseteq Plan, PolicyAccepts(p), ~Field[p].dry_run,
             Field[p].require_preflight => p \in simulated',
             UNCHANGED <<now, busVars, routerVars>>,
             planQ' \in Seq(Plan), Len(planQ') <= QueueCapacity
      PROVE  SafetyInv'
  <2>1. /\ settled' \in [Plan -> Seq(SettlementRecord)]
        /\ Announced' /\ Checked'
        /\ \/ actor' = "recv" /\ current' = <<>>
           \/ actor' = "submit" /\ current' = <<p>>
        /\ tat' \in Nat /\ attempts' \in Seq(Nat)
    BY <1>c, TryBroadcastFacts
  <2>0. <<>> \in Seq(Plan) /\ <<p>> \in Seq(Plan)  BY <1>c, SMT
  <2>2. current' \in Seq(Plan) /\ actor' \in {"recv", "submit"}  BY <2>0, <2>1
  <2>3. TypeOK'  BY <2>1, <2>2, <1>c DEF TypeOK, busVars, routerVars
  <2>4. Hands'  BY <2>1, <1>c DEF Hands, routerVars
  <2> QED BY <2>1, <2>3, <2>4
<1>d. /\ {"Dropped", "PreflightFailed", "PreflightPassed", "BroadcastFailed"} \subseteq Protocol!UnsentStatus
      /\ \A o \in DOMAIN InclusionStatus : InclusionStatus[o] \in Protocol!SentStatus
  BY SMT DEF Protocol!UnsentStatus, Protocol!SentStatus, InclusionStatus
<1>13. CASE ActorTake
  <2> DEFINE p == Head(planQ)
  <2>1. p \in Plan /\ planQ' \in Seq(Plan) /\ Len(planQ') <= QueueCapacity
    BY <1>13, TailFacts, SMTT(30) DEF ActorTake, TypeOK
  <2>2. UNCHANGED <<now, busVars, routerVars, simulated>>  BY <1>13 DEF ActorTake
  <2>3. CASE Settle(p, "Dropped", FALSE) /\ UNCHANGED <<tat, attempts>>
    <3>1. "Dropped" \in Protocol!UnsentStatus /\ simulated' \subseteq Plan /\ simulated \subseteq simulated'
      BY <1>d, <2>2 DEF TypeOK
    <3>2. UNCHANGED <<now, busVars, routerVars, tat, attempts>>  BY <2>2, <2>3
    <3> HIDE DEF p
    <3> QED BY <2>1, <2>3, <3>1, <3>2, <1>b
  <2>4. CASE PolicyAccepts(p) /\ PreflightRequired(p) /\ actor' = "preflight"
             /\ current' = <<p>> /\ UNCHANGED <<settled, tat, attempts>>
    <3> HIDE DEF p
    <3>0. current' \in Seq(Plan)  BY <2>1, <2>4, SMT
    <3>5. TypeOK'  BY <2>1, <2>2, <2>4, <3>0 DEF TypeOK, busVars, routerVars
    <3>6. Hands'  BY <2>1, <2>2, <2>4 DEF Hands, routerVars
    <3>1. TypeOK' /\ Hands'  BY <3>5, <3>6
    <3>2. Checked'  BY <2>4 DEF Checked, PolicyAccepts
    <3>3. Announced'
      BY <2>4, <2>2 DEF Announced, PolicyAccepts, Protocol!Submitted, Protocol!Settlement
    <3> QED BY <3>1, <3>2, <3>3
  <2>5. CASE PolicyAccepts(p) /\ ~PreflightRequired(p) /\ TryBroadcast(p)
    <3>1. ~Field[p].dry_run /\ ~Field[p].require_preflight
      BY <2>5 DEF PreflightRequired
    <3>2. /\ simulated' \subseteq Plan /\ simulated \subseteq simulated'
          /\ UNCHANGED <<now, busVars, routerVars>>
      BY <2>2 DEF TypeOK
    <3> HIDE DEF p
    <3> QED BY <2>1, <2>5, <3>1, <3>2, <1>c
  <2> QED BY <1>13, <2>3, <2>4, <2>5 DEF ActorTake
<1>14. ASSUME NEW delta \in Delta, PreflightReturns(delta) PROVE SafetyInv'
  <2>1. PICK p \in Plan : current = <<p>>  BY <1>14 DEF PreflightReturns, Hands
  <2>2. Head(current) = p  BY <2>1, SMT
  <2>3. /\ UNCHANGED <<now, busVars, routerVars>>
        /\ planQ' \in Seq(Plan) /\ Len(planQ') <= QueueCapacity
    BY <1>14 DEF PreflightReturns, TypeOK
  <2>4. CASE Settle(p, "PreflightFailed", FALSE) /\ UNCHANGED <<tat, attempts, simulated>>
    BY <2>3, <2>4, <1>b, <1>d DEF TypeOK
  <2>5. CASE Settle(p, "PreflightPassed", FALSE) /\ UNCHANGED <<tat, attempts>>
             /\ simulated' = simulated \cup {p}
    BY <2>3, <2>5, <1>b, <1>d DEF TypeOK
  <2>6. CASE ~Field[p].dry_run /\ simulated' = simulated \cup {p} /\ TryBroadcast(p)
    <3>1. PolicyAccepts(p)  BY <2>1 DEF Checked
    <3> QED BY <2>3, <2>6, <3>1, <1>c DEF TypeOK
  <2> QED BY <1>14, <2>2, <2>4, <2>5, <2>6 DEF PreflightReturns
<1>15. CASE PreflightFails
  <2>1. Head(current) \in Plan  BY <1>15, SMT DEF PreflightFails, Hands
  <2> QED BY <1>15, <2>1, <1>b, <1>d DEF PreflightFails, TypeOK
<1>16. CASE SubmitReturns
  <2>1. PICK p \in Plan : current = <<p>>  BY <1>16 DEF SubmitReturns, Hands
  <2>2. Head(current) = p  BY <2>1, SMT
  <2>3. settled' = [settled EXCEPT ![p] = Append(@, Protocol!Submitted)]
    BY <1>16, <2>2 DEF SubmitReturns, Emit, Protocol!Submitted
  <2>4. /\ settled' \in [Plan -> Seq(SettlementRecord)]
        /\ \A q \in Plan : q # p => Range(settled'[q]) = Range(settled[q])
    BY <2>3, SettlementTypes, EmitFacts
  <2>5. TypeOK' /\ Hands'
    BY <1>16, <2>1, <2>4 DEF SubmitReturns, TypeOK, Hands, busVars, routerVars
  <2>6. Checked'
    BY <1>16, <2>1 DEF SubmitReturns, Checked, PolicyAccepts
  <2>7. /\ ~Field[p].dry_run /\ PolicyAccepts(p)
        /\ Field[p].require_preflight => p \in simulated
    BY <1>16, <2>1 DEF SubmitReturns, Checked
  <2>8. Announced'
    BY <1>16, <2>4, <2>7 DEF SubmitReturns, Announced, PolicyAccepts, Protocol!Submitted, Protocol!Settlement
  <2> QED BY <2>5, <2>6, <2>8
<1>17. CASE SubmitFails
  <2>1. Head(current) \in Plan  BY <1>17, SMT DEF SubmitFails, Hands
  <2> QED BY <1>17, <2>1, <1>b, <1>d DEF SubmitFails, TypeOK
<1>18. ASSUME NEW o \in DOMAIN InclusionStatus, InclusionReturns(o) PROVE SafetyInv'
  <2>1. Head(current) \in Plan  BY <1>18, SMT DEF InclusionReturns, Hands
  <2> QED BY <1>18, <2>1, <1>b, <1>d DEF InclusionReturns, TypeOK
<1>19. CASE ActorStop
  <2>1. TypeOK' /\ Hands'
    BY <1>19 DEF ActorStop, TypeOK, Hands, busVars, routerVars
  <2>2. Checked' /\ Announced'
    BY <1>19 DEF ActorStop, Checked, Announced, Hands, PolicyAccepts, Protocol!Submitted, Protocol!Settlement
  <2> QED BY <2>1, <2>2
<1> QED BY <1>1, <1>3, <1>4, <1>5, <1>6, <1>7, <1>8, <1>9, <1>10, <1>11, <1>12, <1>13, <1>14,
           <1>15, <1>16, <1>17, <1>18, <1>19 DEF Next, Router, Actor, Environment, Finished

\* A transaction is handed to the backend only for a Plan that is no dry run,
\* passed the submission policy and, if it asked for one, met its floor in a
\* pre-flight: run_one_plan has no way round its checks, whatever the Plans,
\* the channel sizes and the limiter quota are.
THEOREM AuthorisedBroadcastAlways == Spec => []AuthorisedBroadcast
<1>1. SafetyInv => AuthorisedBroadcast
  <2> SUFFICES ASSUME SafetyInv, NEW p \in Plan,
                      (p \in Range(current) /\ actor \in {"submit", "watch"})
                          \/ Protocol!Submitted \in Range(settled[p])
               PROVE  /\ ~Field[p].dry_run
                      /\ PolicyAccepts(p)
                      /\ Field[p].require_preflight => p \in simulated
    BY DEF AuthorisedBroadcast
  <2>1. CASE p \in Range(current) /\ actor \in {"submit", "watch"}
    <3>1. current = <<p>>  BY <2>1, SMT DEF SafetyInv, Hands, Range
    <3> QED BY <2>1, <3>1 DEF SafetyInv, Checked
  <2>2. CASE Protocol!Submitted \in Range(settled[p])
    BY <2>2 DEF SafetyInv, Announced
  <2> QED BY <2>1, <2>2
<1> QED BY <1>1, InitSafety, NextSafety, PTL DEF Spec

\* The bus and the plan queue never hold more than their capacity, and the
\* executor's state keeps its shape.
THEOREM TypeCorrect == Spec => []TypeOK
<1>1. SafetyInv => TypeOK  BY DEF SafetyInv
<1> QED BY <1>1, InitSafety, NextSafety, PTL DEF Spec
-----------------------------------------------------------------------------
(* ExecutorActor implements SettlementProtocol. *)


Distinct(s) == \A i, j \in DOMAIN s : s[i] \in Plan /\ s[i] = s[j] => i = j

\* A Plan is in at most one place between the bus and the actor, nothing is
\* emitted for it before the actor takes it, and only the Plan in the actor's
\* hands can be in flight.
Once ==
    /\ Distinct(bus) /\ Distinct(planQ)
    /\ \A p \in Plan :
          /\ p \in Range(bus) => p \notin Range(routing) \cup Range(planQ) \cup Range(current)
          /\ p \in Range(routing) => p \notin Range(planQ) \cup Range(current)
          /\ p \in Range(planQ) => p \notin Range(current)
          /\ p \in Range(bus) \cup Range(routing) \cup Range(planQ) => settled[p] = <<>>
          /\ p \in Range(current) =>
                 settled[p] = IF actor = "watch" THEN <<Protocol!Submitted>> ELSE <<>>
          /\ p \notin Range(current) => settled[p] # <<Protocol!Submitted>>
          /\ p \in Range(bus) \cup Range(routing) \cup Range(planQ) \cup Range(current)
                 \/ settled[p] # <<>>
             => p \in Range(published)

LEMMA DistinctAppend ==
    ASSUME NEW S, NEW s \in Seq(S), Distinct(s), NEW e \in S, e \notin Range(s) \cap Plan
    PROVE  Distinct(Append(s, e))
BY SMT DEF Distinct, Range

LEMMA DistinctTail ==
    ASSUME NEW S, NEW s \in Seq(S), s # <<>>, Distinct(s)
    PROVE  Distinct(Tail(s)) /\ (Head(s) \in Plan => Head(s) \notin Range(Tail(s)))
<1>1. /\ Head(s) = s[1] /\ \A i \in 1..(Len(s) - 1) : Tail(s)[i] = s[i + 1]
      /\ DOMAIN Tail(s) = 1..(Len(s) - 1) /\ DOMAIN s = 1..Len(s) /\ Len(s) \in Nat \ {0}
  BY SMT
<1>2. Distinct(Tail(s))  BY <1>1, SMT DEF Distinct
<1>3. ASSUME Head(s) \in Plan PROVE Head(s) \notin Range(Tail(s))
  <2> SUFFICES ASSUME NEW i \in 1..(Len(s) - 1), Tail(s)[i] = Head(s) PROVE FALSE
    BY <1>1 DEF Range
  <2>1. s[i + 1] = s[1] /\ i + 1 \in DOMAIN s /\ 1 \in DOMAIN s /\ i + 1 # 1  BY <1>1, SMT
  <2> QED BY <2>1, <1>3, <1>1 DEF Distinct
<1> QED BY <1>2, <1>3

LEMMA RangeSmall == Range(<<>>) = {} /\ \A x : Range(<<x>>) = {x}
BY SMT DEF Range

\* The Settlement emitted when run_one_plan returns is the Plan's last.
LEMMA SettleFinal ==
    ASSUME SafetyInv, NEW p \in Plan, NEW h \in BOOLEAN,
           NEW s \in Protocol!UnsentStatus \cup Protocol!SentStatus,
           Settle(p, s, h), settled[p] \in {<<>>, <<Protocol!Submitted>>}
    PROVE  /\ settled'[p] # <<>> /\ settled'[p] # <<Protocol!Submitted>>
           /\ \A q \in Plan : q # p => settled'[q] = settled[q]
<1>1. settled \in [Plan -> Seq(SettlementRecord)]  BY DEF SafetyInv, TypeOK
<1> DEFINE e == Protocol!Settlement(s, h)
<1>2. e \in SettlementRecord /\ e # Protocol!Submitted  BY SettlementTypes
<1>3. settled' = [settled EXCEPT ![p] = Append(@, e)]  BY DEF Settle, Emit
<1> HIDE DEF e
<1>4. settled'[p] = Append(settled[p], e) /\ \A q \in Plan : q # p => settled'[q] = settled[q]
  BY <1>1, <1>3
<1>5. CASE settled[p] = <<>>
  <2>1. settled'[p] = <<e>>  BY <1>5, <1>4, SMT
  <2> QED BY <2>1, <1>2, <1>4, SMTT(30)
<1>6. CASE settled[p] = <<Protocol!Submitted>>
  <2>1. settled[p] \in Seq(SettlementRecord) /\ Len(settled[p]) = 1  BY <1>6, <1>1
  <2>2. Len(settled'[p]) = 2  BY <2>1, <1>2, <1>4, AppendFacts, SMTT(30)
  <2>3. Len(settled'[p]) # Len(<<>>)  BY <2>2, SMT
  <2>4. Len(settled'[p]) # Len(<<Protocol!Submitted>>)  BY <2>2, SMT
  <2> QED BY <2>3, <2>4, <1>4, Zenon
<1> QED BY <1>5, <1>6

\* run_one_plan returns: the Plan leaves the actor's hands with its outcome.
LEMMA SettleOnce ==
    ASSUME SafetyInv, Once, NEW p \in Plan, NEW h \in BOOLEAN,
           NEW s \in Protocol!UnsentStatus \cup Protocol!SentStatus,
           Settle(p, s, h), UNCHANGED <<bus, routing, published>>,
           current = <<>> \/ current = <<p>>,
           p \notin Range(bus) \cup Range(routing) \cup Range(planQ'),
           p \in Range(published),
           settled[p] \in {<<>>, <<Protocol!Submitted>>},
           Distinct(planQ'), Range(planQ') \subseteq Range(planQ)
    PROVE  Once'
<1>5. /\ settled'[p] # <<>> /\ settled'[p] # <<Protocol!Submitted>>
      /\ \A q \in Plan : q # p => settled'[q] = settled[q]
  BY SettleFinal
<1>6. Range(current') = {} /\ Range(current) \subseteq {p}  BY RangeSmall DEF Settle
<1>7. bus' = bus /\ routing' = routing /\ published' = published  OBVIOUS
<1>8. (Protocol!Submitted)' = Protocol!Submitted  BY DEF Protocol!Submitted, Protocol!Settlement
<1>9. \A q \in Plan :
          /\ q \in Range(bus') => q \notin Range(routing') \cup Range(planQ') \cup Range(current')
          /\ q \in Range(routing') => q \notin Range(planQ') \cup Range(current')
          /\ q \in Range(planQ') => q \notin Range(current')
          /\ q \in Range(bus') \cup Range(routing') \cup Range(planQ') => settled'[q] = <<>>
          /\ q \notin Range(current')
          /\ settled'[q] # <<Protocol!Submitted>>
          /\ q \in Range(bus') \cup Range(routing') \cup Range(planQ') \cup Range(current')
                 \/ settled'[q] # <<>>
             => q \in Range(published')
  BY <1>5, <1>6, <1>7 DEF Once
<1>10. Distinct(bus)'  BY <1>7 DEF Once, Distinct
<1>11. Distinct(planQ)'  BY DEF Distinct
<1> QED BY <1>8, <1>9, <1>10, <1>11 DEF Once

\* A Settlement for a Plan that has none yet is a step of the protocol.
LEMMA SettleRefines ==
    ASSUME SafetyInv, NEW p \in Plan, NEW s \in Protocol!UnsentStatus,
           settled[p] = <<>>, Protocol!InFlight = {}, Settle(p, s, FALSE)
    PROVE  Protocol!Next
<1>1. settled' = [settled EXCEPT ![p] = <<Protocol!Settlement(s, FALSE)>>]
  BY SMT DEF Settle, Emit, SafetyInv, TypeOK
<1>2. Protocol!Refuse(p, s)  BY <1>1 DEF Protocol!Refuse
<1> QED BY <1>2 DEF Protocol!Next

\* The rate ceiling: either no Settlement at all, or a Refuse step.
LEMMA TryBroadcastOnce ==
    ASSUME SafetyInv, Once, NEW p \in Plan, TryBroadcast(p),
           UNCHANGED <<bus, routing, published>>,
           current = <<>> \/ current = <<p>>,
           p \notin Range(bus) \cup Range(routing) \cup Range(planQ'),
           p \in Range(published), settled[p] = <<>>, Protocol!InFlight = {},
           Distinct(planQ'), Range(planQ') \subseteq Range(planQ)
    PROVE  Once' /\ (Protocol!Next \/ UNCHANGED settled)
<1>1. "Dropped" \in Protocol!UnsentStatus  BY DEF Protocol!UnsentStatus
<1>2. CASE Settle(p, "Dropped", FALSE)
  <2>1. Once'  BY <1>1, <1>2, SettleOnce
  <2>2. Protocol!Next  BY <1>1, <1>2, SettleRefines
  <2> QED BY <2>1, <2>2
<1>3. CASE actor' = "submit" /\ current' = <<p>> /\ UNCHANGED settled
  <2>1. Range(current') = {p} /\ Range(current) \subseteq {p}  BY <1>3, RangeSmall
  <2>2. <<>> # <<Protocol!Submitted>>  OBVIOUS
  <2>3. \A q \in Plan :
          /\ q \in Range(bus') => q \notin Range(routing') \cup Range(planQ') \cup Range(current')
          /\ q \in Range(routing') => q \notin Range(planQ') \cup Range(current')
          /\ q \in Range(planQ') => q \notin Range(current')
          /\ q \in Range(bus') \cup Range(routing') \cup Range(planQ') => settled'[q] = <<>>
          /\ q \in Range(current') => settled'[q] = <<>>
          /\ q \notin Range(current') => settled'[q] # <<Protocol!Submitted>>
          /\ q \in Range(bus') \cup Range(routing') \cup Range(planQ') \cup Range(current')
                 \/ settled'[q] # <<>>
             => q \in Range(published')
    BY <1>3, <2>1, <2>2 DEF Once
  <2>4. (Protocol!Submitted)' = Protocol!Submitted  BY DEF Protocol!Submitted, Protocol!Settlement
  <2>5. Distinct(bus)' /\ Distinct(planQ)'  BY DEF Once, Distinct
  <2> QED BY <1>3, <2>3, <2>4, <2>5 DEF Once
<1> QED BY <1>2, <1>3 DEF TryBroadcast

\* Steps of the bus and of the router: nothing is emitted, Plans only move
\* from the bus towards the actor.
LEMMA MoveOnce ==
    ASSUME SafetyInv, Once, UNCHANGED <<actor, current, settled>>,
           Distinct(bus'), Distinct(planQ'), Range(published) \subseteq Range(published'),
           \A p \in Plan :
               /\ p \in Range(bus') => p \in Range(bus) \/ p \in Range(published') \ Range(published)
               /\ p \in Range(routing') => p \in Range(routing) \/ (p \in Range(bus) /\ p \notin Range(bus'))
               /\ p \in Range(planQ') => p \in Range(planQ) \/ (p \in Range(routing) /\ p \notin Range(routing'))
    PROVE  Once' /\ UNCHANGED settled
<1>1. (Protocol!Submitted)' = Protocol!Submitted  BY DEF Protocol!Submitted, Protocol!Settlement
<1>2. Range(current') = Range(current)  OBVIOUS
<1>3. ASSUME NEW p \in Plan
      PROVE /\ p \in Range(bus') => p \notin Range(routing') \cup Range(planQ') \cup Range(current')
            /\ p \in Range(routing') => p \notin Range(planQ') \cup Range(current')
            /\ p \in Range(planQ') => p \notin Range(current')
            /\ p \in Range(bus') \cup Range(routing') \cup Range(planQ') => settled'[p] = <<>>
            /\ p \in Range(current') =>
                   settled'[p] = IF actor' = "watch" THEN <<Protocol!Submitted>> ELSE <<>>
            /\ p \notin Range(current') => settled'[p] # <<Protocol!Submitted>>
            /\ p \in Range(bus') \cup Range(routing') \cup Range(planQ') \cup Range(current')
                   \/ settled'[p] # <<>>
               => p \in Range(published')
  BY <1>2, <1>3 DEF Once
<1>4. Distinct(bus)' /\ Distinct(planQ)'  BY DEF Distinct
<1> QED BY <1>1, <1>3, <1>4 DEF Once

LEMMA NextOnce == SafetyInv /\ Once /\ [Next]_vars => Once' /\ (Protocol!Next \/ UNCHANGED settled)
<1> SUFFICES ASSUME SafetyInv, Once, [Next]_vars
             PROVE  Once' /\ (Protocol!Next \/ UNCHANGED settled)
  OBVIOUS
<1> DEFINE Goal == Once' /\ (Protocol!Next \/ UNCHANGED settled)
<1>a. ASSUME UNCHANGED <<bus, routing, planQ, published, actor, current, settled>> PROVE Goal
  <2>1. Distinct(bus') /\ Distinct(planQ')  BY <1>a DEF Once
  <2>2. Range(bus') = Range(bus) /\ Range(routing') = Range(routing)
        /\ Range(planQ') = Range(planQ) /\ Range(published') = Range(published)
    BY <1>a
  <2> QED BY <1>a, <2>1, <2>2, MoveOnce
<1>1. CASE UNCHANGED vars
  BY <1>1, <1>a DEF vars, busVars, routerVars, actorVars
<1>2. ASSUME NEW m \in Plan \cup {Other}, Publish(m),
             m \in Plan => m \in Range(published') \ Range(published),
             Range(published) \subseteq Range(published')
      PROVE Goal
  <2>1. bus \in Seq(Plan \cup {Other})  BY DEF SafetyInv, TypeOK
  <2>2. m \notin Range(bus) \cap Plan  BY <1>2 DEF Once
  <2>3. Distinct(bus') /\ Range(bus') \subseteq Range(bus) \cup {m}
    <3>1. CASE bus' = Append(bus, m)
      BY <2>1, <2>2, <3>1, DistinctAppend, AppendFacts, SMTT(30) DEF Once
    <3>2. CASE bus' = Append(Tail(bus), m) /\ bus # <<>>
      <4>1. Tail(bus) \in Seq(Plan \cup {Other}) /\ Range(Tail(bus)) \subseteq Range(bus) /\ Distinct(Tail(bus))
        BY <2>1, <3>2, TailFacts, DistinctTail, SMTT(30) DEF Once
      <4>2. m \notin Range(Tail(bus)) \cap Plan  BY <4>1, <2>2
      <4> DEFINE t == Tail(bus)
      <4>3. t \in Seq(Plan \cup {Other}) /\ Distinct(t) /\ m \notin Range(t) \cap Plan
        BY <4>1, <4>2
      <4> HIDE DEF t
      <4>4. Distinct(Append(t, m)) /\ Range(Append(t, m)) = Range(t) \cup {m}
        BY <4>3, DistinctAppend, AppendFacts, SMTT(30)
      <4> USE DEF t
      <4> QED BY <3>2, <4>1, <4>4
    <3>3. bus = <<>> => Len(bus) < BusCapacity  BY SMT
    <3> QED BY <1>2, <3>1, <3>2, <3>3 DEF Publish
  <2>4. UNCHANGED <<routing, planQ, actor, current, settled>>
    BY <1>2 DEF Publish, routerVars, actorVars
  <2>5. Distinct(planQ') /\ Range(routing') = Range(routing) /\ Range(planQ') = Range(planQ)
    BY <2>4 DEF Once
  <2> QED BY <1>2, <2>3, <2>4, <2>5, MoveOnce
<1>3. ASSUME NEW p \in Plan, PublishPlan(p) PROVE Goal
  <2>1. published \in Seq(Plan)  BY DEF SafetyInv, TypeOK
  <2>2. Range(published') = Range(published) \cup {p} /\ p \notin Range(published)
    BY <1>3, <2>1, AppendFacts, SMTT(30) DEF PublishPlan
  <2>3. Publish(p)  BY <1>3 DEF PublishPlan
  <2> HIDE DEF Goal
  <2> QED BY <2>2, <2>3, <1>2
<1>4. ASSUME PublishOther PROVE Goal
  <2>1. Publish(Other) /\ Range(published') = Range(published)  BY <1>4 DEF PublishOther
  <2>2. Other \in Plan \cup {Other} /\ Other \notin Plan  OBVIOUS
  <2> HIDE DEF Goal
  <2> QED BY <2>1, <2>2, <1>2
<1>5. CASE CloseBus
  BY <1>5, <1>a DEF CloseBus, routerVars, actorVars
<1>6. CASE Tick
  BY <1>6, <1>a DEF Tick, busVars, routerVars, actorVars
<1>7. CASE RouterLagged
  BY <1>7, <1>a DEF RouterLagged, routerVars, actorVars
<1>8. ASSUME RouterPlan \/ RouterIgnore PROVE Goal
  <2>1. bus \in Seq(Plan \cup {Other}) /\ bus # <<>> /\ bus' = Tail(bus)
    BY <1>8, SMTT(30) DEF SafetyInv, TypeOK, RouterPlan, RouterIgnore
  <2>2. /\ Range(bus) = Range(bus') \cup {Head(bus)} /\ Distinct(bus')
        /\ Head(bus) \in Plan => Head(bus) \notin Range(bus')
    BY <2>1, TailFacts, DistinctTail DEF Once
  <2>3. Range(routing') \subseteq Range(routing) \/ (Range(routing') = {Head(bus)} /\ Head(bus) \in Plan)
    BY <1>8, RangeSmall DEF RouterPlan, RouterIgnore, routerVars
  <2>4. UNCHANGED <<planQ, published, actor, current, settled>>
    BY <1>8 DEF RouterPlan, RouterIgnore, actorVars
  <2>5. Distinct(planQ') /\ Range(planQ') = Range(planQ) /\ Range(published') = Range(published)
    BY <2>4 DEF Once
  <2> QED BY <2>2, <2>3, <2>4, <2>5, MoveOnce
<1>9. CASE RouterSend
  <2>1. PICK p \in Plan : routing = <<p>>  BY <1>9 DEF RouterSend, SafetyInv, Hands
  <2>2. planQ \in Seq(Plan)  BY DEF SafetyInv, TypeOK
  <2>3. planQ' = Append(planQ, p) /\ routing' = <<>>  BY <1>9, <2>1, <2>2, SMTT(30) DEF RouterSend
  <2>4. Range(routing) = {p} /\ Range(routing') = {}  BY <2>1, <2>3, RangeSmall
  <2>5. p \notin Range(planQ)  BY <2>4 DEF Once
  <2>6. Range(planQ') = Range(planQ) \cup {p} /\ Distinct(planQ')
    BY <2>2, <2>3, <2>5, AppendFacts, DistinctAppend, SMTT(30) DEF Once
  <2>7. UNCHANGED <<bus, published, actor, current, settled>>
    BY <1>9 DEF RouterSend, busVars, actorVars
  <2>8. Distinct(bus') /\ Range(bus') = Range(bus) /\ Range(published') = Range(published)
    BY <2>7 DEF Once
  <2> QED BY <2>4, <2>6, <2>7, <2>8, MoveOnce
<1>10. CASE RouterClosed
  BY <1>10, <1>a DEF RouterClosed, busVars, actorVars
<1>11. CASE RouterJoin
  BY <1>11, <1>a DEF RouterJoin, busVars, actorVars
<1>b. /\ planQ \in Seq(Plan) /\ settled \in [Plan -> Seq(SettlementRecord)]
      /\ {"Dropped", "PreflightFailed", "PreflightPassed", "BroadcastFailed"} \subseteq Protocol!UnsentStatus
      /\ \A o \in DOMAIN InclusionStatus : InclusionStatus[o] \in Protocol!SentStatus
  BY SMT DEF SafetyInv, TypeOK, Protocol!UnsentStatus, Protocol!SentStatus, InclusionStatus
\* Until the transaction is announced nothing is in flight.
<1>c. actor # "watch" => Protocol!InFlight = {}
  <2> SUFFICES ASSUME actor # "watch", NEW p \in Plan, settled[p] = <<Protocol!Submitted>> PROVE FALSE
    BY DEF Protocol!InFlight
  <2>1. <<>> # <<Protocol!Submitted>>  OBVIOUS
  <2> QED BY <2>1 DEF Once
\* The Plan in the actor's hands is in no channel.
<1>d. ASSUME NEW p \in Plan, current = <<p>>
      PROVE /\ p \notin Range(bus) \cup Range(routing) \cup Range(planQ)
            /\ p \in Range(published)
            /\ settled[p] = IF actor = "watch" THEN <<Protocol!Submitted>> ELSE <<>>
  <2>1. p \in Range(current)  BY <1>d, RangeSmall
  <2> QED BY <2>1 DEF Once
<1>12. CASE ActorTake
  <2> DEFINE p == Head(planQ)
  <2>1. planQ # <<>> /\ planQ' = Tail(planQ) /\ actor = "recv" /\ current = <<>>
    BY <1>12 DEF ActorTake, SafetyInv, Hands
  <2>2. /\ p \in Plan /\ Range(planQ) = Range(planQ') \cup {p} /\ Distinct(planQ')
        /\ p \notin Range(planQ')
    BY <2>1, <1>b, TailFacts, DistinctTail DEF Once
  <2>3. /\ p \notin Range(bus) \cup Range(routing) \cup Range(planQ')
        /\ p \in Range(published) /\ settled[p] = <<>>
    BY <2>2 DEF Once
  <2>4. UNCHANGED <<bus, routing, published>>  BY <1>12 DEF ActorTake, busVars, routerVars
  <2>5. Protocol!InFlight = {}  BY <2>1, <1>c
  <2>6. \/ Settle(p, "Dropped", FALSE)
        \/ actor' = "preflight" /\ current' = <<p>> /\ UNCHANGED settled
        \/ TryBroadcast(p)
    BY <1>12 DEF ActorTake
  <2>7. Range(planQ') \subseteq Range(planQ)  BY <2>2
  <2> HIDE DEF p, Goal
  <2>8. CASE Settle(p, "Dropped", FALSE)
    <3>1. Once'  BY <2>1, <2>2, <2>3, <2>4, <2>7, <2>8, <1>b, SettleOnce
    <3>2. Protocol!Next  BY <2>2, <2>3, <2>5, <2>8, <1>b, SettleRefines, ZenonT(40)
    <3> QED BY <3>1, <3>2 DEF Goal
  <2>9. CASE actor' = "preflight" /\ current' = <<p>> /\ UNCHANGED settled
    <3>1. Range(current') = {p} /\ Range(current) = {}  BY <2>1, <2>9, RangeSmall
    <3>2. (Protocol!Submitted)' = Protocol!Submitted  BY DEF Protocol!Submitted, Protocol!Settlement
    <3>3. Distinct(bus)' /\ Distinct(planQ)'  BY <2>2, <2>4 DEF Once, Distinct
    <3>4. bus' = bus /\ routing' = routing /\ published' = published  BY <2>4
    <3>5. \A q \in Plan :
          /\ q \in Range(bus') => q \notin Range(routing') \cup Range(planQ') \cup Range(current')
          /\ q \in Range(routing') => q \notin Range(planQ') \cup Range(current')
          /\ q \in Range(planQ') => q \notin Range(current')
          /\ q \in Range(bus') \cup Range(routing') \cup Range(planQ') => settled'[q] = <<>>
          /\ q \in Range(current') => settled'[q] = <<>>
          /\ q \notin Range(current') => settled'[q] # <<Protocol!Submitted>>
          /\ q \in Range(bus') \cup Range(routing') \cup Range(planQ') \cup Range(current')
                 \/ settled'[q] # <<>>
             => q \in Range(published')
      BY <2>2, <2>3, <2>7, <2>9, <3>1, <3>4 DEF Once
    <3>6. Once'  BY <2>9, <3>2, <3>3, <3>5 DEF Once
    <3> QED BY <2>9, <3>6 DEF Goal
  <2>10. CASE TryBroadcast(p)
    BY <2>1, <2>2, <2>3, <2>4, <2>5, <2>7, <2>10, TryBroadcastOnce, ZenonT(40) DEF Goal
  <2> QED BY <2>6, <2>8, <2>9, <2>10
<1>13. ASSUME NEW delta \in Delta, PreflightReturns(delta) PROVE Goal
  <2>1. PICK p \in Plan : current = <<p>>  BY <1>13 DEF PreflightReturns, SafetyInv, Hands
  <2>2. Head(current) = p /\ actor = "preflight"  BY <1>13, <2>1, SMTT(30) DEF PreflightReturns
  <2>3. /\ p \notin Range(bus) \cup Range(routing) \cup Range(planQ)
        /\ p \in Range(published) /\ settled[p] = <<>> /\ Protocol!InFlight = {}
    BY <2>1, <2>2, <1>c, <1>d
  <2>4. UNCHANGED <<bus, routing, published, planQ>>
    BY <1>13 DEF PreflightReturns, busVars, routerVars
  <2>5. Range(planQ') = Range(planQ) /\ Distinct(planQ')  BY <2>4 DEF Once
  <2>6. \/ Settle(p, "PreflightFailed", FALSE)
        \/ Settle(p, "PreflightPassed", FALSE)
        \/ TryBroadcast(p)
    BY <1>13, <2>2 DEF PreflightReturns
  <2> HIDE DEF Goal
  <2>7. ASSUME NEW s \in Protocol!UnsentStatus, Settle(p, s, FALSE) PROVE Goal
    <3>1. Once'  BY <2>1, <2>3, <2>4, <2>5, <2>7, SettleOnce
    <3>2. Protocol!Next  BY <2>3, <2>7, SettleRefines
    <3> QED BY <3>1, <3>2 DEF Goal
  <2>8. CASE TryBroadcast(p)
    BY <2>1, <2>3, <2>4, <2>5, <2>8, TryBroadcastOnce DEF Goal
  <2> QED BY <1>b, <2>6, <2>7, <2>8
<1>14. ASSUME PreflightFails \/ SubmitFails PROVE Goal
  <2>1. PICK p \in Plan : current = <<p>>
    BY <1>14 DEF PreflightFails, SubmitFails, SafetyInv, Hands
  <2>2. Head(current) = p /\ actor # "watch"
    <3>1. actor = "preflight" \/ actor = "submit"  BY <1>14 DEF PreflightFails, SubmitFails
    <3> QED BY <2>1, <3>1, SMT
  <2>3. /\ p \notin Range(bus) \cup Range(routing) \cup Range(planQ)
        /\ p \in Range(published) /\ settled[p] = <<>> /\ Protocol!InFlight = {}
    BY <2>1, <2>2, <1>c, <1>d
  <2>4. UNCHANGED <<bus, routing, published, planQ>>
    BY <1>14 DEF PreflightFails, SubmitFails, busVars, routerVars
  <2>5. Range(planQ') = Range(planQ) /\ Distinct(planQ')  BY <2>4 DEF Once
  <2>6. PICK s \in Protocol!UnsentStatus : Settle(p, s, FALSE)
    BY <1>14, <2>2, <1>b DEF PreflightFails, SubmitFails
  <2>7. Once'  BY <2>1, <2>3, <2>4, <2>5, <2>6, SettleOnce
  <2>8. Protocol!Next  BY <2>3, <2>6, SettleRefines
  <2> QED BY <2>7, <2>8
<1>15. CASE SubmitReturns
  <2>1. PICK p \in Plan : current = <<p>>  BY <1>15 DEF SubmitReturns, SafetyInv, Hands
  <2>2. Head(current) = p /\ actor = "submit" /\ actor' = "watch"  BY <1>15, <2>1, SMT DEF SubmitReturns
  <2>3. /\ p \notin Range(bus) \cup Range(routing) \cup Range(planQ)
        /\ p \in Range(published) /\ settled[p] = <<>> /\ Protocol!InFlight = {}
    BY <2>1, <2>2, <1>c, <1>d
  <2>4. UNCHANGED <<bus, routing, published, planQ, current>>
    BY <1>15 DEF SubmitReturns, busVars, routerVars
  <2>5. settled' = [settled EXCEPT ![p] = <<Protocol!Submitted>>]
    <3>1. settled' = [settled EXCEPT ![p] = Append(@, Protocol!Submitted)]
      BY <1>15, <2>2 DEF SubmitReturns, Emit, Protocol!Submitted
    <3>2. Append(<<>>, Protocol!Submitted) = <<Protocol!Submitted>>  BY SMT
    <3> QED BY <2>3, <3>1, <3>2, <1>b
  <2>6. Protocol!Next  BY <2>3, <2>5, ZenonT(40) DEF Protocol!Next, Protocol!Announce
  <2>7. settled'[p] = <<Protocol!Submitted>> /\ \A q \in Plan : q # p => settled'[q] = settled[q]
    BY <2>5, <1>b
  <2>8. Range(current) = {p} /\ Range(current') = {p}  BY <2>1, <2>4, RangeSmall
  <2>9. \A q \in Plan :
          /\ q \in Range(bus') => q \notin Range(routing') \cup Range(planQ') \cup Range(current')
          /\ q \in Range(routing') => q \notin Range(planQ') \cup Range(current')
          /\ q \in Range(planQ') => q \notin Range(current')
          /\ q \in Range(bus') \cup Range(routing') \cup Range(planQ') => settled'[q] = <<>>
          /\ q \in Range(current') => settled'[q] = <<Protocol!Submitted>>
          /\ q \notin Range(current') => settled'[q] # <<Protocol!Submitted>>
          /\ q \in Range(bus') \cup Range(routing') \cup Range(planQ') \cup Range(current')
                 \/ settled'[q] # <<>>
             => q \in Range(published')
    BY <2>3, <2>4, <2>7, <2>8 DEF Once
  <2>10. (Protocol!Submitted)' = Protocol!Submitted  BY DEF Protocol!Submitted, Protocol!Settlement
  <2>11. Distinct(bus)' /\ Distinct(planQ)'  BY <2>4, SMTT(30) DEF Once, Distinct
  <2>12. Once'  BY <2>2, <2>9, <2>10, <2>11 DEF Once
  <2> QED BY <2>6, <2>12
<1>16. ASSUME NEW o \in DOMAIN InclusionStatus, InclusionReturns(o) PROVE Goal
  <2> DEFINE s == InclusionStatus[o]
  <2>1. PICK p \in Plan : current = <<p>>  BY <1>16 DEF InclusionReturns, SafetyInv, Hands
  <2>2. Settle(p, s, TRUE) /\ actor = "watch" /\ s \in Protocol!SentStatus
    <3>1. Head(current) = p  BY <2>1, SMT
    <3> QED BY <1>16, <3>1, <1>b DEF InclusionReturns
  <2>3. /\ p \notin Range(bus) \cup Range(routing) \cup Range(planQ)
        /\ p \in Range(published) /\ settled[p] = <<Protocol!Submitted>>
    BY <2>1, <2>2, <1>d
  <2>4. UNCHANGED <<bus, routing, published, planQ>>
    BY <1>16 DEF InclusionReturns, busVars, routerVars
  <2>5. Range(planQ') = Range(planQ) /\ Distinct(planQ')  BY <2>4 DEF Once
  <2> HIDE DEF s
  <2>6. Once'  BY <2>1, <2>2, <2>3, <2>4, <2>5, SettleOnce
  <2>9. Protocol!Conclude(p, s)  BY <2>2, <2>3 DEF Settle, Emit, Protocol!Conclude
  <2>10. Protocol!Next  BY <2>2, <2>9 DEF Protocol!Next
  <2> QED BY <2>6, <2>10
<1>17. CASE ActorStop
  <2>1. UNCHANGED <<bus, routing, planQ, published, current, settled>> /\ current = <<>>
        /\ actor' = "stopped"
    BY <1>17 DEF ActorStop, busVars, routerVars, SafetyInv, Hands
  <2>2. (Protocol!Submitted)' = Protocol!Submitted  BY DEF Protocol!Submitted, Protocol!Settlement
  <2>3. Range(current) = {}  BY <2>1, RangeSmall
  <2>4. Distinct(bus)' /\ Distinct(planQ)'  BY <2>1 DEF Once, Distinct
  <2>5. Once'  BY <2>1, <2>2, <2>3, <2>4 DEF Once
  <2> QED BY <2>1, <2>5
<1> QED BY <1>1, <1>3, <1>4, <1>5, <1>6, <1>7, <1>8, <1>9, <1>10, <1>11, <1>12, <1>13, <1>14,
           <1>15, <1>16, <1>17 DEF Next, Router, Actor, Environment, Finished

LEMMA InitOnce == Init => Once /\ Protocol!Init
<1> SUFFICES ASSUME Init PROVE Once /\ Protocol!Init  OBVIOUS
<1>1. Protocol!Init  BY DEF Init, Protocol!Init
<1>2. <<>> # <<Protocol!Submitted>>  OBVIOUS
<1>3. Once  BY <1>2, RangeSmall, SMT DEF Init, Once, Distinct
<1> QED BY <1>1, <1>3

\* The Settlements of serve_with_rate_ceiling follow the protocol promised to
\* the coordinator: every Plan is refused once without a hash, or announced
\* and then concluded once, and never while another one is in flight.
THEOREM ImplementsProtocol == Spec => FollowsProtocol
<1>1. SafetyInv /\ Once /\ [Next]_vars => [Protocol!Next]_settled
  BY NextOnce
<1>2. SafetyInv /\ Once /\ [Next]_vars => Once'  BY NextOnce
<1> QED BY <1>1, <1>2, InitOnce, InitSafety, NextSafety, PTL
        DEF Spec, FollowsProtocol, Protocol!Spec
-----------------------------------------------------------------------------
(* The Plans stay in publication order. *)

\* InOrder is inductive once the Plans lost to lag are known to be published.
Ordered == InOrder /\ overwritten \subseteq Range(published)

\* The Plans ahead of the bus, and all that are on their way.
Ahead == current \o planQ \o routing
Line == Ahead \o Only(bus, Plan)

LEMMA LineTypes ==
    ASSUME SafetyInv
    PROVE  /\ current \in Seq(Plan) /\ planQ \in Seq(Plan) /\ routing \in Seq(Plan)
           /\ published \in Seq(Plan) /\ bus \in Seq(Plan \cup {Other})
           /\ Ahead \in Seq(Plan) /\ Only(bus, Plan) \in Seq(Plan)
           /\ current \o (planQ \o routing) = Ahead
           /\ \A o \in Seq(Plan), p \in Plan : Ahead \o Append(o, p) = Append(Ahead \o o, p)
<1>1. /\ current \in Seq(Plan) /\ planQ \in Seq(Plan) /\ routing \in Seq(Plan)
      /\ published \in Seq(Plan) /\ bus \in Seq(Plan \cup {Other})
  BY DEF SafetyInv, TypeOK
<1>2. Ahead \in Seq(Plan)
  BY <1>1, SMT DEF Ahead
<1>3. Only(bus, Plan) \in Seq((Plan \cup {Other}) \cap Plan) /\ (Plan \cup {Other}) \cap Plan = Plan
  BY <1>1, OnlyType
<1>4. current \o (planQ \o routing) = Ahead
  BY <1>1, ConcatAssoc, SMTT(30) DEF Ahead
<1>5. \A o \in Seq(Plan), p \in Plan : Ahead \o Append(o, p) = Append(Ahead \o o, p)
  BY <1>2, AppendConcat, SMT
<1> QED BY <1>1, <1>2, <1>3, <1>4, <1>5

\* run_one_plan settles the Plan at the head of the line.
LEMMA SettleOrdered ==
    ASSUME SafetyInv, Ordered, NEW p \in Plan, NEW h \in BOOLEAN,
           NEW s \in Protocol!UnsentStatus \cup Protocol!SentStatus,
           Settle(p, s, h), UNCHANGED <<busVars, routerVars>>,
           settled[p] \in {<<>>, <<Protocol!Submitted>>},
           planQ' \in Seq(Plan), current \o planQ = <<p>> \o planQ',
           p \notin Range(planQ') \cup Range(routing) \cup Range(bus)
    PROVE  Ordered'
<1> DEFINE q == planQ'
           o == Only(bus, Plan)
           after == q \o routing \o o
<1>1. /\ settled'[p] # <<>> /\ settled'[p] # <<Protocol!Submitted>>
      /\ \A x \in Plan : x # p => settled'[x] = settled[x]
  BY SettleFinal
<1>2. (Protocol!Submitted)' = Protocol!Submitted  BY DEF Protocol!Submitted, Protocol!Settlement
<1>3. /\ bus' = bus /\ published' = published /\ overwritten' = overwritten
      /\ routing' = routing /\ current' = <<>>
  BY DEF busVars, routerVars, Settle
<1>4. \A x \in Plan : x \in Waiting' <=> x \in Waiting /\ x # p
  BY <1>1, <1>2, <1>3 DEF Waiting, Final
<1>5. q \in Seq(Plan \ {p}) /\ routing \in Seq(Plan \ {p}) /\ bus \in Seq((Plan \cup {Other}) \ {p})
  BY LineTypes, SeqWithout
<1>6. o \in Seq(Plan \ {p})
  <2>1. o \in Seq(((Plan \cup {Other}) \ {p}) \cap Plan)  BY <1>5, OnlyType
  <2>2. ((Plan \cup {Other}) \ {p}) \cap Plan = Plan \ {p}  OBVIOUS
  <2> QED BY <2>1, <2>2
<1>7. after \in Seq(Plan \ {p})
  <2> HIDE DEF q, o
  <2> QED BY <1>5, <1>6, SMTT(30)
<1>8. Only(published, Waiting) = <<>> \o <<p>> \o after
  <2>1. Only(published, Waiting) = (<<p>> \o q) \o routing \o o
    BY DEF Ordered, InOrder
  <2>2. q \in Seq(Plan) /\ routing \in Seq(Plan) /\ o \in Seq(Plan) /\ <<p>> \in Seq(Plan)
    BY LineTypes, SMTT(30)
  <2> HIDE DEF q, o
  <2>3. (<<p>> \o q) \o routing = <<p>> \o (q \o routing) /\ q \o routing \in Seq(Plan)
    BY <2>2, ConcatAssoc, SMTT(60)
  <2>4. (<<p>> \o (q \o routing)) \o o = <<p>> \o after
    BY <2>2, <2>3, ConcatAssoc, SMTT(60)
  <2>5. <<>> \o <<p>> = <<p>>
    BY SMT
  <2> QED BY <2>1, <2>3, <2>4, <2>5, SMTT(20)
<1> HIDE DEF after
<1>9. Only(published, Waiting') = after
  <2> DEFINE e == <<>>
  <2>1. e \in Seq(Plan \ {p}) /\ e \o after = after
    BY <1>7, SMT
  <2>2. Leaving(Plan, published, Waiting, p, Waiting', e, after)
    BY <1>4, <1>7, <1>8, <2>1, LineTypes, Zenon DEF Leaving
  <2> HIDE DEF e
  <2>3. Only(published, Waiting') = e \o after
    BY <2>2, OnlyLeave, SMT
  <2> QED BY <2>1, <2>3
<1>10. after = current' \o planQ' \o routing' \o Only(bus', Plan)
  <2>1. <<>> \o q = q
    BY SMT
  <2> QED BY <1>3, <2>1 DEF after
<1>11. Only(published', Waiting') = current' \o planQ' \o routing' \o Only(bus', Plan)
  BY <1>3, <1>9, <1>10
<1> QED BY <1>3, <1>11 DEF Ordered, InOrder

\* A step that changes neither the history nor the line.
LEMMA KeepOrdered ==
    ASSUME SafetyInv, Ordered, UNCHANGED <<published, overwritten>>,
           \A q \in Plan : Final(q)' <=> Final(q),
           current' \o planQ' \o routing' \o Only(bus', Plan)
               = current \o planQ \o routing \o Only(bus, Plan)
    PROVE  Ordered'
<1>1. published' = published /\ overwritten' = overwritten
  OBVIOUS
<1>2. Waiting' = Waiting
  BY <1>1 DEF Waiting
<1>3. Only(published', Waiting') = current' \o planQ' \o routing' \o Only(bus', Plan)
  BY <1>1, <1>2 DEF Ordered, InOrder
<1> QED BY <1>1, <1>3 DEF Ordered, InOrder

LEMMA BusAppend ==
    ASSUME NEW b \in Seq(Plan \cup {Other}), NEW m \in Plan \cup {Other}
    PROVE  Only(Append(b, m), Plan) = IF m \in Plan THEN Append(Only(b, Plan), m) ELSE Only(b, Plan)
BY OnlyAppend, SMT

\* A message is put on the bus.  The oldest unread one may be overwritten; a
\* Plan lost this way was the first on the bus and leaves the line there.
LEMMA PublishOrdered ==
    ASSUME SafetyInv, Once, Ordered, NEW m \in Plan \cup {Other}, Publish(m)
    PROVE  /\ overwritten' \subseteq Range(published) 
           /\ Only(bus', Plan) \in Seq(Plan)
           /\ m \notin Plan => Only(published, Waiting') = Ahead \o Only(bus', Plan)
           /\ m \in Plan => \E o \in Seq(Plan) :
                 /\ Only(published, Waiting') = Ahead \o o
                 /\ Only(bus', Plan) = Append(o, m)
<1>1. /\ busOpen /\ UNCHANGED <<settled, routing, planQ, current>>
      /\ \/ bus' = Append(bus, m) /\ UNCHANGED overwritten
         \/ bus # <<>> /\ bus' = Append(Tail(bus), m)
            /\ overwritten' = overwritten \cup ({Head(bus)} \cap Plan)
  <2>1. bus = <<>> => Len(bus) < BusCapacity  BY BoundAssumption, SMT
  <2> QED BY <2>1 DEF Publish, routerVars, actorVars
<1>2. /\ Ahead \in Seq(Plan) /\ bus \in Seq(Plan \cup {Other}) /\ published \in Seq(Plan)
      /\ Only(bus, Plan) \in Seq(Plan)
  BY LineTypes
<1>3. Only(published, Waiting) = Ahead \o Only(bus, Plan)
  BY DEF Ordered, InOrder, Ahead
<1>4. \A q \in Plan : Final(q)' <=> Final(q)
  <2>1. (Protocol!Submitted)' = Protocol!Submitted  BY DEF Protocol!Submitted, Protocol!Settlement
  <2> QED BY <1>1, <2>1 DEF Final
\* Appending to what is left of the bus.
<1>5. ASSUME NEW b \in Seq(Plan \cup {Other}), bus' = Append(b, m),
             Only(published, Waiting') = Ahead \o Only(b, Plan)
      PROVE  /\ Only(bus', Plan) \in Seq(Plan)
             /\ m \notin Plan => Only(published, Waiting') = Ahead \o Only(bus', Plan)
             /\ m \in Plan => \E o \in Seq(Plan) :
                   /\ Only(published, Waiting') = Ahead \o o
                   /\ Only(bus', Plan) = Append(o, m)
  <2> DEFINE o == Only(b, Plan)
  <2>1. o \in Seq(Plan)
    <3>1. o \in Seq((Plan \cup {Other}) \cap Plan) /\ (Plan \cup {Other}) \cap Plan = Plan
      BY OnlyType
    <3> QED BY <3>1
  <2>2. Only(bus', Plan) = IF m \in Plan THEN Append(o, m) ELSE o
    <3>1. bus' = Append(b, m)  BY <1>5
    <3>2. Only(Append(b, m), Plan) = IF m \in Plan THEN Append(o, m) ELSE o  BY BusAppend
    <3> QED BY <3>1, <3>2
  <2>3. Only(published, Waiting') = Ahead \o o
    BY <1>5
  <2> HIDE DEF o
  <2>4. m \in Plan => Append(o, m) \in Seq(Plan)
    BY <2>1, SMT
  <2> QED BY <2>1, <2>2, <2>3, <2>4, Zenon
<1>6. CASE bus' = Append(bus, m) /\ UNCHANGED overwritten
  <2>1. Waiting' = Waiting
    BY <1>4, <1>6 DEF Waiting
  <2> QED BY <1>2, <1>3, <1>5, <1>6, <2>1 DEF Ordered
<1>7. CASE bus # <<>> /\ bus' = Append(Tail(bus), m) /\ overwritten' = overwritten \cup ({Head(bus)} \cap Plan)
  <2> DEFINE h == Head(bus)
             t == Tail(bus)
             o == Only(t, Plan)
  <2>1. /\ h \in Plan \cup {Other} /\ t \in Seq(Plan \cup {Other}) /\ h \in Range(bus)
        /\ h \in Plan => h \notin Range(t)
    <3>1. h \in Plan \cup {Other} /\ t \in Seq(Plan \cup {Other}) /\ h = bus[1] /\ 1 \in DOMAIN bus
      BY <1>2, <1>7, SMT
    <3>2. h \in Plan => h \notin Range(t)
      BY <1>2, <1>7, DistinctTail DEF Once
    <3> QED BY <3>1, <3>2 DEF Range
  <2>2. /\ h \in Plan    => Only(bus, Plan) = <<h>> \o o
        /\ h \notin Plan => Only(bus, Plan) = o
    BY <1>2, <1>7, OnlyHead
  <2>3. /\ h \in Plan => overwritten' = overwritten \cup {h}
        /\ h \notin Plan => overwritten' = overwritten
    BY <1>7
  <2>4. overwritten' \subseteq Range(published)
    BY <2>1, <2>3, SMT DEF Ordered, Once
  <2> HIDE DEF h, t
  <2>5. Only(published, Waiting') = Ahead \o o
    <3>1. CASE h \notin Plan
      <4>1. Waiting' = Waiting
        BY <1>4, <2>3, <3>1 DEF Waiting
      <4> QED BY <1>3, <2>2, <3>1, <4>1
    <3>2. CASE h \in Plan
      <4>1. \A x \in Plan : x \in Waiting' <=> x \in Waiting /\ x # h
        BY <1>4, <2>3, <3>2 DEF Waiting
      <4>2. t \in Seq((Plan \cup {Other}) \ {h})
        BY <2>1, <3>2, SeqWithout
      <4>3. o \in Seq(Plan \ {h})
        <5>1. o \in Seq(((Plan \cup {Other}) \ {h}) \cap Plan)  BY <4>2, OnlyType
        <5>2. ((Plan \cup {Other}) \ {h}) \cap Plan = Plan \ {h}  OBVIOUS
        <5> QED BY <5>1, <5>2
      <4>4. current \in Seq(Plan \ {h}) /\ planQ \in Seq(Plan \ {h}) /\ routing \in Seq(Plan \ {h})
        <5>1. h \notin Range(current) /\ h \notin Range(planQ) /\ h \notin Range(routing)
          BY <2>1, <3>2 DEF Once
        <5> QED BY <5>1, LineTypes, SeqWithout
      <4>5. Ahead \in Seq(Plan \ {h})
        BY <4>4, SMT DEF Ahead
      <4> HIDE DEF o
      <4>6. Ahead \o (<<h>> \o o) = Ahead \o <<h>> \o o
        <5>1. <<h>> \in Seq(Plan) /\ o \in Seq(Plan)
          BY <3>2, <4>3, SeqWiden, SMT
        <5> QED BY <1>2, <5>1, ConcatAssoc, SMTT(60)
      <4>7. Only(published, Waiting) = Ahead \o <<h>> \o o
        BY <1>3, <2>2, <3>2, <4>6
      <4>8. Leaving(Plan, published, Waiting, h, Waiting', Ahead, o)
        BY <1>2, <3>2, <4>1, <4>3, <4>5, <4>7, Zenon DEF Leaving
      <4> QED BY <4>8, OnlyLeave, SMTT(30)
    <3> QED BY <3>1, <3>2
  <2> QED BY <1>5, <1>7, <2>1, <2>4, <2>5 DEF h, t
<1> QED BY <1>1, <1>6, <1>7

\* A step of the actor on the Plan at the head of the line: it settles it, or
\* takes it to the next await.
LEMMA ActorOrdered ==
    ASSUME SafetyInv, Ordered, NEW p \in Plan, UNCHANGED <<busVars, routerVars>>,
           settled[p] \in {<<>>, <<Protocol!Submitted>>},
           planQ' \in Seq(Plan), current \o planQ = <<p>> \o planQ',
           p \notin Range(planQ') \cup Range(routing) \cup Range(bus),
           \/ \E s \in Protocol!UnsentStatus \cup Protocol!SentStatus, h \in BOOLEAN : Settle(p, s, h)
           \/ UNCHANGED settled /\ current' = <<p>>
    PROVE  Ordered'
<1>1. CASE \E s \in Protocol!UnsentStatus \cup Protocol!SentStatus, h \in BOOLEAN : Settle(p, s, h)
  BY <1>1, SettleOrdered
<1>2. CASE UNCHANGED settled /\ current' = <<p>>
  <2>1. /\ bus' = bus /\ published' = published /\ overwritten' = overwritten /\ routing' = routing
    BY DEF busVars, routerVars
  <2>2. (Protocol!Submitted)' = Protocol!Submitted  BY DEF Protocol!Submitted, Protocol!Settlement
  <2>3. \A q \in Plan : Final(q)' <=> Final(q)  BY <1>2, <2>2 DEF Final
  <2>4. current' \o planQ' \o routing' \o Only(bus', Plan) = current \o planQ \o routing \o Only(bus, Plan)
    BY <1>2, <2>1
  <2> QED BY <2>1, <2>3, <2>4, KeepOrdered
<1> QED BY <1>1, <1>2

LEMMA NextOrdered == SafetyInv /\ SafetyInv' /\ Once /\ Ordered /\ [Next]_vars => Ordered'
<1> SUFFICES ASSUME SafetyInv, SafetyInv', Once, Ordered, [Next]_vars PROVE Ordered'  OBVIOUS
<1>a. /\ current \in Seq(Plan) /\ planQ \in Seq(Plan) /\ routing \in Seq(Plan)
      /\ published \in Seq(Plan) /\ bus \in Seq(Plan \cup {Other})
      /\ Ahead \in Seq(Plan) /\ Only(bus, Plan) \in Seq(Plan)
  BY LineTypes
<1>b. planQ' \in Seq(Plan)
  BY DEF SafetyInv, TypeOK
<1>c. {"Dropped", "PreflightFailed", "PreflightPassed", "BroadcastFailed"} \subseteq Protocol!UnsentStatus
      /\ \A o \in DOMAIN InclusionStatus : InclusionStatus[o] \in Protocol!SentStatus
  BY SMT DEF Protocol!UnsentStatus, Protocol!SentStatus, InclusionStatus
\* No Settlement is emitted.
<1>d. ASSUME UNCHANGED settled PROVE \A q \in Plan : Final(q)' <=> Final(q)
  <2>1. (Protocol!Submitted)' = Protocol!Submitted  BY DEF Protocol!Submitted, Protocol!Settlement
  <2> QED BY <1>d, <2>1 DEF Final
\* The line does not move.
<1>e. ASSUME UNCHANGED <<published, overwritten, settled, current, planQ, routing, bus>> PROVE Ordered'
  BY <1>d, <1>e, KeepOrdered
<1>1. CASE UNCHANGED vars
  BY <1>1, <1>e DEF vars, busVars, routerVars, actorVars
<1>2. CASE Tick \/ CloseBus \/ RouterLagged \/ RouterClosed \/ RouterJoin \/ ActorStop
  BY <1>2, <1>e DEF Tick, CloseBus, RouterLagged, RouterClosed, RouterJoin, ActorStop,
                    busVars, routerVars, actorVars
<1>3. ASSUME NEW p \in Plan, PublishPlan(p) PROVE Ordered'
  <2>1. /\ Publish(p) /\ published' = Append(published, p) /\ p \notin Range(published)
        /\ UNCHANGED <<current, planQ, routing, settled>>
    BY <1>3 DEF PublishPlan, Publish, routerVars, actorVars
  <2>2. PICK o \in Seq(Plan) : Only(published, Waiting') = Ahead \o o /\ Only(bus', Plan) = Append(o, p)
    BY <2>1, PublishOrdered
  <2>3. overwritten' \subseteq Range(published) /\ Range(published') = Range(published) \cup {p}
    BY <2>1, <1>a, PublishOrdered, AppendRange
  <2>4. p \in Waiting'
    <3>1. settled[p] = <<>>  BY <2>1 DEF Once
    <3>2. p \notin overwritten'  BY <2>1, <2>3
    <3> QED BY <2>1, <3>1, <3>2 DEF Waiting, Final
  <2>5. Only(published', Waiting') = Append(Only(published, Waiting'), p)
    BY <1>a, <2>1, <2>4, OnlyAppend, SMTT(30)
  <2>6. Ahead \o Append(o, p) = Append(Ahead \o o, p)
    BY <1>a, LineTypes
  <2>7. Only(published', Waiting') = Ahead \o Only(bus', Plan)
    BY <2>2, <2>5, <2>6
  <2>8. Ahead = current' \o planQ' \o routing'
    BY <2>1 DEF Ahead
  <2> QED BY <2>3, <2>7, <2>8 DEF Ordered, InOrder
<1>4. CASE PublishOther
  <2>1. /\ Publish(Other) /\ UNCHANGED <<current, planQ, routing, published>>
    BY <1>4 DEF PublishOther, Publish, routerVars, actorVars
  <2>2. /\ overwritten' \subseteq Range(published)
        /\ Only(published, Waiting') = Ahead \o Only(bus', Plan)
    BY <2>1, PlanAssumption, PublishOrdered
  <2>3. Ahead = current' \o planQ' \o routing'
    BY <2>1 DEF Ahead
  <2> QED BY <2>1, <2>2, <2>3 DEF Ordered, InOrder
<1>5. CASE RouterPlan
  <2>1. /\ bus # <<>> /\ Head(bus) \in Plan /\ bus' = Tail(bus) /\ routing = <<>> /\ routing' = <<Head(bus)>>
        /\ UNCHANGED <<published, overwritten, settled, current, planQ>>
    BY <1>5 DEF RouterPlan, SafetyInv, Hands, actorVars
  <2> DEFINE h == Head(bus)
             o == Only(bus', Plan)
             c == current \o planQ
  <2>2. Only(bus, Plan) = <<h>> \o o
    BY <1>a, <2>1, OnlyHead
  <2>3. c \in Seq(Plan) /\ <<h>> \in Seq(Plan) /\ c \o <<>> = c
    BY <1>a, <2>1, SMT
  <2>4. o \in Seq(Plan)
    <3>1. bus' \in Seq(Plan \cup {Other})
      BY <1>a, <2>1, SMT
    <3>2. o \in Seq((Plan \cup {Other}) \cap Plan) /\ (Plan \cup {Other}) \cap Plan = Plan
      BY <3>1, OnlyType
    <3> QED BY <3>2
  <2> HIDE DEF h, o, c
  <2>5. (c \o <<>>) \o (<<h>> \o o) = (c \o <<h>>) \o o
    BY <2>3, <2>4, ConcatAssoc, SMTT(30)
  <2>6. current' \o planQ' \o routing' \o Only(bus', Plan) = current \o planQ \o routing \o Only(bus, Plan)
    BY <2>1, <2>2, <2>5 DEF h, o, c
  <2> QED BY <2>1, <2>6, <1>d, KeepOrdered
<1>6. CASE RouterIgnore
  <2>1. /\ bus # <<>> /\ Head(bus) \notin Plan /\ bus' = Tail(bus)
        /\ UNCHANGED <<published, overwritten, settled, current, planQ, routing>>
    BY <1>6 DEF RouterIgnore, actorVars, routerVars
  <2>2. Only(bus, Plan) = Only(bus', Plan)
    BY <1>a, <2>1, OnlyHead
  <2> QED BY <2>1, <2>2, <1>d, KeepOrdered
<1>7. CASE RouterSend
  <2>1. /\ planQ' = planQ \o routing /\ routing' = <<>>
        /\ UNCHANGED <<published, overwritten, settled, current, bus>>
    BY <1>7 DEF RouterSend, actorVars, busVars
  <2>2. current \o (planQ \o routing) = current \o planQ \o routing
    BY LineTypes DEF Ahead
  <2>3. Ahead \o <<>> = Ahead
    BY <1>a, SMT
  <2>4. current' \o planQ' \o routing' \o Only(bus', Plan) = current \o planQ \o routing \o Only(bus, Plan)
    BY <2>1, <2>2, <2>3 DEF Ahead
  <2> QED BY <2>1, <2>4, <1>d, KeepOrdered
\* The rate ceiling.
<1>f. ASSUME NEW p \in Plan, TryBroadcast(p)
      PROVE  \/ \E s \in Protocol!UnsentStatus \cup Protocol!SentStatus, h \in BOOLEAN : Settle(p, s, h)
             \/ UNCHANGED settled /\ current' = <<p>>
  BY <1>c, <1>f DEF TryBroadcast
<1>8. CASE ActorTake
  <2> DEFINE p == Head(planQ)
  <2>1. planQ # <<>> /\ planQ' = Tail(planQ) /\ current = <<>> /\ UNCHANGED <<busVars, routerVars>>
    BY <1>8 DEF ActorTake, SafetyInv, Hands
  <2>2. /\ p \in Plan /\ p \in Range(planQ) /\ p \notin Range(planQ')
        /\ current \o planQ = <<p>> \o planQ'
    <3>1. p \in Plan /\ p = planQ[1] /\ 1 \in DOMAIN planQ /\ current \o planQ = <<p>> \o planQ'
      BY <1>a, <2>1, SMT
    <3>2. p \notin Range(planQ')
      BY <1>a, <2>1, <3>1, DistinctTail DEF Once
    <3> QED BY <3>1, <3>2 DEF Range
  <2>3. settled[p] = <<>> /\ p \notin Range(routing) \cup Range(bus)
    BY <2>2 DEF Once
  <2>4. \/ \E s \in Protocol!UnsentStatus \cup Protocol!SentStatus, h \in BOOLEAN : Settle(p, s, h)
        \/ UNCHANGED settled /\ current' = <<p>>
    BY <1>8, <1>c, <1>f, <2>2 DEF ActorTake
  <2> HIDE DEF p
  <2> QED BY <1>b, <2>1, <2>2, <2>3, <2>4, ActorOrdered
\* The Plan in the actor's hands is nowhere else, and not settled.
<1>g. ASSUME NEW p \in Plan, current = <<p>>, UNCHANGED <<busVars, routerVars, planQ>>,
             \/ \E s \in Protocol!UnsentStatus \cup Protocol!SentStatus, h \in BOOLEAN : Settle(p, s, h)
             \/ UNCHANGED settled /\ current' = <<p>>
      PROVE  Ordered'
  <2>1. p \in Range(current)
    BY <1>g, RangeSmall
  <2>2. settled[p] \in {<<>>, <<Protocol!Submitted>>} /\ p \notin Range(planQ') \cup Range(routing) \cup Range(bus)
    BY <1>g, <2>1 DEF Once
  <2>3. current \o planQ = <<p>> \o planQ'
    BY <1>g
  <2> QED BY <1>b, <1>g, <2>2, <2>3, ActorOrdered
<1>9. ASSUME NEW delta \in Delta, PreflightReturns(delta) PROVE Ordered'
  <2>1. PICK p \in Plan : current = <<p>>  BY <1>9 DEF PreflightReturns, SafetyInv, Hands
  <2>2. Head(current) = p  BY <2>1, SMT
  <2>3. \/ \E s \in Protocol!UnsentStatus \cup Protocol!SentStatus, h \in BOOLEAN : Settle(p, s, h)
        \/ UNCHANGED settled /\ current' = <<p>>
    BY <1>9, <1>c, <1>f, <2>2 DEF PreflightReturns
  <2>4. UNCHANGED <<busVars, routerVars, planQ>>  BY <1>9 DEF PreflightReturns
  <2> QED BY <1>g, <2>1, <2>3, <2>4
<1>10. ASSUME PreflightFails \/ SubmitFails PROVE Ordered'
  <2>1. PICK p \in Plan : current = <<p>>
    BY <1>10 DEF PreflightFails, SubmitFails, SafetyInv, Hands
  <2>2. Head(current) = p  BY <2>1, SMT
  <2>3. /\ UNCHANGED <<busVars, routerVars, planQ>>
        /\ Settle(p, "PreflightFailed", FALSE) \/ Settle(p, "BroadcastFailed", FALSE)
    BY <1>10, <2>2 DEF PreflightFails, SubmitFails
  <2> QED BY <1>c, <1>g, <2>1, <2>3
<1>11. CASE SubmitReturns
  <2>1. PICK p \in Plan : current = <<p>>  BY <1>11 DEF SubmitReturns, SafetyInv, Hands
  <2>2. /\ UNCHANGED <<bus, published, overwritten, routing, planQ, current>>
        /\ actor = "submit"
        /\ settled' = [settled EXCEPT ![Head(current)] = Append(@, Protocol!Submitted)]
    BY <1>11 DEF SubmitReturns, Emit, Protocol!Submitted, busVars, routerVars
  <2>3. Head(current) = p /\ p \in Range(current)  BY <2>1, RangeSmall, SMT
  <2>4. settled[p] = <<>>  BY <2>2, <2>3 DEF Once
  <2>5. settled'[p] = <<Protocol!Submitted>> /\ \A q \in Plan : q # p => settled'[q] = settled[q]
    <3>1. settled \in [Plan -> Seq(SettlementRecord)]  BY DEF SafetyInv, TypeOK
    <3>2. settled'[p] = Append(<<>>, Protocol!Submitted) /\ \A q \in Plan : q # p => settled'[q] = settled[q]
      BY <2>2, <2>3, <2>4, <3>1
    <3> QED BY <3>2, SMT
  <2>6. (Protocol!Submitted)' = Protocol!Submitted  BY DEF Protocol!Submitted, Protocol!Settlement
  <2>7. \A q \in Plan : Final(q)' <=> Final(q)  BY <2>4, <2>5, <2>6 DEF Final
  <2> QED BY <2>2, <2>7, KeepOrdered
<1>12. ASSUME NEW o \in DOMAIN InclusionStatus, InclusionReturns(o) PROVE Ordered'
  <2>1. PICK p \in Plan : current = <<p>>  BY <1>12 DEF InclusionReturns, SafetyInv, Hands
  <2>2. Head(current) = p  BY <2>1, SMT
  <2>3. /\ UNCHANGED <<busVars, routerVars, planQ>>
        /\ Settle(p, InclusionStatus[o], TRUE) /\ InclusionStatus[o] \in Protocol!SentStatus
    BY <1>12, <2>2, <1>c DEF InclusionReturns
  <2> QED BY <1>g, <2>1, <2>3
<1> QED BY <1>1, <1>2, <1>3, <1>4, <1>5, <1>6, <1>7, <1>8, <1>9, <1>10, <1>11, <1>12,
           SMTT(20) DEF Next, Router, Actor, Environment, Finished

\* Whatever the coordinator publishes, however far the receiver lags and
\* whatever the backend returns, no Plan overtakes another, none is run twice,
\* and none disappears without a Settlement or a lag.
THEOREM InOrderAlways == Spec => []InOrder
<1>1. Init => Ordered
  <2> SUFFICES ASSUME Init PROVE Ordered  OBVIOUS
  <2>1. published = <<>> /\ current = <<>> /\ planQ = <<>> /\ routing = <<>> /\ bus = <<>> /\ overwritten = {}
    BY DEF Init
  <2>2. Only(<<>>, Waiting) = <<>> /\ Only(<<>>, Plan) = <<>> /\ <<>> \o <<>> = <<>>
    BY OnlyEmpty, SMT
  <2> QED BY <2>1, <2>2 DEF Ordered, InOrder
<1>2. Ordered => InOrder  BY DEF Ordered
<1>3. SafetyInv /\ Once /\ [Next]_vars => Once'  BY NextOnce
<1> QED BY <1>1, <1>2, <1>3, InitOnce, InitSafety, NextSafety, NextOrdered, PTL DEF Spec
-----------------------------------------------------------------------------
(* Shutdown loses nothing. *)

\* What the two tasks know of each other while they shut down.
Shutdown ==
    /\ ~queueOpen => router \in {"drain", "stopped"}
    /\ router \in {"drain", "stopped"} => bus = <<>> /\ ~busOpen
    /\ actor = "stopped" => planQ = <<>> /\ ~queueOpen
    /\ router = "stopped" => actor = "stopped"

LEMMA NextShutdown == SafetyInv /\ Shutdown /\ [Next]_vars => Shutdown'
<1> SUFFICES ASSUME SafetyInv, Shutdown, [Next]_vars PROVE Shutdown'  OBVIOUS
<1>1. CASE UNCHANGED vars
  BY <1>1 DEF Shutdown, vars, busVars, routerVars, actorVars
<1>2. CASE CloseBus \/ Tick \/ RouterLagged
  BY <1>2, SMT DEF Shutdown, CloseBus, Tick, RouterLagged, busVars, routerVars, actorVars
<1>3. ASSUME NEW m, Publish(m) PROVE Shutdown'
  BY <1>3 DEF Shutdown, Publish, routerVars, actorVars
<1>4. CASE RouterPlan \/ RouterIgnore
  BY <1>4 DEF Shutdown, RouterPlan, RouterIgnore, routerVars, actorVars
\* The queue is open while the router has a Plan to send, so the actor runs.
<1>5. CASE RouterSend
  BY <1>5 DEF Shutdown, RouterSend, busVars, actorVars
<1>6. CASE RouterClosed \/ RouterJoin
  BY <1>6, SMT DEF Shutdown, RouterClosed, RouterJoin, busVars, actorVars
\* The actor's steps on a Plan: neither task has stopped.
<1>7. ASSUME actor # "stopped", actor' \in {"recv", "preflight", "submit", "watch"},
             UNCHANGED <<busVars, routerVars>>
      PROVE  Shutdown'
  BY <1>7 DEF Shutdown, busVars, routerVars
<1>8. CASE ActorTake
  BY <1>7, <1>8 DEF ActorTake, TryBroadcast, Settle
<1>9. ASSUME NEW delta \in Delta, PreflightReturns(delta) PROVE Shutdown'
  BY <1>7, <1>9 DEF PreflightReturns, TryBroadcast, Settle
<1>10. CASE PreflightFails \/ SubmitReturns \/ SubmitFails
            \/ \E o \in DOMAIN InclusionStatus : InclusionReturns(o)
  <2>1. /\ actor # "stopped" /\ actor' \in {"recv", "preflight", "submit", "watch"}
        /\ UNCHANGED <<busVars, routerVars>>
    BY <1>10 DEF PreflightFails, SubmitReturns, SubmitFails, InclusionReturns, Settle
  <2> QED BY <1>7, <2>1
<1>11. CASE ActorStop
  BY <1>11 DEF Shutdown, ActorStop, busVars, routerVars
<1> QED BY <1>1, <1>2, <1>3, <1>4, <1>5, <1>6, <1>8, <1>9, <1>10, <1>11
        DEF Next, Router, Actor, Environment, Finished, PublishPlan, PublishOther

\* When serve_message_bus returns, the actor has stopped and every Plan that
\* reached the bus has its last Settlement, unless the receiver lagged: the
\* order "drop plan_tx, then await the actor" loses nothing.
THEOREM DrainedAlways == Spec => []DrainedOnReturn
<1>1. Init => Shutdown  BY DEF Init, Shutdown
<1>2. SafetyInv /\ InOrder /\ Shutdown => DrainedOnReturn
  <2> SUFFICES ASSUME SafetyInv, InOrder, Shutdown, router = "stopped"
               PROVE  actor = "stopped" /\ \A p \in Range(published) : p \in overwritten \/ Final(p)
    BY DEF DrainedOnReturn
  <2>1. bus = <<>> /\ routing = <<>> /\ planQ = <<>> /\ current = <<>> /\ actor = "stopped"
    BY DEF Shutdown, SafetyInv, Hands
  <2>2. Only(published, Waiting) = <<>>
    <3>1. Only(<<>>, Plan) = <<>> /\ <<>> \o <<>> = <<>>
      BY OnlyEmpty, SMT
    <3> QED BY <2>1, <3>1 DEF InOrder
  <2>3. Range(published) \cap Waiting = {}
    <3>1. Range(Only(published, Waiting)) = Range(published) \cap Waiting
      BY LineTypes, OnlyRange
    <3> QED BY <2>2, <3>1, RangeSmall
  <2>4. Range(published) \subseteq Plan
    BY LineTypes, SMT DEF Range
  <2> QED BY <2>1, <2>3, <2>4 DEF Waiting
<1> QED BY <1>1, <1>2, InOrderAlways, InitSafety, NextSafety, NextShutdown, PTL DEF Spec
-----------------------------------------------------------------------------
(* The rate ceiling. *)

\* The ticks in which the limiter regains k broadcasts.
Gap(k) == k * Interval

\* The bucket of RateLimiter::check seen from each attempt i: every attempt
\* since has pushed tat one Interval further, and none was let through while
\* tat was more than a full bucket ahead of the clock.
Paced ==
    /\ \A i \in DOMAIN attempts : attempts[i] <= now
    /\ Ceiling > 0 =>
          /\ \A i \in DOMAIN attempts : attempts[i] + Gap(Len(attempts) - i + 1) <= tat
          /\ \A i, j \in DOMAIN attempts :
                i <= j => attempts[i] + Gap(j - i + 1 - Ceiling) <= attempts[j]

LEMMA GapFacts ==
    /\ \A a \in Int : Gap(a) \in Int
    /\ Gap(0) = 0
    /\ \A a \in Int : Gap(a + 1) = Gap(a) + Interval
    /\ \A a, b \in Int : Gap(a - b) = Gap(a) - Gap(b)
    /\ \A a, b \in Int : Gap(a) < Gap(b) => a < b
    /\ Gap(Ceiling) \in Nat
<1> USE LimiterAssumption
<1>1. \A a \in Int : Gap(a) \in Int
  BY SMT DEF Gap
<1>2. Gap(0) = 0 /\ Gap(Ceiling) \in Nat
  BY SMT DEF Gap
<1>3. \A a \in Int : Gap(a + 1) = Gap(a) + Interval
  BY SMT DEF Gap
<1>4. \A a, b \in Int : Gap(a - b) = Gap(a) - Gap(b)
  BY SMT DEF Gap
<1>5. ASSUME NEW a \in Int, NEW b \in Int, a >= b PROVE Gap(a) >= Gap(b)
  <2>1. a - b \in Nat /\ Gap(a - b) \in Nat
    BY <1>5, SMT DEF Gap
  <2>2. Gap(a - b) = Gap(a) - Gap(b) /\ Gap(a) \in Int /\ Gap(b) \in Int
    BY <1>1, <1>4
  <2> HIDE DEF Gap
  <2> QED BY <2>1, <2>2, SMT
<1>6. \A a, b \in Int : Gap(a) < Gap(b) => a < b
  BY <1>1, <1>5, SMT
<1> QED BY <1>1, <1>2, <1>3, <1>4, <1>6

LEMMA GapStep ==
    ASSUME NEW a \in Nat, NEW k \in Int, NEW m \in Int, m = k + 1, NEW c \in Nat, NEW t \in Nat,
           a + Gap(k) + Interval <= t, t <= c + Gap(Ceiling)
    PROVE  a + Gap(m) <= t /\ a + Gap(m - Ceiling) <= c
<1> USE LimiterAssumption
<1>1. Ceiling \in Int
  BY SMT
<1>2. Gap(m) = Gap(k) + Interval /\ Gap(k) \in Int
  BY GapFacts
<1>3. Gap(m - Ceiling) = Gap(m) - Gap(Ceiling) /\ Gap(Ceiling) \in Int
  BY <1>1, GapFacts
<1> QED BY <1>2, <1>3, SMTT(30)

\* One more attempt, at c, that moves the bucket's time from t0 to t1.
LEMMA OneMore ==
    ASSUME NEW s \in Seq(Nat), NEW c \in Nat, NEW t0 \in Nat, NEW t1 \in Nat,
           t0 + Interval <= t1, c + Interval <= t1, t1 <= c + Gap(Ceiling),
           \A i \in 1..Len(s) : s[i] + Gap(Len(s) - i + 1) <= t0
    PROVE  \A i \in 1..(Len(s) + 1) :
               /\ Append(s, c)[i] + Gap((Len(s) + 1) - i + 1) <= t1
               /\ Append(s, c)[i] + Gap((Len(s) + 1) - i + 1 - Ceiling) <= c
<1> USE LimiterAssumption
<1> SUFFICES ASSUME NEW i \in 1..(Len(s) + 1)
             PROVE  /\ Append(s, c)[i] + Gap((Len(s) + 1) - i + 1) <= t1
                    /\ Append(s, c)[i] + Gap((Len(s) + 1) - i + 1 - Ceiling) <= c
  OBVIOUS
<1> DEFINE a == Append(s, c)[i]
           k == Len(s) - i + 1
           m == (Len(s) + 1) - i + 1
<1>1. a \in Nat /\ k \in Int /\ m \in Int /\ m = k + 1
  BY SMTT(20)
<1>2. a + Gap(k) + Interval <= t1
  <2>1. CASE i = Len(s) + 1
    <3>1. a = c /\ k = 0
      BY <2>1, SMT
    <3> HIDE DEF a, k
    <3>2. Gap(k) = 0
      BY <3>1, GapFacts
    <3> QED BY <3>1, <3>2, SMT
  <2>2. CASE i # Len(s) + 1
    <3>1. i \in 1..Len(s) /\ a = s[i]
      BY <2>2, SMT
    <3>2. a + Gap(k) <= t0
      BY <3>1
    <3> DEFINE g == Gap(k)
    <3> HIDE DEF a, k
    <3>3. g \in Int
      BY <1>1, GapFacts
    <3>4. a + g <= t0
      BY <3>2
    <3> HIDE DEF g
    <3>5. a + g + Interval <= t1
      BY <1>1, <3>3, <3>4, SMTT(30)
    <3> QED BY <3>5 DEF g
  <2> QED BY <2>1, <2>2
<1> HIDE DEF a, k, m
<1>3. a + Gap(m) <= t1 /\ a + Gap(m - Ceiling) <= c
  BY <1>1, <1>2, GapStep
<1> QED BY <1>3, SMTT(30) DEF a, m

\* The limiter lets one more attempt through.
LEMMA AttemptPaced ==
    ASSUME SafetyInv, Paced, LimiterAllows, now' = now,
           tat' = (IF Ceiling = 0 THEN tat ELSE Later(tat, now) + Interval),
           attempts' = Append(attempts, now)
    PROVE  Paced'
<1> USE LimiterAssumption
<1> DEFINE n == Len(attempts)
           late == attempts'
<1>1. attempts \in Seq(Nat) /\ now \in Nat /\ tat \in Nat /\ n \in Nat
  BY SMT DEF SafetyInv, TypeOK
<1>2. /\ DOMAIN attempts = 1..n /\ DOMAIN late = 1..(n + 1) /\ Len(late) = n + 1
      /\ \A i \in 1..n : late[i] = attempts[i] /\ attempts[i] \in Nat
      /\ late[n + 1] = now
  BY <1>1, SMT
<1>3. ASSUME Ceiling > 0
      PROVE  \A i \in 1..(n + 1) : /\ late[i] + Gap((n + 1) - i + 1) <= tat'
                                   /\ late[i] + Gap((n + 1) - i + 1 - Ceiling) <= now
  <2>1. /\ tat' \in Nat /\ tat + Interval <= tat' /\ now + Interval <= tat'
        /\ tat' <= now + Gap(Ceiling)
    BY <1>1, <1>3, SMT DEF LimiterAllows, Later, Gap
  <2>2. \A i \in 1..Len(attempts) : attempts[i] + Gap(Len(attempts) - i + 1) <= tat
    BY <1>2, <1>3 DEF Paced
  <2> QED BY <1>1, <2>1, <2>2, OneMore
<1> HIDE DEF n, late
<1>4. \A i \in DOMAIN late : late[i] <= now'
  BY <1>1, <1>2, SMT DEF Paced
<1>5. ASSUME Ceiling > 0, NEW i \in 1..(n + 1), NEW j \in 1..(n + 1), i <= j
      PROVE  late[i] + Gap(j - i + 1 - Ceiling) <= late[j]
  <2>1. CASE j = n + 1
    BY <1>2, <1>3, <1>5, <2>1
  <2>2. CASE j # n + 1
    <3>1. i \in 1..n /\ j \in 1..n
      BY <1>1, <1>5, <2>2, SMTT(30)
    <3> QED BY <1>2, <1>5, <3>1 DEF Paced
  <2> QED BY <2>1, <2>2
<1> QED BY <1>2, <1>3, <1>4, <1>5 DEF Paced, late

\* Only TryBroadcast moves the limiter, and the clock only moves forward.
LEMMA NextPaced == SafetyInv /\ Paced /\ [Next]_vars => Paced'
<1> SUFFICES ASSUME SafetyInv, Paced, [Next]_vars PROVE Paced'  OBVIOUS
<1>0. attempts \in Seq(Nat) /\ now \in Nat
  BY DEF SafetyInv, TypeOK
<1>1. ASSUME UNCHANGED <<tat, attempts>>, now' \in Nat, now' >= now PROVE Paced'
  <2>1. \A i \in DOMAIN attempts : attempts[i] \in Nat
    BY <1>0, SMT
  <2>2. \A i \in DOMAIN attempts : attempts[i] <= now'
    BY <1>0, <1>1, <2>1, SMTT(30) DEF Paced
  <2> QED BY <1>1, <2>2 DEF Paced
<1>2. ASSUME NEW p, TryBroadcast(p), UNCHANGED now PROVE Paced'
  <2>1. CASE UNCHANGED <<tat, attempts>>
    BY <1>0, <1>1, <1>2, <2>1, SMTT(30)
  <2>2. CASE ~UNCHANGED <<tat, attempts>>
    BY <1>2, <2>2, AttemptPaced DEF TryBroadcast
  <2> QED BY <2>1, <2>2
<1>3. CASE UNCHANGED vars
  BY <1>0, <1>1, <1>3, SMTT(30) DEF vars, actorVars
<1>4. CASE Router
  BY <1>0, <1>1, <1>4, SMTT(30) DEF Router, actorVars, RouterLagged, RouterPlan,
     RouterIgnore, RouterSend, RouterClosed, RouterJoin
<1>5. CASE Environment
  <2>1. CASE Tick
    BY <1>0, <1>1, <2>1, SMTT(30) DEF Tick, actorVars
  <2>2. CASE UNCHANGED <<now, actorVars>>
    BY <1>0, <1>1, <2>2, SMTT(30) DEF actorVars
  <2> QED BY <1>5, <2>1, <2>2 DEF Environment, PublishPlan, PublishOther, Publish, CloseBus
<1>6. CASE ActorTake
  <2>1. UNCHANGED now /\ (UNCHANGED <<tat, attempts>> \/ \E p : TryBroadcast(p))
    BY <1>6 DEF ActorTake
  <2> QED BY <1>0, <1>1, <1>2, <2>1, SMTT(30)
<1>7. ASSUME NEW delta \in Delta, PreflightReturns(delta) PROVE Paced'
  <2>1. UNCHANGED now /\ (UNCHANGED <<tat, attempts>> \/ \E p : TryBroadcast(p))
    BY <1>7 DEF PreflightReturns
  <2> QED BY <1>0, <1>1, <1>2, <2>1, SMTT(30)
<1>8. CASE PreflightFails \/ SubmitReturns \/ SubmitFails \/ ActorStop
           \/ \E o \in DOMAIN InclusionStatus : InclusionReturns(o)
  <2>1. UNCHANGED <<now, tat, attempts>>
    BY <1>8 DEF PreflightFails, SubmitReturns, SubmitFails, ActorStop, InclusionReturns
  <2> QED BY <1>0, <1>1, <2>1, SMTT(30)
<1> QED BY <1>3, <1>4, <1>5, <1>6, <1>7, <1>8 DEF Next, Actor, Finished

\* In every window of a minute fewer than twice tx_rate_ceiling_per_min
\* broadcasts are attempted, for every ceiling and every length of the minute.
THEOREM RateBoundAlways == Spec => []RateBound
<1>1. Init => Paced
  BY SMT DEF Init, Paced
<1>2. SafetyInv /\ Paced => RateBound
  <2> SUFFICES ASSUME SafetyInv, Paced, Ceiling > 0, NEW t \in 0..now
               PROVE  AttemptsInMinute(t) < 2 * Ceiling
    BY DEF RateBound
  <2> USE LimiterAssumption
  <2> DEFINE X == {i \in DOMAIN attempts : t <= attempts[i] /\ attempts[i] < t + Minute}
  <2>1. /\ attempts \in Seq(Nat) /\ DOMAIN attempts = 1..Len(attempts) /\ Len(attempts) \in Nat
        /\ t \in Nat /\ Minute \in Nat
    BY SMT DEF SafetyInv, TypeOK, Minute
  <2>2. CASE X = {}
    <3>1. Cardinality(X) = 0
      BY <2>2, FS_EmptySet
    <3> QED BY <3>1, SMT DEF AttemptsInMinute
  <2>3. CASE X # {}
    <3>1. X \subseteq Nat
      BY <2>1, SMT
    <3>2. PICK m \in X : \A k \in X : m <= k
      BY <2>3, <3>1, LeastNatural
    <3> DEFINE Y == m..(m + 2 * Ceiling - 2)
    <3>3. ASSUME NEW j \in X PROVE j \in Y
      <4>1. /\ m \in Nat /\ j \in Nat /\ m <= j /\ attempts[m] \in Nat /\ attempts[j] \in Nat
            /\ t <= attempts[m] /\ attempts[j] < t + Gap(Ceiling)
        BY <2>1, <3>1, <3>2, SMTT(30) DEF Minute, Gap
      <4>2. attempts[m] + Gap(j - m + 1 - Ceiling) <= attempts[j]
        BY <3>2, <4>1 DEF Paced
      <4>3. j - m + 1 - Ceiling \in Int /\ Ceiling \in Int
        BY <4>1, SMT
      <4>4. Gap(j - m + 1 - Ceiling) \in Int /\ Gap(Ceiling) \in Int
        BY <4>3, GapFacts
      <4>5. Gap(j - m + 1 - Ceiling) < Gap(Ceiling)
        BY <2>1, <4>1, <4>2, <4>4, SMTT(30)
      <4>6. j - m + 1 - Ceiling < Ceiling
        BY <4>3, <4>5, GapFacts
      <4> QED BY <4>1, <4>6, SMTT(30)
    <3>4. IsFiniteSet(Y) /\ Cardinality(Y) = 2 * Ceiling - 1
      <4>1. m \in Int /\ m + 2 * Ceiling - 2 \in Int /\ ~(m > m + 2 * Ceiling - 2)
            /\ (m + 2 * Ceiling - 2) - m + 1 = 2 * Ceiling - 1
        BY <3>1, SMT
      <4> QED BY <4>1, FS_Interval
    <3> HIDE DEF X, Y
    <3>5. Cardinality(X) <= Cardinality(Y) /\ Cardinality(X) \in Nat
      <4>1. X \subseteq Y
        BY <3>3
      <4>2. IsFiniteSet(X) /\ Cardinality(X) <= Cardinality(Y)
        BY <3>4, <4>1, FS_Subset
      <4> QED BY <4>2, FS_CardinalityType
    <3>6. AttemptsInMinute(t) = Cardinality(X)
      BY DEF AttemptsInMinute, X
    <3> QED BY <3>4, <3>5, <3>6, SMTT(30)
  <2> QED BY <2>2, <2>3
<1> QED BY <1>1, <1>2, InitSafety, NextSafety, NextPaced, PTL DEF Spec
=============================================================================

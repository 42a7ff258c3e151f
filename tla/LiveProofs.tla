----------------------------- MODULE LiveProofs ------------------------------
(***************************************************************************)
(* What is proved of the live backend (LiveBackend).                        *)
(*   - For any number of concurrent callers and lanes: type correctness,    *)
(*     and at most one Plan in the nonce refresh.                          *)
(*   - One actor, one endpoint, mempools that forget nothing: the nonces    *)
(*     the cache hands out are consecutive and never used twice, whatever   *)
(*     the calls return and whatever else the account sends.               *)
(*   - Any number of concurrent callers: until the cache can first expire   *)
(*     or a send fails, no two of them hold the same nonce.                *)
(*   - One actor: the balance delta reported for a mined Plan is its own.   *)
(***************************************************************************)
EXTENDS LiveBackend, TLAPS

USE LaneAssumption, PlanAssumption, BoundAssumption

\* Most leaves are first-order reasoning about the control and go to Zenon;
\* the ones about numbers, records and sequences cite SMT.
USE Zenon

LEMMA EndpointType == \A p \in Plan : Endpoint(p) \in Lane
BY DEF Endpoint, provider_for, Lane

LEMMA InitType == Init => TypeOK
BY SMT DEF Init, TypeOK, None, Place, Outcome, Lane

\* The shape of pc, the outcomes and the lock after a step of p.
LEMMA GotoFacts ==
    ASSUME TypeOK, NEW p \in Plan, NEW l \in Place, Goto(p, l)
    PROVE  /\ pc' \in [Plan -> Place]
           /\ pc'[p] = l
           /\ \A q \in Plan : q # p => pc'[q] = pc[q]
BY DEF TypeOK, Goto

LEMMA LockFacts ==
    ASSUME TypeOK, NEW p \in Plan, NEW l \in Place, Goto(p, l),
           \/ /\ l \notin {"refresh", "prime", "take"} /\ pc[p] \notin {"refresh", "prime", "take"} /\ lock' = lock
           \/ /\ l \notin {"refresh", "prime", "take"} /\ pc[p] \in {"refresh", "prime", "take"} /\ lock' = {}
           \/ /\ l \in {"refresh", "prime", "take"} /\ pc[p] \in {"refresh", "prime", "take"} /\ lock' = lock
           \/ /\ l \in {"refresh", "prime", "take"} /\ lock = {} /\ lock' = {p}
    PROVE  /\ lock' = {q \in Plan : pc'[q] \in {"refresh", "prime", "take"}}
           /\ \A q, r \in lock' : q = r
<1>1. /\ pc'[p] = l /\ \A q \in Plan : q # p => pc'[q] = pc[q]  BY GotoFacts
<1>2. /\ lock = {q \in Plan : pc[q] \in {"refresh", "prime", "take"}} /\ \A q, r \in lock : q = r
  BY DEF TypeOK
<1>3. lock' \subseteq Plan /\ \A q, r \in lock' : q = r  BY <1>2
<1>4. \A q \in Plan : q \in lock' <=> pc'[q] \in {"refresh", "prime", "take"}  BY <1>1, <1>2, SMT
<1> QED BY <1>3, <1>4

LEMMA ReturnFacts ==
    ASSUME TypeOK, NEW p \in Plan, NEW o \in Outcome, Return(p, o)
    PROVE  /\ Goto(p, "done") /\ "done" \in Place
           /\ outcome' \in [Plan -> Outcome]
           /\ outcome'[p] = o /\ \A q \in Plan : q # p => outcome'[q] = outcome[q]
BY DEF TypeOK, Return, Place

LEMMA TakeFacts ==
    ASSUME TypeOK, NEW p \in Plan, NEW c \in [pending : Nat \cup {None}, last_refresh : Nat],
           c.pending # None, Take(p, c)
    PROVE  /\ nonce' \in [Plan -> Nat \cup {None}]
           /\ nonce'[p] = c.pending /\ nonce'[p] \in Nat
           /\ \A q \in Plan : q # p => nonce'[q] = nonce[q]
           /\ cache' \in [pending : Nat \cup {None}, last_refresh : Nat]
           /\ cache'.pending = c.pending + 1
BY SMTT(30) DEF TypeOK, Take, None

LEMMA ForgetFacts ==
    ASSUME NEW c \in [pending : Nat \cup {None}, last_refresh : Nat], Forget(c)
    PROVE  /\ cache' \in [pending : Nat \cup {None}, last_refresh : Nat]
           /\ cache'.pending = None
BY DEF Forget

LEMMA ClearFacts ==
    ASSUME Clear
    PROVE  /\ cache' \in [pending : Nat \cup {None}, last_refresh : Nat]
           /\ cache'.pending = None
BY DEF Clear, None

LEMMA AcceptedFacts ==
    ASSUME TypeOK, NEW p \in Plan, Accepted(p)
    PROVE  pool' \in [Lane -> SUBSET Plan] /\ sent' \subseteq Plan
           /\ chain' = chain /\ reverted' = reverted /\ balance' = balance
BY EndpointType DEF TypeOK, Accepted

LEMMA NextType == TypeOK /\ [Next]_vars => TypeOK'
<1> SUFFICES ASSUME TypeOK, [Next]_vars PROVE TypeOK'  OBVIOUS
<1> DEFINE Cache == [pending : Nat \cup {None}, last_refresh : Nat]
           Refreshers == {p \in Plan : pc[p] \in {"refresh", "prime", "take"}}
<1>0. "balance" \in Place /\ "nonce" \in Place /\ "lock" \in Place /\ "refresh" \in Place
      /\ "prime" \in Place /\ "take" \in Place /\ "send" \in Place /\ "watch" \in Place /\ "receipt" \in Place
      /\ "count" \in Place /\ "post" \in Place /\ "done" \in Place
      /\ {"NotSent", "Mined", "Replaced", "Dropped", "WatchError"} \subseteq Outcome
  BY DEF Place, Outcome
<1>1. CASE UNCHANGED vars
  BY <1>1 DEF vars, backend, world, TypeOK
<1>2. ASSUME NEW p \in Plan, Start(p) PROVE TypeOK'
  <2>1. /\ pc' \in [Plan -> Place] /\ lock' = Refreshers' /\ \A q, r \in lock' : q = r
    BY <1>2, <1>0, GotoFacts, LockFacts DEF Start
  <2> QED BY <1>2, <2>1 DEF Start, TypeOK, world
<1>3. ASSUME NEW p \in Plan, ReadPreBalance(p) PROVE TypeOK'
  <2>1. /\ pc' \in [Plan -> Place] /\ lock' = Refreshers' /\ \A q, r \in lock' : q = r
        /\ outcome' \in [Plan -> Outcome]
    <3>1. CASE Goto(p, "nonce") /\ UNCHANGED outcome
      BY <1>3, <1>0, <3>1, GotoFacts, LockFacts DEF ReadPreBalance, TypeOK
    <3>2. CASE Return(p, "NotSent")
      BY <1>3, <1>0, <3>2, GotoFacts, LockFacts, ReturnFacts DEF ReadPreBalance
    <3> QED BY <1>3, <3>1, <3>2 DEF ReadPreBalance
  <2>2. pre' \in [Plan -> Int]  BY <1>3, ZenonT(40) DEF ReadPreBalance, TypeOK
  <2> QED BY <1>3, <2>1, <2>2 DEF ReadPreBalance, TypeOK, world
<1>4. ASSUME NEW p \in Plan, TryCache(p) PROVE TypeOK'
  <2>1. /\ pc' \in [Plan -> Place] /\ lock' = Refreshers' /\ \A q, r \in lock' : q = r
    BY <1>4, <1>0, GotoFacts, LockFacts DEF TryCache
  <2>2. cache' \in Cache /\ nonce' \in [Plan -> Nat \cup {None}]
    <3>1. cache \in Cache  BY DEF TypeOK
    <3>2. CASE Fresh(cache) /\ Take(p, cache)  BY <3>1, <3>2, TakeFacts DEF Fresh
    <3>3. CASE Forget(cache) /\ UNCHANGED nonce  BY <3>1, <3>3, ForgetFacts DEF TypeOK
    <3> QED BY <1>4, <3>2, <3>3 DEF TryCache
  <2> QED BY <1>4, <2>1, <2>2 DEF TryCache, TypeOK, world
<1>5. ASSUME NEW p \in Plan, LockRefresh(p) PROVE TypeOK'
  <2>1. cache \in Cache  BY DEF TypeOK
  <2>2. CASE Fresh(cache) /\ Take(p, cache) /\ Goto(p, "send") /\ UNCHANGED <<lock, seen>>
    <3>1. /\ pc' \in [Plan -> Place] /\ lock' = Refreshers' /\ \A q, r \in lock' : q = r
      BY <1>5, <1>0, <2>2, GotoFacts, LockFacts DEF LockRefresh
    <3>2. cache' \in Cache /\ nonce' \in [Plan -> Nat \cup {None}]
      BY <2>1, <2>2, TakeFacts DEF Fresh
    <3> QED BY <1>5, <2>2, <3>1, <3>2 DEF LockRefresh, TypeOK, world
  <2>3. CASE /\ Forget(cache) /\ lock' = {p} /\ seen' = [seen EXCEPT ![p] = [count |-> @.count, at |-> now]]
             /\ Goto(p, "refresh") /\ UNCHANGED nonce
    <3>1. /\ pc' \in [Plan -> Place] /\ lock' = Refreshers' /\ \A q, r \in lock' : q = r
      BY <1>5, <1>0, <2>3, GotoFacts, LockFacts DEF LockRefresh
    <3>2. cache' \in Cache  BY <2>1, <2>3, ForgetFacts
    <3>3. seen' \in [Plan -> [count : Nat, at : Nat]]  BY <2>3 DEF TypeOK
    <3> QED BY <1>5, <2>3, <3>1, <3>2, <3>3 DEF LockRefresh, TypeOK, world
  <2> QED BY <1>5, <2>2, <2>3 DEF LockRefresh
<1>6. ASSUME NEW p \in Plan, ReadPendingCount(p) PROVE TypeOK'
  <2>1. /\ pc' \in [Plan -> Place] /\ lock' = Refreshers' /\ \A q, r \in lock' : q = r
    BY <1>6, <1>0, GotoFacts, LockFacts DEF ReadPendingCount
  <2>2. seen' \in [Plan -> [count : Nat, at : Nat]]  BY <1>6, SMT DEF ReadPendingCount, TypeOK
  <2> QED BY <1>6, <2>1, <2>2 DEF ReadPendingCount, TypeOK, world
<1>7. ASSUME NEW p \in Plan, PendingCountFails(p) PROVE TypeOK'
  <2>1. /\ pc' \in [Plan -> Place] /\ lock' = Refreshers' /\ \A q, r \in lock' : q = r
        /\ outcome' \in [Plan -> Outcome]
    BY <1>7, <1>0, GotoFacts, LockFacts, ReturnFacts DEF PendingCountFails
  <2> QED BY <1>7, <2>1 DEF PendingCountFails, TypeOK, world
<1>8. ASSUME NEW p \in Plan, Prime(p) PROVE TypeOK'
  <2>1. /\ pc' \in [Plan -> Place] /\ lock' = Refreshers' /\ \A q, r \in lock' : q = r
    BY <1>8, <1>0, GotoFacts, LockFacts DEF Prime
  <2>2. cache' \in Cache  BY <1>8 DEF Prime, TypeOK
  <2> QED BY <1>8, <2>1, <2>2 DEF Prime, TypeOK, world
<1>20. ASSUME NEW p \in Plan, TakePrimed(p) PROVE TypeOK'
  <2>1. cache \in Cache  BY DEF TypeOK
  <2>2. CASE Fresh(cache) /\ Take(p, cache) /\ Goto(p, "send") /\ UNCHANGED outcome
    <3>1. /\ pc' \in [Plan -> Place] /\ lock' = Refreshers' /\ \A q, r \in lock' : q = r
      BY <1>20, <1>0, <2>2, GotoFacts, LockFacts DEF TakePrimed
    <3>2. cache' \in Cache /\ nonce' \in [Plan -> Nat \cup {None}]
      BY <2>1, <2>2, TakeFacts DEF Fresh
    <3> QED BY <1>20, <2>2, <3>1, <3>2 DEF TakePrimed, TypeOK, world
  <2>3. CASE Forget(cache) /\ Return(p, "NotSent") /\ UNCHANGED nonce
    <3>1. /\ pc' \in [Plan -> Place] /\ lock' = Refreshers' /\ \A q, r \in lock' : q = r
          /\ outcome' \in [Plan -> Outcome]
      BY <1>20, <1>0, <2>3, GotoFacts, LockFacts, ReturnFacts DEF TakePrimed
    <3>2. cache' \in Cache  BY <2>1, <2>3, ForgetFacts
    <3> QED BY <1>20, <2>3, <3>1, <3>2 DEF TakePrimed, TypeOK, world
  <2> QED BY <1>20, <2>2, <2>3 DEF TakePrimed
<1>9. ASSUME NEW p \in Plan, SendAccepted(p) PROVE TypeOK'
  <2>1. /\ pc' \in [Plan -> Place] /\ lock' = Refreshers' /\ \A q, r \in lock' : q = r
    BY <1>9, <1>0, GotoFacts, LockFacts DEF SendAccepted
  <2> QED BY <1>9, <2>1, AcceptedFacts DEF SendAccepted, TypeOK
<1>10. ASSUME NEW p \in Plan, SendUnanswered(p) PROVE TypeOK'
  <2>1. /\ pc' \in [Plan -> Place] /\ lock' = Refreshers' /\ \A q, r \in lock' : q = r
        /\ outcome' \in [Plan -> Outcome]
    BY <1>10, <1>0, GotoFacts, LockFacts, ReturnFacts DEF SendUnanswered
  <2> QED BY <1>10, <2>1, AcceptedFacts, ClearFacts DEF SendUnanswered, TypeOK
<1>11. ASSUME NEW p \in Plan, SendRejected(p) PROVE TypeOK'
  <2>1. /\ pc' \in [Plan -> Place] /\ lock' = Refreshers' /\ \A q, r \in lock' : q = r
        /\ outcome' \in [Plan -> Outcome]
    BY <1>11, <1>0, GotoFacts, LockFacts, ReturnFacts DEF SendRejected
  <2> QED BY <1>11, <2>1, ClearFacts DEF SendRejected, TypeOK, world
<1>12. ASSUME NEW p \in Plan, WatchDeadline(p) \/ CheckReplacement(p) \/ CheckReceipt(p) PROVE TypeOK'
  <2>1. /\ pc' \in [Plan -> Place] /\ lock' = Refreshers' /\ \A q, r \in lock' : q = r
        /\ outcome' \in [Plan -> Outcome]
    <3>1. pc[p] \notin {"refresh", "prime", "take"} /\ lock' = lock
      BY <1>12 DEF WatchDeadline, CheckReplacement, CheckReceipt
    <3>2. ASSUME NEW l \in {"receipt", "count", "post", "watch"}, Goto(p, l), UNCHANGED outcome
          PROVE  <2>1
      <4>1. l \in Place /\ l \notin {"refresh", "prime", "take"}  BY DEF Place
      <4>2. pc' \in [Plan -> Place]  BY <1>0, <3>2, <4>1, GotoFacts
      <4>3. lock' = Refreshers' /\ \A q, r \in lock' : q = r
        BY <1>0, <3>1, <3>2, <4>1, LockFacts
      <4>4. outcome' \in [Plan -> Outcome]  BY <1>0, <3>2 DEF TypeOK
      <4> QED BY <4>2, <4>3, <4>4
    <3>3. ASSUME NEW o \in {"Dropped", "Replaced"}, Return(p, o) PROVE <2>1
      BY <1>0, <3>1, <3>3, GotoFacts, LockFacts, ReturnFacts
    <3> QED BY <1>12, <3>2, <3>3 DEF WatchDeadline, CheckReplacement, CheckReceipt
  <2>2. submitted' \subseteq Plan
    BY <1>12 DEF WatchDeadline, CheckReplacement, CheckReceipt, TypeOK
  <2>3. UNCHANGED <<now, cache, nonce, seen, pre, delta, world>>
    BY <1>12 DEF WatchDeadline, CheckReplacement, CheckReceipt
  <2> QED BY <2>1, <2>2, <2>3 DEF TypeOK, world
<1>13. ASSUME NEW p \in Plan, ReadPostBalance(p) PROVE TypeOK'
  <2>1. /\ pc' \in [Plan -> Place] /\ lock' = Refreshers' /\ \A q, r \in lock' : q = r
        /\ outcome' \in [Plan -> Outcome]
    BY <1>13, <1>0, GotoFacts, LockFacts, ReturnFacts DEF ReadPostBalance
  <2>2. delta' \in [Plan -> Int]  BY <1>13, SMT DEF ReadPostBalance, TypeOK
  <2> QED BY <1>13, <2>1, <2>2 DEF ReadPostBalance, TypeOK, world
<1>14. ASSUME NEW p \in Plan, WatchFails(p) PROVE TypeOK'
  <2>1. /\ pc' \in [Plan -> Place] /\ lock' = Refreshers' /\ \A q, r \in lock' : q = r
        /\ outcome' \in [Plan -> Outcome]
    BY <1>14, <1>0, GotoFacts, LockFacts, ReturnFacts DEF WatchFails
  <2> QED BY <1>14, <2>1 DEF WatchFails, TypeOK, world
<1>15. ASSUME NEW tx \in Plan \cup {Foreign}, Include(tx), balance' \in Int, reverted' \subseteq Plan PROVE TypeOK'
  <2>1. chain' \in Seq(Plan \cup {Foreign}) /\ pool' \in [Lane -> SUBSET Plan]
    BY <1>15, SMT DEF Include, TypeOK
  <2> QED BY <1>15, <2>1 DEF Include, TypeOK, backend
<1>16. ASSUME NEW p \in Plan, Mine(p) PROVE TypeOK'
  <2>1. balance' \in Int /\ reverted' \subseteq Plan  BY <1>16, SMTT(30) DEF Mine, TypeOK
  <2> QED BY <1>15, <1>16, <2>1 DEF Mine
<1>17. CASE MineForeign
  BY <1>15, <1>17 DEF MineForeign, TypeOK
<1>18. ASSUME NEW p \in Plan, Evict(p) PROVE TypeOK'
  BY <1>18, SMTT(30) DEF Evict, TypeOK, backend
<1>19. CASE Tick
  BY <1>19, SMT DEF Tick, TypeOK, backend, world
<1> QED BY <1>1, <1>2, <1>3, <1>4, <1>5, <1>6, <1>7, <1>8, <1>9, <1>10, <1>11, <1>12, <1>13,
           <1>14, <1>16, <1>17, <1>18, <1>19, <1>20 DEF Next, Step, Finished

\* The state keeps its shape, and at most one Plan refreshes the nonce cache
\* at a time, for any number of concurrent callers.
THEOREM TypeCorrect == Spec => []TypeOK
BY InitType, NextType, PTL DEF Spec

AtMostOneActive == \A p, q \in Active : p = q
-----------------------------------------------------------------------------
(* The balance delta.                                                         *)

InFlight == {"nonce", "lock", "refresh", "prime", "take", "send", "watch", "receipt", "count", "post"}
AfterSend == {"watch", "receipt", "count", "post", "done"}

NoneAbandoned == \A q \in Plan : ~Abandoned(q)

\* What the mined transaction of p did to the balance.
Gain(p) == IF p \in Range(chain) /\ p \notin reverted THEN Effect[p] ELSE 0

\* Plan p is sent once and mined at most once, below the nonces still pending;
\* the backend says Mined only of a mined transaction; and since it read the
\* balance nothing but p's own transaction has moved it.
OwnDelta(p) ==
    /\ outcome[p] = "Pending" <=> pc[p] # "done"
    /\ p \in sent => pc[p] \in AfterSend /\ nonce[p] \in Nat
    /\ \A e \in Lane : p \in pool[e] => p \in sent /\ nonce[p] >= Len(chain)
    /\ p \in Range(chain) => p \in sent /\ nonce[p] < Len(chain)
    /\ p \in reverted => p \in Range(chain)
    /\ pc[p] = "post" \/ outcome[p] = "Mined" => p \in Range(chain)
    /\ NoneAbandoned => /\ pc[p] \in InFlight => balance = pre[p] + Gain(p)
                        /\ outcome[p] = "Mined" => delta[p] = Gain(p)

DeltaInv == TypeOK /\ AtMostOneActive /\ \A p \in Plan : OwnDelta(p)

LEMMA InitDelta == Init => DeltaInv
<1> SUFFICES ASSUME Init PROVE DeltaInv  OBVIOUS
<1>1. TypeOK  BY InitType
<1>2. AtMostOneActive  BY DEF Init, AtMostOneActive, Active
<1>3. Range(chain) = {}  BY SMT DEF Init, Range
<1>4. \A p \in Plan : OwnDelta(p)  BY <1>3 DEF Init, OwnDelta, InFlight
<1> QED BY <1>1, <1>2, <1>4 DEF DeltaInv

\* Everything that Plan q's part of the invariant looks at, but the chain.
Same(q) ==
    /\ pc'[q] = pc[q] /\ nonce'[q] = nonce[q] /\ outcome'[q] = outcome[q]
    /\ pre'[q] = pre[q] /\ delta'[q] = delta[q] /\ (q \in sent' <=> q \in sent)
    /\ \A e \in Lane : q \in pool'[e] => q \in pool[e]

LEMMA SameKeeps ==
    ASSUME NEW q \in Plan, OwnDelta(q), Same(q), UNCHANGED <<chain, reverted, balance>>,
           NoneAbandoned' => NoneAbandoned
    PROVE  OwnDelta(q)'
<1>1. Gain(q)' = Gain(q)  BY DEF Gain
<1> QED BY <1>1 DEF OwnDelta, Same

\* A step of the one active Plan, while the chain stands still.
LEMMA StepOf ==
    ASSUME DeltaInv, TypeOK', NEW p \in Active, NEW l \in Place, Goto(p, l),
           UNCHANGED <<chain, reverted, balance>>, p \in sent => p \in sent',
           \A q \in Plan \ {p} : Same(q),
           (NoneAbandoned' => NoneAbandoned) /\ Gain(p)' = Gain(p) => OwnDelta(p)'
    PROVE  DeltaInv'
<1>0. p \in Plan /\ pc[p] # "done"  BY DEF Active
<1>1. AtMostOneActive'
  <2>1. \A q \in Plan : q # p => pc[q] \in {"idle", "done"} /\ pc'[q] = pc[q]
    BY <1>0, GotoFacts DEF DeltaInv, AtMostOneActive, Active
  <2> QED BY <2>1 DEF AtMostOneActive, Active
<1>2. NoneAbandoned' => NoneAbandoned
  <2>1. outcome[p] = "Pending"  BY <1>0 DEF DeltaInv, OwnDelta
  <2>2. ~Abandoned(p)  BY <2>1 DEF Abandoned
  <2>3. \A q \in Plan \ {p} : Abandoned(q) => Abandoned(q)'  BY DEF Same, Abandoned
  <2> QED BY <1>0, <2>2, <2>3 DEF NoneAbandoned
<1>3. Gain(p)' = Gain(p)  BY DEF Gain
<1>4. \A q \in Plan \ {p} : OwnDelta(q)'  BY <1>2, SameKeeps DEF DeltaInv
<1> QED BY <1>1, <1>2, <1>3, <1>4 DEF DeltaInv

\* What a step of p leaves of the other Plans.
LEMMA OthersSame ==
    ASSUME TypeOK, NEW p \in Plan, NEW l \in Place, Goto(p, l), UNCHANGED <<delta, world>>,
           \A q \in Plan \ {p} : nonce'[q] = nonce[q] /\ outcome'[q] = outcome[q] /\ pre'[q] = pre[q]
    PROVE  \A q \in Plan \ {p} : Same(q)
<1>1. pool' = pool /\ sent' = sent  BY DEF world
<1>2. \A q \in Plan \ {p} : pc'[q] = pc[q]  BY GotoFacts
<1> QED BY <1>1, <1>2 DEF Same

\* p goes on: it has not sent yet, or it keeps its nonce.
GoesOn(p, l) ==
    /\ Goto(p, l) /\ UNCHANGED <<outcome, pre, delta, world>>
    /\ \A q \in Plan \ {p} : nonce'[q] = nonce[q]
    /\ pc[p] \in AfterSend => l \in AfterSend /\ nonce'[p] = nonce[p]

LEMMA GoesOnKeeps ==
    ASSUME DeltaInv, TypeOK', NEW p \in Plan, pc[p] \in InFlight, NEW l \in InFlight,
           GoesOn(p, l), l = "post" => p \in Range(chain)
    PROVE  DeltaInv'
<1>1. p \in Active /\ l \in Place /\ l # "done" /\ pc[p] # "done"
  BY DEF Active, Place, InFlight
<1>2. /\ Goto(p, l) /\ pool' = pool /\ sent' = sent
      /\ UNCHANGED <<outcome, pre, delta, chain, reverted, balance, world>>
  BY DEF GoesOn, world
<1>3. pc'[p] = l  BY <1>1, <1>2, GotoFacts DEF DeltaInv
<1>4. \A q \in Plan \ {p} : Same(q)  BY <1>1, <1>2, OthersSame DEF GoesOn, DeltaInv
<1>5. OwnDelta(p)  BY DEF DeltaInv
<1>6. p \in sent => nonce'[p] = nonce[p] /\ l \in AfterSend  BY <1>5 DEF OwnDelta, GoesOn
<1>7. (NoneAbandoned' => NoneAbandoned) /\ Gain(p)' = Gain(p) => OwnDelta(p)'
  BY <1>1, <1>2, <1>3, <1>5, <1>6 DEF OwnDelta
<1> QED BY <1>1, <1>2, <1>4, <1>7, StepOf

\* p is given up.
GivesUp(p) ==
    /\ \E o \in {"NotSent", "Dropped", "WatchError", "Replaced"} : Return(p, o)
    /\ UNCHANGED <<nonce, pre, delta, world>>

LEMMA GivesUpKeeps ==
    ASSUME DeltaInv, TypeOK', NEW p \in Active, GivesUp(p)
    PROVE  DeltaInv'
<1>0. p \in Plan  BY DEF Active
<1>1. PICK o \in {"NotSent", "Dropped", "WatchError", "Replaced"} : Return(p, o)  BY DEF GivesUp
<1>2. o \in Outcome /\ o # "Pending" /\ o # "Mined"  BY DEF Outcome
<1>3. /\ Goto(p, "done") /\ "done" \in Place /\ outcome'[p] = o
      /\ \A q \in Plan : q # p => outcome'[q] = outcome[q]
  BY <1>0, <1>1, <1>2, ReturnFacts DEF DeltaInv
<1>4. /\ pool' = pool /\ sent' = sent
      /\ UNCHANGED <<nonce, pre, delta, chain, reverted, balance, world>>
  BY DEF GivesUp, world
<1>5. pc'[p] = "done"  BY <1>0, <1>3, GotoFacts DEF DeltaInv
<1>6. \A q \in Plan \ {p} : Same(q)  BY <1>0, <1>3, <1>4, OthersSame DEF DeltaInv
<1>7. OwnDelta(p)  BY <1>0 DEF DeltaInv
<1>8. OwnDelta(p)'  BY <1>2, <1>3, <1>4, <1>5, <1>7 DEF OwnDelta, AfterSend, InFlight
<1> QED BY <1>3, <1>4, <1>6, <1>8, StepOf

\* Before the submission, none of p's transaction is in the balance.
LEMMA ReadPreKeeps ==
    ASSUME DeltaInv, TypeOK', NEW p \in Plan, pc[p] = "balance", Goto(p, "nonce"),
           pre' = [pre EXCEPT ![p] = balance], UNCHANGED <<outcome, nonce, delta, world>>
    PROVE  DeltaInv'
<1>1. p \in Active /\ "nonce" \in Place  BY DEF Active, Place
<1>2. pool' = pool /\ sent' = sent /\ UNCHANGED <<chain, reverted, balance>>  BY DEF world
<1>3. pc'[p] = "nonce"  BY <1>1, GotoFacts DEF DeltaInv
<1>4. pre'[p] = balance /\ balance \in Int /\ \A q \in Plan \ {p} : pre'[q] = pre[q]
  BY DEF DeltaInv, TypeOK
<1>5. \A q \in Plan \ {p} : Same(q)  BY <1>1, <1>4, OthersSame DEF DeltaInv
<1>6. OwnDelta(p)  BY DEF DeltaInv
<1>7. p \notin sent /\ p \notin Range(chain)  BY <1>6 DEF OwnDelta, AfterSend
<1>8. Gain(p) = 0  BY <1>7 DEF Gain
<1>9. balance' = pre'[p] + Gain(p)  BY <1>2, <1>4, <1>8, SMT
<1>10. Gain(p)' = Gain(p) => OwnDelta(p)'
  BY <1>2, <1>3, <1>6, <1>7, <1>9 DEF OwnDelta
<1> QED BY <1>1, <1>2, <1>5, <1>10, StepOf

\* The transaction goes out, and the answer is heard or not.
LEMMA SendKeeps ==
    ASSUME DeltaInv, TypeOK', NEW p \in Plan, pc[p] = "send", Accepted(p),
           \/ Goto(p, "watch") /\ outcome' = outcome
           \/ Return(p, "NotSent"),
           UNCHANGED <<nonce, pre, delta>>
    PROVE  DeltaInv'
<1>1. /\ sent' = sent \cup {p} /\ nonce[p] >= Len(chain)
      /\ UNCHANGED <<chain, reverted, balance>>
      /\ \A e \in Lane : pool'[e] \subseteq pool[e] \cup {p}
  BY EndpointType DEF Accepted, DeltaInv, TypeOK
<1>2. nonce[p] \in Nat
  <2>1. nonce[p] \in Nat \cup {None}  BY DEF DeltaInv, TypeOK
  <2>2. chain \in Seq(Plan \cup {Foreign})  BY DEF DeltaInv, TypeOK
  <2>3. Len(chain) \in Nat  BY <2>2, SMT
  <2>4. nonce[p] >= Len(chain)  BY DEF Accepted
  <2> QED BY <2>1, <2>3, <2>4, SMT DEF None
<1>3. p \in Active /\ "watch" \in Place /\ "NotSent" \in Outcome  BY DEF Active, Place, Outcome
<1>4. OwnDelta(p)  BY DEF DeltaInv
<1>5. PICK l \in {"watch", "done"} :
         /\ Goto(p, l) /\ l \in Place
         /\ outcome'[p] = "Pending" <=> l # "done"
         /\ outcome'[p] # "Mined"
         /\ \A q \in Plan : q # p => outcome'[q] = outcome[q]
  <2>1. CASE Goto(p, "watch") /\ outcome' = outcome
    <3>1. outcome[p] = "Pending"  BY <1>4 DEF OwnDelta
    <3> QED BY <1>3, <2>1, <3>1
  <2>2. CASE Return(p, "NotSent")  BY <1>3, <2>2, ReturnFacts DEF DeltaInv
  <2> QED BY <2>1, <2>2
<1>6. pc'[p] = l /\ \A q \in Plan \ {p} : pc'[q] = pc[q]  BY <1>5, GotoFacts DEF DeltaInv
<1>7. \A q \in Plan \ {p} : Same(q)  BY <1>1, <1>5, <1>6 DEF Same
<1>8. pc[p] \in InFlight /\ l \in AfterSend /\ l # "post"  BY DEF InFlight, AfterSend
<1>9. (NoneAbandoned' => NoneAbandoned) /\ Gain(p)' = Gain(p) => OwnDelta(p)'
  BY <1>1, <1>2, <1>4, <1>5, <1>6, <1>8 DEF OwnDelta
<1> QED BY <1>1, <1>3, <1>5, <1>7, <1>9, StepOf

\* After the receipt, the balance holds p's own transaction and no other.
LEMMA ReadPostKeeps ==
    ASSUME DeltaInv, TypeOK', NEW p \in Plan, ReadPostBalance(p)
    PROVE  DeltaInv'
<1>1. /\ pc[p] = "post" /\ Return(p, "Mined") /\ pool' = pool /\ sent' = sent
      /\ UNCHANGED <<nonce, pre, chain, reverted, balance>>
      /\ delta' = [delta EXCEPT ![p] = balance - pre[p]]
  BY DEF world, ReadPostBalance
<1>2. p \in Active /\ "Mined" \in Outcome  BY <1>1 DEF Active, Outcome
<1>3. /\ Goto(p, "done") /\ "done" \in Place /\ outcome'[p] = "Mined"
      /\ \A q \in Plan : q # p => outcome'[q] = outcome[q]
  BY <1>1, <1>2, ReturnFacts DEF DeltaInv
<1>4. pc'[p] = "done" /\ \A q \in Plan \ {p} : pc'[q] = pc[q]  BY <1>3, GotoFacts DEF DeltaInv
<1>5. delta'[p] = balance - pre[p] /\ \A q \in Plan \ {p} : delta'[q] = delta[q]
  BY <1>1 DEF DeltaInv, TypeOK
<1>6. \A q \in Plan \ {p} : Same(q)  BY <1>1, <1>3, <1>4, <1>5 DEF Same
<1>7. OwnDelta(p)  BY DEF DeltaInv
<1>8. NoneAbandoned => delta'[p] = Gain(p)
  <2>1. pre[p] \in Int /\ Gain(p) \in Int  BY SMT DEF DeltaInv, TypeOK, Gain
  <2>2. NoneAbandoned => balance = pre[p] + Gain(p)  BY <1>1, <1>7 DEF OwnDelta, InFlight
  <2> QED BY <1>5, <2>1, <2>2, SMT
<1>9. p \in Range(chain)  BY <1>1, <1>7 DEF OwnDelta
<1>10. (NoneAbandoned' => NoneAbandoned) /\ Gain(p)' = Gain(p) => OwnDelta(p)'
  BY <1>1, <1>3, <1>4, <1>7, <1>8, <1>9 DEF OwnDelta, AfterSend, InFlight
<1> QED BY <1>1, <1>2, <1>3, <1>6, <1>10, StepOf

LEMMA RangeAppend ==
    ASSUME NEW S, NEW s \in Seq(S), NEW x \in S
    PROVE  Range(Append(s, x)) = Range(s) \cup {x}
<1> DEFINE t == Append(s, x)
<1>1. Len(s) \in Nat /\ DOMAIN s = 1..Len(s) /\ DOMAIN t = 1..(Len(s) + 1)  BY SMT
<1>2. t[Len(s) + 1] = x /\ \A i \in 1..Len(s) : t[i] = s[i]  BY SMT
<1> HIDE DEF t
<1>3. ASSUME NEW y \in Range(t) PROVE y \in Range(s) \cup {x}
  <2>1. PICK i \in 1..(Len(s) + 1) : y = t[i]  BY <1>1, <1>3 DEF Range
  <2>2. i = Len(s) + 1 \/ i \in 1..Len(s)  BY <1>1, SMT
  <2> QED BY <1>1, <1>2, <2>1, <2>2 DEF Range
<1>4. Len(s) + 1 \in DOMAIN t /\ DOMAIN s \subseteq DOMAIN t  BY <1>1, SMT
<1>5. x \in Range(t)  BY <1>2, <1>4 DEF Range
<1>6. Range(s) \subseteq Range(t)  BY <1>1, <1>2, <1>4 DEF Range
<1> QED BY <1>3, <1>5, <1>6 DEF t

\* One more transaction is mined, the one whose nonce is next.  If p is in
\* flight and nothing was given up, it is p's own.
LEMMA IncludeKeeps ==
    ASSUME DeltaInv, TypeOK', NEW tx \in Plan \cup {Foreign}, Include(tx),
           tx \in Plan => /\ nonce[tx] = Len(chain) /\ \E e \in Lane : tx \in pool[e]
                          /\ \/ balance' = balance + Effect[tx] /\ reverted' = reverted
                             \/ balance' = balance /\ reverted' = reverted \cup {tx},
           tx \notin Plan => UNCHANGED <<balance, reverted>>
    PROVE  DeltaInv'
<1>1. /\ UNCHANGED <<pc, nonce, outcome, pre, delta, sent>> /\ chain' = Append(chain, tx)
      /\ \A e \in Lane : pool'[e] = {q \in pool[e] : nonce[q] # Len(chain)}
  BY DEF Include, backend
<1>2. Len(chain) \in Nat /\ Len(chain') = Len(chain) + 1 /\ Range(chain') = Range(chain) \cup {tx}
  <2>1. chain \in Seq(Plan \cup {Foreign})  BY DEF DeltaInv, TypeOK
  <2>2. Len(chain) \in Nat /\ Len(chain') = Len(chain) + 1  BY <1>1, <2>1, SMT
  <2>3. Range(Append(chain, tx)) = Range(chain) \cup {tx}  BY <2>1, RangeAppend, SMT
  <2> QED BY <1>1, <2>2, <2>3
<1>3. tx \in Plan => tx \in sent /\ tx \notin Range(chain) /\ nonce[tx] \in Nat /\ tx \notin reverted
  <2> SUFFICES ASSUME tx \in Plan
               PROVE  tx \in sent /\ tx \notin Range(chain) /\ nonce[tx] \in Nat /\ tx \notin reverted
    OBVIOUS
  <2>1. OwnDelta(tx) /\ nonce[tx] = Len(chain) /\ \E e \in Lane : tx \in pool[e]  BY DEF DeltaInv
  <2> QED BY <1>2, <2>1, SMT DEF OwnDelta
<1>4. AtMostOneActive'  BY <1>1 DEF DeltaInv, AtMostOneActive, Active
<1>5. NoneAbandoned' => NoneAbandoned  BY <1>1 DEF NoneAbandoned, Abandoned
<1>6. ASSUME NoneAbandoned, NEW p \in Plan, tx \in Plan, pc[p] \in InFlight PROVE p = tx
  <2> SUFFICES ASSUME p # tx PROVE FALSE  OBVIOUS
  <2>1. pc[tx] \in {"idle", "done"}  BY <1>6 DEF DeltaInv, AtMostOneActive, Active, InFlight
  <2>2. OwnDelta(tx) /\ outcome[tx] \in Outcome  BY <1>6 DEF DeltaInv, TypeOK
  <2>3. pc[tx] = "done"  BY <1>3, <1>6, <2>1, <2>2 DEF OwnDelta, AfterSend
  <2>4. outcome[tx] # "Pending" /\ outcome[tx] # "Mined"  BY <1>3, <1>6, <2>2, <2>3 DEF OwnDelta
  <2> QED BY <1>3, <1>6, <2>2, <2>4 DEF NoneAbandoned, Abandoned, Outcome
<1>7. ASSUME NEW p \in Plan PROVE OwnDelta(p)'
  <2>1. OwnDelta(p)  BY DEF DeltaInv
  <2>2. p # tx => Gain(p)' = Gain(p) /\ (p \in reverted' <=> p \in reverted)
    <3>1. p # tx => (p \in reverted' <=> p \in reverted)  OBVIOUS
    <3> QED BY <1>2, <3>1 DEF Gain
  <2>3. p \in sent => nonce[p] \in Nat  BY <2>1 DEF OwnDelta
  <2>4. ASSUME NEW e \in Lane, p \in pool'[e] PROVE p \in sent /\ nonce[p] >= Len(chain) + 1
    <3>1. p \in sent /\ nonce[p] >= Len(chain) /\ nonce[p] # Len(chain)
      BY <1>1, <2>1, <2>4 DEF OwnDelta
    <3> QED BY <1>2, <2>3, <3>1, SMT
  <2>5. p \in Range(chain') => p \in sent /\ nonce[p] < Len(chain) + 1
    <3>1. p = tx => p \in sent /\ nonce[p] < Len(chain) + 1  BY <1>2, <1>3, SMT
    <3>2. p \in Range(chain) => p \in sent /\ nonce[p] < Len(chain)  BY <2>1 DEF OwnDelta
    <3> QED BY <1>2, <2>3, <3>1, <3>2, SMT
  <2>6. p \in reverted' => p \in Range(chain')  BY <1>2, <2>1, <2>2 DEF OwnDelta
  <2>7. ASSUME NoneAbandoned, pc[p] \in InFlight PROVE balance' = pre[p] + Gain(p)'
    <3>1. balance = pre[p] + Gain(p)  BY <2>1, <2>7 DEF OwnDelta
    <3>2. CASE tx \notin Plan  BY <2>2, <3>1, <3>2
    <3>3. CASE tx \in Plan
      <4>1. p = tx  BY <1>6, <2>7, <3>3
      <4>2. Gain(p) = 0  BY <1>3, <3>3, <4>1 DEF Gain
      <4>3. balance = pre[p] /\ pre[p] \in Int /\ Effect[p] \in Int
        <5>1. pre[p] \in Int /\ Effect[p] \in Int  BY DEF DeltaInv, TypeOK
        <5> QED BY <3>1, <4>2, <5>1, SMT
      <4>4. p \in Range(chain')  BY <1>2, <4>1
      <4>5. CASE balance' = balance + Effect[tx] /\ reverted' = reverted
        <5>1. Gain(p)' = Effect[p]  BY <1>3, <3>3, <4>1, <4>4, <4>5 DEF Gain
        <5> QED BY <4>1, <4>3, <4>5, <5>1
      <4>6. CASE balance' = balance /\ reverted' = reverted \cup {tx}
        <5>1. Gain(p)' = 0  BY <4>1, <4>6 DEF Gain
        <5> QED BY <4>3, <4>6, <5>1, SMT
      <4> QED BY <3>3, <4>5, <4>6
    <3> QED BY <3>2, <3>3
  <2>8. ASSUME NoneAbandoned, outcome[p] = "Mined" PROVE delta[p] = Gain(p)'
    <3>1. p \in Range(chain) /\ delta[p] = Gain(p)  BY <2>1, <2>8 DEF OwnDelta
    <3>2. p # tx  BY <1>3, <3>1
    <3> QED BY <2>2, <3>1, <3>2
  <2>9. pc[p] = "post" \/ outcome[p] = "Mined" => p \in Range(chain')  BY <1>2, <2>1 DEF OwnDelta
  <2>10. /\ outcome[p] = "Pending" <=> pc[p] # "done"
         /\ p \in sent => pc[p] \in AfterSend /\ nonce[p] \in Nat
    BY <2>1 DEF OwnDelta
  <2> QED BY <1>1, <1>2, <1>5, <2>4, <2>5, <2>6, <2>7, <2>8, <2>9, <2>10 DEF OwnDelta
<1> QED BY <1>4, <1>7 DEF DeltaInv

\* The books do not look at the clock, nor at what a pool forgets.
LEMMA DeltaFrame ==
    ASSUME DeltaInv, TypeOK', UNCHANGED <<backend, chain, reverted, balance, sent>>,
           \A e \in Lane : pool'[e] \subseteq pool[e]
    PROVE  DeltaInv'
<1>1. UNCHANGED <<pc, nonce, pre, outcome, delta>>  BY DEF backend
<1>2. AtMostOneActive'  BY <1>1 DEF DeltaInv, AtMostOneActive, Active
<1>3. NoneAbandoned' => NoneAbandoned  BY <1>1 DEF NoneAbandoned, Abandoned
<1>4. \A q \in Plan : Same(q)  BY <1>1 DEF Same
<1>5. \A q \in Plan : OwnDelta(q)'  BY <1>3, <1>4, SameKeeps DEF DeltaInv
<1> QED BY <1>2, <1>5 DEF DeltaInv

LEMMA StartKeeps ==
    ASSUME Sequential, DeltaInv, TypeOK', NEW p \in Plan, Start(p)
    PROVE  DeltaInv'
<1>1. /\ Active = {} /\ pc[p] = "idle" /\ Goto(p, "balance")
      /\ UNCHANGED <<nonce, outcome, pre, delta, world>>
  BY DEF Start
<1>2. "balance" \in Place  BY DEF Place
<1>3. pc'[p] = "balance" /\ \A q \in Plan \ {p} : pc'[q] = pc[q]
  BY <1>1, <1>2, GotoFacts DEF DeltaInv
<1>4. AtMostOneActive'  BY <1>1, <1>3 DEF AtMostOneActive, Active
<1>5. pool' = pool /\ UNCHANGED <<chain, reverted, balance, sent>>  BY <1>1 DEF world
<1>6. NoneAbandoned' => NoneAbandoned  BY <1>1, <1>5 DEF NoneAbandoned, Abandoned
<1>7. \A q \in Plan \ {p} : Same(q)  BY <1>1, <1>2, OthersSame DEF DeltaInv
<1>8. \A q \in Plan \ {p} : OwnDelta(q)'  BY <1>5, <1>6, <1>7, SameKeeps DEF DeltaInv
<1>9. OwnDelta(p)'
  <2>1. OwnDelta(p) /\ Gain(p)' = Gain(p)  BY <1>5 DEF DeltaInv, Gain
  <2> QED BY <1>1, <1>3, <1>5, <1>6, <2>1 DEF OwnDelta, AfterSend, InFlight
<1> QED BY <1>4, <1>8, <1>9 DEF DeltaInv

LEMMA NextDelta ==
    ASSUME Sequential, DeltaInv, [Next]_vars
    PROVE  DeltaInv'
<1>0. TypeOK'  BY NextType DEF DeltaInv
<1>1. CASE UNCHANGED vars
  <2>1. UNCHANGED <<backend, chain, reverted, balance, sent>> /\ pool' = pool
    BY <1>1 DEF vars, world
  <2> QED BY <1>0, <2>1, DeltaFrame
<1>2. ASSUME NEW p \in Plan, Start(p) PROVE DeltaInv'  BY <1>0, <1>2, StartKeeps
<1>3. ASSUME NEW p \in Plan, ReadPreBalance(p) PROVE DeltaInv'
  <2>1. CASE Goto(p, "nonce") /\ pre' = [pre EXCEPT ![p] = balance] /\ UNCHANGED outcome
    BY <1>0, <1>3, <2>1, ReadPreKeeps DEF ReadPreBalance
  <2>2. CASE Return(p, "NotSent") /\ UNCHANGED pre
    <3>1. GivesUp(p) /\ p \in Active  BY <1>3, <2>2 DEF ReadPreBalance, GivesUp, Active
    <3> QED BY <1>0, <3>1, GivesUpKeeps
  <2> QED BY <1>3, <2>1, <2>2 DEF ReadPreBalance
\* The steps of the submission that go on: p has not sent yet.
<1>4. ASSUME NEW p \in Plan, pc[p] \in {"nonce", "lock", "refresh", "prime", "take"},
             NEW l \in {"lock", "refresh", "prime", "take", "send"}, Goto(p, l),
             UNCHANGED <<outcome, pre, delta, world>>,
             nonce' = nonce \/ \E n : nonce' = [nonce EXCEPT ![p] = n]
      PROVE  DeltaInv'
  <2>1. pc[p] \in InFlight /\ pc[p] \notin AfterSend /\ l \in InFlight /\ l # "post"
    BY <1>4 DEF InFlight, AfterSend
  <2>2. \A q \in Plan \ {p} : nonce'[q] = nonce[q]  BY <1>4 DEF DeltaInv, TypeOK
  <2>3. GoesOn(p, l)  BY <1>4, <2>1, <2>2 DEF GoesOn
  <2> QED BY <1>0, <2>1, <2>3, GoesOnKeeps
<1>5. ASSUME NEW p \in Plan, TryCache(p) PROVE DeltaInv'
  BY <1>4, <1>5 DEF TryCache, Take
<1>6. ASSUME NEW p \in Plan, LockRefresh(p) PROVE DeltaInv'
  BY <1>4, <1>6 DEF LockRefresh, Take
<1>7. ASSUME NEW p \in Plan, ReadPendingCount(p) PROVE DeltaInv'
  BY <1>4, <1>7 DEF ReadPendingCount
<1>8. ASSUME NEW p \in Plan, Prime(p) PROVE DeltaInv'
  BY <1>4, <1>8 DEF Prime
<1>20. ASSUME NEW p \in Plan, TakePrimed(p) PROVE DeltaInv'
  <2>1. CASE Goto(p, "send") /\ UNCHANGED outcome /\ \E n : nonce' = [nonce EXCEPT ![p] = n]
    BY <1>4, <1>20, <2>1 DEF TakePrimed
  <2>2. CASE Return(p, "NotSent") /\ UNCHANGED nonce
    <3>1. GivesUp(p) /\ p \in Active  BY <1>20, <2>2 DEF TakePrimed, GivesUp, Active
    <3> QED BY <1>0, <3>1, GivesUpKeeps
  <2> QED BY <1>20, <2>1, <2>2 DEF TakePrimed, Take
<1>9. ASSUME NEW p \in Plan, PendingCountFails(p) \/ SendRejected(p) \/ WatchFails(p) PROVE DeltaInv'
  <2>1. GivesUp(p) /\ p \in Active
    BY <1>9 DEF PendingCountFails, SendRejected, WatchFails, GivesUp, Active
  <2> QED BY <1>0, <2>1, GivesUpKeeps
<1>10. ASSUME NEW p \in Plan, SendAccepted(p) \/ SendUnanswered(p) PROVE DeltaInv'
  BY <1>0, <1>10, SendKeeps DEF SendAccepted, SendUnanswered
\* The watch.
<1>11. ASSUME NEW p \in Plan, pc[p] \in {"watch", "receipt", "count"},
              UNCHANGED <<nonce, pre, delta, world>>,
              \/ \E l \in {"receipt", "count", "watch"} : Goto(p, l) /\ UNCHANGED outcome
              \/ Goto(p, "post") /\ p \in Range(chain) /\ UNCHANGED outcome
              \/ Return(p, "Dropped") \/ Return(p, "Replaced")
       PROVE  DeltaInv'
  <2>1. CASE \E l \in {"receipt", "count", "watch", "post"} :
                Goto(p, l) /\ (l = "post" => p \in Range(chain)) /\ UNCHANGED outcome
    <3>1. PICK l \in {"receipt", "count", "watch", "post"} :
                Goto(p, l) /\ (l = "post" => p \in Range(chain)) /\ UNCHANGED outcome
      BY <2>1
    <3>2. pc[p] \in InFlight /\ l \in InFlight /\ l \in AfterSend  BY <1>11 DEF InFlight, AfterSend
    <3>3. GoesOn(p, l)  BY <1>11, <3>1, <3>2 DEF GoesOn
    <3> QED BY <1>0, <3>1, <3>2, <3>3, GoesOnKeeps
  <2>2. CASE Return(p, "Dropped") \/ Return(p, "Replaced")
    <3>1. GivesUp(p) /\ p \in Active  BY <1>11, <2>2 DEF GivesUp, Active
    <3> QED BY <1>0, <3>1, GivesUpKeeps
  <2> QED BY <1>11, <2>1, <2>2
<1>12. ASSUME NEW p \in Plan, WatchDeadline(p) PROVE DeltaInv'
  BY <1>11, <1>12 DEF WatchDeadline
<1>13. ASSUME NEW p \in Plan, CheckReceipt(p) PROVE DeltaInv'
  BY <1>11, <1>13 DEF CheckReceipt
<1>14. ASSUME NEW p \in Plan, CheckReplacement(p) PROVE DeltaInv'
  BY <1>11, <1>14 DEF CheckReplacement
<1>15. ASSUME NEW p \in Plan, ReadPostBalance(p) PROVE DeltaInv'
  BY <1>0, <1>15, ReadPostKeeps
<1>16. ASSUME NEW p \in Plan, Mine(p) PROVE DeltaInv'
  BY <1>0, <1>16, IncludeKeeps DEF Mine
<1>17. CASE MineForeign
  BY <1>0, <1>17, IncludeKeeps DEF MineForeign
<1>18. ASSUME NEW p \in Plan, Evict(p) PROVE DeltaInv'
  <2>1. \A e \in Lane : pool'[e] \subseteq pool[e]  BY <1>18, SMT DEF Evict, DeltaInv, TypeOK
  <2> QED BY <1>0, <1>18, <2>1, DeltaFrame DEF Evict
<1>19. CASE Tick
  <2>1. UNCHANGED <<backend, chain, reverted, balance, sent>> /\ pool' = pool
    BY <1>19 DEF Tick, world
  <2> QED BY <1>0, <2>1, DeltaFrame
<1> QED BY <1>1, <1>2, <1>3, <1>5, <1>6, <1>7, <1>8, <1>9, <1>10, <1>12, <1>13, <1>14, <1>15,
           <1>16, <1>17, <1>18, <1>19, <1>20 DEF Next, Step, Finished

\* One actor calling the backend: as long as no transaction that went out was
\* given up, realized_balance_delta is exactly what the Plan's transaction did
\* to the balance, and 0 when it reverted.  This needs neither a single
\* endpoint nor mempools that forget nothing, only that nobody else moves the
\* balance (MineForeign).
THEOREM DeltaExactAlways == ASSUME Sequential PROVE Spec => []DeltaExact
<1>1. DeltaInv /\ [Next]_vars => DeltaInv'  BY NextDelta
<1>2. DeltaInv => DeltaExact
  BY DEF DeltaInv, OwnDelta, DeltaExact, NoneAbandoned, Gain
<1> QED BY InitDelta, <1>1, <1>2, PTL DEF Spec
-----------------------------------------------------------------------------
(* The nonces.                                                                *)

\* The actor of executor/mod.rs awaits each Plan; all lanes resolve to one
\* endpoint; no pending transaction is evicted.
OneActorOneEndpoint ==
    /\ Sequential
    /\ Evictable = {}
    /\ \A p, q \in Plan : Endpoint(p) = Endpoint(q)

\* Every nonce from the mined count up to n is pending at endpoint e.
Filled(e, n) == \A k \in Len(chain)..(n - 1) : \E q \in pool[e] : nonce[q] = k

\* No transaction that went out carries n or a later nonce.
Above(n) == \A q \in sent : nonce[q] < n

\* What went out is pending at its endpoint, or its nonce is used up; and
\* the pending nonces are consecutive.
Pooled ==
    /\ \A q \in sent : /\ nonce[q] \in Nat
                       /\ q \in pool[Endpoint(q)] \/ nonce[q] < Len(chain)
                       /\ pc[q] \in {"watch", "receipt", "count", "post", "done"}
    /\ \A e \in Lane : \A q \in pool[e] : q \in sent /\ e = Endpoint(q) /\ nonce[q] >= Len(chain)
    /\ \A p \in Plan : \A q \in pool[Endpoint(p)] : Filled(Endpoint(p), nonce[q])

Good(e, n) == Filled(e, n) /\ Above(n)

\* The next nonce is right wherever the code holds it: in the answer read
\* from RPC, in the cache, and in the hands of the Plan about to send.
NextNonce ==
    \A p \in Plan :
        /\ pc[p] = "prime" => Good(Endpoint(p), seen[p].count)
        /\ pc[p] = "send" =>
              /\ nonce[p] \in Nat
              /\ Good(Endpoint(p), nonce[p])
              /\ cache.pending = nonce[p] + 1
        /\ cache.pending # None /\ (\A q \in Plan : pc[q] # "send") =>
              Good(Endpoint(p), cache.pending)

NonceInv == TypeOK /\ AtMostOneActive /\ Pooled /\ NonceUnique /\ NextNonce
-----------------------------------------------------------------------------
LEMMA InitNonce == Init => NonceInv
<1> SUFFICES ASSUME Init PROVE NonceInv  OBVIOUS
<1>1. TypeOK  BY InitType
<1>2. AtMostOneActive  BY DEF Init, AtMostOneActive, Active
<1>3. Pooled  BY EndpointType DEF Init, Pooled
<1>4. NextNonce  BY DEF Init, NextNonce, None
<1>5. NonceUnique  BY DEF Init, NonceUnique
<1> QED BY <1>1, <1>2, <1>3, <1>4, <1>5 DEF NonceInv

\* Filled and Above only look at the network and at the nonces that went out.
LEMMA Frame ==
    ASSUME NonceInv, chain' = chain, pool' = pool, sent' = sent,
           \A q \in sent : nonce'[q] = nonce[q]
    PROVE  \A e \in Lane, n \in Int : Good(e, n) => Good(e, n)'
<1>1. \A e \in Lane : \A q \in pool[e] : q \in sent  BY DEF NonceInv, Pooled
<1> QED BY <1>1 DEF Good, Filled, Above

\* One Plan at a time: while p is active the others are idle or done.
LEMMA Alone ==
    ASSUME NonceInv, NEW p \in Active
    PROVE  p \in Plan /\ \A q \in Plan : q # p => pc[q] \in {"idle", "done"}
BY DEF NonceInv, AtMostOneActive, Active

LEMMA StillAlone ==
    ASSUME NonceInv, NEW p \in Active, NEW l \in Place, Goto(p, l)
    PROVE  AtMostOneActive'
<1>1. /\ pc' \in [Plan -> Place] /\ \A q \in Plan : q # p => pc'[q] = pc[q]
  BY GotoFacts DEF NonceInv, Active
<1> QED BY <1>1, Alone DEF AtMostOneActive, Active

\* A step that leaves the network alone, and changes p's nonce only before p
\* has sent, keeps what is known of the network.
LEMMA PooledFrame ==
    ASSUME NonceInv, TypeOK', NEW p \in Plan, NEW l \in Place, Goto(p, l), UNCHANGED world,
           \A q \in Plan : q # p => nonce'[q] = nonce[q],
           \/ pc[p] \notin {"watch", "receipt", "count", "post", "done"}
           \/ l \in {"watch", "receipt", "count", "post", "done"} /\ nonce' = nonce
    PROVE  /\ Pooled' /\ NonceUnique'
           /\ \A e \in Lane, n \in Int : Good(e, n) => Good(e, n)'
<1>1. chain' = chain /\ pool' = pool /\ sent' = sent  BY DEF world
<1>2. pc'[p] = l /\ \A q \in Plan : q # p => pc'[q] = pc[q]  BY GotoFacts DEF NonceInv
<1>3. sent \subseteq Plan  BY DEF NonceInv, TypeOK
<1>4. \A q \in sent : nonce'[q] = nonce[q]  BY <1>3 DEF NonceInv, Pooled
<1>5. \A e \in Lane, n \in Int : Good(e, n) => Good(e, n)'
  BY <1>1, <1>4, Frame
<1>6. \A q \in sent : pc'[q] \in {"watch", "receipt", "count", "post", "done"}
  BY <1>2, <1>3 DEF NonceInv, Pooled
<1>7. \A q \in sent : nonce'[q] \in Nat /\ (q \in pool'[Endpoint(q)] \/ nonce'[q] < Len(chain'))
  BY <1>1, <1>4 DEF NonceInv, Pooled
<1>8. \A e \in Lane : \A q \in pool'[e] : q \in sent' /\ e = Endpoint(q) /\ nonce'[q] >= Len(chain')
  BY <1>1, <1>4 DEF NonceInv, Pooled
<1>9. \A q \in Plan : \A r \in pool'[Endpoint(q)] : Filled(Endpoint(q), nonce[r])'
  <2> SUFFICES ASSUME NEW q \in Plan, NEW r \in pool[Endpoint(q)]
               PROVE  Filled(Endpoint(q), nonce[r])'
    BY <1>1
  <2>1. r \in sent /\ nonce[r] \in Nat /\ Filled(Endpoint(q), nonce[r])
    BY EndpointType DEF NonceInv, Pooled
  <2>2. nonce'[r] = nonce[r]  BY <1>4, <2>1
  <2>3. \A k \in Len(chain)..(nonce[r] - 1) : \E x \in pool[Endpoint(q)] : nonce[x] = k
    BY <2>1 DEF Filled
  <2>4. \A x \in pool[Endpoint(q)] : nonce'[x] = nonce[x]
    BY <1>4, EndpointType DEF NonceInv, Pooled
  <2>5. \A k \in Len(chain')..(nonce'[r] - 1) : \E x \in pool'[Endpoint(q)] : nonce'[x] = k
    BY <1>1, <2>2, <2>3, <2>4
  <2>6. (Endpoint(q))' = Endpoint(q)  BY DEF Endpoint, provider_for
  <2> QED BY <2>5, <2>6 DEF Filled
<1>10. Pooled'  BY <1>1, <1>6, <1>7, <1>8, <1>9 DEF Pooled
<1>11. NonceUnique'  BY <1>1, <1>4 DEF NonceInv, NonceUnique
<1> QED BY <1>5, <1>10, <1>11

\* What is known of the next nonce carries over to the next state by value.
LEMMA GoodValue ==
    ASSUME NEW n \in Int, NEW q \in Plan, Good(Endpoint(q), n)'
    PROVE  /\ nonce'[q] = n => Good(Endpoint(q), nonce[q])'
           /\ seen'[q].count = n => Good(Endpoint(q), seen[q].count)'
           /\ cache'.pending = n => Good(Endpoint(q), cache.pending)'
BY DEF Good, Filled, Above

LEMMA Values ==
    ASSUME TypeOK, NEW q \in Plan
    PROVE  Endpoint(q) \in Lane /\ seen[q].count \in Int /\ cache.pending \in Int
<1>1. Endpoint(q) \in Lane  BY EndpointType
<1>2. seen[q].count \in Int  BY SMT DEF TypeOK
<1>3. cache.pending \in Int  BY SMT DEF TypeOK, None
<1> QED BY <1>1, <1>2, <1>3

\* A step of an active Plan that neither reads nor hands out a nonce.
LEMMA QuietStep ==
    ASSUME NonceInv, TypeOK', NEW p \in Plan, NEW l \in Place \ {"prime", "send"}, Goto(p, l),
           UNCHANGED world, nonce' = nonce, seen' = seen,
           AtMostOneActive', pc[p] # "done",
           \/ pc[p] \notin {"watch", "receipt", "count", "post"}
           \/ l \in {"watch", "receipt", "count", "post", "done"},
           \/ cache' = cache /\ pc[p] # "send"
           \/ cache'.pending = None /\ p \in Active
    PROVE  NonceInv'
<1>1. pc'[p] = l /\ \A q \in Plan : q # p => pc'[q] = pc[q]  BY GotoFacts DEF NonceInv
<1>2. /\ Pooled' /\ NonceUnique'
      /\ \A e \in Lane, n \in Int : Good(e, n) => Good(e, n)'
  <2>1. pc[p] \in Place  BY DEF NonceInv, TypeOK
  <2> QED BY <2>1, PooledFrame DEF Place
<1>3. NextNonce'
  <2> SUFFICES ASSUME NEW q \in Plan
               PROVE  /\ pc'[q] = "prime" => Good(Endpoint(q), seen[q].count)'
                      /\ pc'[q] = "send" =>
                            /\ nonce'[q] \in Nat
                            /\ Good(Endpoint(q), nonce[q])'
                            /\ cache'.pending = nonce'[q] + 1
                      /\ cache'.pending # None /\ (\A r \in Plan : pc'[r] # "send") =>
                            Good(Endpoint(q), cache.pending)'
    BY DEF NextNonce
  <2>1. Endpoint(q) \in Lane /\ seen[q].count \in Int /\ cache.pending \in Int
    BY Values DEF NonceInv
  <2>2. ASSUME pc'[q] = "prime" PROVE Good(Endpoint(q), seen[q].count)'
    <3>1. pc[q] = "prime"  BY <1>1, <2>2
    <3>2. Good(Endpoint(q), seen[q].count)  BY <3>1 DEF NonceInv, NextNonce
    <3> QED BY <1>2, <2>1, <3>2, GoodValue
  <2>3. ASSUME pc'[q] = "send"
        PROVE  nonce'[q] \in Nat /\ Good(Endpoint(q), nonce[q])' /\ cache'.pending = nonce'[q] + 1
    <3>1. pc[q] = "send" /\ q # p  BY <1>1, <2>3
    <3>2. p \notin Active /\ cache' = cache  BY <3>1, Alone
    <3>3. nonce[q] \in Nat /\ Good(Endpoint(q), nonce[q]) /\ cache.pending = nonce[q] + 1
      BY <3>1 DEF NonceInv, NextNonce
    <3> QED BY <1>2, <2>1, <3>2, <3>3, GoodValue, SMT
  <2>4. ASSUME cache'.pending # None, \A r \in Plan : pc'[r] # "send"
        PROVE  Good(Endpoint(q), cache.pending)'
    <3>1. cache' = cache /\ pc[p] # "send"  BY <2>4
    <3>2. \A r \in Plan : pc[r] # "send"  BY <1>1, <2>4, <3>1
    <3>3. Good(Endpoint(q), cache.pending)  BY <2>4, <3>1, <3>2 DEF NonceInv, NextNonce
    <3> QED BY <1>2, <2>1, <2>4, <3>1, <3>3, GoodValue
  <2> QED BY <2>2, <2>3, <2>4
<1> QED BY <1>2, <1>3 DEF NonceInv

\* take_and_increment hands p the next nonce.
LEMMA TakeStep ==
    ASSUME NonceInv, TypeOK', NEW p \in Plan, pc[p] \in {"nonce", "lock", "take"}, Goto(p, "send"),
           NEW c \in [pending : Nat \cup {None}, last_refresh : Nat],
           c.pending # None, Good(Endpoint(p), c.pending), Take(p, c), UNCHANGED world
    PROVE  NonceInv'
<1>0. p \in Active /\ "send" \in Place  BY DEF Active, Place
<1>1. pc'[p] = "send" /\ \A q \in Plan : q # p => pc'[q] = pc[q]
  BY <1>0, GotoFacts DEF NonceInv
<1>2. /\ nonce'[p] = c.pending /\ nonce'[p] \in Nat /\ cache'.pending = c.pending + 1
      /\ \A q \in Plan : q # p => nonce'[q] = nonce[q]
  BY TakeFacts DEF NonceInv
<1>3. AtMostOneActive'  BY <1>0, StillAlone
<1>4. /\ Pooled' /\ NonceUnique' /\ \A e \in Lane, n \in Int : Good(e, n) => Good(e, n)'
  BY <1>0, <1>2, PooledFrame
<1>5. Good(Endpoint(p), nonce[p])'
  <2>1. c.pending \in Int /\ Endpoint(p) \in Lane  BY <1>2, EndpointType, SMT
  <2> QED BY <1>2, <1>4, <2>1, GoodValue
<1>6. \A q \in Plan : q # p => pc'[q] \in {"idle", "done"}  BY <1>0, <1>1, Alone
<1>7. NextNonce'  BY <1>1, <1>2, <1>5, <1>6 DEF NextNonce
<1> QED BY <1>3, <1>4, <1>7 DEF NonceInv

\* The pending count is the next nonce: what is pending is consecutive, and
\* everything that went out is pending at this endpoint or used up.
LEMMA PendingIsGood ==
    ASSUME OneActorOneEndpoint, NonceInv, NEW p \in Plan, NEW n \in Nat, IsPending(Endpoint(p), n)
    PROVE  Good(Endpoint(p), n)
<1>1. Filled(Endpoint(p), n)  BY DEF IsPending, Filled
<1>2. ASSUME NEW q \in sent PROVE nonce[q] < n
  <2>1. q \in Plan /\ nonce[q] \in Nat /\ Len(chain) \in Nat /\ n >= Len(chain)
    BY SMT DEF NonceInv, TypeOK, Pooled, IsPending
  <2>2. CASE nonce[q] < Len(chain)  BY <2>1, <2>2, SMT
  <2>3. CASE q \in pool[Endpoint(q)]
    <3>1. q \in pool[Endpoint(p)]  BY <2>1, <2>3 DEF OneActorOneEndpoint
    <3>2. nonce[q] # n  BY <3>1 DEF IsPending
    <3>3. Filled(Endpoint(p), nonce[q])  BY <3>1 DEF NonceInv, Pooled
    <3>4. ASSUME nonce[q] > n PROVE FALSE
      <4>1. n \in Len(chain)..(nonce[q] - 1)  BY <2>1, <3>4, SMT
      <4> QED BY <3>3, <4>1 DEF Filled, IsPending
    <3> QED BY <2>1, <3>2, <3>4, SMT
  <2> QED BY <2>2, <2>3 DEF NonceInv, Pooled
<1> QED BY <1>1, <1>2 DEF Good, Above

LEMMA ReadCountStep ==
    ASSUME OneActorOneEndpoint, NonceInv, TypeOK', NEW p \in Plan, ReadPendingCount(p)
    PROVE  NonceInv'
<1>0. p \in Active /\ "prime" \in Place /\ Goto(p, "prime") /\ UNCHANGED <<nonce, cache, world>>
      /\ pc[p] = "refresh"
  BY DEF Active, Place, ReadPendingCount
<1>1. pc'[p] = "prime" /\ \A q \in Plan : q # p => pc'[q] = pc[q]
  BY <1>0, GotoFacts DEF NonceInv
<1>2. PICK n \in 0..MaxNonce : IsPending(Endpoint(p), n) /\ seen'[p].count = n
  BY SMT DEF ReadPendingCount, NonceInv, TypeOK
<1>3. n \in Nat  BY <1>2, SMT
<1>4. AtMostOneActive'  BY <1>0, StillAlone
<1>5. /\ Pooled' /\ NonceUnique' /\ \A e \in Lane, k \in Int : Good(e, k) => Good(e, k)'
  BY <1>0, PooledFrame
<1>6. Good(Endpoint(p), seen[p].count)'
  <2>1. Good(Endpoint(p), n)  BY <1>2, <1>3, PendingIsGood
  <2>2. Good(Endpoint(p), n)'  BY <1>3, <1>5, <2>1, EndpointType, SMT
  <2> QED BY <1>2, <1>3, <2>2, GoodValue
<1>7. \A q \in Plan : q # p => pc'[q] \in {"idle", "done"} /\ pc[q] \in {"idle", "done"}
  BY <1>0, <1>1, Alone
<1>8. ASSUME NEW q \in Plan, cache.pending # None PROVE Good(Endpoint(q), cache.pending)'
  <2>1. Good(Endpoint(q), cache.pending)  BY <1>0, <1>7, <1>8 DEF NonceInv, NextNonce
  <2>2. Endpoint(q) \in Lane /\ cache.pending \in Int  BY Values DEF NonceInv
  <2> QED BY <1>0, <1>5, <2>1, <2>2, GoodValue
<1>9. NextNonce'  BY <1>0, <1>1, <1>6, <1>7, <1>8 DEF NextNonce
<1> QED BY <1>4, <1>5, <1>9 DEF NonceInv

\* The length of the chain is a count.
LEMMA ChainTyped ==
    ASSUME TypeOK
    PROVE  sent \subseteq Plan /\ Len(chain) \in Nat
<1>1. sent \subseteq Plan /\ chain \in Seq(Plan \cup {Foreign})  BY DEF TypeOK
<1>2. \A T : \A s \in Seq(T) : Len(s) \in Nat  BY SMT
<1> QED BY <1>1, <1>2

\* The transaction joins the pool on top of what is pending there.
LEMMA SendStep ==
    ASSUME OneActorOneEndpoint, NonceInv, TypeOK', NEW p \in Plan, pc[p] = "send", Accepted(p),
           NEW l \in {"watch", "done"}, Goto(p, l), nonce' = nonce,
           cache' = cache \/ cache'.pending = None
    PROVE  NonceInv'
<1> DEFINE e == Endpoint(p)
<1>0. p \in Active /\ l \in Place /\ e \in Lane  BY EndpointType DEF Active, Place
<1>1. pc'[p] = l /\ \A q \in Plan : q # p => pc'[q] = pc[q]
  BY <1>0, GotoFacts DEF NonceInv
<1>2. nonce[p] \in Nat /\ Good(e, nonce[p]) /\ cache.pending = nonce[p] + 1
  BY DEF NonceInv, NextNonce
<1>3. p \notin sent /\ sent \subseteq Plan /\ Len(chain) \in Nat /\ nonce[p] >= Len(chain)
  <2>1. p \notin sent  BY DEF NonceInv, Pooled
  <2>2. sent \subseteq Plan /\ Len(chain) \in Nat  BY ChainTyped DEF NonceInv
  <2> QED BY <2>1, <2>2 DEF Accepted
<1>4. sent' = sent \cup {p} /\ chain' = chain  BY DEF Accepted
<1>5. pool'[e] = pool[e] \cup {p} /\ \A d \in Lane : d # e => pool'[d] = pool[d]
  <2>1. \A q \in pool[e] : q \in sent /\ nonce[q] \in Nat /\ nonce[q] < nonce[p]
    BY <1>0, <1>2 DEF Good, Above, NonceInv, Pooled
  <2>2. pool' = [pool EXCEPT ![e] = {q \in @ : nonce[q] # nonce[p]} \cup {p}]  BY DEF Accepted
  <2>3. pool \in [Lane -> SUBSET Plan]  BY DEF NonceInv, TypeOK
  <2>4. pool'[e] = {q \in pool[e] : nonce[q] # nonce[p]} \cup {p}  BY <1>0, <2>2, <2>3
  <2>5. {q \in pool[e] : nonce[q] # nonce[p]} = pool[e]  BY <1>2, <2>1, SMT
  <2> QED BY <1>0, <2>2, <2>3, <2>4, <2>5
<1>6. AtMostOneActive'  BY <1>0, StillAlone
<1>7. NonceUnique'
  BY <1>2, <1>3, <1>4, SMT DEF NonceInv, NonceUnique, Pooled, Good, Above
<1>8. \A q \in Plan : Endpoint(q) = e  BY DEF OneActorOneEndpoint
<1>9. Pooled'
  <2>1. \A q \in sent' : nonce'[q] \in Nat /\ pc'[q] \in {"watch", "receipt", "count", "post", "done"}
    BY <1>1, <1>2, <1>3, <1>4 DEF NonceInv, Pooled
  <2>2. \A q \in sent' : q \in pool'[Endpoint(q)] \/ nonce'[q] < Len(chain')
    BY <1>3, <1>4, <1>5, <1>8 DEF NonceInv, Pooled
  <2>3. \A d \in Lane : \A q \in pool'[d] : q \in sent' /\ d = Endpoint(q) /\ nonce'[q] >= Len(chain')
    BY <1>0, <1>3, <1>4, <1>5 DEF NonceInv, Pooled
  <2>4. \A q \in pool'[e] : \A k \in Len(chain)..(nonce[q] - 1) : \E x \in pool'[e] : nonce[x] = k
    BY <1>2, <1>5, <1>8, SMT DEF NonceInv, Pooled, Good, Filled
  <2>5. \A q \in Plan : \A r \in pool'[Endpoint(q)] : Filled(Endpoint(q), nonce[r])'
    BY <1>4, <1>8, <2>4 DEF Filled
  <2> QED BY <2>1, <2>2, <2>3, <2>5 DEF Pooled
<1>10. NextNonce'
  <2>1. \A q \in Plan : pc'[q] \notin {"prime", "send"}  BY <1>0, <1>1, Alone
  <2>2. ASSUME NEW q \in Plan, cache'.pending # None PROVE Good(Endpoint(q), cache.pending)'
    <3>1. cache'.pending = nonce[p] + 1  BY <1>2, <2>2
    <3>2. \A k \in Len(chain)..nonce[p] : \E x \in pool'[e] : nonce[x] = k
      <4>1. ASSUME NEW k \in Len(chain)..nonce[p], k # nonce[p] PROVE \E x \in pool[e] : nonce[x] = k
        <5>1. k \in Len(chain)..(nonce[p] - 1)  BY <1>2, <1>3, <4>1, SMTT(30)
        <5> QED BY <1>2, <5>1 DEF Good, Filled
      <4> QED BY <1>5, <4>1
    <3>3. Filled(Endpoint(q), cache.pending)'
      <4>1. \A k \in Len(chain')..(cache'.pending - 1) : \E x \in pool'[e] : nonce'[x] = k
        BY <1>2, <1>3, <1>4, <3>1, <3>2, SMTT(30)
      <4> QED BY <1>8, <4>1 DEF Filled
    <3>4. \A x \in sent' : nonce'[x] < cache'.pending
      <4>1. \A x \in sent : nonce[x] \in Nat /\ nonce[x] < nonce[p]
        BY <1>2 DEF Good, Above, NonceInv, Pooled
      <4> QED BY <1>2, <1>4, <3>1, <4>1, SMT
    <3> QED BY <3>3, <3>4 DEF Good, Above
  <2> QED BY <2>1, <2>2 DEF NextNonce
<1> QED BY <1>6, <1>7, <1>9, <1>10 DEF NonceInv

\* What is known of the next nonce survives a step that leaves the backend be.
LEMMA NextNonceFrame ==
    ASSUME NonceInv, UNCHANGED <<cache, pc, nonce, seen>>,
           \A e \in Lane, n \in Int : Good(e, n) => Good(e, n)'
    PROVE  NextNonce'
<1> SUFFICES ASSUME NEW q \in Plan
             PROVE  /\ pc'[q] = "prime" => Good(Endpoint(q), seen[q].count)'
                    /\ pc'[q] = "send" =>
                          /\ nonce'[q] \in Nat
                          /\ Good(Endpoint(q), nonce[q])'
                          /\ cache'.pending = nonce'[q] + 1
                    /\ cache'.pending # None /\ (\A r \in Plan : pc'[r] # "send") =>
                          Good(Endpoint(q), cache.pending)'
  BY DEF NextNonce
<1>1. Endpoint(q) \in Lane /\ seen[q].count \in Int /\ cache.pending \in Int
  BY Values DEF NonceInv
<1> QED BY <1>1, GoodValue, SMT DEF NonceInv, NextNonce

LEMMA NonceStutter ==
    ASSUME NonceInv, TypeOK', UNCHANGED <<backend, world>>
    PROVE  NonceInv'
<1>1. /\ UNCHANGED <<cache, pc, nonce, seen>>
      /\ chain' = chain /\ pool' = pool /\ sent' = sent
  BY DEF backend, world
<1>2. \A e \in Lane, n \in Int : Good(e, n) => Good(e, n)'  BY <1>1, Frame
<1>3. NextNonce'  BY <1>1, <1>2, NextNonceFrame
<1> QED BY <1>1, <1>3, SMTT(30) DEF NonceInv, AtMostOneActive, Active, Pooled, Filled, NonceUnique

\* Mining uses up the lowest nonce: what is pending above it stays pending.
LEMMA IncludeStep ==
    ASSUME NonceInv, TypeOK', NEW tx, Include(tx)
    PROVE  NonceInv'
<1>0. chain \in Seq(Plan \cup {Foreign}) /\ Len(chain) \in Nat /\ sent \subseteq Plan
  BY SMT DEF NonceInv, TypeOK
<1>1. Len(chain') = Len(chain) + 1
  <2>1. chain' \in Seq(Plan \cup {Foreign}) /\ chain' = Append(chain, tx)  BY DEF Include, TypeOK
  <2> QED BY <1>0, <2>1, SMT
<1>2. \A e \in Lane : pool'[e] = {q \in pool[e] : nonce[q] # Len(chain)}  BY DEF Include
<1>3. UNCHANGED <<cache, pc, nonce, seen, sent>>  BY DEF Include, backend
<1>4. \A e \in Lane : \A q \in pool[e] : q \in sent /\ nonce[q] \in Nat /\ nonce[q] >= Len(chain)
  BY DEF NonceInv, Pooled
<1>5. \A e \in Lane, n \in Int : Filled(e, n) => Filled(e, n)'
  <2>1. ASSUME NEW e \in Lane, NEW n \in Int, Filled(e, n) PROVE Filled(e, n)'
    <3>1. ASSUME NEW k \in Len(chain')..(n - 1) PROVE \E x \in pool'[e] : nonce'[x] = k
      <4>1. k \in Len(chain)..(n - 1) /\ k # Len(chain)  BY <1>0, <1>1, SMT
      <4>2. PICK x \in pool[e] : nonce[x] = k  BY <2>1, <4>1 DEF Filled
      <4> QED BY <1>2, <1>3, <4>1, <4>2
    <3> QED BY <3>1 DEF Filled
  <2> QED BY <2>1
<1>6. \A e \in Lane, n \in Int : Good(e, n) => Good(e, n)'
  BY <1>3, <1>5 DEF Good, Above
<1>7. AtMostOneActive' /\ NonceUnique'
  BY <1>3 DEF NonceInv, AtMostOneActive, Active, NonceUnique
<1>8. Pooled'
  <2>1. \A q \in sent' : nonce'[q] \in Nat /\ pc'[q] \in {"watch", "receipt", "count", "post", "done"}
    BY <1>3 DEF NonceInv, Pooled
  <2>2. \A q \in sent' : q \in pool'[Endpoint(q)] \/ nonce'[q] < Len(chain')
    <3> SUFFICES ASSUME NEW q \in sent PROVE q \in pool'[Endpoint(q)] \/ nonce[q] < Len(chain) + 1
      BY <1>1, <1>3
    <3>1. nonce[q] \in Nat /\ (q \in pool[Endpoint(q)] \/ nonce[q] < Len(chain)) /\ Endpoint(q) \in Lane
      BY <1>0, EndpointType DEF NonceInv, Pooled
    <3> QED BY <1>0, <1>2, <3>1, SMT
  <2>3. \A d \in Lane : \A q \in pool'[d] : q \in sent' /\ d = Endpoint(q) /\ nonce'[q] >= Len(chain')
    <3>1. \A d \in Lane : \A q \in pool[d] : d = Endpoint(q)  BY DEF NonceInv, Pooled
    <3> QED BY <1>0, <1>1, <1>2, <1>3, <1>4, <3>1, SMT
  <2>4. \A q \in Plan : \A r \in pool'[Endpoint(q)] : Filled(Endpoint(q), nonce[r])'
    <3> SUFFICES ASSUME NEW q \in Plan, NEW r \in pool'[Endpoint(q)]
                 PROVE  Filled(Endpoint(q), nonce[r])'
      OBVIOUS
    <3>1. Endpoint(q) \in Lane  BY EndpointType
    <3>2. r \in pool[Endpoint(q)] /\ nonce[r] \in Int /\ nonce'[r] = nonce[r]
      BY <1>2, <1>3, <1>4, <3>1, SMT
    <3>3. Filled(Endpoint(q), nonce[r])  BY <3>2 DEF NonceInv, Pooled
    <3>4. PICK n \in Int : n = nonce[r]  BY <3>2
    <3>5. Filled(Endpoint(q), n)'  BY <1>5, <3>1, <3>3, <3>4
    <3> QED BY <3>2, <3>4, <3>5 DEF Filled
  <2> QED BY <2>1, <2>2, <2>3, <2>4 DEF Pooled
<1>9. NextNonce'  BY <1>3, <1>6, NextNonceFrame
<1> QED BY <1>7, <1>8, <1>9 DEF NonceInv

LEMMA NextNonceInv ==
    ASSUME OneActorOneEndpoint, NonceInv, [Next]_vars
    PROVE  NonceInv'
<1>0. TypeOK'  BY NextType DEF NonceInv
<1> DEFINE Cache == [pending : Nat \cup {None}, last_refresh : Nat]
<1>1. "balance" \in Place /\ "nonce" \in Place /\ "lock" \in Place /\ "refresh" \in Place
      /\ "watch" \in Place /\ "receipt" \in Place /\ "count" \in Place /\ "post" \in Place
      /\ "done" \in Place /\ cache \in Cache
  BY DEF Place, NonceInv, TypeOK
<1>2. CASE UNCHANGED vars
  BY <1>0, <1>2, NonceStutter DEF vars
<1>3. ASSUME NEW p \in Plan, Start(p) PROVE NonceInv'
  <2>1. Active = {}  BY <1>3 DEF Start, OneActorOneEndpoint
  <2>2. Goto(p, "balance") /\ UNCHANGED <<cache, nonce, seen, world>> /\ pc[p] = "idle"
    BY <1>3 DEF Start
  <2>3. AtMostOneActive'
    <3>1. \A q \in Plan : q # p => pc'[q] = pc[q]  BY <1>1, <2>2, GotoFacts DEF NonceInv
    <3> QED BY <2>1, <3>1 DEF AtMostOneActive, Active
  <2> QED BY <1>0, <1>1, <2>2, <2>3, QuietStep
\* A step of an active Plan that touches no nonce.
<1>4. ASSUME NEW p \in Plan, NEW l \in Place \ {"idle", "prime", "send"}, Goto(p, l),
             pc[p] \notin {"idle", "done"},
             UNCHANGED <<nonce, seen, world>>,
             \/ pc[p] \notin {"watch", "receipt", "count", "post"}
             \/ l \in {"watch", "receipt", "count", "post", "done"},
             \/ cache' = cache /\ pc[p] # "send"
             \/ cache'.pending = None
      PROVE  NonceInv'
  <2>1. p \in Active  BY <1>4 DEF Active
  <2>2. AtMostOneActive'  BY <1>4, <2>1, StillAlone
  <2> QED BY <1>0, <1>4, <2>1, <2>2, QuietStep
<1>5. ASSUME NEW p \in Plan, ReadPreBalance(p) PROVE NonceInv'
  BY <1>1, <1>4, <1>5 DEF ReadPreBalance, Return
<1>6. ASSUME NEW p \in Plan, Goto(p, "send"), Fresh(cache), Take(p, cache),
             pc[p] \in {"nonce", "lock", "take"}, UNCHANGED world
      PROVE  NonceInv'
  <2>1. \A q \in Plan : pc[q] # "send"  BY <1>6, Alone DEF Active
  <2>2. cache.pending # None /\ Good(Endpoint(p), cache.pending)
    BY <1>6, <2>1 DEF Fresh, NonceInv, NextNonce
  <2> QED BY <1>0, <1>1, <1>6, <2>2, TakeStep
<1>7. ASSUME NEW p \in Plan, TryCache(p) PROVE NonceInv'
  <2>1. CASE Fresh(cache) /\ Take(p, cache) /\ Goto(p, "send")
    BY <1>6, <1>7, <2>1 DEF TryCache
  <2>2. CASE Forget(cache) /\ Goto(p, "lock") /\ UNCHANGED nonce
    BY <1>1, <1>4, <1>7, <2>2, ForgetFacts DEF TryCache
  <2> QED BY <1>7, <2>1, <2>2 DEF TryCache
<1>8. ASSUME NEW p \in Plan, LockRefresh(p) PROVE NonceInv'
  <2>1. CASE Fresh(cache) /\ Take(p, cache) /\ Goto(p, "send")
    BY <1>6, <1>8, <2>1 DEF LockRefresh
  <2>2. CASE /\ Forget(cache) /\ Goto(p, "refresh") /\ UNCHANGED nonce
             /\ seen' = [seen EXCEPT ![p] = [count |-> @.count, at |-> now]]
    <3>1. cache'.pending = None  BY <1>1, <2>2, ForgetFacts
    <3>2. p \in Active /\ pc[p] = "lock" /\ UNCHANGED world  BY <1>8 DEF Active, LockRefresh
    <3>3. /\ pc'[p] = "refresh" /\ \A q \in Plan : q # p => pc'[q] \in {"idle", "done"}
          /\ AtMostOneActive'
      BY <1>1, <2>2, <3>2, GotoFacts, Alone, StillAlone DEF NonceInv
    <3>4. NextNonce'  BY <3>1, <3>3 DEF NextNonce
    <3>5. Pooled' /\ NonceUnique'  BY <1>0, <1>1, <2>2, <3>2, PooledFrame
    <3> QED BY <1>0, <3>3, <3>4, <3>5 DEF NonceInv
  <2> QED BY <1>8, <2>1, <2>2 DEF LockRefresh
<1>9. ASSUME NEW p \in Plan, Prime(p) PROVE NonceInv'
  <2>1. /\ pc[p] = "prime" /\ Goto(p, "take") /\ UNCHANGED <<nonce, seen, world>>
        /\ cache'.pending = seen[p].count /\ p \in Active /\ "take" \in Place
    BY <1>9 DEF Prime, Active, Place
  <2>2. /\ pc'[p] = "take" /\ \A q \in Plan : q # p => pc'[q] \in {"idle", "done"}
        /\ AtMostOneActive'
    BY <2>1, GotoFacts, Alone, StillAlone DEF NonceInv
  <2>3. /\ Pooled' /\ NonceUnique' /\ \A e \in Lane, n \in Int : Good(e, n) => Good(e, n)'
    BY <1>0, <2>1, PooledFrame
  <2>4. ASSUME NEW q \in Plan PROVE Good(Endpoint(q), cache.pending)'
    <3>1. Good(Endpoint(p), seen[p].count)  BY <2>1 DEF NonceInv, NextNonce
    <3>2. Endpoint(q) = Endpoint(p)  BY DEF OneActorOneEndpoint
    <3>3. Endpoint(q) \in Lane /\ seen[p].count \in Int  BY Values DEF NonceInv
    <3>4. Good(Endpoint(q), seen[p].count)  BY <3>1, <3>2
    <3> DEFINE n == seen[p].count
    <3>5. n \in Int /\ Good(Endpoint(q), n) /\ cache'.pending = n  BY <2>1, <3>3, <3>4
    <3> HIDE DEF n
    <3>6. PICK k \in Int : k = n /\ Good(Endpoint(q), k)'  BY <2>3, <3>3, <3>5
    <3> QED BY <3>5, <3>6, GoodValue
  <2>5. NextNonce'  BY <2>2, <2>4 DEF NextNonce
  <2> QED BY <1>0, <2>2, <2>3, <2>5 DEF NonceInv
<1>24. ASSUME NEW p \in Plan, TakePrimed(p) PROVE NonceInv'
  <2>1. CASE Fresh(cache) /\ Take(p, cache) /\ Goto(p, "send")
    BY <1>6, <1>24, <2>1 DEF TakePrimed
  <2>2. CASE Forget(cache) /\ Goto(p, "done") /\ UNCHANGED nonce
    <3>1. cache'.pending = None  BY <1>1, <2>2, ForgetFacts
    <3> QED BY <1>1, <1>4, <1>24, <2>2, <3>1 DEF TakePrimed
  <2> QED BY <1>24, <2>1, <2>2 DEF TakePrimed, Return
<1>10. ASSUME NEW p \in Plan, ReadPendingCount(p) PROVE NonceInv'
  BY <1>0, <1>10, ReadCountStep
<1>11. ASSUME NEW p \in Plan, PendingCountFails(p) PROVE NonceInv'
  BY <1>1, <1>4, <1>11 DEF PendingCountFails, Return
<1>12. ASSUME NEW p \in Plan, SendAccepted(p) PROVE NonceInv'
  BY <1>0, <1>12, SendStep DEF SendAccepted
<1>13. ASSUME NEW p \in Plan, SendUnanswered(p) PROVE NonceInv'
  BY <1>0, <1>13, SendStep, ClearFacts DEF SendUnanswered, Return
<1>14. ASSUME NEW p \in Plan, SendRejected(p) PROVE NonceInv'
  BY <1>1, <1>4, <1>14, ClearFacts DEF SendRejected, Return
<1>15. ASSUME NEW p \in Plan, WatchDeadline(p) PROVE NonceInv'
  BY <1>1, <1>4, <1>15 DEF WatchDeadline, Return
<1>16. ASSUME NEW p \in Plan, CheckReceipt(p) PROVE NonceInv'
  BY <1>1, <1>4, <1>16 DEF CheckReceipt
<1>17. ASSUME NEW p \in Plan, CheckReplacement(p) PROVE NonceInv'
  BY <1>1, <1>4, <1>17 DEF CheckReplacement, Return
<1>18. ASSUME NEW p \in Plan, ReadPostBalance(p) PROVE NonceInv'
  BY <1>1, <1>4, <1>18 DEF ReadPostBalance, Return
<1>19. ASSUME NEW p \in Plan, WatchFails(p) PROVE NonceInv'
  BY <1>1, <1>4, <1>19 DEF WatchFails, Return
<1>20. ASSUME NEW p \in Plan, Mine(p) PROVE NonceInv'
  BY <1>0, <1>20, IncludeStep DEF Mine
<1>21. CASE MineForeign
  BY <1>0, <1>21, IncludeStep DEF MineForeign
<1>22. ASSUME NEW p \in Plan, Evict(p) PROVE NonceInv'
  BY <1>22 DEF Evict, OneActorOneEndpoint
<1>23. CASE Tick
  BY <1>0, <1>23, NonceStutter DEF Tick
<1> QED BY <1>2, <1>3, <1>5, <1>7, <1>8, <1>9, <1>10, <1>11, <1>12, <1>13, <1>14, <1>15, <1>16,
           <1>17, <1>18, <1>19, <1>20, <1>21, <1>22, <1>23, <1>24 DEF Next, Step, Finished

\* With one actor on one endpoint, next_nonce never hands out a nonce that
\* another transaction of the executor already went out with, however sends
\* fail, answers get lost, caches expire and foreign transactions intervene.
THEOREM NonceUniqueAlways == ASSUME OneActorOneEndpoint PROVE Spec => []NonceUnique
<1>1. NonceInv /\ [Next]_vars => NonceInv'  BY NextNonceInv
<1>2. NonceInv => NonceUnique  BY DEF NonceInv
<1> QED BY InitNonce, <1>1, <1>2, PTL DEF Spec

\* Under the same conditions no transaction is sent above a nonce that is
\* neither mined nor pending.
THEOREM GapFreeAlways == ASSUME OneActorOneEndpoint PROVE Spec => []GapFree
<1>1. NonceInv /\ [Next]_vars => NonceInv'  BY NextNonceInv
<1>2. NonceInv => GapFree  BY DEF NonceInv, NextNonce, Good, Filled, GapFree
<1> QED BY InitNonce, <1>1, <1>2, PTL DEF Spec
-----------------------------------------------------------------------------
(* Concurrent submissions.                                                    *)

\* Nothing has emptied the cache since it was first filled: it is not old
\* enough to expire, and no Plan that took a nonce has failed to send.
Calm == now <= TTL /\ \A p \in Plan : nonce[p] # None => outcome[p] # "NotSent"

\* The cache is ahead of every nonce it handed out, no two are the same, and
\* whoever refreshes it found it empty.
Apart ==
    /\ \A p \in Plan : nonce[p] # None => cache.pending # None /\ nonce[p] < cache.pending
    /\ \A p, q \in Plan : p # q /\ nonce[p] # None => nonce[p] # nonce[q]
    /\ \A p \in Plan : pc[p] \in {"refresh", "prime"} => cache.pending = None

ApartInv ==
    /\ TypeOK
    /\ \A p \in Plan : /\ outcome[p] = "NotSent" => pc[p] = "done"
                       /\ pc[p] = "send" => nonce[p] # None
    /\ Calm => Apart

LEMMA InitApart == Init => ApartInv
<1> SUFFICES ASSUME Init PROVE ApartInv  OBVIOUS
<1>1. TypeOK  BY InitType
<1>2. Apart  BY DEF Init, Apart
<1>3. \A p \in Plan : outcome[p] # "NotSent" /\ pc[p] # "send"  BY DEF Init
<1> QED BY <1>1, <1>2, <1>3 DEF ApartInv

\* A filled cache does not expire while it is Calm.
LEMMA CalmIsFresh ==
    ASSUME TypeOK, Calm, ~Fresh(cache)
    PROVE  cache.pending = None
<1>1. now \in Nat /\ cache.last_refresh \in Nat /\ now <= TTL  BY DEF TypeOK, Calm
<1>2. now - cache.last_refresh <= TTL  BY <1>1, SMT
<1> QED BY <1>2 DEF Fresh

\* Calm does not come back: a Plan keeps its nonce and its outcome.
LEMMA CalmBefore ==
    ASSUME TypeOK, TypeOK', now' = now \/ now' = now + 1, Calm',
           \A q \in Plan : nonce[q] # None => nonce'[q] # None,
           \A q \in Plan : outcome[q] = "NotSent" => outcome'[q] = "NotSent"
    PROVE  Calm
<1>1. now \in Nat /\ now' \in Nat /\ now' <= TTL  BY DEF TypeOK, Calm
<1>2. now <= TTL  BY <1>1, SMT
<1> QED BY <1>2 DEF Calm

\* A step of p that hands out no nonce and leaves what the cache holds.
LEMMA QuietApart ==
    ASSUME ApartInv, TypeOK', NEW p \in Plan, NEW l \in Place \ {"send"}, Goto(p, l),
           pc[p] # "done", nonce' = nonce, now' = now,
           outcome' = outcome \/ (l = "done" /\ \E o \in Outcome : Return(p, o)),
           Calm => cache'.pending = cache.pending,
           l \in {"refresh", "prime"} /\ Calm => cache.pending = None
    PROVE  ApartInv'
<1>0. TypeOK  BY DEF ApartInv
<1>1. pc'[p] = l /\ \A q \in Plan : q # p => pc'[q] = pc[q]  BY <1>0, GotoFacts
<1>2. /\ \A q \in Plan : q # p => outcome'[q] = outcome[q]
      /\ l # "done" => outcome'[p] = outcome[p]
  BY <1>0, ReturnFacts
<1>3. \A q \in Plan : outcome[q] = "NotSent" => q # p  BY DEF ApartInv
<1>4. ASSUME NEW q \in Plan
      PROVE  /\ outcome'[q] = "NotSent" => pc'[q] = "done"
             /\ pc'[q] = "send" => nonce'[q] # None
  BY <1>1, <1>2, <1>3 DEF ApartInv
<1>5. ASSUME Calm' PROVE Apart'
  <2>1. Calm  BY <1>0, <1>2, <1>3, <1>5, CalmBefore
  <2>2. Apart /\ cache'.pending = cache.pending  BY <2>1 DEF ApartInv
  <2>3. \A q \in Plan : pc'[q] \in {"refresh", "prime"} => cache.pending = None
    BY <1>1, <2>1, <2>2 DEF Apart
  <2> QED BY <2>2, <2>3 DEF Apart
<1> QED BY <1>4, <1>5 DEF ApartInv

\* take_and_increment hands p a nonce above all the others.
LEMMA TakeApart ==
    ASSUME ApartInv, TypeOK', NEW p \in Plan, pc[p] # "done", Goto(p, "send"),
           Fresh(cache), Take(p, cache), UNCHANGED <<now, outcome>>
    PROVE  ApartInv'
<1>0. TypeOK /\ "send" \in Place  BY DEF ApartInv, Place
<1>1. pc'[p] = "send" /\ \A q \in Plan : q # p => pc'[q] = pc[q]  BY <1>0, GotoFacts
<1>2. /\ cache.pending # None
      /\ cache \in [pending : Nat \cup {None}, last_refresh : Nat]
  BY <1>0 DEF Fresh, TypeOK
<1>3. /\ nonce'[p] = cache.pending /\ nonce'[p] \in Nat /\ cache'.pending = cache.pending + 1
      /\ \A q \in Plan : q # p => nonce'[q] = nonce[q]
  BY <1>0, <1>2, TakeFacts
<1>4. nonce'[p] # None /\ cache'.pending # None /\ cache.pending \in Nat
  BY <1>3, SMT DEF None
<1>5. ASSUME NEW q \in Plan
      PROVE  /\ outcome'[q] = "NotSent" => pc'[q] = "done"
             /\ pc'[q] = "send" => nonce'[q] # None
  BY <1>1, <1>3, <1>4 DEF ApartInv
<1>6. ASSUME Calm' PROVE Apart'
  <2>1. Calm  BY <1>0, <1>3, <1>4, <1>6, CalmBefore
  <2>2. Apart  BY <2>1 DEF ApartInv
  <2>3. ASSUME NEW q \in Plan, nonce[q] # None
        PROVE  nonce[q] # cache.pending /\ nonce[q] < cache.pending + 1
    <3>1. nonce[q] \in Nat /\ nonce[q] < cache.pending  BY <1>0, <2>2, <2>3 DEF TypeOK, Apart
    <3> QED BY <1>4, <3>1, SMT
  <2>4. cache.pending < cache.pending + 1  BY <1>4, SMT
  <2>5. \A q \in Plan : nonce'[q] # None => cache'.pending # None /\ nonce'[q] < cache'.pending
    BY <1>3, <1>4, <2>3, <2>4
  <2>6. \A q, r \in Plan : q # r /\ nonce'[q] # None => nonce'[q] # nonce'[r]
    BY <1>2, <1>3, <2>2, <2>3 DEF Apart
  <2>7. \A q \in Plan : pc'[q] \notin {"refresh", "prime"}
    BY <1>1, <1>2, <2>2 DEF Apart
  <2> QED BY <2>5, <2>6, <2>7 DEF Apart
<1> QED BY <1>5, <1>6 DEF ApartInv

\* The first refresh: no nonce has been handed out yet.
LEMMA PrimeApart ==
    ASSUME ApartInv, TypeOK', NEW p \in Plan, Prime(p)
    PROVE  ApartInv'
<1>0. TypeOK /\ "take" \in Place  BY DEF ApartInv, Place
<1>1. /\ pc[p] = "prime" /\ Goto(p, "take") /\ UNCHANGED <<now, nonce, outcome>>
      /\ cache'.pending = seen[p].count
  BY DEF Prime
<1>2. pc'[p] = "take" /\ \A q \in Plan : q # p => pc'[q] = pc[q]  BY <1>0, <1>1, GotoFacts
<1>3. ASSUME NEW q \in Plan
      PROVE  /\ outcome'[q] = "NotSent" => pc'[q] = "done"
             /\ pc'[q] = "send" => nonce'[q] # None
  BY <1>1, <1>2 DEF ApartInv
<1>4. ASSUME Calm' PROVE Apart'
  <2>1. Calm  BY <1>0, <1>1, <1>4, CalmBefore
  <2>2. cache.pending = None  BY <1>1, <2>1 DEF ApartInv, Apart
  <2>3. \A q \in Plan : nonce'[q] = None  BY <1>1, <2>1, <2>2 DEF ApartInv, Apart
  <2>4. \A q \in Plan : q # p => pc'[q] \notin {"refresh", "prime"}
    BY <1>0, <1>1, <1>2 DEF TypeOK
  <2> QED BY <1>2, <2>3, <2>4 DEF Apart
<1> QED BY <1>3, <1>4 DEF ApartInv

\* A failed send clears the cache; it was not Calm, or is no longer.
LEMMA FailedSendApart ==
    ASSUME ApartInv, TypeOK', NEW p \in Plan, pc[p] = "send", Return(p, "NotSent"),
           nonce' = nonce
    PROVE  ApartInv'
<1>0. TypeOK /\ "NotSent" \in Outcome  BY DEF ApartInv, Outcome
<1>1. /\ pc'[p] = "done" /\ \A q \in Plan : q # p => pc'[q] = pc[q]
      /\ outcome'[p] = "NotSent" /\ \A q \in Plan : q # p => outcome'[q] = outcome[q]
  BY <1>0, ReturnFacts, GotoFacts
<1>2. nonce'[p] # None  BY DEF ApartInv
<1>3. ~Calm'  BY <1>1, <1>2 DEF Calm
<1>4. ASSUME NEW q \in Plan
      PROVE  /\ outcome'[q] = "NotSent" => pc'[q] = "done"
             /\ pc'[q] = "send" => nonce'[q] # None
  BY <1>1 DEF ApartInv
<1> QED BY <1>3, <1>4 DEF ApartInv

\* A step of the world leaves nonces and cache alone.
LEMMA WorldApart ==
    ASSUME ApartInv, TypeOK', now' = now \/ now' = now + 1, UNCHANGED backend
    PROVE  ApartInv'
<1>1. UNCHANGED <<cache, pc, nonce, outcome>>  BY DEF backend
<1>2. Calm' => Calm  BY <1>1, CalmBefore DEF ApartInv
<1>3. Apart => Apart'  BY <1>1 DEF Apart
<1> QED BY <1>1, <1>2, <1>3 DEF ApartInv

LEMMA NextApart ==
    ASSUME ApartInv, [Next]_vars
    PROVE  ApartInv'
<1>0. TypeOK /\ TypeOK'  BY NextType DEF ApartInv
<1> DEFINE Cache == [pending : Nat \cup {None}, last_refresh : Nat]
<1>1. /\ {"balance", "nonce", "lock", "refresh", "prime", "watch", "receipt", "count", "post",
           "done"} \subseteq Place \ {"send"}
      /\ {"NotSent", "Mined", "Replaced", "Dropped", "WatchError"} \subseteq Outcome
      /\ cache \in Cache
  BY <1>0 DEF Place, Outcome, TypeOK
<1>2. CASE UNCHANGED vars  BY <1>0, <1>2, WorldApart DEF vars
\* The steps of p that leave nonces and cache alone.
<1>3. ASSUME NEW p \in Plan, pc[p] # "done", UNCHANGED <<nonce, cache, now>>,
             \/ UNCHANGED outcome /\ \E l \in {"balance", "nonce", "watch", "receipt", "count", "post"} : Goto(p, l)
             \/ \E o \in {"NotSent", "Mined", "Replaced", "Dropped", "WatchError"} : Return(p, o)
      PROVE  ApartInv'
  <2>1. ASSUME NEW l \in {"balance", "nonce", "watch", "receipt", "count", "post"}, Goto(p, l),
               UNCHANGED outcome
        PROVE  ApartInv'
    <3>1. l \in Place \ {"send"} /\ l \notin {"refresh", "prime"}  BY <1>1
    <3> QED BY <1>0, <1>3, <2>1, <3>1, QuietApart
  <2>2. ASSUME NEW o \in {"NotSent", "Mined", "Replaced", "Dropped", "WatchError"}, Return(p, o)
        PROVE  ApartInv'
    <3>1. o \in Outcome /\ Goto(p, "done") /\ "done" \in Place \ {"send"}
      BY <1>1, <2>2 DEF Return
    <3> QED BY <1>0, <1>3, <2>2, <3>1, QuietApart
  <2> QED BY <1>3, <2>1, <2>2
<1>4. ASSUME NEW p \in Plan, Start(p) PROVE ApartInv'  BY <1>3, <1>4 DEF Start
<1>5. ASSUME NEW p \in Plan, ReadPreBalance(p) PROVE ApartInv'
  BY <1>3, <1>5 DEF ReadPreBalance
\* The cache was found empty, or it is no longer Calm.
<1>6. ASSUME ~Fresh(cache), Forget(cache) PROVE Calm => cache.pending = None /\ cache'.pending = None
  BY <1>0, <1>1, <1>6, CalmIsFresh, ForgetFacts
<1>7. ASSUME NEW p \in Plan, TryCache(p) PROVE ApartInv'
  <2>1. CASE Fresh(cache) /\ Take(p, cache) /\ Goto(p, "send")
    BY <1>0, <1>7, <2>1, TakeApart DEF TryCache
  <2>2. CASE ~Fresh(cache) /\ Forget(cache) /\ Goto(p, "lock") /\ UNCHANGED nonce
    <3>1. Calm => cache'.pending = cache.pending  BY <1>6, <2>2
    <3>2. pc[p] # "done" /\ UNCHANGED <<now, outcome>>  BY <1>7 DEF TryCache
    <3> QED BY <1>0, <1>1, <2>2, <3>1, <3>2, QuietApart
  <2> QED BY <1>7, <2>1, <2>2 DEF TryCache
<1>8. ASSUME NEW p \in Plan, LockRefresh(p) PROVE ApartInv'
  <2>1. CASE Fresh(cache) /\ Take(p, cache) /\ Goto(p, "send")
    BY <1>0, <1>8, <2>1, TakeApart DEF LockRefresh
  <2>2. CASE ~Fresh(cache) /\ Forget(cache) /\ Goto(p, "refresh") /\ UNCHANGED nonce
    <3>1. Calm => cache'.pending = cache.pending /\ cache.pending = None  BY <1>6, <2>2
    <3>2. pc[p] # "done" /\ UNCHANGED <<now, outcome>>  BY <1>8 DEF LockRefresh
    <3> QED BY <1>0, <1>1, <2>2, <3>1, <3>2, QuietApart
  <2> QED BY <1>8, <2>1, <2>2 DEF LockRefresh
<1>9. ASSUME NEW p \in Plan, ReadPendingCount(p) PROVE ApartInv'
  <2>1. pc[p] = "refresh" /\ Goto(p, "prime") /\ UNCHANGED <<now, nonce, cache, outcome>>
    BY <1>9 DEF ReadPendingCount
  <2>2. Calm => cache.pending = None  BY <2>1 DEF ApartInv, Apart
  <2> QED BY <1>0, <1>1, <2>1, <2>2, QuietApart
<1>10. ASSUME NEW p \in Plan, PendingCountFails(p) PROVE ApartInv'
  BY <1>3, <1>10 DEF PendingCountFails
<1>11. ASSUME NEW p \in Plan, Prime(p) PROVE ApartInv'  BY <1>0, <1>11, PrimeApart
<1>12. ASSUME NEW p \in Plan, TakePrimed(p) PROVE ApartInv'
  <2>1. CASE Fresh(cache) /\ Take(p, cache) /\ Goto(p, "send") /\ UNCHANGED outcome
    BY <1>0, <1>12, <2>1, TakeApart DEF TakePrimed
  <2>2. CASE ~Fresh(cache) /\ Forget(cache) /\ Return(p, "NotSent") /\ UNCHANGED nonce
    <3>1. Calm => cache'.pending = cache.pending  BY <1>6, <2>2
    <3>2. pc[p] # "done" /\ now' = now /\ Goto(p, "done") /\ "NotSent" \in Outcome
      BY <1>1, <1>12, <2>2 DEF TakePrimed, Return
    <3> QED BY <1>0, <1>1, <2>2, <3>1, <3>2, QuietApart
  <2> QED BY <1>12, <2>1, <2>2 DEF TakePrimed
<1>13. ASSUME NEW p \in Plan, SendAccepted(p) PROVE ApartInv'
  BY <1>3, <1>13 DEF SendAccepted
<1>14. ASSUME NEW p \in Plan, SendUnanswered(p) \/ SendRejected(p) PROVE ApartInv'
  BY <1>0, <1>14, FailedSendApart DEF SendUnanswered, SendRejected
<1>15. ASSUME NEW p \in Plan, WatchDeadline(p) PROVE ApartInv'
  BY <1>3, <1>15 DEF WatchDeadline
<1>16. ASSUME NEW p \in Plan, CheckReceipt(p) PROVE ApartInv'
  BY <1>3, <1>16 DEF CheckReceipt
<1>17. ASSUME NEW p \in Plan, CheckReplacement(p) PROVE ApartInv'
  BY <1>3, <1>17 DEF CheckReplacement
<1>18. ASSUME NEW p \in Plan, ReadPostBalance(p) \/ WatchFails(p) PROVE ApartInv'
  BY <1>3, <1>18 DEF ReadPostBalance, WatchFails
<1>19. ASSUME NEW p \in Plan, Mine(p) \/ Evict(p) PROVE ApartInv'
  BY <1>0, <1>19, WorldApart DEF Mine, Evict, Include
<1>20. CASE MineForeign
  BY <1>0, <1>20, WorldApart DEF MineForeign, Include
<1>21. CASE Tick
  BY <1>0, <1>21, WorldApart DEF Tick
<1> QED BY <1>2, <1>4, <1>5, <1>7, <1>8, <1>9, <1>10, <1>11, <1>12, <1>13, <1>14, <1>15, <1>16,
           <1>17, <1>18, <1>19, <1>20, <1>21 DEF Next, Step, Finished

\* For any number of concurrent callers on any lanes: the lock and the second
\* look at the cache keep their nonces apart, until the cache can first expire
\* or a send fails.
THEOREM ConcurrentNoncesAlways == Spec => []ConcurrentNonces
<1>1. ApartInv /\ [Next]_vars => ApartInv'  BY NextApart
<1>2. ApartInv => ConcurrentNonces  BY DEF ApartInv, Calm, Apart, ConcurrentNonces
<1> QED BY InitApart, <1>1, <1>2, PTL DEF Spec
=============================================================================

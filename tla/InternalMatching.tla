--------------------------- MODULE InternalMatching ---------------------------
(***************************************************************************)
(* src/degenbot/matching: the queue of candidates waiting for an internal  *)
(* match (unified_queue.py) and the matcher that the decision engine runs  *)
(* on a snapshot of it (internal_matcher.py), with the arithmetic of       *)
(* PriceCompat.                                                            *)
(*                                                                         *)
(* Every coroutine of the queue does its work without an await once it has *)
(* the lock, so each is one step.                                          *)
(***************************************************************************)
EXTENDS PriceCompat, Sequences, Functions, SequenceOps

CONSTANTS
  Native,           \* the native Opportunities that may be queued
  CandidateTtl, NativeTtl,   \* in milliseconds, as the clock is
  MillisPerSecond,  \* 1000 in the code
  MaxTime,          \* bound on the clock
  MaxAdds           \* bound on the number of calls to add_*

ASSUME QueueAssumption ==
  /\ Candidate \cap Native = {}
  /\ \A c \in Candidate : /\ c.side \in {"outbound", "inbound", "uniswapx"}
                         /\ c.source_expires_at \in Nat
  /\ CandidateTtl \in Nat /\ NativeTtl \in Nat /\ MaxTime \in Nat
  /\ MillisPerSecond \in Nat \ {0}

VARIABLES
  queue,            \* queue name |-> sequence of QueueItems
  now,              \* time.time() in whole milliseconds
  match,            \* what the last find_best_match returned
  added, consumed, swept   \* history: how often a value entered and left

vars == <<queue, now, match, added, consumed, swept>>

QueueName == {"outbound", "inbound", "uniswapx", "native"}

Value == Candidate \union Native

None == [kind |-> "none"]
Raised == [kind |-> "ValueError"]
MatchPair(p) == [kind |-> "match", o |-> p[1], c |-> p[2]]

-----------------------------------------------------------------------------
(* internal_matcher.py.                                                    *)

Values(name) == [k \in DOMAIN queue[name] |-> queue[name][k].value]

(* The pairs in the order of the two loops of find_matches.                *)
PairsOf(outbound, counters) ==
  Flat([k \in DOMAIN outbound |->
          [j \in DOMAIN counters |-> <<outbound[k], counters[j]>>]])

Viable(p) == is_price_compatible(p[1], p[2]) /\ fill_amount(p[1], p[2]) # 0

find_matches(outbound, counters) ==
  LET pairs == PairsOf(outbound, counters)
  IN  Only(pairs, {p \in Range(pairs) : Viable(p)})

Fill(m) == fill_amount(m.o, m.c)

\* Mutant: the last of equal fills wins.
laterOfEqualFills(best, p) ==
  IF best = None \/ Fill(MatchPair(p)) >= Fill(best) THEN MatchPair(p) ELSE best

better(best, p) ==
  IF best = None \/ Fill(MatchPair(p)) > Fill(best) THEN MatchPair(p) ELSE best

(* The loop over the matches: BestUpTo(matches)[k] is best after k of them. *)
BestUpTo(matches) ==
  LET best[k \in 0..Len(matches)] == IF k = 0 THEN None ELSE better(best[k - 1], matches[k])
  IN  best

find_best_match(outbound, counters) ==
  IF \E k \in DOMAIN outbound, j \in DOMAIN counters : PriceRaises(outbound[k], counters[j])
  THEN Raised
  ELSE LET matches == find_matches(outbound, counters)
       IN  BestUpTo(matches)[Len(matches)]

-----------------------------------------------------------------------------
(* unified_queue.py.                                                       *)

\* Mutant: the source's seconds are taken for milliseconds.
ExpiryUnconverted(c, time) ==
  IF 0 < c.source_expires_at /\ c.source_expires_at < time + CandidateTtl
  THEN c.source_expires_at ELSE time + CandidateTtl

(* _wrap_candidate: a source gives its expiry in seconds.                  *)
Expiry(c, time) ==
  LET source_expiry_ms == c.source_expires_at * MillisPerSecond
      ttl_expiry_ms    == time + CandidateTtl
  IN  IF 0 < source_expiry_ms /\ source_expiry_ms < ttl_expiry_ms
      THEN source_expiry_ms ELSE ttl_expiry_ms

Item(v, time) ==
  [value |-> v, enqueued |-> time,
   expires |-> IF v \in Native THEN time + NativeTtl ELSE Expiry(v, time)]

(* QueueItem, and the entries that hold the value v.                       *)
Entry == [value : Value, enqueued : Nat, expires : Nat]
Holding(v) == {e \in Entry : e.value = v}

Ttl(v) == IF v \in Native THEN NativeTtl ELSE CandidateTtl

QueueOf(v) == IF v \in Native THEN "native" ELSE v.side

Init ==
  /\ queue = [n \in QueueName |-> << >>]
  /\ now = 0
  /\ match = None
  /\ added = [v \in Value |-> 0]
  /\ consumed = [v \in Value |-> 0]
  /\ swept = [v \in Value |-> 0]

(* add_outbound, add_inbound, add_uniswapx, add_native                     *)
Add(v) ==
  /\ FoldFunction(+, 0, added) < MaxAdds
  /\ queue' = [queue EXCEPT ![QueueOf(v)] = Append(@, Item(v, now))]
  /\ added' = [added EXCEPT ![v] = @ + 1]
  /\ UNCHANGED <<now, match, consumed, swept>>

(* The queues consume and consume_native look through, in this order.      *)
Searched(v) == IF v \in Native THEN <<"native">> ELSE <<"outbound", "inbound", "uniswapx">>

HasId(q, id) == \E k \in DOMAIN q : q[k].value.id = id

\* Mutant: every entry with the id is removed from the queue that has it.
consumeAll(v) ==
  \E i \in DOMAIN Searched(v) :
    LET n == Searched(v)[i]
        q == queue[n]
    IN  /\ \A j \in 1..(i - 1) : ~HasId(queue[Searched(v)[j]], v.id)
        /\ \E k \in DOMAIN q :
             /\ q[k].value.id = v.id /\ \A j \in 1..(k - 1) : q[j].value.id # v.id
             /\ queue' = [queue EXCEPT ![n] = Only(@, {e \in Entry : e.value.id # v.id})]
             /\ consumed' = [consumed EXCEPT ![q[k].value] = @ + 1]
             /\ UNCHANGED <<now, match, added, swept>>

(* consume, consume_native: the first entry with the id of v goes, in the  *)
(* first of the queues that has one; it need not hold v itself.            *)
consume(v) ==
  \E i \in DOMAIN Searched(v) :
    LET n == Searched(v)[i]
        q == queue[n]
    IN  /\ \A j \in 1..(i - 1) : ~HasId(queue[Searched(v)[j]], v.id)
        /\ \E k \in DOMAIN q :
             /\ q[k].value.id = v.id /\ \A j \in 1..(k - 1) : q[j].value.id # v.id
             /\ queue' = [queue EXCEPT ![n] = SubSeq(@, 1, k - 1) \o SubSeq(@, k + 1, Len(@))]
             /\ consumed' = [consumed EXCEPT ![q[k].value] = @ + 1]
             /\ UNCHANGED <<now, match, added, swept>>

sweep_expired ==
  LET Stays == {e \in Entry : e.expires > now}
  IN  /\ queue' = [n \in QueueName |-> Only(queue[n], Stays)]
      /\ swept' = [v \in Value |-> swept[v] + Len(Only(queue[QueueOf(v)], Holding(v) \ Stays))]
      /\ UNCHANGED <<now, match, added, consumed>>

(* The internal-match part of DecisionEngine.route_opportunity.            *)
BestNow == find_best_match(Values("outbound"), Values("inbound") \o Values("uniswapx"))

Route ==
  /\ match' = BestNow
  /\ UNCHANGED <<queue, now, added, consumed, swept>>

Tick ==
  /\ now < MaxTime
  /\ now' = now + 1
  /\ UNCHANGED <<queue, match, added, consumed, swept>>

Next ==
  \/ \E v \in Value : Add(v) \/ consume(v)
  \/ sweep_expired
  \/ Route
  \/ Tick

Spec == Init /\ [][Next]_vars

-----------------------------------------------------------------------------
(* Whatever find_best_match returns can be settled: see HonoursLimits.     *)
MatchHonoursLimits == match.kind = "match" => HonoursLimits(match.o, match.c)

(* find_best_match against its meaning, whatever the queues have come to   *)
(* hold: it raises when some opposing pair has no price; else it returns a *)
(* pair whose fill no other pair exceeds, and of those the first in the    *)
(* order of the queues; None only if no pair is viable.                    *)
BestOfSnapshot ==
  LET out == Values("outbound")
      ctr == Values("inbound") \o Values("uniswapx")
      Pos == (DOMAIN out) \X (DOMAIN ctr)
      Ok  == {p \in Pos : Viable(<<out[p[1]], ctr[p[2]]>>)}
      F(p) == fill_amount(out[p[1]], ctr[p[2]])
      Before(p, r) == p[1] < r[1] \/ (p[1] = r[1] /\ p[2] < r[2])
  IN  IF \E p \in Pos : PriceRaises(out[p[1]], ctr[p[2]]) THEN BestNow = Raised
      ELSE IF Ok = {} THEN BestNow = None
      ELSE \E p \in Ok : /\ BestNow = MatchPair(<<out[p[1]], ctr[p[2]]>>)
                         /\ \A r \in Ok : F(r) < F(p) \/ (F(r) = F(p) /\ ~Before(r, p))

(* consume and sweep_expired under duplicates and under ids shared by two  *)
(* queues: every time a value was queued it is still there, was taken by   *)
(* one consume that returned True, or was swept once.                      *)
EntriesAccounted ==
  \A v \in Value :
    added[v] = Len(Only(queue[QueueOf(v)], Holding(v))) + consumed[v] + swept[v]

(* _wrap_candidate and sweep_expired: a sweep leaves nothing behind that   *)
(* has waited its time to live or whose source's expiry, in whole seconds, *)
(* has come; it removes nothing else and keeps the order of the rest.      *)
SweepsExactly ==
  [][sweep_expired =>
       LET Due(e) == \/ now >= e.enqueued + Ttl(e.value)
                     \/ /\ e.value \in Candidate
                        /\ e.value.source_expires_at \in 1..(now \div MillisPerSecond)
       IN  \A n \in QueueName : queue'[n] = Only(queue[n], {e \in Entry : ~Due(e)})]_vars

=============================================================================

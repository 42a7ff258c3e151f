--------------------------- MODULE ChainReadProofs ---------------------------
(***************************************************************************)
(* Proofs about what is read from the chain: quotes taken from the warm    *)
(* cache (RevmDb), logs fetched in chunks (LogFetcher) and the messages of *)
(* the sequencer's feed (SequencerSubscriber).                             *)
(***************************************************************************)
EXTENDS RevmDb, LogFetcher, SequencerSubscriber, SequenceProofs, SequenceTheorems, TLAPS

\* Most leaves are first-order and go to Zenon; the ones about numbers,
\* records and sequences cite SMT.
USE Zenon

(***************************************************************************)
(* RevmDb.                                                                 *)
(***************************************************************************)
CacheTypeOK ==
    /\ epochs \in [PoolIds -> Nat] /\ poolStates \in [PoolIds -> Nat]
    /\ storage \in [PoolIds -> [Slots -> Nat]]
    /\ lock \in Writers \cup {NoOne}
    /\ wpc \in [Writers -> {"idle", "write", "record", "bump"}]
    /\ wpool \in [Writers -> PoolIds] /\ wid \in [Writers -> Nat]
    /\ wslots \in [Writers -> SUBSET Slots]
    /\ rpc \in [Readers -> {"idle", "recorded", "sized", "quoted"}]
    /\ rpool \in [Readers -> PoolIds] /\ repoch \in [Readers -> Nat]
    /\ rstate \in [Readers -> Nat] /\ rslots \in [Readers -> [Slots -> Nat]]
    /\ issued \in Nat

(* The lock is held exactly while slots are written.                       *)
LockHeld == \A w \in Writers : wpc[w] = "write" <=> lock = w

(* A pool's slots agree, but for the one being written: there the slots    *)
(* written agree, and so do the slots left.                                *)
SlotsAgree ==
    /\ \A p \in PoolIds : \/ lock \in Writers /\ wpool[lock] = p
                          \/ \A s, t \in Slots : storage[p][s] = storage[p][t]
    /\ \A w \in Writers : lock = w =>
           /\ \A s \in Slots \ wslots[w] : storage[wpool[w]][s] = wid[w]
           /\ \A s, t \in wslots[w] : storage[wpool[w]][s] = storage[wpool[w]][t]

Pending(p, u) == \E w \in Writers : wpool[w] = p /\ wpc[w] # "idle" /\ wid[w] = u
PendingAfter(p, u) == \E w \in Writers : wpool'[w] = p /\ wpc'[w] # "idle" /\ wid'[w] = u

Current(r) == repoch[r] = epochs[rpool[r]] /\ repoch[r] < EpochMax

(* What a reader holds, from the epoch it recorded onwards.                *)
StateFresh(r) == rstate[r] # poolStates[rpool[r]] => Pending(rpool[r], poolStates[rpool[r]])
SlotsFresh(r) == \A s \in Slots : rslots[r][s] # storage[rpool[r]][s]
                                     => Pending(rpool[r], storage[rpool[r]][s])
ReaderInv(r) ==
    /\ rpc[r] # "idle" => repoch[r] <= epochs[rpool[r]]
    /\ rpc[r] \in {"sized", "quoted"} /\ Current(r) => StateFresh(r)
    /\ rpc[r] = "quoted" /\ Current(r) => SlotsFresh(r)
    /\ rpc[r] = "quoted" => \A s, t \in Slots : rslots[r][s] = rslots[r][t]

CacheInv == CacheTypeOK /\ LockHeld /\ SlotsAgree /\ \A r \in Readers : ReaderInv(r)

(* An update that has begun is among those in flight.                      *)
LEMMA PendingInFlight ==
    ASSUME NEW p, NEW u, Pending(p, u)
    PROVE  u \in InFlight(p)
BY DEF Pending, InFlight

LEMMA CacheInvInit == CacheInit(PoolIds) => CacheInv
<1> SUFFICES ASSUME CacheInit(PoolIds) PROVE CacheInv
    OBVIOUS
<1>1. CacheTypeOK
    BY CacheAssumption DEF CacheInit, CacheTypeOK
<1>2. LockHeld /\ SlotsAgree
    BY CacheAssumption DEF CacheInit, LockHeld, SlotsAgree
<1>3. \A r \in Readers : ReaderInv(r)
    BY SMTT(20) DEF CacheInit, ReaderInv
<1> QED BY <1>1, <1>2, <1>3 DEF CacheInv

LEMMA CacheTypeStep == CacheTypeOK /\ [CacheNext]_cacheVars => CacheTypeOK'
<1> SUFFICES ASSUME CacheTypeOK, [CacheNext]_cacheVars PROVE CacheTypeOK'
    OBVIOUS
<1> USE DEF CacheTypeOK
<1>1. ASSUME NEW w \in Writers, NEW p \in PoolIds, InsertState(w, p) PROVE CacheTypeOK'
    BY <1>1, SMT DEF InsertState, Begin, readerVars
<1>2. ASSUME NEW w \in Writers, NEW p \in PoolIds, NEW loads \in BOOLEAN,
             LockCache(w, p, loads)
      PROVE  CacheTypeOK'
    BY <1>2, SMT DEF LockCache, Begin, readerVars
<1>3. ASSUME NEW w \in Writers, NEW s \in Slots, WriteSlot(w, s) PROVE CacheTypeOK'
    BY <1>3 DEF WriteSlot, readerVars
<1>4. ASSUME NEW w \in Writers, Unlock(w) PROVE CacheTypeOK'
    BY <1>4 DEF Unlock, readerVars
<1>5. ASSUME NEW w \in Writers, RecordOverlay(w) PROVE CacheTypeOK'
    BY <1>5 DEF RecordOverlay, readerVars
<1>6. ASSUME NEW w \in Writers, BumpEpoch(w) PROVE CacheTypeOK'
    BY <1>6, SMT DEF BumpEpoch, readerVars
<1>7. ASSUME NEW r \in Readers, NEW p \in PoolIds, RecordEpoch(r, p) PROVE CacheTypeOK'
    BY <1>7 DEF RecordEpoch, mapVars, writerVars
<1>8. ASSUME NEW r \in Readers, ReadState(r) PROVE CacheTypeOK'
    BY <1>8 DEF ReadState, mapVars, writerVars
<1>9. ASSUME NEW r \in Readers, Simulate(r) PROVE CacheTypeOK'
    BY <1>9 DEF Simulate, mapVars, writerVars
<1>10. ASSUME NEW r \in Readers, Compare(r) PROVE CacheTypeOK'
    BY <1>10 DEF Compare, mapVars, writerVars
<1>11. CASE UNCHANGED cacheVars
    BY <1>11 DEF cacheVars, mapVars, writerVars, readerVars
<1> HIDE DEF CacheTypeOK
<1> QED BY <1>1, <1>2, <1>3, <1>4, <1>5, <1>6, <1>7, <1>8, <1>9, <1>10, <1>11 DEF CacheNext

LEMMA LockStep == CacheTypeOK /\ LockHeld /\ [CacheNext]_cacheVars => LockHeld'
<1> SUFFICES ASSUME CacheTypeOK, LockHeld, [CacheNext]_cacheVars PROVE LockHeld'
    OBVIOUS
<1> USE CacheAssumption DEF CacheTypeOK, LockHeld
<1>1. ASSUME NEW w \in Writers, NEW p \in PoolIds, InsertState(w, p) PROVE LockHeld'
    BY <1>1 DEF InsertState, Begin
<1>2. ASSUME NEW w \in Writers, NEW p \in PoolIds, NEW loads \in BOOLEAN,
             LockCache(w, p, loads)
      PROVE  LockHeld'
    BY <1>2 DEF LockCache, Begin
<1>3. ASSUME NEW w \in Writers, NEW s \in Slots, WriteSlot(w, s) PROVE LockHeld'
    BY <1>3 DEF WriteSlot
<1>4. ASSUME NEW w \in Writers, Unlock(w) PROVE LockHeld'
    BY <1>4 DEF Unlock
<1>5. ASSUME NEW w \in Writers, RecordOverlay(w) PROVE LockHeld'
    BY <1>5 DEF RecordOverlay
<1>6. ASSUME NEW w \in Writers, BumpEpoch(w) PROVE LockHeld'
    BY <1>6 DEF BumpEpoch
<1>7. CASE UNCHANGED <<mapVars, writerVars>>
    BY <1>7 DEF mapVars, writerVars
<1> HIDE DEF CacheTypeOK, LockHeld
<1> QED BY <1>1, <1>2, <1>3, <1>4, <1>5, <1>6, <1>7
        DEF CacheNext, cacheVars, RecordEpoch, ReadState, Simulate, Compare

LEMMA SlotsStep ==
    CacheTypeOK /\ LockHeld /\ SlotsAgree /\ [CacheNext]_cacheVars => SlotsAgree'
<1> SUFFICES ASSUME CacheTypeOK, LockHeld, SlotsAgree, [CacheNext]_cacheVars
             PROVE  SlotsAgree'
    OBVIOUS
<1> USE CacheAssumption DEF CacheTypeOK, LockHeld, SlotsAgree
<1>1. ASSUME NEW w \in Writers, NEW p \in PoolIds, InsertState(w, p) PROVE SlotsAgree'
    BY <1>1, SMT DEF InsertState, Begin
<1>2. ASSUME NEW w \in Writers, NEW p \in PoolIds, NEW loads \in BOOLEAN,
             LockCache(w, p, loads)
      PROVE  SlotsAgree'
    BY <1>2, SMT DEF LockCache, Begin
<1>3. ASSUME NEW w \in Writers, NEW s \in Slots, WriteSlot(w, s) PROVE SlotsAgree'
    BY <1>3, SMT DEF WriteSlot
<1>4. ASSUME NEW w \in Writers, Unlock(w) PROVE SlotsAgree'
  <2>1. lock = w /\ lock' = NoOne /\ storage' = storage /\ wslots[w] = {}
      BY <1>4 DEF Unlock
  <2>2. \A s, t \in Slots : storage[wpool[w]][s] = storage[wpool[w]][t]
      BY <2>1, SMT
  <2>3. \A p \in PoolIds : \A s, t \in Slots : storage[p][s] = storage[p][t]
      BY <2>1, <2>2, SMTT(60)
  <2> QED BY <2>1, <2>3, SMT
<1>5. ASSUME NEW w \in Writers, RecordOverlay(w) PROVE SlotsAgree'
    BY <1>5, SMT DEF RecordOverlay
<1>6. ASSUME NEW w \in Writers, BumpEpoch(w) PROVE SlotsAgree'
    BY <1>6, SMT DEF BumpEpoch
<1>7. CASE UNCHANGED <<mapVars, writerVars>>
    BY <1>7, SMT DEF mapVars, writerVars
<1> HIDE DEF CacheTypeOK, LockHeld, SlotsAgree
<1> QED BY <1>1, <1>2, <1>3, <1>4, <1>5, <1>6, <1>7
        DEF CacheNext, cacheVars, RecordEpoch, ReadState, Simulate, Compare

(* An update stays pending until it counts its pool's epoch up.            *)
LEMMA PendingKept ==
    ASSUME CacheTypeOK, [CacheNext]_cacheVars, NEW p \in PoolIds, NEW u, Pending(p, u),
           ~\E w \in Writers : wpool[w] = p /\ BumpEpoch(w)
    PROVE  PendingAfter(p, u)
<1> PICK v \in Writers : wpool[v] = p /\ wpc[v] # "idle" /\ wid[v] = u
    BY DEF Pending
<1> SUFFICES wpool'[v] = p /\ wpc'[v] # "idle" /\ wid'[v] = u
    BY DEF PendingAfter
<1> USE DEF CacheTypeOK
<1>1. ASSUME NEW w \in Writers, NEW q \in PoolIds, NEW step, Begin(w, q, step)
      PROVE  wpool'[v] = p /\ wpc'[v] # "idle" /\ wid'[v] = u
    BY <1>1 DEF Begin
<1>2. ASSUME NEW w \in Writers, NEW s \in Slots, WriteSlot(w, s)
      PROVE  wpool'[v] = p /\ wpc'[v] # "idle" /\ wid'[v] = u
    BY <1>2 DEF WriteSlot
<1>3. ASSUME NEW w \in Writers, Unlock(w) \/ RecordOverlay(w)
      PROVE  wpool'[v] = p /\ wpc'[v] # "idle" /\ wid'[v] = u
    BY <1>3 DEF Unlock, RecordOverlay
<1>4. ASSUME NEW w \in Writers, BumpEpoch(w)
      PROVE  wpool'[v] = p /\ wpc'[v] # "idle" /\ wid'[v] = u
    BY <1>4 DEF BumpEpoch
<1>5. CASE UNCHANGED writerVars
    BY <1>5 DEF writerVars
<1> QED BY <1>1, <1>2, <1>3, <1>4, <1>5
        DEF CacheNext, cacheVars, InsertState, LockCache, RecordEpoch, ReadState,
            Simulate, Compare
(* A value that appears in the cache is that of a pending update.          *)
LEMMA StateArrives ==
    ASSUME CacheTypeOK, [CacheNext]_cacheVars, NEW p \in PoolIds,
           poolStates'[p] # poolStates[p]
    PROVE  PendingAfter(p, poolStates'[p])
<1>1. PICK w \in Writers, q \in PoolIds : InsertState(w, q)
    BY DEF CacheNext, cacheVars, mapVars, LockCache, WriteSlot, Unlock, RecordOverlay,
           BumpEpoch, RecordEpoch, ReadState, Simulate, Compare
<1> QED BY <1>1 DEF InsertState, Begin, CacheTypeOK, PendingAfter

LEMMA SlotArrives ==
    ASSUME CacheTypeOK, [CacheNext]_cacheVars, NEW p \in PoolIds, NEW s \in Slots,
           storage'[p][s] # storage[p][s]
    PROVE  PendingAfter(p, storage'[p][s])
<1>1. PICK w \in Writers, t \in Slots : WriteSlot(w, t)
    BY DEF CacheNext, cacheVars, mapVars, InsertState, LockCache, Unlock, RecordOverlay,
           BumpEpoch, RecordEpoch, ReadState, Simulate, Compare
<1>2. CASE wpool[w] = p /\ s = t
    BY <1>1, <1>2 DEF WriteSlot, CacheTypeOK, PendingAfter
<1>3. CASE ~(wpool[w] = p /\ s = t)
    BY <1>1, <1>3 DEF WriteSlot, CacheTypeOK
<1> QED BY <1>2, <1>3

(* Epochs only grow, and one below the limit grows when it is counted up.  *)
LEMMA EpochsGrow ==
    ASSUME CacheTypeOK, [CacheNext]_cacheVars, NEW p \in PoolIds
    PROVE  /\ epochs[p] <= epochs'[p]
           /\ epochs[p] = epochs'[p] /\ epochs[p] < EpochMax
                 => ~\E w \in Writers : wpool[w] = p /\ BumpEpoch(w)
<1>1. ASSUME NEW w \in Writers, BumpEpoch(w) PROVE epochs[p] <= epochs'[p]
    BY <1>1, CacheAssumption, SMT DEF BumpEpoch, CacheTypeOK
<1>2. ASSUME epochs' = epochs PROVE epochs[p] <= epochs'[p]
    BY <1>2, SMT DEF CacheTypeOK
<1>3. epochs[p] <= epochs'[p]
    BY <1>1, <1>2
       DEF CacheNext, cacheVars, mapVars, InsertState, LockCache, WriteSlot, Unlock,
           RecordOverlay, RecordEpoch, ReadState, Simulate, Compare
<1>4. ASSUME NEW w \in Writers, wpool[w] = p, BumpEpoch(w), epochs[p] < EpochMax
      PROVE  epochs'[p] # epochs[p]
    BY <1>4, SMT DEF BumpEpoch, CacheTypeOK
<1> QED BY <1>3, <1>4

(* The invariant of a reader that does not move itself: an update that     *)
(* changes what it read either is pending or has counted the epoch up.     *)
LEMMA ReaderRests ==
    ASSUME CacheTypeOK, [CacheNext]_cacheVars, NEW r \in Readers, ReaderInv(r),
           rpc'[r] = rpc[r], rpool'[r] = rpool[r], repoch'[r] = repoch[r],
           rstate'[r] = rstate[r], rslots'[r] = rslots[r]
    PROVE  ReaderInv(r)'
<1> DEFINE p == rpool[r]
<1>1. p \in PoolIds /\ epochs[p] \in Nat /\ repoch[r] \in Nat
    BY DEF CacheTypeOK
<1>2. CacheTypeOK'
    BY CacheTypeStep
<1>3. epochs'[p] \in Nat
    BY <1>1, <1>2 DEF CacheTypeOK
<1>4. epochs[p] <= epochs'[p]
    BY <1>1, EpochsGrow
<1>5. (rpc[r] # "idle" => repoch[r] <= epochs[rpool[r]])'
    BY <1>1, <1>3, <1>4, SMT DEF ReaderInv
<1>6. ASSUME Current(r)', rpc[r] # "idle"
      PROVE  Current(r) /\ ~\E w \in Writers : wpool[w] = p /\ BumpEpoch(w)
  <2>1. repoch[r] = epochs'[p] /\ epochs'[p] < EpochMax
      BY <1>6 DEF Current
  <2>2. repoch[r] = epochs[p]
      BY <1>1, <1>3, <1>4, <1>6, <2>1, SMT DEF ReaderInv
  <2> QED BY <1>1, <2>1, <2>2, EpochsGrow DEF Current
<1>7. ASSUME rpc[r] \in {"sized", "quoted"}, Current(r)' PROVE StateFresh(r)'
  <2>1. CASE poolStates'[p] # poolStates[p]
      BY <1>1, <2>1, StateArrives DEF StateFresh, Pending, PendingAfter
  <2>2. CASE poolStates'[p] = poolStates[p] /\ rstate[r] # poolStates[p]
    <3>1. Pending(p, poolStates[p])
        BY <1>6, <1>7, <2>2 DEF ReaderInv, StateFresh
    <3>2. PendingAfter(p, poolStates[p])
        BY <1>1, <1>6, <1>7, <3>1, PendingKept, SMTT(20)
    <3> QED BY <2>2, <3>2 DEF StateFresh, Pending, PendingAfter
  <2> QED BY <2>1, <2>2 DEF StateFresh
<1>8. ASSUME rpc[r] = "quoted", Current(r)' PROVE SlotsFresh(r)'
  <2> SUFFICES ASSUME NEW s \in Slots, rslots[r][s] # storage'[p][s]
               PROVE  PendingAfter(p, storage'[p][s])
      BY ZenonT(30) DEF SlotsFresh, Pending, PendingAfter
  <2>1. CASE storage'[p][s] # storage[p][s]
      BY <1>1, <2>1, SlotArrives
  <2>2. CASE storage'[p][s] = storage[p][s]
    <3>1. Pending(p, storage[p][s])
        BY <1>6, <1>8, <2>2, SMTT(20) DEF ReaderInv, SlotsFresh
    <3>2. PendingAfter(p, storage[p][s])
        BY <1>1, <1>6, <1>8, <3>1, PendingKept, SMTT(20)
    <3> QED BY <2>2, <3>2
  <2> QED BY <2>1, <2>2
<1>9. (rpc[r] = "quoted" => \A s, t \in Slots : rslots[r][s] = rslots[r][t])'
    BY ZenonT(40) DEF ReaderInv
<1> QED BY <1>5, <1>7, <1>8, <1>9 DEF ReaderInv

(* ... and of one that does: it holds what the cache holds.                *)
LEMMA ReaderMoves ==
    ASSUME CacheTypeOK, LockHeld, SlotsAgree, NEW r \in Readers, ReaderInv(r),
           (\E p \in PoolIds : RecordEpoch(r, p)) \/ ReadState(r) \/ Simulate(r) \/ Compare(r)
    PROVE  ReaderInv(r)'
<1> USE DEF CacheTypeOK
<1>1. ASSUME NEW p \in PoolIds, RecordEpoch(r, p) PROVE ReaderInv(r)'
  <2>1. rpc'[r] = "recorded" /\ rpool'[r] = p /\ repoch'[r] = epochs[p] /\ epochs' = epochs
      BY <1>1, SMTT(20) DEF RecordEpoch, mapVars
  <2> QED BY <2>1, SMT DEF ReaderInv
<1>2. ASSUME ReadState(r) PROVE ReaderInv(r)'
  <2>1. /\ rpc[r] = "recorded" /\ rpc'[r] = "sized" /\ rstate'[r] = poolStates[rpool[r]]
        /\ rpool' = rpool /\ repoch' = repoch /\ epochs' = epochs /\ poolStates' = poolStates
      BY <1>2, SMTT(20) DEF ReadState, mapVars
  <2> QED BY <2>1 DEF ReaderInv, StateFresh
<1>3. ASSUME Simulate(r) PROVE ReaderInv(r)'
  <2>1. /\ rpc[r] = "sized" /\ rpc'[r] = "quoted" /\ rslots'[r] = storage[rpool[r]]
        /\ rpool' = rpool /\ repoch' = repoch /\ rstate' = rstate /\ UNCHANGED <<mapVars, writerVars>>
      BY <1>3, SMTT(20) DEF Simulate
  <2>2. epochs' = epochs /\ storage' = storage /\ poolStates' = poolStates
        /\ wpool' = wpool /\ wpc' = wpc /\ wid' = wid
      BY <2>1 DEF mapVars, writerVars
  <2>3. \A s, t \in Slots : storage[rpool[r]][s] = storage[rpool[r]][t]
      BY <1>3, CacheAssumption, SMTT(20) DEF Simulate, SlotsAgree
  <2>4. SlotsFresh(r)'
      BY <2>1, <2>2, SMTT(20) DEF SlotsFresh
  <2>5. Current(r)' => StateFresh(r)'
      BY <2>1, <2>2, SMTT(20) DEF ReaderInv, Current, StateFresh, Pending
  <2>6. repoch'[r] <= epochs'[rpool'[r]]
      BY <2>1, <2>2 DEF ReaderInv
  <2> QED BY <2>1, <2>3, <2>4, <2>5, <2>6 DEF ReaderInv
<1>4. ASSUME Compare(r) PROVE ReaderInv(r)'
    BY <1>4 DEF Compare, ReaderInv
<1> HIDE DEF CacheTypeOK
<1> QED BY <1>1, <1>2, <1>3, <1>4, SMTT(20)

LEMMA ReaderStep ==
    ASSUME CacheInv, [CacheNext]_cacheVars, NEW r \in Readers
    PROVE  ReaderInv(r)'
<1>1. CASE (\E p \in PoolIds : RecordEpoch(r, p)) \/ ReadState(r) \/ Simulate(r) \/ Compare(r)
    BY <1>1, ReaderMoves DEF CacheInv
<1> DEFINE Rests == /\ rpc'[r] = rpc[r] /\ rpool'[r] = rpool[r] /\ repoch'[r] = repoch[r]
                    /\ rstate'[r] = rstate[r] /\ rslots'[r] = rslots[r]
<1>2. ASSUME NEW o \in Readers \ {r},
             (\E p \in PoolIds : RecordEpoch(o, p)) \/ ReadState(o) \/ Simulate(o) \/ Compare(o)
      PROVE  Rests
    BY <1>2 DEF CacheInv, CacheTypeOK, RecordEpoch, ReadState, Simulate, Compare
<1>3. CASE UNCHANGED readerVars
    BY <1>3, ReaderRests DEF readerVars, CacheInv
<1>4. CASE Rests
    BY <1>4, ReaderRests DEF CacheInv
<1> HIDE DEF Rests
<1> QED BY <1>1, <1>2, <1>3, <1>4
        DEF CacheNext, cacheVars, InsertState, LockCache, WriteSlot, Unlock, RecordOverlay,
            BumpEpoch

(* For every set of pools, slots, updaters and readers: a quote that       *)
(* passes the epoch comparison of revm_db.rs was computed on what the      *)
(* cache holds, but for updates still in progress.                         *)
THEOREM QuotesAreFresh == CacheSpec => []QuoteFresh
<1>1. CacheInit(PoolIds) => CacheInv
    BY CacheInvInit
<1>2. CacheInv /\ [CacheNext]_cacheVars => CacheInv'
    BY CacheTypeStep, LockStep, SlotsStep, ReaderStep DEF CacheInv
<1>3. CacheInv => QuoteFresh
  <2> SUFFICES ASSUME CacheInv, NEW r \in Readers, Passes(r)
               PROVE  LET p == rpool[r] IN
                      /\ rstate[r] # poolStates[p] => poolStates[p] \in InFlight(p)
                      /\ \A s \in Slots : rslots[r][s] # storage[p][s]
                                             => storage[p][s] \in InFlight(p)
                      /\ \A s, t \in Slots : rslots[r][s] = rslots[r][t]
      BY DEF QuoteFresh
  <2>1. StateFresh(r) /\ SlotsFresh(r) /\ \A s, t \in Slots : rslots[r][s] = rslots[r][t]
      BY DEF CacheInv, ReaderInv, Passes, Current
  <2> QED BY <2>1, PendingInFlight DEF StateFresh, SlotsFresh
<1> QED BY <1>1, <1>2, <1>3, PTL DEF CacheSpec

(***************************************************************************)
(* LogFetcher.                                                             *)
(***************************************************************************)
Gathered(upTo) ==
    /\ \A k \in 1 .. Len(logs) : logs[k] \in range.from .. upTo - 1
    /\ \A k \in 1 .. Len(logs) - 1 : logs[k] < logs[k + 1]
    /\ \A n \in range.from .. upTo - 1 :
           n <= headAtStart => \E k \in 1 .. Len(logs) : logs[k] = n

(* The logs so far are those of the blocks before current, which lies      *)
(* inside the range or just behind it: it has not wrapped around.          *)
FetchInv ==
    /\ range.from \in Nat /\ range.to \in Nat /\ range.to < U64Max /\ range.chunk \in Nat
    /\ current \in Nat /\ chunkEnd \in Nat
    /\ head \in Nat /\ headAtStart \in Nat /\ headAtStart <= head
    /\ logs \in Seq(Nat)
    /\ fetch = "start" => logs = <<>>
    /\ fetch \in {"chunk", "request", "sleep"} =>
           /\ range.from <= current /\ current <= range.to + 1
           /\ Gathered(current)
    /\ fetch \in {"request", "sleep"} => current <= chunkEnd /\ chunkEnd <= range.to
    /\ fetch = "ok" => Gathered(range.to + 1)

LEMMA U64Fits ==
    ASSUME NEW v \in Int
    PROVE  U64(v) \in 0 .. U64Max /\ (v \in 0 .. U64Max => U64(v) = v)
BY FetchAssumption, SMT DEF U64

BlockCount(first, last) == IF last >= first THEN last - first + 1 ELSE 0

(* What appending the logs of a run of blocks does to a sequence.          *)
LEMMA BlocksAppended ==
    ASSUME NEW s \in Seq(Nat), NEW first \in Nat, NEW last \in Int
    PROVE  LET t == s \o Blocks(first, last)
               n == BlockCount(first, last)
           IN  /\ t \in Seq(Nat) /\ Len(t) = Len(s) + n
               /\ \A k \in 1 .. Len(s) : t[k] = s[k]
               /\ \A k \in 1 .. n : t[Len(s) + k] = first + k - 1
<1> DEFINE n == BlockCount(first, last)
           b == Blocks(first, last)
<1>1. n \in Nat /\ 1 .. last - first + 1 = 1 .. n
    BY SMT DEF BlockCount
<1>2. b = [k \in 1 .. n |-> first + k - 1]
    BY <1>1 DEF Blocks
<1>3. b \in Seq(Nat) /\ Len(b) = n /\ \A k \in 1 .. n : b[k] = first + k - 1
  <2>1. \A k \in 1 .. n : first + k - 1 \in Nat
      BY <1>1, SMT
  <2> HIDE DEF n, b
  <2> QED BY <1>1, <1>2, <2>1, SMT
<1> HIDE DEF n, b
<1>4. /\ s \o b \in Seq(Nat) /\ Len(s \o b) = Len(s) + n
      /\ \A k \in 1 .. Len(s) : (s \o b)[k] = s[k]
      /\ \A k \in 1 .. n : (s \o b)[Len(s) + k] = b[k]
  <2>1. s \o b \in Seq(Nat) /\ Len(s \o b) = Len(s) + n
      BY <1>3, ConcatProperties
  <2>2. ASSUME NEW k \in 1 .. Len(s) PROVE (s \o b)[k] = s[k]
      BY <1>1, <1>3, SMT
  <2>3. ASSUME NEW k \in 1 .. n PROVE (s \o b)[Len(s) + k] = b[k]
      BY <1>1, <1>3, SMTT(30)
  <2> QED BY <2>1, <2>2, <2>3
<1> QED BY <1>3, <1>4 DEF n, b

(* An answered request extends what is gathered to the end of its chunk:   *)
(* no log is repeated, since the chunk begins at current, and none that    *)
(* was there when the fetch began is left out, since the head only grows.  *)
LEMMA AnswerGathers == FetchInv /\ Answer => FetchInv'
<1> SUFFICES ASSUME FetchInv, Answer PROVE FetchInv'
    OBVIOUS
<1> DEFINE last == IF chunkEnd < head THEN chunkEnd ELSE head
           n == BlockCount(current, last)
<1>1. /\ fetch = "request" /\ fetch' = "chunk" /\ logs' = logs \o Blocks(current, last)
      /\ range' = range /\ chunkEnd' = chunkEnd /\ head' = head /\ headAtStart' = headAtStart
    BY DEF Answer
<1>3. /\ range.from \in Nat /\ range.to \in Nat /\ current \in Nat /\ chunkEnd \in Nat
      /\ head \in Nat /\ headAtStart \in Nat /\ headAtStart <= head
      /\ logs \in Seq(Nat) /\ range.from <= current /\ current <= chunkEnd
      /\ chunkEnd <= range.to
    BY <1>1 DEF FetchInv
<1>2. current' = chunkEnd + 1
  <2>1. chunkEnd + 1 \in 0 .. U64Max
      BY <1>1, FetchAssumption, SMT DEF FetchInv
  <2> QED BY <2>1, U64Fits, SMT DEF Answer
<1>4. Gathered(current)
    BY <1>1 DEF FetchInv
<1>5. /\ last \in Nat /\ n \in Nat /\ last <= chunkEnd
      /\ chunkEnd <= last \/ head <= last
      /\ last < current => n = 0
      /\ last >= current => n = last - current + 1
    BY <1>3, SMT DEF BlockCount
<1> HIDE DEF n, last
<1>6. /\ logs' \in Seq(Nat) /\ Len(logs') = Len(logs) + n
      /\ \A k \in 1 .. Len(logs) : logs'[k] = logs[k]
      /\ \A k \in 1 .. n : logs'[Len(logs) + k] = current + k - 1
  <2> DEFINE t == logs \o Blocks(current, last)
  <2>1. last \in Int
      BY <1>5, SMT
  <2>2. /\ t \in Seq(Nat) /\ Len(t) = Len(logs) + n
        /\ \A k \in 1 .. Len(logs) : t[k] = logs[k]
        /\ \A k \in 1 .. n : t[Len(logs) + k] = current + k - 1
      BY <1>3, <2>1, BlocksAppended, Zenon DEF n
  <2>3. logs' = t
      BY <1>1
  <2> HIDE DEF t
  <2> QED BY <2>2, <2>3
<1>7. Len(logs) \in Nat
    BY <1>3, SMT
<1>8. \A k \in Len(logs) + 1 .. Len(logs') : logs'[k] = current + (k - Len(logs)) - 1
  <2> SUFFICES ASSUME NEW k \in Len(logs) + 1 .. Len(logs')
               PROVE  logs'[k] = current + (k - Len(logs)) - 1
      OBVIOUS
  <2>1. k - Len(logs) \in 1 .. n /\ Len(logs) + (k - Len(logs)) = k
      BY <1>5, <1>6, <1>7, SMTT(30)
  <2> QED BY <1>6, <2>1
<1>9. ASSUME NEW k \in 1 .. Len(logs') PROVE logs'[k] \in range.from .. chunkEnd
  <2>1. CASE k <= Len(logs)
      BY <1>3, <1>4, <1>6, <1>7, <2>1, SMTT(60) DEF Gathered
  <2>2. CASE k > Len(logs)
    <3>1. logs'[k] = current + (k - Len(logs)) - 1
        BY <1>6, <1>7, <1>8, <2>2, SMTT(30)
    <3>2. k \in Nat /\ k <= Len(logs) + n
        BY <1>6, SMT
    <3>3. n = last - current + 1
        BY <1>3, <1>5, <1>7, <2>2, <3>2, SMTT(30)
    <3> QED BY <1>3, <1>5, <1>7, <2>2, <3>1, <3>2, <3>3, SMTT(30)
  <2> QED BY <1>7, <2>1, <2>2, SMTT(30)
<1>10. ASSUME NEW k \in 1 .. Len(logs') - 1 PROVE logs'[k] < logs'[k + 1]
  <2>1. CASE k < Len(logs)
    <3>1. k \in 1 .. Len(logs) - 1 /\ k \in 1 .. Len(logs) /\ k + 1 \in 1 .. Len(logs)
        BY <1>7, <2>1, SMT
    <3>2. logs[k] < logs[k + 1]
        BY <1>4, <3>1 DEF Gathered
    <3>3. logs'[k] = logs[k] /\ logs'[k + 1] = logs[k + 1]
        BY <1>6, <3>1
    <3> QED BY <3>2, <3>3
  <2>2. CASE k = Len(logs)
    <3>1. logs'[k] \in range.from .. current - 1
        BY <1>4, <1>6, <1>7, <2>2, SMTT(30) DEF Gathered
    <3>2. logs'[k + 1] = current
        BY <1>3, <1>5, <1>6, <1>7, <1>8, <2>2, SMTT(30)
    <3> QED BY <1>3, <3>1, <3>2, SMTT(30)
  <2>3. CASE k > Len(logs)
    <3>1. k \in Len(logs) + 1 .. Len(logs') /\ k + 1 \in Len(logs) + 1 .. Len(logs')
        BY <1>5, <1>6, <1>7, <2>3, SMTT(30)
    <3>2. /\ logs'[k] = current + (k - Len(logs)) - 1
          /\ logs'[k + 1] = current + (k + 1 - Len(logs)) - 1
        BY <1>8, <3>1, SMT
    <3> QED BY <1>3, <1>7, <3>1, <3>2, SMTT(30)
  <2> QED BY <1>7, <2>1, <2>2, <2>3, SMTT(30)
<1>11. ASSUME NEW m \in range.from .. chunkEnd, m <= headAtStart
       PROVE  \E k \in 1 .. Len(logs') : logs'[k] = m
  <2>1. CASE m < current
    <3>1. PICK k \in 1 .. Len(logs) : logs[k] = m
        BY <1>3, <1>4, <1>11, <2>1, SMTT(30) DEF Gathered
    <3>2. k \in 1 .. Len(logs') /\ logs'[k] = m
        BY <1>5, <1>6, <1>7, <3>1, SMTT(30)
    <3> QED BY <3>2
  <2>2. CASE m >= current
    <3>1. m <= last
        BY <1>3, <1>5, <1>11, SMTT(30)
    <3>2. m - current + 1 \in 1 .. n
        BY <1>3, <1>5, <2>2, <3>1, SMTT(30)
    <3> DEFINE k == Len(logs) + (m - current + 1)
    <3>3. k \in 1 .. Len(logs')
        BY <1>5, <1>6, <1>7, <3>2, SMTT(20)
    <3>4. logs'[k] = current + (m - current + 1) - 1
        BY <1>6, <3>2
    <3>5. logs'[k] = m
        BY <1>3, <3>4, SMT
    <3> QED BY <3>3, <3>5
  <2> QED BY <1>3, <2>1, <2>2, SMT
<1>12. Gathered(current)'
  <2>1. current' - 1 = chunkEnd
      BY <1>2, <1>3, SMT
  <2> QED BY <1>1, <1>9, <1>10, <1>11, <2>1 DEF Gathered
<1> QED BY <1>1, <1>2, <1>3, <1>6, <1>12, SMTT(20) DEF FetchInv

LEMMA FetchInvInit == FetchInit(Heads, ChunkSizes) => FetchInv
<1> SUFFICES ASSUME FetchInit(Heads, ChunkSizes) PROVE FetchInv
    OBVIOUS
<1>1. range.from \in Heads /\ range.to \in Heads /\ range.chunk \in ChunkSizes
    BY DEF FetchInit
<1>2. (\A b \in Heads : b \in Nat /\ b < U64Max) /\ \A c \in ChunkSizes : c \in Nat
    BY FetchAssumption, SMT
<1>3. range.from \in Nat /\ range.to \in Nat /\ range.to < U64Max /\ range.chunk \in Nat
    BY <1>1, <1>2
<1>4. head \in Nat /\ headAtStart = head
    BY <1>2 DEF FetchInit
<1>5. fetch = "start" /\ current = 0 /\ chunkEnd = 0 /\ logs = <<>>
    BY DEF FetchInit
<1> QED BY <1>3, <1>4, <1>5, SMT DEF FetchInv

LEMMA FetchInvStep == FetchInv /\ [FetchNext]_fetchVars => FetchInv'
<1> SUFFICES ASSUME FetchInv, [FetchNext]_fetchVars PROVE FetchInv'
    OBVIOUS
<1>1. CASE FetchStart
    BY <1>1, SMTT(30) DEF FetchStart, FetchInv, Gathered
<1>2. CASE NextChunk
  <2>1. ChunkEnd \in Nat /\ ChunkEnd <= range.to
    <3>1. current + range.chunk - 1 \in Int /\ range.to \in Nat
        BY SMT DEF FetchInv
    <3>2. U64(current + range.chunk - 1) \in 0 .. U64Max
        BY <3>1, U64Fits
    <3> QED BY <3>1, <3>2, FetchAssumption, SMT DEF ChunkEnd
  <2>2. Gathered(current) /\ Gathered(current)'
      BY <1>2 DEF NextChunk, FetchInv, Gathered
  <2>3. CASE current > range.to
    <3>1. current = range.to + 1 /\ range' = range
        BY <1>2, <2>3, SMT DEF NextChunk, FetchInv
    <3>2. Gathered(range.to + 1)'
        BY <1>2, <2>2, <3>1 DEF NextChunk, Gathered
    <3> QED BY <1>2, <2>3, <3>2 DEF NextChunk, FetchInv
  <2>4. CASE current <= range.to
      BY <1>2, <2>1, <2>2, <2>4, SMTT(20) DEF NextChunk, FetchInv
  <2> QED BY <2>3, <2>4, SMT DEF FetchInv
<1>3. CASE Answer
    BY <1>3, AnswerGathers
<1>4. CASE Wake
    BY <1>4 DEF Wake, FetchInv, Gathered
<1>5. ASSUME NEW retryable \in BOOLEAN, Refuse(retryable) PROVE FetchInv'
    BY <1>5 DEF Refuse, FetchInv, Gathered
<1>6. CASE Mine
    BY <1>6, SMT DEF Mine, FetchInv, Gathered
<1>7. CASE UNCHANGED fetchVars
    BY <1>7 DEF fetchVars, FetchInv, Gathered
<1> QED BY <1>1, <1>2, <1>3, <1>4, <1>5, <1>6, <1>7 DEF FetchNext, FetchStep

(* For every range below u64::MAX, every chunk size, every number of       *)
(* retries and every growth of the chain: a fetch of provider.rs that      *)
(* succeeds has each log of its range once, in order, and misses none of   *)
(* those the node had when it began.                                       *)
THEOREM FetchesOnce == FetchSpec => []FetchedOnce
<1>1. FetchInit(Heads, ChunkSizes) => FetchInv
    BY FetchInvInit
<1>2. FetchInv /\ [FetchNext]_fetchVars => FetchInv'
    BY FetchInvStep
<1>3. FetchInv => FetchedOnce
    BY SMT DEF FetchInv, FetchedOnce, Gathered
<1> QED BY <1>1, <1>2, <1>3, PTL DEF FetchSpec

(***************************************************************************)
(* SequencerSubscriber.                                                    *)
(***************************************************************************)
\* Every message of s has a number above c.
Newer(c, s) == \A k \in 1..Len(s) : c < s[k]

Frames == [kind : {"data", "ping", "pong", "error", "close"}, msgs : Seq(Nat), conf : Nat]

\* What the feed promises of the frames still to be read: a confirmation is
\* for messages before those of the frames that follow it.
SocketInv ==
    /\ socket \in Seq(Frames) /\ nextSeq \in Nat \ {0}
    /\ \A i \in 1..Len(socket) : socket[i].conf < nextSeq
    /\ \A i, j \in 1..Len(socket) : i < j => Newer(socket[i].conf, socket[j].msgs)

\* What the task keeps: messages wait in batch only during dispatch_envelope.
TaskInv ==
    /\ batch \in Seq(Nat) /\ conf \in Nat /\ messages \in Seq(Nat)
    /\ read \in Seq(Nat) /\ got \in Seq(Nat)
    /\ batch # <<>> => pc = "dispatch"
    /\ NothingReordered

\* What is still to be read is newer than c; so is what is still to be forwarded.
Past(c) == c < nextSeq /\ \A j \in 1..Len(socket) : Newer(c, socket[j].msgs)
Behind(c) == Past(c) /\ Newer(c, batch)

ConfirmedInv ==
    /\ confirmations \in Seq(Nat)
    /\ conf # 0 => Past(conf)
    /\ \A i \in 1..Len(confirmations) : Behind(confirmations[i])

SequencerInv == SocketInv /\ TaskInv /\ ConfirmedInv

\* How a step changes the socket: not at all, by a new connection, by a frame
\* read, or by a frame whose messages are the newest so far.
FeedStep ==
    \/ UNCHANGED socket /\ nextSeq' \in Nat /\ nextSeq <= nextSeq'
    \/ socket' = <<>> /\ nextSeq' = nextSeq
    \/ socket # <<>> /\ socket' = Tail(socket) /\ nextSeq' = nextSeq
    \/ \E f \in Frames :
          /\ socket' = Append(socket, f) /\ nextSeq' \in Nat /\ nextSeq <= nextSeq'
          /\ f.conf < nextSeq' /\ \A k \in 1..Len(f.msgs) : nextSeq <= f.msgs[k]

LEMMA FrameTypes == \A f \in Frames : f.msgs \in Seq(Nat) /\ f.conf \in Nat
BY DEF Frames

LEMMA FeedKeeps ==
    ASSUME SocketInv, FeedStep
    PROVE  SocketInv' /\ \A c \in Nat : Past(c) => Past(c)'
<1>1. CASE UNCHANGED socket /\ nextSeq' \in Nat /\ nextSeq <= nextSeq'
  <2>1. \A i \in 1..Len(socket) : socket[i].conf \in Nat
    BY FrameTypes, SMTT(30) DEF SocketInv
  <2>2. SocketInv'
    BY <1>1, <2>1, SMT DEF SocketInv, Newer
  <2>3. ASSUME NEW c \in Nat, Past(c) PROVE Past(c)'
    BY <1>1, <2>3, SMT DEF Past, Newer, SocketInv
  <2> QED BY <2>2, <2>3, ZenonT(40)
<1>2. CASE socket' = <<>> /\ nextSeq' = nextSeq
  <2>1. 1..Len(socket') = {} /\ socket' \in Seq(Frames)
    BY <1>2, SMTT(30)
  <2> QED BY <1>2, <2>1 DEF SocketInv, Past
<1>3. CASE socket # <<>> /\ socket' = Tail(socket) /\ nextSeq' = nextSeq
  <2>1. /\ socket' \in Seq(Frames)
        /\ \A i \in 1..Len(socket') : i + 1 \in 1..Len(socket) /\ socket'[i] = socket[i + 1]
    BY <1>3, SMT DEF SocketInv
  <2>2. ASSUME NEW i \in 1..Len(socket'), NEW j \in 1..Len(socket'), i < j
        PROVE  Newer(socket'[i].conf, socket'[j].msgs)
    <3>1. i + 1 < j + 1
      BY <2>2, SMT
    <3> QED BY <2>1, <3>1 DEF SocketInv
  <2>3. SocketInv'
    BY <1>3, <2>1, <2>2 DEF SocketInv, Newer
  <2>4. ASSUME NEW c \in Nat, Past(c) PROVE Past(c)'
    BY <1>3, <2>1, <2>4 DEF Past, Newer
  <2> QED BY <2>3, <2>4
<1>4. ASSUME NEW f \in Frames,
             socket' = Append(socket, f) /\ nextSeq' \in Nat /\ nextSeq <= nextSeq',
             f.conf < nextSeq' /\ \A k \in 1..Len(f.msgs) : nextSeq <= f.msgs[k]
      PROVE  SocketInv' /\ \A c \in Nat : Past(c) => Past(c)'
  <2> DEFINE n == Len(socket)
  <2>1. /\ socket \in Seq(Frames) /\ n \in Nat /\ nextSeq \in Nat /\ nextSeq' \in Nat \ {0}
        /\ socket' \in Seq(Frames) /\ Len(socket') = n + 1
        /\ socket'[n + 1] = f /\ \A i \in 1..n : socket'[i] = socket[i]
    BY <1>4, SMT DEF SocketInv
  <2>2. /\ \A i \in 1..n : socket[i].conf \in Nat
        /\ f.msgs \in Seq(Nat) /\ f.conf \in Nat
    BY <2>1, FrameTypes, SMTT(30)
  <2>3. ASSUME NEW c \in Nat, c < nextSeq PROVE Newer(c, f.msgs)
    <3>1. \A k \in 1..Len(f.msgs) : f.msgs[k] \in Nat
      BY <2>2, SMTT(30)
    <3> QED BY <1>4, <2>1, <2>3, <3>1, SMTT(30) DEF Newer
  <2>4. ASSUME NEW i \in 1..(n + 1) PROVE i \in 1..n \/ i = n + 1
    BY <2>1, SMT
  <2>5. \A i \in 1..n : i < n + 1 /\ ~(n + 1 < i)
    BY <2>1, SMT
  <2>6. ~(n + 1 < n + 1)
    BY <2>1, SMTT(30)
  <2>7. \A i \in 1..n : socket[i].conf < nextSeq /\ socket[i].conf < nextSeq'
    BY <1>4, <2>1, <2>2, SMTT(30) DEF SocketInv
  <2>8. \A i \in 1..Len(socket') : socket'[i].conf < nextSeq'
    BY <1>4, <2>1, <2>4, <2>7
  <2>9. ASSUME NEW i \in 1..(n + 1), NEW j \in 1..(n + 1), i < j
        PROVE  Newer(socket'[i].conf, socket'[j].msgs)
    <3>1. i \in 1..n
      BY <2>1, <2>9, SMT
    <3>2. CASE j \in 1..n
      BY <3>1, <3>2, <2>1, <2>9 DEF SocketInv
    <3>3. CASE j = n + 1
      BY <3>1, <3>3, <2>1, <2>2, <2>3, <2>7
    <3> QED BY <3>2, <3>3, <2>4
  <2>10. SocketInv'
    BY <2>1, <2>8, <2>9 DEF SocketInv, Newer
  <2>11. ASSUME NEW c \in Nat, Past(c) PROVE Past(c)'
    <3>1. c < nextSeq /\ c < nextSeq'
      BY <1>4, <2>1, <2>11, SMT DEF Past
    <3>2. \A j \in 1..(n + 1) : Newer(c, socket'[j].msgs)
      BY <2>1, <2>3, <2>4, <2>11, <3>1 DEF Past
    <3> QED BY <2>1, <3>1, <3>2 DEF Past, Newer
  <2> QED BY <2>10, <2>11
<1> QED BY <1>1, <1>2, <1>3, <1>4 DEF FeedStep

LEMMA StepsOfTheFeed ==
    ASSUME SocketInv, [Next]_vars
    PROVE  FeedStep
<1> USE BoundAssumption
<1>0. nextSeq \in Nat /\ nextSeq <= nextSeq
  BY SMT DEF SocketInv
<1>1. CASE UNCHANGED feed
  BY <1>0, <1>1 DEF feed, FeedStep
<1>2. CASE ConnectOk
  BY <1>2 DEF ConnectOk, FeedStep
<1>3. CASE TakeFrame
  BY <1>3 DEF TakeFrame, FeedStep
<1>4. ASSUME NEW n \in 0..MaxBatch, NEW confirm \in BOOLEAN, Broadcast(n, confirm) PROVE FeedStep
  <2>1. n \in Nat /\ nextSeq' = nextSeq + n /\ nextSeq' \in Nat /\ nextSeq <= nextSeq'
    BY <1>0, <1>4, SMT DEF Broadcast
  <2>2. CASE UNCHANGED socket
    BY <2>1, <2>2 DEF FeedStep
  <2>3. CASE ~UNCHANGED socket
    <3> DEFINE ms == [i \in 1..n |-> nextSeq + i - 1]
               cf == IF confirm THEN nextSeq + n - 1 ELSE 0
               f == Frame("data", ms, cf)
    <3>1. socket' = Append(socket, f)
      BY <1>4, <2>3 DEF Broadcast
    <3>2. ms \in Seq(Nat) /\ Len(ms) = n /\ \A k \in 1..n : nextSeq <= ms[k]
      BY <2>1, <1>0, SMT DEF SocketInv
    <3>3. cf \in Nat /\ cf < nextSeq'
      BY <2>1, <1>0, SMT DEF SocketInv
    <3>4. f \in Frames /\ f.conf = cf /\ f.msgs = ms
      BY <3>2, <3>3 DEF Frame, Frames
    <3> HIDE DEF f, ms, cf
    <3> QED BY <2>1, <3>1, <3>2, <3>3, <3>4 DEF FeedStep
  <2> QED BY <2>2, <2>3
<1>5. ASSUME NEW kind \in {"ping", "pong", "error", "close"}, Control(kind) PROVE FeedStep
  <2> DEFINE f == Frame(kind, <<>>, 0)
  <2>1. socket' = Append(socket, f) /\ nextSeq' = nextSeq
    BY <1>5 DEF Control
  <2>2. f \in Frames /\ f.conf = 0 /\ f.msgs = <<>> /\ Len(<<>>) = 0 /\ 0 < nextSeq /\ 1..0 = {}
    BY <1>0, SMT DEF Frame, Frames, SocketInv
  <2> HIDE DEF f
  <2> QED BY <1>0, <2>1, <2>2 DEF FeedStep
<1>6. CASE Feed
  BY <1>4, <1>5, <1>6 DEF Feed
<1>7. CASE Task
  <2>1. UNCHANGED feed \/ ConnectOk \/ TakeFrame
    BY <1>7 DEF Task, Spawn, LoopHead, ConnectFails, SleepOver, CheckFlag, Register, Notified,
                ForwardMessage, ForwardConfirmation
  <2> QED BY <2>1, <1>1, <1>2, <1>3
<1>8. CASE Store \/ NotifyWaiters \/ Consumer \/ Done \/ UNCHANGED vars
  <2>1. UNCHANGED feed
    BY <1>8 DEF Store, NotifyWaiters, Consumer, Receive, ReceiveConfirmation, ReceiveError,
                DropReceiver, Done, vars
  <2> QED BY <2>1, <1>1
<1> QED BY <1>6, <1>7, <1>8 DEF Next

-----------------------------------------------------------------------------
\* The consumer takes the first message of the channel.
LEMMA ReceivedRow ==
    ASSUME NEW g \in Seq(Nat), NEW m \in Seq(Nat), NEW b \in Seq(Nat), m # <<>>
    PROVE  Join(Join(Append(g, Head(m)), Tail(m)), b) = Join(Join(g, m), b)
<1> DEFINE h == <<Head(m)>>
           r == Tail(m)
           e == Head(m)
<1>1. h \in Seq(Nat) /\ r \in Seq(Nat) /\ e \in Nat
  BY HeadTail
<1>2. m = Join(h, r) /\ Append(g, e) = Join(g, h)
  BY <1>1, HeadTail, AppendOne, SMTT(30) DEF Join
<1> HIDE DEF h, r, e
<1>3. Join(g, Join(h, r)) = Join(Join(g, h), r)
  BY <1>1, JoinAssoc, SMT
<1> QED BY <1>2, <1>3 DEF e, r

\* The task moves the first message of its envelope to the channel.
LEMMA ForwardedRow ==
    ASSUME NEW g \in Seq(Nat), NEW m \in Seq(Nat), NEW b \in Seq(Nat), b # <<>>
    PROVE  Join(Join(g, Append(m, Head(b))), Tail(b)) = Join(Join(g, m), b)
<1> DEFINE h == <<Head(b)>>
           r == Tail(b)
           e == Head(b)
<1>1. h \in Seq(Nat) /\ r \in Seq(Nat) /\ e \in Nat
  BY HeadTail
<1>2. b = Join(h, r) /\ Append(m, e) = Join(m, h)
  BY <1>1, HeadTail, AppendOne, SMTT(30) DEF Join
<1> HIDE DEF h, r, e
<1>3. Join(Join(g, Join(m, h)), r) = Join(Join(g, m), Join(h, r))
  BY <1>1, JoinType, JoinAssoc, SMT
<1> QED BY <1>2, <1>3 DEF e, r

LEMMA InOrderJoin ==
    /\ NothingReordered <=> ("messages" \in open => read = Join(Join(got, messages), batch))
    /\ NothingReordered' <=> ("messages" \in open' => read' = Join(Join(got', messages'), batch'))
BY DEF NothingReordered, Join

\* A step that leaves the messages where they are.
LEMMA TaskRests ==
    ASSUME TaskInv, UNCHANGED <<batch, messages, read, got>>, conf' \in Nat,
           open' \subseteq open, pc' = pc \/ batch = <<>>
    PROVE  TaskInv'
BY DEF TaskInv, NothingReordered

LEMMA TaskKeeps ==
    ASSUME SocketInv, TaskInv, [Next]_vars
    PROVE  TaskInv'
<1> USE DEF task, channels, token, feed
<1>0. conf \in Nat /\ 0 \in Nat /\ (pc # "dispatch" => batch = <<>>)
  BY SMT DEF TaskInv
<1>1. CASE Spawn \/ LoopHead \/ ConnectOk \/ SleepOver \/ Register
  BY <1>0, <1>1, TaskRests DEF Spawn, LoopHead, ConnectOk, SleepOver, Register
<1>2. CASE CheckFlag \/ Notified
  BY <1>0, <1>2, TaskRests DEF CheckFlag, Notified, Quit, Disconnect
<1>3. CASE ConnectFails
  BY <1>0, <1>3, TaskRests DEF ConnectFails, Fail
<1>4. CASE TakeFrame
  <2> DEFINE frame == Head(socket)
  <2>1. frame \in Frames /\ frame.msgs \in Seq(Nat) /\ frame.conf \in Nat
    BY <1>4, HeadTail, FrameTypes DEF TakeFrame, SocketInv
  <2>2. batch = <<>>
    BY <1>0, <1>4 DEF TakeFrame
  <2>3. CASE /\ read' = read \o frame.msgs
             /\ batch' = frame.msgs /\ conf' = frame.conf /\ pc' = "dispatch"
    <3>1. UNCHANGED <<messages, got, open>>
      BY <1>4 DEF TakeFrame
    <3> HIDE DEF frame
    <3>2. /\ messages \in Seq(Nat) /\ got \in Seq(Nat) /\ read \in Seq(Nat)
          /\ Join(got, messages) \in Seq(Nat) /\ read' = Join(read, frame.msgs)
      BY <2>3, JoinType DEF TaskInv, Join
    <3>3. read' \in Seq(Nat)
      BY <3>2, <2>1, JoinType
    <3>4. "messages" \in open => read = Join(got, messages)
      BY <2>2, <3>2, JoinEmpty, InOrderJoin DEF TaskInv
    <3>5. NothingReordered'
      BY <2>3, <3>1, <3>2, <3>4, InOrderJoin
    <3> QED BY <2>1, <2>3, <3>1, <3>2, <3>3, <3>5 DEF TaskInv
  <2>4. CASE UNCHANGED <<batch, conf, read>>
    BY <1>0, <1>4, <2>2, <2>4, TaskRests DEF TakeFrame
  <2>5. CASE batch' = <<>> /\ conf' = 0 /\ UNCHANGED read
    BY <1>0, <1>4, <2>2, <2>5, TaskRests DEF TakeFrame
  <2> HIDE DEF frame
  <2> QED BY <1>4, <2>3, <2>4, <2>5 DEF TakeFrame, Fail, Disconnect, frame
<1>5. CASE ForwardMessage
  <2>1. CASE /\ messages' = Append(messages, Head(batch)) /\ batch' = Tail(batch)
             /\ UNCHANGED <<pc, conf>>
    <3>1. batch # <<>> /\ pc = "dispatch" /\ UNCHANGED <<open, read, got>>
      BY <1>5 DEF ForwardMessage
    <3>2. messages' \in Seq(Nat) /\ batch' \in Seq(Nat)
      BY <2>1, <3>1, HeadTail, AppendOne DEF TaskInv
    <3>3. Join(Join(got, messages'), batch') = Join(Join(got, messages), batch)
      BY <2>1, <3>1, ForwardedRow DEF TaskInv
    <3>4. NothingReordered'
      BY <3>1, <3>3, InOrderJoin DEF TaskInv
    <3> QED BY <2>1, <3>1, <3>2, <3>4 DEF TaskInv
  <2>2. CASE "messages" \notin open /\ Fail /\ UNCHANGED messages
    <3>1. batch' = <<>> /\ conf' = 0 /\ UNCHANGED <<open, read, got>>
      BY <1>5, <2>2 DEF ForwardMessage, Fail
    <3>2. <<>> \in Seq(Nat)
      BY SMT
    <3> QED BY <1>0, <2>2, <3>1, <3>2 DEF TaskInv, NothingReordered
  <2> QED BY <1>5, <2>1, <2>2 DEF ForwardMessage
<1>6. CASE ForwardConfirmation
  BY <1>0, <1>6, TaskRests DEF ForwardConfirmation
<1>7. CASE Receive
  <2>1. /\ messages # <<>> /\ got' = Append(got, Head(messages)) /\ messages' = Tail(messages)
        /\ UNCHANGED <<pc, batch, conf, open, read>>
    BY <1>7 DEF Receive
  <2>2. messages' \in Seq(Nat) /\ got' \in Seq(Nat)
    BY <2>1, HeadTail, AppendOne DEF TaskInv
  <2>3. Join(Join(got', messages'), batch') = Join(Join(got, messages), batch)
    BY <2>1, ReceivedRow DEF TaskInv
  <2>4. NothingReordered'
    BY <2>1, <2>3, InOrderJoin DEF TaskInv
  <2> QED BY <2>1, <2>2, <2>4 DEF TaskInv
<1>8. CASE Store \/ NotifyWaiters \/ ReceiveConfirmation \/ ReceiveError \/ Feed
  BY <1>0, <1>8, TaskRests DEF Store, NotifyWaiters, ReceiveConfirmation, ReceiveError,
                               Feed, Broadcast, Control
<1>9. ASSUME NEW c \in Channel, DropReceiver(c) PROVE TaskInv'
  BY <1>0, <1>9, TaskRests DEF DropReceiver
<1>10. CASE Done \/ UNCHANGED vars
  BY <1>0, <1>10, TaskRests DEF Done, vars
<1> QED BY <1>1, <1>2, <1>3, <1>4, <1>5, <1>6, <1>7, <1>8, <1>9, <1>10, ZenonT(40) DEF Next, Task, Consumer

-----------------------------------------------------------------------------
\* What a step does to the numbers confirmed: nothing, or the channel loses its
\* first or gains the one of the envelope just forwarded.
ConfirmationStep ==
    \/ UNCHANGED confirmations
    \/ confirmations # <<>> /\ confirmations' = Tail(confirmations)
    \/ conf # 0 /\ batch' = <<>> /\ confirmations' = Append(confirmations, conf)

\* What a step does to the messages not forwarded yet: they stay, the first one
\* leaves, all are given up, or a new envelope is taken off the socket.
BatchStep ==
    \/ UNCHANGED batch /\ (UNCHANGED conf \/ conf' = 0)
    \/ batch # <<>> /\ batch' = Tail(batch) /\ UNCHANGED conf
    \/ batch' = <<>> /\ conf' = 0
    \/ /\ socket # <<>> /\ batch' = Head(socket).msgs /\ conf' = Head(socket).conf
       /\ socket' = Tail(socket) /\ nextSeq' = nextSeq /\ UNCHANGED confirmations

LEMMA StepsOfTheTask ==
    ASSUME [Next]_vars
    PROVE  ConfirmationStep /\ BatchStep
<1> USE DEF task, channels, token, feed
<1>1. CASE Spawn \/ LoopHead \/ ConnectOk \/ SleepOver \/ Register
  BY <1>1 DEF Spawn, LoopHead, ConnectOk, SleepOver, Register, ConfirmationStep, BatchStep
<1>2. CASE CheckFlag \/ Notified \/ ConnectFails
  BY <1>2 DEF CheckFlag, Notified, ConnectFails, Quit, Disconnect, Fail,
              ConfirmationStep, BatchStep
<1>3. CASE TakeFrame
  BY <1>3 DEF TakeFrame, Disconnect, Fail, ConfirmationStep, BatchStep
<1>4. CASE ForwardMessage
  BY <1>4 DEF ForwardMessage, Fail, ConfirmationStep, BatchStep
<1>5. CASE ForwardConfirmation
  BY <1>5 DEF ForwardConfirmation, ConfirmationStep, BatchStep
<1>6. CASE Receive \/ ReceiveConfirmation \/ ReceiveError
  BY <1>6 DEF Receive, ReceiveConfirmation, ReceiveError, ConfirmationStep, BatchStep
<1>7. CASE Store \/ NotifyWaiters \/ Feed
  BY <1>7 DEF Store, NotifyWaiters, Feed, Broadcast, Control, ConfirmationStep, BatchStep
<1>8. ASSUME NEW c \in Channel, DropReceiver(c) PROVE ConfirmationStep /\ BatchStep
  BY <1>8 DEF DropReceiver, ConfirmationStep, BatchStep
<1>9. CASE Done \/ UNCHANGED vars
  BY <1>9 DEF Done, vars, ConfirmationStep, BatchStep
<1> QED BY <1>1, <1>2, <1>3, <1>4, <1>5, <1>6, <1>7, <1>8, <1>9 DEF Next, Task, Consumer

LEMMA BehindKept ==
    ASSUME SocketInv, TaskInv, BatchStep, NEW c \in Nat, Behind(c), Past(c)'
    PROVE  Behind(c)'
<1>1. CASE UNCHANGED batch
  BY <1>1 DEF Behind, Newer
<1>2. CASE batch # <<>> /\ batch' = Tail(batch)
  <2>1. \A k \in 1..Len(batch') : k + 1 \in 1..Len(batch) /\ batch'[k] = batch[k + 1]
    BY <1>2, SMT DEF TaskInv
  <2> QED BY <2>1 DEF Behind, Newer
<1>3. CASE batch' = <<>>
  <2>1. 1..Len(batch') = {}
    BY <1>3, SMT
  <2> QED BY <2>1 DEF Behind, Newer
<1>4. CASE socket # <<>> /\ batch' = Head(socket).msgs
  <2>1. 1 \in 1..Len(socket) /\ Head(socket) = socket[1]
    BY <1>4, SMT DEF SocketInv
  <2> QED BY <1>4, <2>1 DEF Behind, Past, Newer
<1> QED BY <1>1, <1>2, <1>3, <1>4 DEF BatchStep

LEMMA ConfirmedKeeps ==
    ASSUME SocketInv, TaskInv, ConfirmedInv, [Next]_vars
    PROVE  ConfirmedInv'
<1>0. /\ ConfirmationStep /\ BatchStep /\ SocketInv'
      /\ \A c \in Nat : Past(c) => Past(c)'
  BY StepsOfTheFeed, StepsOfTheTask, FeedKeeps
<1>1. conf \in Nat /\ \A i \in 1..Len(confirmations) : confirmations[i] \in Nat
  BY SMTT(30) DEF TaskInv, ConfirmedInv
<1>2. \A c \in Nat : Behind(c) => Behind(c)'
  BY <1>0, BehindKept DEF Behind
<1>3. conf' # 0 => Past(conf)'
  <2>1. CASE UNCHANGED conf \/ conf' = 0
    BY <1>0, <1>1, <2>1 DEF ConfirmedInv, Past
  <2>2. CASE /\ socket # <<>> /\ conf' = Head(socket).conf
             /\ socket' = Tail(socket) /\ nextSeq' = nextSeq
    <3>1. /\ 1 \in 1..Len(socket) /\ Head(socket) = socket[1]
          /\ \A j \in 1..Len(socket') : /\ j + 1 \in 1..Len(socket) /\ 1 < j + 1
                                        /\ socket'[j] = socket[j + 1]
      BY <2>2, SMT DEF SocketInv
    <3>2. conf' < nextSeq' /\ \A j \in 1..Len(socket') : Newer(conf', socket'[j].msgs)
      BY <2>2, <3>1 DEF SocketInv
    <3> QED BY <3>2 DEF Past, Newer
  <2> QED BY <1>0, <2>1, <2>2 DEF BatchStep
<1>4. CASE UNCHANGED confirmations
  BY <1>1, <1>2, <1>3, <1>4 DEF ConfirmedInv, Behind, Past, Newer
<1>5. CASE confirmations # <<>> /\ confirmations' = Tail(confirmations)
  <2>1. /\ confirmations' \in Seq(Nat)
        /\ \A i \in 1..Len(confirmations') :
              i + 1 \in 1..Len(confirmations) /\ confirmations'[i] = confirmations[i + 1]
    BY <1>5, SMT DEF ConfirmedInv
  <2>2. ASSUME NEW i \in 1..Len(confirmations') PROVE Behind(confirmations[i])'
    <3>1. PICK c \in Nat : c = confirmations[i + 1]
      BY <1>1, <2>1
    <3>2. confirmations'[i] = c /\ Behind(c)'
      BY <1>2, <2>1, <3>1 DEF ConfirmedInv
    <3> QED BY <3>2 DEF Behind, Past, Newer
  <2> QED BY <1>3, <2>1, <2>2 DEF ConfirmedInv
<1>6. CASE conf # 0 /\ batch' = <<>> /\ confirmations' = Append(confirmations, conf)
  <2> DEFINE n == Len(confirmations)
  <2>1. /\ confirmations' \in Seq(Nat) /\ Len(confirmations') = n + 1 /\ n \in Nat
        /\ confirmations'[n + 1] = conf /\ \A i \in 1..n : confirmations'[i] = confirmations[i]
    BY <1>1, <1>6, SMTT(30) DEF ConfirmedInv
  <2>2. ASSUME NEW i \in 1..Len(confirmations') PROVE Behind(confirmations[i])'
    <3>1. CASE i \in 1..n
      <4>1. PICK c \in Nat : c = confirmations[i]
        BY <1>1, <3>1
      <4>2. confirmations'[i] = c /\ Behind(c)'
        BY <1>2, <2>1, <3>1, <4>1 DEF ConfirmedInv
      <4> QED BY <4>2 DEF Behind, Past, Newer
    <3>2. CASE i = n + 1
      <4>1. PICK c \in Nat : c = conf
        BY <1>1
      <4>2. confirmations'[i] = c /\ Past(c)'
        BY <1>0, <1>6, <2>1, <3>2, <4>1 DEF ConfirmedInv
      <4>3. 1..Len(batch') = {}
        BY <1>6, SMT
      <4> QED BY <4>2, <4>3 DEF Behind, Past, Newer
    <3> QED BY <2>1, <2>2, <3>1, <3>2, SMTT(30)
  <2> QED BY <1>3, <2>1, <2>2 DEF ConfirmedInv
<1> QED BY <1>0, <1>4, <1>5, <1>6 DEF ConfirmationStep

LEMMA SequencerInit == Init => SequencerInv
<1> SUFFICES ASSUME Init PROVE SequencerInv  OBVIOUS
<1>1. /\ socket = <<>> /\ nextSeq = 1 /\ batch = <<>> /\ conf = 0 /\ messages = <<>>
      /\ confirmations = <<>> /\ read = <<>> /\ got = <<>>
  BY DEF Init
<1>2. 1..Len(<<>>) = {} /\ <<>> \o <<>> = <<>> /\ \A S : <<>> \in Seq(S)
  BY SMT
<1>3. 1 \in Nat \ {0} /\ 0 \in Nat
  BY SMT
<1> QED BY <1>1, <1>2, <1>3 DEF SequencerInv, SocketInv, TaskInv, ConfirmedInv, NothingReordered

LEMMA SequencerStep == SequencerInv /\ [Next]_vars => SequencerInv'
BY StepsOfTheFeed, FeedKeeps, TaskKeeps, ConfirmedKeeps DEF SequencerInv

\* What came off the socket is what the consumer of `messages` received, what
\* its channel holds and what dispatch_envelope has still to send, in that
\* order: for every capacity, every backoff and any loss of the connection.
THEOREM NothingReorderedAlways == Spec => []NothingReordered
<1>1. SequencerInv => NothingReordered
  BY DEF SequencerInv, TaskInv
<1> QED BY SequencerInit, SequencerStep, <1>1, PTL DEF Spec

\* A confirmation never overtakes a message it confirms, although the one is
\* sent with try_send and the other waits for room.
THEOREM ConfirmedIsForwardedAlways == Spec => []ConfirmedIsForwarded
<1>1. SequencerInv => ConfirmedIsForwarded
  <2> SUFFICES ASSUME SequencerInv, NEW c \in Range(confirmations),
                      c \in Range(read), "messages" \in open
               PROVE  c \in Range(got \o messages)
    BY DEF ConfirmedIsForwarded
  <2> DEFINE s == got \o messages
  <2>1. s \in Seq(Nat) /\ batch \in Seq(Nat) /\ read = s \o batch
    BY ConcatType DEF SequencerInv, TaskInv, NothingReordered
  <2>2. PICK i \in 1..Len(confirmations) : c = confirmations[i]
    BY SMT DEF SequencerInv, ConfirmedInv, Range
  <2>3. c \in Nat /\ \A k \in 1..Len(batch) : c < batch[k]
    BY <2>2, SMTT(30) DEF SequencerInv, ConfirmedInv, Behind, Newer
  <2> HIDE DEF s
  <2>4. PICK k \in 1..Len(read) : c = read[k]
    BY <2>1, SMTT(30) DEF Range
  <2>5. k \in 1..Len(s) /\ c = s[k]
    <3>1. \/ k \in 1..Len(s) /\ read[k] = s[k]
          \/ k - Len(s) \in 1..Len(batch) /\ read[k] = batch[k - Len(s)]
      BY <2>1, SMT
    <3>2. ~(c < c)
      BY <2>3, SMT
    <3> QED BY <2>3, <2>4, <3>1, <3>2
  <2>6. c \in Range(s)
    BY <2>1, <2>5, SMT DEF Range
  <2> QED BY <2>6 DEF s
<1> QED BY SequencerInit, SequencerStep, <1>1, PTL DEF Spec
=============================================================================

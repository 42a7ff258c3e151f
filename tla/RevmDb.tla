------------------------------- MODULE RevmDb -------------------------------
(***************************************************************************)
(* rust/src/simulation/revm_db.rs: the warm cache that pool updates write  *)
(* and quotes read.  The state map, the overlay map and the epoch map are  *)
(* concurrent maps, touched one after the other; the EVM cache is behind a *)
(* lock.  A value is named by the update that wrote it, 0 for what the     *)
(* node had.  The path that takes a quote and compares epochs before it    *)
(* dispatches is not in the repository: the readers are external, modelled *)
(* from the documentation of epoch().                                      *)
(***************************************************************************)
EXTENDS Integers

CONSTANTS PoolIds, Slots, Writers, Readers,
          NoOne,         \* the lock is free
          EpochMax,      \* u64::MAX, where the counter saturates
          MaxUpdates     \* bound on the updates

ASSUME CacheAssumption ==
    NoOne \notin Writers /\ EpochMax \in Nat /\ MaxUpdates \in Nat

VARIABLES epochs,        \* pool |-> epoch counter
          poolStates,    \* pool |-> the PoolState kept
          overlays,      \* pool |-> the overlays recorded
          storage,       \* pool |-> slot |-> value in the EVM cache
          lock,          \* the writer that holds the EVM cache, or NoOne
          wpc, wpool, wid, wslots,         \* writers: step, pool, update, slots left
          rpc, rpool, repoch, rstate, rslots,   \* readers: step, pool, what they saw
          issued         \* updates started

writerVars == <<wpc, wpool, wid, wslots>>
readerVars == <<rpc, rpool, repoch, rstate, rslots>>
mapVars    == <<epochs, poolStates, overlays, storage, lock>>
cacheVars  == <<mapVars, writerVars, readerVars, issued>>

CacheInit(pools) ==
    /\ epochs = [p \in PoolIds |-> 0] /\ poolStates = [p \in PoolIds |-> 0]
    /\ overlays = [p \in PoolIds |-> {}]
    /\ storage = [p \in PoolIds |-> [s \in Slots |-> 0]]
    /\ lock = NoOne
    /\ wpc = [w \in Writers |-> "idle"] /\ wpool \in [Writers -> pools]
    /\ wid = [w \in Writers |-> 0] /\ wslots = [w \in Writers |-> {}]
    /\ rpc = [r \in Readers |-> "idle"] /\ rpool \in [Readers -> pools]
    /\ repoch = [r \in Readers |-> 0] /\ rstate = [r \in Readers |-> 0]
    /\ rslots = [r \in Readers |-> [s \in Slots |-> 0]]
    /\ issued = 0

Begin(w, p, step) ==
    /\ wpc[w] = "idle" /\ issued < MaxUpdates
    /\ issued' = issued + 1
    /\ wid' = [wid EXCEPT ![w] = issued + 1]
    /\ wpool' = [wpool EXCEPT ![w] = p]
    /\ wpc' = [wpc EXCEPT ![w] = step]

\* Mutant: the epoch is not counted up after the state is replaced.
InsertUnannounced(w, p) ==
    /\ Begin(w, p, "idle")
    /\ poolStates' = [poolStates EXCEPT ![p] = issued + 1]
    /\ UNCHANGED <<epochs, overlays, storage, lock, wslots, readerVars>>

(* apply_pool_state, first half: the state is replaced, whatever block the *)
(* one it replaces is of.                                                  *)
InsertState(w, p) ==
    /\ Begin(w, p, "bump")
    /\ poolStates' = [poolStates EXCEPT ![p] = issued + 1]
    /\ UNCHANGED <<epochs, overlays, storage, lock, wslots, readerVars>>

(* apply_pool_storage_overlay takes the lock; an empty list of slots never *)
(* gets here.  If the account does not load, the call ends before a slot   *)
(* is written; once loaded it stays.                                       *)
LockCache(w, p, loads) ==
    /\ lock = NoOne
    /\ Begin(w, p, IF loads THEN "write" ELSE "idle")
    /\ lock' = IF loads THEN w ELSE NoOne
    /\ wslots' = [wslots EXCEPT ![w] = IF loads THEN Slots ELSE {}]
    /\ UNCHANGED <<epochs, poolStates, overlays, storage, readerVars>>

WriteSlot(w, s) ==
    /\ wpc[w] = "write" /\ s \in wslots[w]
    /\ storage' = [storage EXCEPT ![wpool[w]] = [@ EXCEPT ![s] = wid[w]]]
    /\ wslots' = [wslots EXCEPT ![w] = @ \ {s}]
    /\ UNCHANGED <<epochs, poolStates, overlays, lock, wpc, wpool, wid, readerVars, issued>>

Unlock(w) ==
    /\ wpc[w] = "write" /\ wslots[w] = {}
    /\ lock' = NoOne
    /\ wpc' = [wpc EXCEPT ![w] = "record"]
    /\ UNCHANGED <<epochs, poolStates, overlays, storage, wpool, wid, wslots, readerVars, issued>>

RecordOverlay(w) ==
    /\ wpc[w] = "record"
    /\ overlays' = [overlays EXCEPT ![wpool[w]] = @ \cup {wid[w]}]
    /\ wpc' = [wpc EXCEPT ![w] = "bump"]
    /\ UNCHANGED <<epochs, poolStates, storage, lock, wpool, wid, wslots, readerVars, issued>>

(* The last step of both kinds of update.                                  *)
BumpEpoch(w) ==
    /\ wpc[w] = "bump"
    /\ epochs' = [epochs EXCEPT ![wpool[w]] = IF @ < EpochMax THEN @ + 1 ELSE @]
    /\ wpc' = [wpc EXCEPT ![w] = "idle"]
    /\ UNCHANGED <<poolStates, overlays, storage, lock, wpool, wid, wslots, readerVars, issued>>
-----------------------------------------------------------------------------
RecordEpoch(r, p) ==
    /\ rpc[r] = "idle"
    /\ rpc' = [rpc EXCEPT ![r] = "recorded"]
    /\ rpool' = [rpool EXCEPT ![r] = p]
    /\ repoch' = [repoch EXCEPT ![r] = epochs[p]]
    /\ UNCHANGED <<mapVars, writerVars, rstate, rslots, issued>>

ReadState(r) ==
    /\ rpc[r] = "recorded"
    /\ rpc' = [rpc EXCEPT ![r] = "sized"]
    /\ rstate' = [rstate EXCEPT ![r] = poolStates[rpool[r]]]
    /\ UNCHANGED <<mapVars, writerVars, rpool, repoch, rslots, issued>>

(* call_with_value holds the lock from before the first slot is read until *)
(* after the last.                                                         *)
Simulate(r) ==
    /\ rpc[r] = "sized" /\ lock = NoOne
    /\ rpc' = [rpc EXCEPT ![r] = "quoted"]
    /\ rslots' = [rslots EXCEPT ![r] = storage[rpool[r]]]
    /\ UNCHANGED <<mapVars, writerVars, rpool, repoch, rstate, issued>>

(* The quote is dispatched if the epoch is the one recorded, dropped       *)
(* otherwise; the reader is then ready for another.                        *)
Compare(r) ==
    /\ rpc[r] = "quoted"
    /\ rpc' = [rpc EXCEPT ![r] = "idle"]
    /\ UNCHANGED <<mapVars, writerVars, rpool, repoch, rstate, rslots, issued>>

CacheNext ==
    \/ \E w \in Writers, p \in PoolIds : InsertState(w, p)
    \/ \E w \in Writers, p \in PoolIds, loads \in BOOLEAN : LockCache(w, p, loads)
    \/ \E w \in Writers, s \in Slots : WriteSlot(w, s)
    \/ \E w \in Writers : Unlock(w) \/ RecordOverlay(w) \/ BumpEpoch(w)
    \/ \E r \in Readers, p \in PoolIds : RecordEpoch(r, p)
    \/ \E r \in Readers : ReadState(r) \/ Simulate(r) \/ Compare(r)

CacheSpec == CacheInit(PoolIds) /\ [][CacheNext]_cacheVars
-----------------------------------------------------------------------------
(* The updates of pool p that have begun and not returned.                 *)
InFlight(p) == {wid[w] : w \in {v \in Writers : wpool[v] = p /\ wpc[v] # "idle"}}

Passes(r) == /\ rpc[r] = "quoted"
             /\ repoch[r] = epochs[rpool[r]] /\ repoch[r] < EpochMax

(* A quote that would pass the epoch comparison was computed on what the   *)
(* cache still holds, but for updates that have not returned yet; and it   *)
(* saw no overlay half written.  The epoch is counted up only after what   *)
(* it announces is in place.                                               *)
QuoteFresh ==
    \A r \in Readers : Passes(r) =>
        LET p == rpool[r] IN
        /\ rstate[r] # poolStates[p] => poolStates[p] \in InFlight(p)
        /\ \A s \in Slots : rslots[r][s] # storage[p][s] => storage[p][s] \in InFlight(p)
        /\ \A s, t \in Slots : rslots[r][s] = rslots[r][t]
=============================================================================

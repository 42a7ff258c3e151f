------------------------------ MODULE MCPools ------------------------------
(***************************************************************************)
(* Reading, caching and pricing pools, on small instances.  The components *)
(* share no state, so they run side by side: `running` names the one whose *)
(* initial states and steps a behaviour takes, the others stay parked in   *)
(* one of their initial states.                                            *)
(***************************************************************************)
EXTENDS V3Swap, PairQuote, CurveQuote, LogFetcher, RevmDb, TLC

CONSTANTS NewtonSteps,
          CurvePools,     \* snapshots: balances, A, fee_bps
          CurveAmounts    \* inputs

VARIABLES running, operands

Full == INSTANCE FullMath

allVars == <<running, operands, swapVars, pairVars, curveVars, fetchVars, cacheVars>>

MCMinTick == -4
MCRatio == (-4 :> 16) @@ (-3 :> 19) @@ (-2 :> 22) @@ (-1 :> 27) @@ (0 :> 32)
        @@ (1 :> 38) @@ (2 :> 45) @@ (3 :> 54) @@ (4 :> 64)

Snapshot(p, t, l, fee, spacing, bits, net) ==
    [sqrt_price |-> p, tick |-> t, liquidity |-> l, fee_bps |-> fee,
     tick_spacing |-> spacing, bitmap |-> bits, net |-> net]

Nested == (-4 :> 3) @@ (-2 :> 5) @@ (2 :> -5) @@ (4 :> -3)
Narrow == (-2 :> 6) @@ (0 :> 0) @@ (2 :> -6)
Single == (-1 :> 9) @@ (1 :> -9)

(* The last three: a word of the bitmap is missing, the fee is refused,    *)
(* the spacing is refused.                                                 *)
MCPoolSet ==
    {Snapshot(35, 0, 8, 0, 2, {-2, -1, 1, 2}, Nested),
     Snapshot(35, 0, 8, 1, 2, {-2, -1, 1, 2}, Nested),
     Snapshot(32, 0, 6, 0, 2, {-1, 0, 1}, Narrow),
     Snapshot(32, -1, 6, 1, 2, {-1, 0, 1}, Narrow),
     Snapshot(30, -1, 9, 0, 1, {-1, 1}, Single),
     Snapshot(30, -1, 9, 2, 1, {-1, 1}, Single),
     Snapshot(17, -4, 3, 0, 2, {1, 2}, Nested),
     Snapshot(30, -1, 9, 4, 1, {-1, 1}, Single),
     Snapshot(30, -1, 9, 0, 0, {}, Single)}

Curve(A, fee, balances) == [A |-> A, fee_bps |-> fee, balances |-> balances]

MCCurvePools ==
    {Curve(A, 1, <<b1, b2>>) : A \in {1, 3}, b1 \in {1, 2, 7, 11}, b2 \in {1, 4, 11}}
    \cup {Curve(2, 0, <<5, 5, 5>>), Curve(1, 0, <<2, 7, 9>>), Curve(1, 0, <<90, 1>>),
          Curve(1, 0, <<53, 1>>), Curve(1, 1, <<84, 3>>),
          Curve(0, 0, <<3, 3>>), Curve(1, 4, <<3, 3>>), Curve(1, 0, <<3>>), Curve(1, 0, <<0, 3>>)}

MCOperands == {0, 1, 2, 3, 6, 8, 12, 15, 16, 17, 31, 32, 33, 63, 64, 96, 127, 128,
               129, 171, 192, 200, 240, 251, 254, 255}

PoolsInit ==
    /\ running \in {"swap", "pair", "curve", "fetch", "cache", "mul_div"}
    /\ SwapInit(IF running = "swap" THEN Pools
                ELSE {Snapshot(30, -1, 9, 0, 1, {-1, 1}, Single)})
    /\ PairInit(IF running = "pair" THEN Reserves ELSE {1},
                IF running = "pair" THEN Fees ELSE {0})
    /\ CurveInit(IF running = "curve" THEN CurvePools ELSE {Curve(1, 0, <<1, 1>>)},
                 IF running = "curve" THEN 1 .. 4 ELSE {1},
                 IF running = "curve" THEN CurveAmounts ELSE {1})
    /\ FetchInit(IF running = "fetch" THEN Heads ELSE {0},
                 IF running = "fetch" THEN ChunkSizes ELSE {1})
    /\ CacheInit(IF running = "cache" THEN PoolIds ELSE {CHOOSE p \in PoolIds : TRUE})
    /\ Full!FullInit(IF running = "mul_div" THEN MCOperands ELSE {1})

PoolsNext ==
    \/ /\ running = "swap" /\ SwapNext
       /\ UNCHANGED <<running, operands, pairVars, curveVars, fetchVars, cacheVars>>
    \/ /\ running = "pair" /\ PairNext
       /\ UNCHANGED <<running, operands, swapVars, curveVars, fetchVars, cacheVars>>
    \/ /\ running = "curve" /\ CurveNext
       /\ UNCHANGED <<running, operands, swapVars, pairVars, fetchVars, cacheVars>>
    \/ /\ running = "fetch" /\ FetchNext
       /\ UNCHANGED <<running, operands, swapVars, pairVars, curveVars, cacheVars>>
    \/ /\ running = "cache" /\ CacheNext
       /\ UNCHANGED <<running, operands, swapVars, pairVars, curveVars, fetchVars>>

Spec == PoolsInit /\ [][PoolsNext]_allVars
        /\ WF_allVars(/\ running = "fetch" /\ FetchStep
                      /\ UNCHANGED <<running, operands, swapVars, pairVars, curveVars,
                                     cacheVars>>)

(* full_math::mul_div returns the floor of the exact quotient (FullMath).  *)
MulDivExact == Full!MulDivExact
=============================================================================

----------------------------- MODULE MintArith -----------------------------
(***************************************************************************)
(* The pure arithmetic of the mint engine (src/kernel/mint.go): the size   *)
(* of the remaining mint pool at a batch (poolSizeUniversal,              *)
(* poolSizeLegacy), the per-batch issuance the mint gates compute          *)
(* (checkUniversalMintPossibility, checkLegacyMintPossibility) and the     *)
(* pledge amount (pledgeAmount).                                           *)
(*                                                                         *)
(* Amounts are common.Integer values counted in their smallest unit, so   *)
(* Integer.Div(n) is the floor division \div and Integer.Mul(n) is *.      *)
(* The Go for-loops over the elapsed years are recursive functions of one *)
(* argument, the number of years, so that TLAPS can unfold them.          *)
(***************************************************************************)
EXTENDS Integers

CONSTANTS
    MintPool,          \* MintPool, the issuable reserve at genesis
    MintLiquidity,     \* MintLiquidity, the liquidity used for pledge sizing
    MintYearShares,    \* MintYearShares, a year issues 1/MintYearShares of the pool
    MintYearBatches,   \* MintYearBatches, the daily batches in a year
    MintNodeMaximum    \* MintNodeMaximum, the divisor of the pledge amount

ASSUME ArithAssumption ==
    /\ MintPool \in Nat
    /\ MintLiquidity \in Nat
    /\ MintYearShares \in Nat \ {0}
    /\ MintYearBatches \in Nat \ {0}
    /\ MintNodeMaximum \in Nat \ {0}

(***************************************************************************)
(* The legacy light-pool reservation: Div(10).Mul(9), nine tenths of x.   *)
(***************************************************************************)
LegacyShare(x) == (x \div 10) * 9

(***************************************************************************)
(* One iteration of the yearly loop of poolSizeUniversal (legacy = FALSE) *)
(* and poolSizeLegacy (legacy = TRUE): year = pool.Div(MintYearShares) is *)
(* taken out of the pool and credited to mint (only nine tenths of it in  *)
(* the legacy variant).                                                    *)
(***************************************************************************)
YearStep(legacy, s) ==
    LET year == s.pool \div MintYearShares
    IN  [mint |-> s.mint + (IF legacy THEN LegacyShare(year) ELSE year),
         pool |-> s.pool - year]

\* The loop of each function after y iterations, as a recursive function.
YearLoopUniversal[y \in Nat] ==
    IF y = 0 THEN [mint |-> 0, pool |-> MintPool]
    ELSE YearStep(FALSE, YearLoopUniversal[y - 1])

YearLoopLegacy[y \in Nat] ==
    IF y = 0 THEN [mint |-> 0, pool |-> MintPool]
    ELSE YearStep(TRUE, YearLoopLegacy[y - 1])

YearLoop(legacy, y) == IF legacy THEN YearLoopLegacy[y] ELSE YearLoopUniversal[y]

\* Mutant: the full years are counted one batch early.
PoolSizeYearEarly(legacy, batch) ==
    LET s     == YearLoop(legacy, (batch + 1) \div MintYearBatches)
        day   == (s.pool \div MintYearShares) \div MintYearBatches
        count == batch % MintYearBatches
        mint  == IF count > 0
                 THEN s.mint + (IF legacy THEN LegacyShare(day) ELSE day) * count
                 ELSE s.mint
    IN  IF mint > 0 THEN MintPool - mint ELSE MintPool

(***************************************************************************)
(* poolSizeUniversal(batch) and poolSizeLegacy(batch): the full years are *)
(* credited by YearLoop, the days of the current year at the daily rate   *)
(* pool.Div(MintYearShares).Div(MintYearBatches).                          *)
(***************************************************************************)
PoolSize(legacy, batch) ==
    LET s     == YearLoop(legacy, batch \div MintYearBatches)
        day   == (s.pool \div MintYearShares) \div MintYearBatches
        count == batch % MintYearBatches
        mint  == IF count > 0
                 THEN s.mint + (IF legacy THEN LegacyShare(day) ELSE day) * count
                 ELSE s.mint
    IN  IF mint > 0 THEN MintPool - mint ELSE MintPool

poolSizeUniversal(batch) == PoolSize(FALSE, batch)
poolSizeLegacy(batch) == PoolSize(TRUE, batch)

\* Mutant: the gate forgets to shrink the pool for the elapsed years.
UniversalBatchAmountNoYears(batch) ==
    (MintPool \div MintYearShares) \div MintYearBatches

(***************************************************************************)
(* The per-batch issuance of the mint gates: the pool shrinks by a tenth  *)
(* for every full year elapsed (pool = pool.Sub(pool.Div(...))), then     *)
(* total = pool.Div(MintYearShares).Div(MintYearBatches).  The legacy     *)
(* gate issues full = total.Div(10).Mul(9).                                *)
(***************************************************************************)
UniversalBatchAmount(batch) ==
    (YearLoop(FALSE, batch \div MintYearBatches).pool \div MintYearShares)
        \div MintYearBatches

LegacyBatchAmount(batch) == LegacyShare(UniversalBatchAmount(batch))

(***************************************************************************)
(* pledgeAmount: the liquidity grows by the share taken from the pool in  *)
(* every full year; the pledge is liquidity.Div(MintNodeMaximum).  The    *)
(* argument is the batch, sinceEpoch / 1 day.                               *)
(***************************************************************************)
PledgeAmount(batch) ==
    (MintLiquidity + YearLoop(FALSE, batch \div MintYearBatches).mint)
        \div MintNodeMaximum

=============================================================================

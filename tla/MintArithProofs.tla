--------------------------- MODULE MintArithProofs ---------------------------
(***************************************************************************)
(* Proofs about the batch walk of MCMintArith for every value of the     *)
(* constants: the gates never issue more than poolSizeUniversal and       *)
(* poolSizeLegacy say has left the pool, and the pool never grows.  The   *)
(* arithmetic of the year loops is in MintArithLemmas.                     *)
(***************************************************************************)
EXTENDS MCMintArith, MintArithLemmas, TLAPS

(***************************************************************************)
(* The inductive invariant of the batch walk: what each gate has issued   *)
(* is a natural number within MintAmt at the current batch.                *)
(***************************************************************************)
Issued(legacy) == IF legacy THEN issuedLegacy ELSE issuedUniversal

IInv ==
    /\ batch \in Nat
    /\ \A legacy \in BOOLEAN : /\ Issued(legacy) \in Nat
                               /\ Issued(legacy) <= MintAmt(legacy, batch)

LEMMA InitIInv == Init => IInv
<1> SUFFICES ASSUME Init PROVE IInv
  OBVIOUS
<1>1. ASSUME NEW legacy \in BOOLEAN
      PROVE  Issued(legacy) \in Nat /\ Issued(legacy) <= MintAmt(legacy, batch)
  <2>1. batch = 0 /\ Issued(legacy) = 0
    BY DEF Init, Issued
  <2>2. MintAmt(legacy, 0) \in Nat
    BY MintAmtNat
  <2>3. QED
    BY <2>1, <2>2
<1>2. QED
  BY <1>1 DEF Init, IInv

\* One mint of the walk, to a batch next at or after the current one.
LEMMA MintIInv ==
    ASSUME IInv, NEW next \in Nat, batch <= next, Mint(next)
    PROVE  IInv'
<1> DEFINE y2 == next \div MintYearBatches
<1>1. next - batch \in Nat /\ batch \in Nat
  BY DEF IInv
<1>2. ASSUME NEW legacy \in BOOLEAN
      PROVE  Issued(legacy)' \in Nat /\ Issued(legacy)' <= MintAmt(legacy, next)
  <2>1. y2 \in Nat
    BY ArithAssumption
  <2>2. DayY(y2) \in Nat
    BY <2>1, PoolStep
  <2>3. Sh(legacy, DayY(y2)) \in Nat
    BY <2>2, ShNat
  <2>4. MintAmt(legacy, batch) + Sh(legacy, DayY(y2)) * (next - batch)
          <= MintAmt(legacy, next)
    BY <1>1, Catchup
  <2>5. Issued(legacy)' = Issued(legacy) + Sh(legacy, DayY(y2)) * (next - batch)
    <3>1. UniversalBatchAmount(next) = Sh(FALSE, DayY(y2))
          /\ LegacyBatchAmount(next) = Sh(TRUE, DayY(y2))
      BY GateAmounts
    <3>2. QED
      BY <3>1, Zenon DEF Mint, Issued
  <2>6. Issued(legacy) \in Nat /\ Issued(legacy) <= MintAmt(legacy, batch)
    BY DEF IInv
  <2>7. MintAmt(legacy, batch) \in Nat /\ MintAmt(legacy, next) \in Nat
    BY <1>1, MintAmtNat
  <2>8. QED
    BY <1>1, <2>3, <2>4, <2>5, <2>6, <2>7
<1>3. batch' \in Nat
  BY DEF Mint
<1>4. QED
  BY <1>2, <1>3 DEF Mint, IInv

LEMMA NextIInv == IInv /\ [Next]_vars => IInv'
<1> SUFFICES ASSUME IInv, [Next]_vars PROVE IInv'
  OBVIOUS
<1>1. ASSUME NEW next \in batch + 1 .. batch + MaxGap, next <= MaxBatch, Mint(next)
      PROVE  IInv'
  <2>1. next \in Nat /\ batch <= next
    BY DEF IInv
  <2>2. QED
    BY <1>1, <2>1, MintIInv
<1>2. CASE UNCHANGED vars
  BY <1>2 DEF vars, IInv, Issued
<1>3. QED
  BY <1>1, <1>2 DEF Next

(***************************************************************************)
(* For every pool, every year length and every share, and for catch-up    *)
(* gaps of any size: what checkUniversalMintPossibility and               *)
(* checkLegacyMintPossibility issue never exceeds what poolSizeUniversal  *)
(* and poolSizeLegacy say has left the pool.                               *)
(***************************************************************************)
THEOREM GateWithinPoolInvariant == Spec => []GateWithinPool
<1>1. IInv => GateWithinPool
  <2> SUFFICES ASSUME IInv PROVE GateWithinPool
    OBVIOUS
  <2>1. ASSUME NEW legacy \in BOOLEAN
        PROVE  Issued(legacy) <= MintPool - PoolSize(legacy, batch)
    <3>1. batch \in Nat /\ Issued(legacy) \in Nat /\ Issued(legacy) <= MintAmt(legacy, batch)
      BY DEF IInv
    <3>2. PoolSize(legacy, batch) = MintPool - MintAmt(legacy, batch)
          /\ MintAmt(legacy, batch) \in Nat
      BY <3>1, PoolSizeIs, MintAmtNat
    <3>3. QED
      BY <3>1, <3>2, ArithAssumption
  <2>2. QED
    BY <2>1, Zenon DEF GateWithinPool, Issued, poolSizeUniversal, poolSizeLegacy
<1>2. QED
  BY <1>1, InitIInv, NextIInv, PTL DEF Spec

\* A step of the walk never raises the pool poolSize* reports.
LEMMA NextPoolShrinks ==
    IInv /\ [Next]_vars
      => [\A legacy \in BOOLEAN : PoolSize(legacy, batch') <= PoolSize(legacy, batch)]_vars
<1> SUFFICES ASSUME IInv, [Next]_vars
             PROVE  [\A legacy \in BOOLEAN : PoolSize(legacy, batch') <= PoolSize(legacy, batch)]_vars
  OBVIOUS
<1>1. ASSUME NEW next \in batch + 1 .. batch + MaxGap, next <= MaxBatch, Mint(next),
             NEW legacy \in BOOLEAN
      PROVE  PoolSize(legacy, batch') <= PoolSize(legacy, batch)
  <2>1. next \in Nat /\ batch \in Nat /\ batch <= next /\ batch' = next
    BY <1>1 DEF IInv, Mint
  <2>2. next \div MintYearBatches \in Nat
    BY <2>1, ArithAssumption
  <2>3. Sh(legacy, DayY(next \div MintYearBatches)) \in Nat
    BY <2>2, PoolStep, ShNat
  <2>4. MintAmt(legacy, batch) + Sh(legacy, DayY(next \div MintYearBatches)) * (next - batch)
          <= MintAmt(legacy, next)
    BY <2>1, Catchup
  <2>5. MintAmt(legacy, batch) \in Nat /\ MintAmt(legacy, next) \in Nat
        /\ PoolSize(legacy, batch) = MintPool - MintAmt(legacy, batch)
        /\ PoolSize(legacy, next) = MintPool - MintAmt(legacy, next)
    BY <2>1, MintAmtNat, PoolSizeIs
  <2>6. QED
    BY <2>1, <2>3, <2>4, <2>5, ArithAssumption
<1>2. CASE UNCHANGED vars
  BY <1>2
<1>3. QED
  BY <1>1, <1>2 DEF Next

(***************************************************************************)
(* For every value of the constants, the pool that poolSizeUniversal and  *)
(* poolSizeLegacy report never grows from a batch to a later one,          *)
(* catch-up gaps and year boundaries included.                             *)
(***************************************************************************)
THEOREM PoolShrinksProperty == Spec => PoolShrinks
<1>1. Spec => []IInv
  BY InitIInv, NextIInv, PTL DEF Spec
<1>2. QED
  BY <1>1, NextPoolShrinks, PTL DEF Spec, PoolShrinks

=============================================================================

--------------------------- MODULE MintArithLemmas ---------------------------
(***************************************************************************)
(* Lemmas about the pool arithmetic of mint.go for every value of the     *)
(* constants: the year loop of poolSizeUniversal / poolSizeLegacy, the    *)
(* pool it leaves and the per-batch amounts of the gates.  They speak of  *)
(* MintArith alone, so both the batch walk of MCMintArith                  *)
(* (MintArithProofs) and the mint engine (MintProofs) cite them.           *)
(*                                                                         *)
(* The recursion equations of the year loops come from NatInductiveDef,  *)
(* and induction over the years is done with the first-order lemma        *)
(* NatSetInduction of InductionLemmas.                                      *)
(***************************************************************************)
EXTENDS MintArith, InductionLemmas, NaturalsInduction, TLAPS


(***************************************************************************)
(* The recursion equations of the two year loops, from NatInductiveDef.   *)
(***************************************************************************)
YearStart == [mint |-> 0, pool |-> MintPool]

LEMMA YearLoopUniversalDef ==
    NatInductiveDefConclusion(YearLoopUniversal, YearStart, LAMBDA v, n : YearStep(FALSE, v))
<1>1. NatInductiveDefHypothesis(YearLoopUniversal, YearStart, LAMBDA v, n : YearStep(FALSE, v))
  BY DEF NatInductiveDefHypothesis, YearLoopUniversal, YearStart
<1>2. QED
  BY <1>1, NatInductiveDef

LEMMA YearLoopLegacyDef ==
    NatInductiveDefConclusion(YearLoopLegacy, YearStart, LAMBDA v, n : YearStep(TRUE, v))
<1>1. NatInductiveDefHypothesis(YearLoopLegacy, YearStart, LAMBDA v, n : YearStep(TRUE, v))
  BY DEF NatInductiveDefHypothesis, YearLoopLegacy, YearStart
<1>2. QED
  BY <1>1, NatInductiveDef

\* The loop of mint.go after y years is y steps from the start.
LEMMA YearLoopDef ==
    ASSUME NEW legacy \in BOOLEAN, NEW y \in Nat
    PROVE  YearLoop(legacy, y) =
             IF y = 0 THEN YearStart ELSE YearStep(legacy, YearLoop(legacy, y - 1))
<1>1. CASE legacy
  BY <1>1, YearLoopLegacyDef DEF NatInductiveDefConclusion, YearLoop
<1>2. CASE ~legacy
  BY <1>2, YearLoopUniversalDef DEF NatInductiveDefConclusion, YearLoop
<1>3. QED
  BY <1>1, <1>2

LEMMA YearLoopZero ==
    ASSUME NEW legacy \in BOOLEAN
    PROVE  YearLoop(legacy, 0) = YearStart
BY YearLoopDef

LEMMA YearLoopSucc ==
    ASSUME NEW legacy \in BOOLEAN, NEW n \in Nat
    PROVE  YearLoop(legacy, n + 1) = YearStep(legacy, YearLoop(legacy, n))
<1>1. n + 1 \in Nat /\ n + 1 # 0 /\ (n + 1) - 1 = n
  OBVIOUS
<1>2. YearLoop(legacy, n + 1) = YearStep(legacy, YearLoop(legacy, (n + 1) - 1))
  BY <1>1, YearLoopDef
<1>3. QED
  BY <1>1, <1>2

\* Sh(legacy, x): what the loop credits for x taken out of the pool.
Sh(legacy, x) == IF legacy THEN LegacyShare(x) ELSE x

\* The facts about the loops after y years that the proofs rest on.
YearFacts(y) ==
    /\ YearLoop(FALSE, y).pool \in Nat
    /\ YearLoop(TRUE, y).pool = YearLoop(FALSE, y).pool
    /\ YearLoop(FALSE, y).mint \in Nat
    /\ YearLoop(TRUE, y).mint \in Nat

LEMMA ShNat ==
    ASSUME NEW legacy \in BOOLEAN, NEW x \in Nat
    PROVE  Sh(legacy, x) \in Nat
BY DEF Sh, LegacyShare

\* One year of the loop, in either variant, from a natural pool.
LEMMA YearStepFacts ==
    ASSUME NEW legacy \in BOOLEAN, NEW s, s.pool \in Nat, s.mint \in Nat
    PROVE  /\ YearStep(legacy, s).pool = s.pool - s.pool \div MintYearShares
           /\ YearStep(legacy, s).pool \in Nat
           /\ YearStep(legacy, s).mint = s.mint + Sh(legacy, s.pool \div MintYearShares)
           /\ YearStep(legacy, s).mint \in Nat
<1>1. s.pool \div MintYearShares \in 0 .. s.pool
  BY ArithAssumption
<1>2. Sh(legacy, s.pool \div MintYearShares) \in Nat
  BY <1>1, ShNat
<1>3. QED
  BY <1>1, <1>2 DEF YearStep, Sh

LEMMA YearLoopFacts ==
    ASSUME NEW y \in Nat
    PROVE  YearFacts(y)
<1>1. YearFacts(0)
  <2>1. YearLoop(FALSE, 0) = YearStart /\ YearLoop(TRUE, 0) = YearStart
    BY YearLoopZero
  <2>2. YearStart.pool \in Nat /\ YearStart.mint \in Nat
    BY ArithAssumption DEF YearStart
  <2>3. QED
    BY <2>1, <2>2, Zenon DEF YearFacts
<1>2. ASSUME NEW n \in Nat, YearFacts(n) PROVE YearFacts(n + 1)
  <2>1. YearLoop(FALSE, n + 1) = YearStep(FALSE, YearLoop(FALSE, n))
        /\ YearLoop(TRUE, n + 1) = YearStep(TRUE, YearLoop(TRUE, n))
    BY YearLoopSucc
  <2>2. YearStep(FALSE, YearLoop(FALSE, n)).pool \in Nat
        /\ YearStep(FALSE, YearLoop(FALSE, n)).mint \in Nat
    <3>1. YearLoop(FALSE, n).pool \in Nat /\ YearLoop(FALSE, n).mint \in Nat
      BY <1>2 DEF YearFacts
    <3>2. QED
      BY <3>1, YearStepFacts
  <2>3. YearStep(TRUE, YearLoop(TRUE, n)).mint \in Nat
    <3>1. YearLoop(TRUE, n).pool \in Nat /\ YearLoop(TRUE, n).mint \in Nat
      BY <1>2 DEF YearFacts
    <3>2. QED
      BY <3>1, YearStepFacts
  <2>4. YearStep(TRUE, YearLoop(TRUE, n)).pool = YearStep(FALSE, YearLoop(FALSE, n)).pool
    BY <1>2 DEF YearFacts, YearStep
  <2>5. QED
    BY <2>1, <2>2, <2>3, <2>4 DEF YearFacts
<1> DEFINE Good == {n \in Nat : YearFacts(n)}
<1>3. 0 \in Good /\ \A n \in Nat : n \in Good => n + 1 \in Good
  BY <1>1, <1>2 DEF Good
<1>4. Nat \subseteq Good
  BY <1>3, NatSetInduction
<1>5. QED
  BY <1>4 DEF Good

(***************************************************************************)
(* The pool left after y full years (the same in both variants), what a   *)
(* year takes and the daily rate of the year after it, and what the loop  *)
(* of each variant has credited.                                           *)
(***************************************************************************)
Pool(y) == YearLoop(FALSE, y).pool
Year(y) == Pool(y) \div MintYearShares
DayY(y) == Year(y) \div MintYearBatches
MintAt(legacy, y) == YearLoop(legacy, y).mint

LEMMA LoopStep ==
    ASSUME NEW legacy \in BOOLEAN, NEW y \in Nat
    PROVE  /\ Pool(y) \in Nat /\ Year(y) \in 0 .. Pool(y) /\ DayY(y) \in Nat
           /\ MintAt(legacy, y) \in Nat
           /\ Pool(y + 1) = Pool(y) - Year(y)
           /\ MintAt(legacy, y + 1) = MintAt(legacy, y) + Sh(legacy, Year(y))
<1>1. YearFacts(y)
  BY YearLoopFacts
<1>2. YearLoop(legacy, y).pool = Pool(y) /\ Pool(y) \in Nat
      /\ YearLoop(legacy, y).mint \in Nat
  BY <1>1 DEF YearFacts, Pool
<1>3. YearLoop(legacy, y + 1) = YearStep(legacy, YearLoop(legacy, y))
      /\ YearLoop(FALSE, y + 1) = YearStep(FALSE, YearLoop(FALSE, y))
  BY YearLoopSucc
<1>4. Year(y) \in 0 .. Pool(y) /\ DayY(y) \in Nat
  BY <1>2, ArithAssumption DEF Year, DayY
<1>5. YearStep(FALSE, YearLoop(FALSE, y)).pool = Pool(y) - Year(y)
  BY <1>2 DEF YearStep, Year, Pool
<1>6. YearStep(legacy, YearLoop(legacy, y)).mint = MintAt(legacy, y) + Sh(legacy, Year(y))
  BY <1>2 DEF YearStep, Year, MintAt, Sh
<1>7. QED
  BY <1>2, <1>3, <1>4, <1>5, <1>6 DEF Pool, MintAt

LEMMA PoolStep ==
    ASSUME NEW y \in Nat
    PROVE  /\ Pool(y) \in Nat /\ Year(y) \in 0 .. Pool(y) /\ DayY(y) \in Nat
           /\ Pool(y + 1) = Pool(y) - Year(y)
<1>1. FALSE \in BOOLEAN
  OBVIOUS
<1>2. QED
  BY <1>1, LoopStep

LEMMA DivMono ==
    ASSUME NEW x \in Nat, NEW y \in Nat, x <= y, NEW d \in Nat \ {0}
    PROVE  x \div d <= y \div d
BY SMT

LEMMA ShMono ==
    ASSUME NEW legacy \in BOOLEAN, NEW x \in Nat, NEW y \in Nat, x <= y
    PROVE  Sh(legacy, x) <= Sh(legacy, y)
<1>1. x \div 10 <= y \div 10
  BY DivMono
<1>2. QED
  BY <1>1 DEF Sh, LegacyShare

\* A year's worth of days at the daily rate never exceeds the year.
LEMMA ShDay ==
    ASSUME NEW legacy \in BOOLEAN, NEW x \in Nat
    PROVE  Sh(legacy, x \div MintYearBatches) * MintYearBatches <= Sh(legacy, x)
<1> DEFINE B == MintYearBatches
           d == x \div B
<1>1. B \in Nat \ {0} /\ d \in Nat /\ d * B <= x
  BY ArithAssumption
<1>2. CASE ~legacy
  BY <1>1, <1>2 DEF Sh
<1>3. CASE legacy
  <2>1. (d \div 10) * 10 <= d
    BY <1>1
  <2>2. (d \div 10) * B * 10 <= x
    <3>1. (d \div 10) * 10 * B <= d * B
      BY <1>1, <2>1
    <3>2. QED
      BY <1>1, <3>1
  <2>3. (d \div 10) * B <= x \div 10
    BY <1>1, <2>2
  <2>4. (d \div 10) * 9 * B <= (x \div 10) * 9
    BY <1>1, <2>3
  <2>5. QED
    BY <1>3, <2>4 DEF Sh, LegacyShare
<1>4. QED
  BY <1>2, <1>3

LEMMA MulMono ==
    ASSUME NEW a \in Nat, NEW b \in Nat, a <= b, NEW c \in Nat
    PROVE  a * c <= b * c
BY SMT

\* The pool never grows over the years.
LEMMA PoolMono ==
    ASSUME NEW j \in Nat
    PROVE  \A n \in Nat : Pool(j + n) <= Pool(j)
<1> DEFINE Good == {n \in Nat : Pool(j + n) <= Pool(j)}
<1>1. 0 \in Good
  <2>1. Pool(j) \in Nat /\ j + 0 = j
    BY PoolStep
  <2>2. QED
    BY <2>1 DEF Good
<1>2. ASSUME NEW n \in Nat, n \in Good PROVE n + 1 \in Good
  <2>1. Pool(j + n) <= Pool(j)
    BY <1>2 DEF Good
  <2>2. Pool((j + n) + 1) = Pool(j + n) - Year(j + n) /\ Year(j + n) \in 0 .. Pool(j + n)
        /\ Pool(j + n) \in Nat
    BY PoolStep
  <2>3. Pool(j + (n + 1)) <= Pool(j + n)
    <3>1. (j + n) + 1 = j + (n + 1)
      OBVIOUS
    <3>2. Pool((j + n) + 1) <= Pool(j + n)
      BY <2>2
    <3>3. QED
      BY <3>1, <3>2
  <2>4. Pool(j + (n + 1)) <= Pool(j) /\ n + 1 \in Nat
    BY <2>1, <2>2, <2>3, PoolStep
  <2>5. QED
    BY <2>4 DEF Good
<1>3. Nat \subseteq Good
  BY <1>1, <1>2, NatSetInduction
<1>4. QED
  BY <1>3 DEF Good

\* The daily rate of a later year is no higher.
LEMMA DayMono ==
    ASSUME NEW j \in Nat, NEW k \in Nat, j <= k
    PROVE  DayY(k) <= DayY(j)
<1>1. Pool(j + (k - j)) <= Pool(j) /\ j + (k - j) = k /\ k - j \in Nat
  BY PoolMono
<1>2. Pool(k) \in Nat /\ Pool(j) \in Nat /\ Pool(k) <= Pool(j)
  BY <1>1, PoolStep
<1>3. Year(k) \in Nat /\ Year(j) \in Nat /\ Year(k) <= Year(j)
  BY <1>2, ArithAssumption, DivMono DEF Year
<1>4. QED
  BY <1>3, ArithAssumption, DivMono DEF DayY

(***************************************************************************)
(* Over n years from year j the loop credits at least n years' worth of   *)
(* days at the daily rate of year j + n.                                   *)
(***************************************************************************)
LEMMA GrowthLB ==
    ASSUME NEW legacy \in BOOLEAN, NEW j \in Nat
    PROVE  \A n \in Nat :
             MintAt(legacy, j) + n * MintYearBatches * Sh(legacy, DayY(j + n))
               <= MintAt(legacy, j + n)
<1> DEFINE B == MintYearBatches
           Good == {n \in Nat : MintAt(legacy, j) + n * B * Sh(legacy, DayY(j + n))
                                  <= MintAt(legacy, j + n)}
<1>0. B \in Nat \ {0}
  BY ArithAssumption
<1>1. 0 \in Good
  <2>1. MintAt(legacy, j) \in Nat /\ j + 0 = j /\ DayY(j) \in Nat
    BY LoopStep
  <2>2. Sh(legacy, DayY(j)) \in Nat
    BY <2>1, ShNat
  <2>3. QED
    BY <1>0, <2>1, <2>2 DEF Good
<1>2. ASSUME NEW n \in Nat, n \in Good PROVE n + 1 \in Good
  <2> DEFINE k == j + n
             a == Sh(legacy, DayY(k))
             a1 == Sh(legacy, DayY(k + 1))
  <2>1. MintAt(legacy, j) + n * B * a <= MintAt(legacy, k)
    BY <1>2 DEF Good
  <2>2. /\ MintAt(legacy, k) \in Nat /\ MintAt(legacy, j) \in Nat
        /\ MintAt(legacy, k + 1) = MintAt(legacy, k) + Sh(legacy, Year(k))
        /\ Year(k) \in Nat /\ DayY(k) \in Nat /\ DayY(k + 1) \in Nat
    BY LoopStep
  <2>3. a \in Nat /\ a1 \in Nat /\ a1 <= a
    <3>1. DayY(k + 1) <= DayY(k)
      BY DayMono
    <3>2. QED
      BY <2>2, <3>1, ShNat, ShMono
  <2>4. a * B <= Sh(legacy, Year(k))
    BY <2>2, ShDay DEF DayY
  <2>5. n * B * a1 <= n * B * a
    <3>1. n * B \in Nat
      BY <1>0
    <3>2. a1 * (n * B) <= a * (n * B)
      BY <2>3, <3>1, MulMono
    <3>3. QED
      BY <3>2, <2>3, <3>1
  <2>6. B * a1 <= B * a
    BY <1>0, <2>3, MulMono
  <2>7. (n + 1) * B * a1 = n * B * a1 + B * a1
    BY <1>0, <2>3
  <2>8. MintAt(legacy, j) + (n + 1) * B * a1 <= MintAt(legacy, k + 1)
    <3>1. B * a = a * B /\ B * a \in Nat /\ n * B * a \in Nat /\ n * B * a1 \in Nat
      BY <1>0, <2>3
    <3>2. MintAt(legacy, j) + (n + 1) * B * a1
            <= MintAt(legacy, j) + n * B * a + B * a
      BY <1>0, <2>2, <2>3, <2>5, <2>6, <2>7, <3>1
    <3>0. Sh(legacy, Year(k)) \in Nat
      BY <2>2, ShNat
    <3>3. MintAt(legacy, j) + n * B * a + B * a <= MintAt(legacy, k) + Sh(legacy, Year(k))
      BY <1>0, <2>1, <2>2, <2>3, <2>4, <3>0, <3>1
    <3>4. QED
      BY <1>0, <2>2, <2>3, <3>0, <3>1, <3>2, <3>3
  <2>9. k + 1 = j + (n + 1)
    OBVIOUS
  <2>10. QED
    BY <2>8, <2>9 DEF Good
<1>3. Nat \subseteq Good
  BY <1>1, <1>2, NatSetInduction
<1>4. QED
  BY <1>3 DEF Good

(***************************************************************************)
(* What poolSize* says has left the pool at a batch: the full years of    *)
(* the loop and the days of the current year at its daily rate.           *)
(***************************************************************************)
MintAmt(legacy, b) ==
    MintAt(legacy, b \div MintYearBatches)
      + Sh(legacy, DayY(b \div MintYearBatches)) * (b % MintYearBatches)

LEMMA MintAmtNat ==
    ASSUME NEW legacy \in BOOLEAN, NEW b \in Nat
    PROVE  MintAmt(legacy, b) \in Nat
<1>1. b \div MintYearBatches \in Nat /\ b % MintYearBatches \in Nat
  BY ArithAssumption
<1>2. MintAt(legacy, b \div MintYearBatches) \in Nat /\ DayY(b \div MintYearBatches) \in Nat
  BY <1>1, LoopStep
<1>3. QED
  BY <1>1, <1>2, ShNat DEF MintAmt

\* poolSizeUniversal and poolSizeLegacy are MintPool minus MintAmt.
LEMMA PoolSizeIs ==
    ASSUME NEW legacy \in BOOLEAN, NEW b \in Nat
    PROVE  PoolSize(legacy, b) = MintPool - MintAmt(legacy, b)
<1> DEFINE y == b \div MintYearBatches
<1> USE DEF y
<1>1. y \in Nat /\ b % MintYearBatches \in Nat
  BY ArithAssumption
<1>2. YearLoop(legacy, y).pool = Pool(y) /\ YearLoop(legacy, y).mint = MintAt(legacy, y)
  BY <1>1, YearLoopFacts DEF YearFacts, Pool, MintAt
<1>3. MintAt(legacy, y) \in Nat /\ DayY(y) \in Nat
  BY <1>1, LoopStep
<1>4. Sh(legacy, DayY(y)) \in Nat
  BY <1>3, ShNat
<1>5. (YearLoop(legacy, y).pool \div MintYearShares) \div MintYearBatches = DayY(y)
  BY <1>2 DEF DayY, Year
<1>6. (IF legacy THEN LegacyShare(DayY(y)) ELSE DayY(y)) = Sh(legacy, DayY(y))
  BY DEF Sh
<1> DEFINE m == IF b % MintYearBatches > 0
                THEN MintAt(legacy, y) + Sh(legacy, DayY(y)) * (b % MintYearBatches)
                ELSE MintAt(legacy, y)
<1>7. PoolSize(legacy, b) = IF m > 0 THEN MintPool - m ELSE MintPool
  BY <1>2, <1>5, <1>6 DEF PoolSize
<1>8. m = MintAmt(legacy, b)
  BY <1>1, <1>3, <1>4 DEF MintAmt
<1>9. QED
  BY <1>7, <1>8, MintAmtNat, ArithAssumption

\* The gates issue the daily rate of the batch's year.
LEMMA GateAmounts ==
    ASSUME NEW b \in Nat
    PROVE  /\ UniversalBatchAmount(b) = Sh(FALSE, DayY(b \div MintYearBatches))
           /\ LegacyBatchAmount(b) = Sh(TRUE, DayY(b \div MintYearBatches))
BY DEF UniversalBatchAmount, LegacyBatchAmount, Sh, DayY, Year, Pool

(***************************************************************************)
(* A catch-up mint: going from batch b to a later batch b2, the gate pays *)
(* b2 - b days at the daily rate of b2's year, and what poolSize* says    *)
(* has left the pool grows by at least that much, across any number of   *)
(* year boundaries.                                                        *)
(***************************************************************************)
LEMMA Catchup ==
    ASSUME NEW legacy \in BOOLEAN, NEW b \in Nat, NEW b2 \in Nat, b <= b2
    PROVE  MintAmt(legacy, b) + Sh(legacy, DayY(b2 \div MintYearBatches)) * (b2 - b)
             <= MintAmt(legacy, b2)
<1> DEFINE B  == MintYearBatches
           y  == b \div B
           c  == b % B
           y2 == b2 \div B
           c2 == b2 % B
           d  == Sh(legacy, DayY(y))
           d2 == Sh(legacy, DayY(y2))
<1>1. /\ B \in Nat \ {0}
      /\ y \in Nat /\ c \in 0 .. B - 1 /\ b = y * B + c
      /\ y2 \in Nat /\ c2 \in 0 .. B - 1 /\ b2 = y2 * B + c2
      /\ y <= y2
  <2>1. B \in Nat \ {0}
    BY ArithAssumption
  <2>2. y <= y2
    BY <2>1, DivMono
  <2>3. QED
    BY <2>1, <2>2
<1>2. /\ MintAt(legacy, y) \in Nat /\ MintAt(legacy, y2) \in Nat
      /\ d \in Nat /\ d2 \in Nat /\ d2 <= d
  <2>1. MintAt(legacy, y) \in Nat /\ MintAt(legacy, y2) \in Nat
        /\ DayY(y) \in Nat /\ DayY(y2) \in Nat
    BY <1>1, LoopStep
  <2>2. DayY(y2) <= DayY(y)
    BY <1>1, DayMono
  <2>3. QED
    BY <2>1, <2>2, ShNat, ShMono
<1>3. MintAmt(legacy, b) = MintAt(legacy, y) + d * c
      /\ MintAmt(legacy, b2) = MintAt(legacy, y2) + d2 * c2
  BY DEF MintAmt
<1>4. CASE y = y2
  <2>1. c <= c2 /\ b2 - b = c2 - c /\ d = d2
    BY <1>1, <1>4
  <2>2. d2 * c + d2 * (c2 - c) = d2 * c2
    BY <1>1, <1>2, <2>1
  <2>3. QED
    BY <1>1, <1>2, <1>3, <1>4, <2>1, <2>2
<1>5. CASE y < y2
  <2> DEFINE m == y2 - (y + 1)
  <2>1. m \in Nat /\ (y + 1) + m = y2
    BY <1>1, <1>5
  <2>2. b2 - b = m * B + (B - c) + c2 /\ B - c \in Nat
    <3>1. b2 - b = (y2 - y) * B + c2 - c
      BY <1>1
    <3>2. (y2 - y) * B = m * B + B
      BY <1>1, <2>1
    <3>3. QED
      BY <1>1, <3>1, <3>2
  <2>3. m * B \in Nat /\ m * B * d2 \in Nat /\ d * B \in Nat
    BY <1>1, <1>2, <2>1
  <2>4. d2 * (b2 - b) = m * B * d2 + d2 * (B - c) + d2 * c2
    BY <1>1, <1>2, <2>2, <2>3
  <2>5. d2 * (B - c) <= d * (B - c)
    BY <1>2, <2>2, MulMono
  <2>6. d * c + d * (B - c) = d * B
    BY <1>1, <1>2
  <2>7. MintAt(legacy, y) + d * B <= MintAt(legacy, y + 1)
    <3>0. y \in Nat
      BY <1>1
    <3>1. MintAt(legacy, y + 1) = MintAt(legacy, y) + Sh(legacy, Year(y))
          /\ Year(y) \in Nat
      <4>1. Year(y) \in 0 .. Pool(y) /\ Pool(y) \in Nat
        BY <3>0, LoopStep, Zenon
      <4>2. MintAt(legacy, y + 1) = MintAt(legacy, y) + Sh(legacy, Year(y))
        BY <3>0, LoopStep, Zenon
      <4>3. QED
        BY <4>1, <4>2
    <3>2. d * B <= Sh(legacy, Year(y))
      BY <3>1, ShDay DEF DayY
    <3>3. Sh(legacy, Year(y)) \in Nat
      BY <3>1, ShNat
    <3>4. QED
      BY <1>2, <3>1, <3>2, <3>3, <2>3
  <2>8. MintAt(legacy, y + 1) + m * B * d2 <= MintAt(legacy, y2)
    <3>1. y + 1 \in Nat
      BY <1>1
    <3>2. MintAt(legacy, y + 1) + m * B * Sh(legacy, DayY((y + 1) + m))
            <= MintAt(legacy, (y + 1) + m)
      <4>1. \A n \in Nat : MintAt(legacy, y + 1) + n * MintYearBatches * Sh(legacy, DayY((y + 1) + n))
                              <= MintAt(legacy, (y + 1) + n)
        BY <3>1, GrowthLB
      <4>2. QED
        BY <2>1, <4>1 DEF B
    <3>3. QED
      BY <2>1, <3>2
  <2>9. MintAt(legacy, y + 1) \in Nat /\ d2 * (B - c) \in Nat /\ d * (B - c) \in Nat
        /\ d * c \in Nat /\ d2 * c2 \in Nat
    <3>1. y + 1 \in Nat
      BY <1>1
    <3>2. MintAt(legacy, y + 1) \in Nat
      BY <3>1, LoopStep
    <3>3. QED
      BY <1>1, <1>2, <2>2, <3>2
  <2>10. QED
    BY <1>2, <1>3, <2>3, <2>4, <2>5, <2>6, <2>7, <2>8, <2>9
<1>6. QED
  BY <1>1, <1>4, <1>5

\* What the loop credits for x taken out of the pool is at most x.
LEMMA ShBelow ==
    ASSUME NEW legacy \in BOOLEAN, NEW x \in Nat
    PROVE  Sh(legacy, x) <= x /\ Sh(legacy, x) \in Nat
BY DEF Sh, LegacyShare

\* The legacy loop credits no more than the universal loop, year by year.
LEMMA LegacyMintBelow ==
    ASSUME NEW y \in Nat
    PROVE  MintAt(TRUE, y) <= MintAt(FALSE, y)
<1> DEFINE Good == {n \in Nat : MintAt(TRUE, n) <= MintAt(FALSE, n)}
<1>1. 0 \in Good
  <2> DEFINE a == MintAt(TRUE, 0)
             u == MintAt(FALSE, 0)
  <2>1. a = YearStart.mint /\ u = YearStart.mint
    BY YearLoopZero, Zenon DEF MintAt
  <2>2. YearStart.mint = 0
    BY DEF YearStart
  <2> HIDE DEF a, u
  <2>3. a <= u
    BY <2>1, <2>2
  <2>4. QED
    BY <2>3, Zenon DEF Good, a, u
<1>2. \A n \in Nat : n \in Good => n + 1 \in Good
  <2> SUFFICES ASSUME NEW n \in Nat, n \in Good
               PROVE  n + 1 \in Good
    OBVIOUS
  <2> DEFINE a0 == MintAt(TRUE, n)
             a1 == MintAt(TRUE, n + 1)
             u0 == MintAt(FALSE, n)
             u1 == MintAt(FALSE, n + 1)
             yr == Year(n)
             sh == Sh(TRUE, yr)
  <2>1. a0 <= u0
    BY Zenon DEF Good
  <2>2. a0 \in Nat /\ a1 = a0 + sh
    BY LoopStep, Zenon
  <2>3. u0 \in Nat /\ u1 = u0 + Sh(FALSE, yr)
    BY LoopStep, Zenon
  <2>4. yr \in Nat
    BY PoolStep
  <2>5. u1 = u0 + yr
    BY <2>3, Zenon DEF Sh
  <2>6. u0 \in Nat
    BY <2>3
  <2>7. sh <= yr /\ sh \in Nat
    BY <2>4, ShBelow, Zenon
  \* With the abbreviations hidden, SMT sees no Boolean literal argument.
  <2> HIDE DEF a0, a1, u0, u1, yr, sh
  <2>8. a1 <= u1
    BY <2>1, <2>2, <2>4, <2>5, <2>7, <2>6
  <2>9. n + 1 \in Nat
    OBVIOUS
  <2>10. QED
    BY <2>8, <2>9, Zenon DEF Good, a1, u1
<1>3. Nat \subseteq Good
  BY <1>1, <1>2, NatSetInduction
<1>4. QED
  BY <1>3, Zenon DEF Good

(***************************************************************************)
(* poolSizeLegacy is never below poolSizeUniversal: the two loops keep    *)
(* the same pool and the legacy one credits nine tenths of each year, so  *)
(* the light pool that tryToSlashLegacyLightPool adds is a natural number.*)
(***************************************************************************)
LEMMA LegacyPoolAbove ==
    ASSUME NEW b \in Nat
    PROVE  poolSizeLegacy(b) - poolSizeUniversal(b) \in Nat
<1> DEFINE y  == b \div MintYearBatches
           c  == b % MintYearBatches
           d  == DayY(y)
           aL == MintAt(TRUE, y)
           aU == MintAt(FALSE, y)
           sL == Sh(TRUE, d)
           mL == MintAmt(TRUE, b)
           mU == MintAmt(FALSE, b)
           pL == poolSizeLegacy(b)
           pU == poolSizeUniversal(b)
<1>1. y \in Nat /\ c \in Nat
  BY ArithAssumption
<1>2. aL <= aU
  BY <1>1, LegacyMintBelow
<1>3. aL \in Nat /\ aU \in Nat /\ d \in Nat
  BY <1>1, LoopStep, Zenon
<1>4. sL <= d /\ sL \in Nat
  BY <1>3, ShBelow, Zenon
<1>5. mL = aL + sL * c /\ mU = aU + Sh(FALSE, d) * c
  BY Zenon DEF MintAmt
<1>6. mU = aU + d * c
  BY <1>5, Zenon DEF Sh
<1>7. pL = MintPool - mL /\ pU = MintPool - mU
  BY PoolSizeIs, Zenon DEF poolSizeLegacy, poolSizeUniversal
<1> HIDE DEF aL, aU, sL, mL, mU, pL, pU, d
<1>8. sL * c <= d * c /\ sL * c \in Nat
  BY <1>1, <1>3, <1>4, MulMono
<1>9. pL - pU \in Nat
  BY <1>2, <1>3, <1>5, <1>6, <1>7, <1>8, ArithAssumption
<1>10. QED
  BY <1>9 DEF pL, pU

\* The per-batch issuance of both gates is a natural number.
LEMMA GateAmountsNat ==
    ASSUME NEW b \in Nat
    PROVE  UniversalBatchAmount(b) \in Nat /\ LegacyBatchAmount(b) \in Nat
<1>1. b \div MintYearBatches \in Nat
  BY ArithAssumption
<1>2. DayY(b \div MintYearBatches) \in Nat
  BY <1>1, PoolStep
<1>3. UniversalBatchAmount(b) = DayY(b \div MintYearBatches)
  BY DEF UniversalBatchAmount, YearLoop, DayY, Year, Pool
<1>4. QED
  BY <1>2, <1>3 DEF LegacyBatchAmount, LegacyShare

=============================================================================

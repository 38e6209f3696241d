--------------------------- MODULE DistributorProofs ---------------------------
(***************************************************************************)
(* Proofs about distributeKernelMintByWorks for every number of nodes,    *)
(* every base, every threshold and every works ListNodeWorks returns:     *)
(* the clamp and the ratio step keep the order of the works, and the      *)
(* shares split the base with less than one unit per node left over.     *)
(*                                                                         *)
(* The loops of the code (the statistics loop, the totalW and share sums) *)
(* are the local recursive functions of Stats and SeqSum; their recursion *)
(* equations come from FiniteNatInductiveDef, and induction over their    *)
(* prefixes is NatSetInduction of InductionLemmas.                         *)
(***************************************************************************)
EXTENDS MCDistributor, InductionLemmas, NaturalsInduction, FiniteSetTheorems, TLAPS

\* Each branch of the clamp is monotone in the work.
LEMMA ClampMonotonePositive ==
    ASSUME NEW avg \in Nat \ {0}, NEW x \in Nat, NEW y \in Nat, x <= y
    PROVE  Clamp(x, avg) <= Clamp(y, avg)
<1>1. CASE y >= avg * 7
  BY <1>1 DEF Clamp
<1>2. CASE y < avg * 7 /\ y >= avg
  BY <1>2 DEF Clamp
<1>3. CASE y < avg /\ y > avg \div 7
  BY <1>3 DEF Clamp
<1>4. CASE y <= avg \div 7
  BY <1>4 DEF Clamp
<1>5. QED
  BY <1>1, <1>2, <1>3, <1>4

\* With a negative average every work is at or above 7 * avg and is
\* clamped to the same 2 * avg.
LEMMA ClampConstantNegative ==
    ASSUME NEW avg \in Int, avg < 0, NEW x \in Nat
    PROVE  Clamp(x, avg) = avg * 2
BY DEF Clamp

\* For a positive average the clamp lands in [avg / 7, 2 * avg].
LEMMA ClampBounds ==
    ASSUME NEW avg \in Nat \ {0}, NEW x \in Nat
    PROVE  Clamp(x, avg) \in avg \div 7 .. avg * 2
BY DEF Clamp

\* Ration(totalW).Product(base) is monotone in the work for a positive total.
LEMMA ShareMonotone ==
    ASSUME NEW total \in Nat \ {0}, NEW base \in Nat,
           NEW v \in Int, NEW w \in Int, v <= w
    PROVE  Share(v, total, base) <= Share(w, total, base)
<1>1. v * base <= w * base
  BY SMT
<1>2. QED
  BY <1>1 DEF Share

(***************************************************************************)
(* The clamp loop and the ratio loop of distributeKernelMintByWorks never *)
(* pay a node that worked more less than one that worked less, whatever   *)
(* the trimmed average (zero excluded, as the code returns "not valid")   *)
(* and for every positive totalW: the order MoreWorkNoLessShare checks on *)
(* small instances rests on this and on totalW being positive.           *)
(***************************************************************************)
THEOREM ClampAndShareKeepOrder ==
    ASSUME NEW work \in Seq(Nat), NEW avg \in Int \ {0},
           NEW total \in Nat \ {0}, NEW base \in Nat,
           NEW i \in DOMAIN work, NEW j \in DOMAIN work, work[i] >= work[j]
    PROVE  LET clamped == Clamped(work, avg)
           IN  Share(clamped[i], total, base) >= Share(clamped[j], total, base)
<1> DEFINE ci == Clamp(work[i], avg)
           cj == Clamp(work[j], avg)
<1>1. work[i] \in Nat /\ work[j] \in Nat
  OBVIOUS
<1>2. cj <= ci /\ ci \in Int /\ cj \in Int
  <2>1. CASE avg > 0
    <3>1. avg \in Nat \ {0}
      BY <2>1
    <3>2. cj <= ci
      BY <1>1, <3>1, ClampMonotonePositive
    <3>3. ci \in avg \div 7 .. avg * 2 /\ cj \in avg \div 7 .. avg * 2
      BY <1>1, <3>1, ClampBounds
    <3>4. QED
      BY <3>2, <3>3
  <2>2. CASE avg < 0
    BY <1>1, <2>2, ClampConstantNegative
  <2>3. QED
    BY <2>1, <2>2
<1>3. Share(cj, total, base) <= Share(ci, total, base)
  BY <1>2, ShareMonotone
<1>4. QED
  BY <1>3 DEF Clamped

(***************************************************************************)
(* The accumulations of the loops, as the functions SeqSum and Stats      *)
(* define them locally.                                                    *)
(***************************************************************************)
SumFn(s) ==
    CHOOSE g : g = [k \in 0 .. Len(s) |-> IF k = 0 THEN 0 ELSE g[k - 1] + s[k]]

\* SeqSum is the last value of its accumulation.
LEMMA SeqSumIsFn ==
    ASSUME NEW s
    PROVE  SeqSum(s) = SumFn(s)[Len(s)]
BY DEF SeqSum, SumFn

\* The recursion equation of the accumulation, from FiniteNatInductiveDef.
LEMMA SumFnRec ==
    ASSUME NEW T, NEW s \in Seq(T)
    PROVE  \A k \in 0 .. Len(s) : SumFn(s)[k] = IF k = 0 THEN 0 ELSE SumFn(s)[k - 1] + s[k]
<1> DEFINE Acc(v, k) == v + s[k]
<1>1. FiniteNatInductiveDefHypothesis(SumFn(s), 0, Acc, 0, Len(s))
  BY DEF FiniteNatInductiveDefHypothesis, SumFn, Acc
<1>2. Len(s) \in Nat /\ 0 \in Nat
  OBVIOUS
<1>3. FiniteNatInductiveDefConclusion(SumFn(s), 0, Acc, 0, Len(s))
  BY <1>1, <1>2, FiniteNatInductiveDef
<1>4. QED
  BY <1>3 DEF FiniteNatInductiveDefConclusion, Acc

\* The totalW accumulation stays in any set of integers that holds 0 and
\* is closed under addition (the natural numbers, the integers).
LEMMA SeqSumIn ==
    ASSUME NEW T, 0 \in T, \A a, b \in T : a + b \in T, NEW s \in Seq(T)
    PROVE  SeqSum(s) \in T
<1>2. Len(s) \in Nat /\ 0 \in Nat
  OBVIOUS
<1>4. \A k \in 0 .. Len(s) : SumFn(s)[k] = IF k = 0 THEN 0 ELSE SumFn(s)[k - 1] + s[k]
  BY SumFnRec
<1> DEFINE Good == {k \in Nat : k <= Len(s) => SumFn(s)[k] \in T}
<1>5. 0 \in Good
  <2>1. SumFn(s)[0] = 0
    BY <1>2, <1>4
  <2>2. QED
    BY <2>1 DEF Good
<1>6. \A n \in Nat : n \in Good => n + 1 \in Good
  <2> SUFFICES ASSUME NEW n \in Nat, n \in Good, n + 1 <= Len(s)
               PROVE  SumFn(s)[n + 1] \in T
    BY DEF Good
  <2>1. SumFn(s)[n] \in T
    BY DEF Good
  <2>2. SumFn(s)[n + 1] = SumFn(s)[n] + s[n + 1]
    <3>1. n + 1 \in 0 .. Len(s) /\ n + 1 # 0 /\ (n + 1) - 1 = n
      BY <1>2
    <3>2. QED
      BY <3>1, <1>4
  <2>3. s[n + 1] \in T
    BY <1>2
  <2>4. QED
    BY <2>1, <2>2, <2>3, Zenon
<1>7. Nat \subseteq Good
  BY <1>5, <1>6, NatSetInduction
<1>8. SumFn(s)[Len(s)] \in T
  BY <1>2, <1>7 DEF Good
<1>9. QED
  BY <1>8, SeqSumIsFn

StatsFn(work) ==
    CHOOSE g : g = [k \in 0 .. Len(work) |->
        IF k = 0 THEN [valid |-> 0, minW |-> 0, maxW |-> 0, totalW |-> 0]
        ELSE LET p == g[k - 1]
                 x == work[k]
             IN  IF x = 0 THEN p
                 ELSE [valid  |-> p.valid + 1,
                       minW   |-> IF p.minW = 0 \/ x < p.minW THEN x ELSE p.minW,
                       maxW   |-> IF x > p.maxW THEN x ELSE p.maxW,
                       totalW |-> p.totalW + x]]

\* One iteration of the statistics loop on the work x.
StatsUpd(p, x) ==
    IF x = 0 THEN p
    ELSE [valid  |-> p.valid + 1,
          minW   |-> IF p.minW = 0 \/ x < p.minW THEN x ELSE p.minW,
          maxW   |-> IF x > p.maxW THEN x ELSE p.maxW,
          totalW |-> p.totalW + x]

\* What the statistics loop accumulates.
StatsType == [valid : Nat, minW : Nat, maxW : Nat, totalW : Nat]

\* The loop invariant of the statistics loop: before the first nonzero
\* work everything is 0; afterwards minW is positive and at most maxW,
\* totalW holds maxW, and from two works on it holds minW and maxW.
StatsOK ==
    {p \in StatsType :
        /\ p.valid = 0 => p.minW = 0 /\ p.maxW = 0 /\ p.totalW = 0
        /\ p.valid >= 1 => 0 < p.minW /\ p.minW <= p.maxW /\ p.maxW <= p.totalW
        /\ p.valid >= 2 => p.minW + p.maxW <= p.totalW}

\* An iteration keeps the loop invariant.
LEMMA StatsUpdOK ==
    ASSUME NEW p \in StatsOK, NEW x \in Nat
    PROVE  StatsUpd(p, x) \in StatsOK
<1>1. CASE x = 0
  BY <1>1 DEF StatsUpd
<1>2. CASE x # 0 /\ p.valid = 0
  BY <1>2 DEF StatsUpd, StatsOK, StatsType
<1>3. CASE x # 0 /\ p.valid # 0
  <2>1. p.valid \in Nat /\ p.valid >= 1 /\ 0 < p.minW /\ p.minW <= p.maxW /\ p.maxW <= p.totalW
        /\ p.minW \in Nat /\ p.maxW \in Nat /\ p.totalW \in Nat
        /\ (p.valid >= 2 => p.minW + p.maxW <= p.totalW)
    BY <1>3 DEF StatsOK, StatsType
  <2>2. StatsUpd(p, x) = [valid  |-> p.valid + 1,
                          minW   |-> IF x < p.minW THEN x ELSE p.minW,
                          maxW   |-> IF x > p.maxW THEN x ELSE p.maxW,
                          totalW |-> p.totalW + x]
    BY <1>3, <2>1 DEF StatsUpd
  <2>3. QED
    BY <1>3, <2>1, <2>2 DEF StatsOK, StatsType
<1>4. QED
  BY <1>1, <1>2, <1>3

(***************************************************************************)
(* What the statistics loop has seen after the first m works: the        *)
(* positions and the values of the nonzero works.                          *)
(***************************************************************************)
NZIdx(work, m) == {k \in 1 .. m : work[k] # 0}
NZVal(work, m) == {work[k] : k \in NZIdx(work, m)}

\* The loop invariant relating the statistics to the works seen so far.
StatsRef(work, m, p) ==
    /\ p \in StatsOK
    /\ IsFiniteSet(NZIdx(work, m))
    /\ p.valid = Cardinality(NZIdx(work, m))
    /\ NZIdx(work, m) # {} =>
          /\ p.minW \in NZVal(work, m) /\ \A y \in NZVal(work, m) : p.minW <= y
          /\ p.maxW \in NZVal(work, m) /\ \A y \in NZVal(work, m) : y <= p.maxW

\* One iteration of the statistics loop keeps StatsRef.
LEMMA StatsRefStep ==
    ASSUME NEW work \in Seq(Nat), NEW m \in Nat, m + 1 <= Len(work),
           NEW p, StatsRef(work, m, p)
    PROVE  StatsRef(work, m + 1, StatsUpd(p, work[m + 1]))
<1> DEFINE x  == work[m + 1]
           I  == NZIdx(work, m)
           I1 == NZIdx(work, m + 1)
           V  == NZVal(work, m)
           V1 == NZVal(work, m + 1)
           q  == StatsUpd(p, x)
<1>1. x \in Nat /\ p \in StatsOK /\ IsFiniteSet(I) /\ p.valid = Cardinality(I)
  BY DEF StatsRef
<1>2. q \in StatsOK
  BY <1>1, StatsUpdOK
<1>3. CASE x = 0
  <2>1. I1 = I /\ V1 = V
    BY <1>3 DEF NZIdx, NZVal
  <2>2. q = p
    BY <1>3 DEF StatsUpd
  <2>3. QED
    BY <2>1, <2>2 DEF StatsRef
<1>4. CASE x # 0
  <2>1. I1 = I \cup {m + 1} /\ m + 1 \notin I /\ V1 = V \cup {x}
    BY <1>4 DEF NZIdx, NZVal
  <2>2. IsFiniteSet(I1) /\ Cardinality(I1) = Cardinality(I) + 1
    BY <1>1, <2>1, FS_AddElement
  <2>3. q.valid = p.valid + 1
    BY <1>4 DEF StatsUpd
  <2>4. \A y \in V : y \in Nat
    BY DEF NZVal, NZIdx
  <2>5. p.minW \in Nat /\ p.maxW \in Nat
    BY <1>1 DEF StatsOK, StatsType
  <2>6. CASE I = {}
    <3>1. p.valid = 0
      BY <1>1, <2>6, FS_EmptySet
    <3>2. p.minW = 0 /\ p.maxW = 0
      BY <1>1, <3>1 DEF StatsOK
    <3>3. q.minW = x /\ q.maxW = x
      BY <1>1, <1>4, <3>2 DEF StatsUpd
    <3>4. V1 = {x}
      BY <2>1, <2>6 DEF NZVal
    <3>5. QED
      BY <1>1, <1>2, <2>2, <2>3, <3>3, <3>4 DEF StatsRef
  <2>7. CASE I # {}
    <3>1. p.valid # 0
      BY <1>1, <2>7, FS_EmptySet
    <3>2. p.minW > 0
      BY <1>1, <3>1 DEF StatsOK, StatsType
    <3>3. q.minW = (IF x < p.minW THEN x ELSE p.minW) /\ q.maxW = (IF x > p.maxW THEN x ELSE p.maxW)
      BY <1>4, <3>2 DEF StatsUpd
    <3>4. /\ p.minW \in V /\ \A y \in V : p.minW <= y
          /\ p.maxW \in V /\ \A y \in V : y <= p.maxW
      BY <2>7 DEF StatsRef
    <3>5. /\ q.minW \in V1 /\ \A y \in V1 : q.minW <= y
          /\ q.maxW \in V1 /\ \A y \in V1 : y <= q.maxW
      <4>1. q.minW \in V1 /\ \A y \in V1 : q.minW <= y
        BY <1>1, <2>1, <2>4, <2>5, <3>3, <3>4
      <4>2. q.maxW \in V1 /\ \A y \in V1 : y <= q.maxW
        BY <1>1, <2>1, <2>4, <2>5, <3>3, <3>4
      <4>3. QED
        BY <4>1, <4>2
    <3>6. QED
      BY <1>1, <1>2, <2>2, <2>3, <3>5 DEF StatsRef
  <2>8. QED
    BY <2>6, <2>7
<1>5. QED
  BY <1>3, <1>4


\* The statistics loop over the whole of the works keeps StatsRef.
LEMMA StatsReference ==
    ASSUME NEW work \in Seq(Nat)
    PROVE  StatsRef(work, Len(work), Stats(work))
<1> DEFINE Acc(p, k) == StatsUpd(p, work[k])
           Zero == [valid |-> 0, minW |-> 0, maxW |-> 0, totalW |-> 0]
<1>1. Stats(work) = StatsFn(work)[Len(work)]
  BY DEF Stats, StatsFn
<1>2. Len(work) \in Nat /\ 0 \in Nat
  OBVIOUS
<1>3. FiniteNatInductiveDefHypothesis(StatsFn(work), Zero, Acc, 0, Len(work))
  BY DEF FiniteNatInductiveDefHypothesis, StatsFn, Acc, StatsUpd, Zero
<1>4. FiniteNatInductiveDefConclusion(StatsFn(work), Zero, Acc, 0, Len(work))
  BY <1>2, <1>3, FiniteNatInductiveDef
<1>5. \A k \in 0 .. Len(work) :
        StatsFn(work)[k] = IF k = 0 THEN Zero ELSE StatsUpd(StatsFn(work)[k - 1], work[k])
  BY <1>4 DEF FiniteNatInductiveDefConclusion, Acc
<1> DEFINE Good == {k \in Nat : k <= Len(work) => StatsRef(work, k, StatsFn(work)[k])}
<1>6. 0 \in Good
  <2>1. StatsRef(work, 0, Zero)
    <3>1. NZIdx(work, 0) = {}
      BY DEF NZIdx
    <3>2. Zero \in StatsOK
      BY DEF Zero, StatsOK, StatsType
    <3>3. QED
      BY <3>1, <3>2, FS_EmptySet DEF StatsRef, Zero
  <2>2. StatsFn(work)[0] = Zero
    <3>1. 0 \in 0 .. Len(work)
      BY <1>2
    <3>2. QED
      BY <3>1, <1>5
  <2>3. QED
    BY <2>1, <2>2 DEF Good
<1>7. \A n \in Nat : n \in Good => n + 1 \in Good
  <2> SUFFICES ASSUME NEW n \in Nat, n \in Good, n + 1 <= Len(work)
               PROVE  StatsRef(work, n + 1, StatsFn(work)[n + 1])
    BY DEF Good
  <2>1. StatsRef(work, n, StatsFn(work)[n])
    BY DEF Good
  <2>2. StatsFn(work)[n + 1] = StatsUpd(StatsFn(work)[n], work[n + 1])
    <3>1. n + 1 \in 0 .. Len(work) /\ n + 1 # 0 /\ (n + 1) - 1 = n
      BY <1>2
    <3>2. QED
      BY <3>1, <1>5
  <2>3. QED
    BY <2>1, <2>2, StatsRefStep
<1>8. Nat \subseteq Good
  BY <1>6, <1>7, NatSetInduction
<1>9. QED
  BY <1>1, <1>2, <1>8 DEF Good

\* Over natural works, the statistics loop keeps its invariant.
LEMMA StatsInvariant ==
    ASSUME NEW work \in Seq(Nat)
    PROVE  Stats(work) \in StatsOK
BY StatsReference DEF StatsRef

\* Div of a natural amount by a positive one is natural.
LEMMA DivNat ==
    ASSUME NEW a \in Nat, NEW b \in Nat \ {0}
    PROVE  a \div b \in Nat
OBVIOUS

\* ListNodeWorks' counts give natural works, one per accepted node.
LEMMA WorksNat ==
    ASSUME NEW r \in [1 .. NodeCount -> RawChoices]
    PROVE  /\ Len(r) = NodeCount
           /\ Works(r) \in Seq(Nat)
           /\ DOMAIN Works(r) = 1 .. NodeCount
           /\ \A k \in 1 .. NodeCount : Works(r)[k] = RawWork(r[k])
<1>1. \A w \in RawChoices : RawWork(w) \in Nat
  <2> SUFFICES ASSUME NEW w \in RawChoices PROVE RawWork(w) \in Nat
    OBVIOUS
  <2>1. w[1] \in Nat /\ w[2] \in Nat
    BY MCDistributorAssumption
  <2>2. w[1] * Precision * 120 \in Nat /\ w[2] * Precision \in Nat
    BY <2>1, DistributorAssumption
  <2>3. (w[1] * Precision * 120) \div 100 \in Nat
    BY <2>2
  <2>4. QED
    BY <2>2, <2>3 DEF RawWork
<1>2. Len(r) = NodeCount
  BY MCDistributorAssumption
<1>3. QED
  BY <1>1, <1>2, MCDistributorAssumption DEF Works

\* What distributeKernelMintByWorks computes on its way to the shares.
DAvg(r)     == TrimmedAvg(Stats(Works(r)))
DClamped(r) == Clamped(Works(r), DAvg(r))
DTotal(r)   == SeqSum(DClamped(r))

(***************************************************************************)
(* After the epoch day, distributeKernelMintByWorks returns shares only   *)
(* with a positive trimmed average, natural clamped works and a positive  *)
(* totalW: the "not valid" returns and the Ration panic catch the rest.   *)
(***************************************************************************)
LEMMA DistributeOk ==
    ASSUME NEW r \in [1 .. NodeCount -> RawChoices], NEW d, NEW rd, d # 0,
           Distribute(r, Base, d, rd).status = "ok"
    PROVE  /\ DAvg(r) \in Nat \ {0}
           /\ DClamped(r) \in [1 .. NodeCount -> Nat]
           /\ DTotal(r) \in Nat \ {0}
           /\ Distribute(r, Base, d, rd).shares
                = [k \in 1 .. NodeCount |-> Share(DClamped(r)[k], DTotal(r), Base)]
<1> DEFINE work  == Works(r)
           st    == Stats(work)
           avg   == TrimmedAvg(st)
           cl    == Clamped(work, avg)
           total == SeqSum(cl)
           D     == Distribute(r, Base, d, rd)
<1>0. /\ Len(r) = NodeCount
      /\ work \in Seq(Nat)
      /\ DOMAIN work = 1 .. NodeCount
  BY WorksNat DEF work
<1>1. /\ ~(st.valid < Thr)
      /\ avg # 0
      /\ total # 0
      /\ D.shares = [k \in 1 .. NodeCount |-> Share(cl[k], total, Base)]
  <2>1. D = IF ~rd THEN [status |-> "error", shares |-> <<>>]
            ELSE IF st.valid < Thr THEN [status |-> "error", shares |-> <<>>]
            ELSE IF avg = 0 THEN [status |-> "error", shares |-> <<>>]
            ELSE IF total = 0 THEN [status |-> "panic", shares |-> <<>>]
            ELSE [status |-> "ok", shares |-> [k \in 1 .. NodeCount |-> Share(cl[k], total, Base)]]
    BY <1>0 DEF Distribute, D, st, avg, cl, total, work
  <2>2. D.status = "ok"
    BY DEF D
  <2>3. "error" # "ok" /\ "panic" # "ok"
    OBVIOUS
  <2>4. ~rd => D.status = "error"
    BY <2>1
  <2>5. rd /\ st.valid < Thr => D.status = "error"
    BY <2>1
  <2>6. rd /\ ~(st.valid < Thr) /\ avg = 0 => D.status = "error"
    BY <2>1
  <2>7. rd /\ ~(st.valid < Thr) /\ avg # 0 /\ total = 0 => D.status = "panic"
    BY <2>1
  <2>8. rd /\ ~(st.valid < Thr) /\ avg # 0 /\ total # 0
          => D.shares = [k \in 1 .. NodeCount |-> Share(cl[k], total, Base)]
    BY <2>1
  <2>9. QED
    BY <2>2, <2>3, <2>4, <2>5, <2>6, <2>7, <2>8, Zenon
<1>2. st \in StatsOK
  BY <1>0, StatsInvariant DEF st
<1>3. avg \in Nat \ {0}
  <2>1. st.valid \in Nat /\ st.minW \in Nat /\ st.maxW \in Nat /\ st.totalW \in Nat
    BY <1>2 DEF StatsOK, StatsType
  <2>2. st.valid - 2 > 0
    BY <1>1, <2>1, DistributorAssumption
  <2>3. st.valid >= 2 => st.minW + st.maxW <= st.totalW
    BY <1>2 DEF StatsOK
  <2>4. st.totalW - st.minW - st.maxW \in Nat /\ st.valid - 2 \in Nat \ {0}
    BY <2>1, <2>2, <2>3
  <2>5. avg = (st.totalW - st.minW - st.maxW) \div (st.valid - 2)
    BY DEF avg, TrimmedAvg
  <2>6. avg \in Nat
    BY <2>4, <2>5, DivNat
  <2>7. QED
    BY <1>1, <2>6
<1>4. cl \in Seq(Nat)
  <2>0. \A k \in 1 .. NodeCount : work[k] \in Nat
    BY <1>0
  <2>1. \A k \in 1 .. NodeCount : Clamp(work[k], avg) \in avg \div 7 .. avg * 2
    BY <1>3, <2>0, ClampBounds
  <2>2. \A k \in 1 .. NodeCount : Clamp(work[k], avg) \in Nat
    BY <1>3, <2>1
  <2>3. cl = [k \in 1 .. NodeCount |-> Clamp(work[k], avg)]
    BY <1>0 DEF cl, Clamped
  <2>4. cl \in [1 .. NodeCount -> Nat]
    BY <2>2, <2>3
  <2>5. QED
    BY <2>4, MCDistributorAssumption
<1>5. total \in Nat \ {0}
  <2>1. total \in Nat
    BY <1>4, SeqSumIn DEF total
  <2>2. QED
    BY <1>1, <2>1
<1>6. QED
  <2>1. cl \in [1 .. NodeCount -> Nat]
    BY <1>0, <1>4 DEF cl, Clamped
  <2>2. QED
    BY <1>1, <1>3, <1>5, <2>1 DEF DAvg, DClamped, DTotal, avg, cl, total, st, work, D

(***************************************************************************)
(* distributeKernelMintByWorks, whatever the works ListNodeWorks returns, *)
(* never pays a node that did more work less than one that did less: on  *)
(* the epoch day all shares are equal, and otherwise the code returns     *)
(* shares only with a positive average and a positive totalW.             *)
(***************************************************************************)
LEMMA DistributeKeepsOrder ==
    ASSUME NEW r \in [1 .. NodeCount -> RawChoices], NEW d, NEW rd,
           NEW i \in 1 .. NodeCount, NEW j \in 1 .. NodeCount,
           RawWork(r[i]) >= RawWork(r[j]),
           Distribute(r, Base, d, rd).status = "ok"
    PROVE  Distribute(r, Base, d, rd).shares[i] >= Distribute(r, Base, d, rd).shares[j]
<1> DEFINE work == Works(r)
           D    == Distribute(r, Base, d, rd)
<1>1. /\ Len(r) = NodeCount
      /\ work \in Seq(Nat)
      /\ DOMAIN work = 1 .. NodeCount
      /\ work[i] >= work[j]
  BY WorksNat DEF work
<1>2. CASE d = 0
  <2>1. D.shares = [k \in 1 .. NodeCount |-> Base \div NodeCount]
    BY <1>1, <1>2 DEF Distribute, D
  <2>2. Base \div NodeCount \in Int
    BY MCDistributorAssumption
  <2>3. QED
    BY <2>1, <2>2 DEF D
<1>3. CASE d # 0
  <2>1. /\ DAvg(r) \in Nat \ {0}
        /\ DTotal(r) \in Nat \ {0}
        /\ D.shares = [k \in 1 .. NodeCount |-> Share(DClamped(r)[k], DTotal(r), Base)]
    BY <1>3, DistributeOk DEF D
  <2>2. DAvg(r) \in Int \ {0} /\ Base \in Nat /\ i \in DOMAIN work /\ j \in DOMAIN work
    BY <1>1, <2>1, MCDistributorAssumption
  <2>3. LET clamped == Clamped(work, DAvg(r))
        IN  Share(clamped[i], DTotal(r), Base) >= Share(clamped[j], DTotal(r), Base)
    BY <1>1, <2>1, <2>2, ClampAndShareKeepOrder
  <2>4. QED
    BY <2>1, <2>3 DEF D, DClamped, work
<1>4. QED
  BY <1>2, <1>3

\* The type invariant of the distributor harness is inductive.
LEMMA TypeInvariant == Spec => []TypeOK
<1>1. Init => TypeOK
  BY DEF Init, TypeOK
<1>2. TypeOK /\ [Next]_vars => TypeOK'
  <2> SUFFICES ASSUME TypeOK, [Next]_vars PROVE TypeOK'
    OBVIOUS
  <2>1. ASSUME NEW i \in 1 .. NodeCount, NEW w \in RawChoices, NextDay(i, w)
        PROVE  TypeOK'
    BY <2>1 DEF NextDay, TypeOK
  <2>2. CASE UNCHANGED vars
    BY <2>2 DEF vars, TypeOK
  <2>3. QED
    BY <2>1, <2>2 DEF Next
<1>3. QED
  BY <1>1, <1>2, PTL DEF Spec

(***************************************************************************)
(* For every number of accepted nodes, every base, every threshold and    *)
(* every works ListNodeWorks may return, distributeKernelMintByWorks      *)
(* never gives a node that did more work the previous day a smaller share *)
(* than one that did less.                                                 *)
(***************************************************************************)
THEOREM MoreWorkNoLessShareInvariant == Spec => []MoreWorkNoLessShare
<1>1. TypeOK => MoreWorkNoLessShare
  <2> SUFFICES ASSUME TypeOK, Result.status = "ok",
                      NEW i \in 1 .. NodeCount, NEW j \in 1 .. NodeCount,
                      RawWork(raw[i]) >= RawWork(raw[j])
               PROVE  Result.shares[i] >= Result.shares[j]
    BY DEF MoreWorkNoLessShare
  <2>1. raw \in [1 .. NodeCount -> RawChoices]
    BY DEF TypeOK
  <2>2. QED
    BY <2>1, DistributeKeepsOrder DEF Result
<1>2. QED
  BY <1>1, TypeInvariant, PTL

\* Ration(total).Product(base) is the floor of a / total.
LEMMA DivBounds ==
    ASSUME NEW a \in Int, NEW t \in Nat \ {0}
    PROVE  t * (a \div t) <= a /\ a <= t * (a \div t) + (t - 1) /\ a \div t \in Int
OBVIOUS

\* The integers are closed under addition.
LEMMA AddInt ==
    ASSUME NEW x \in Int, NEW y \in Int
    PROVE  x + y \in Int
OBVIOUS

\* One more share keeps the bounds of FloorSums.
LEMMA FloorSumStep ==
    ASSUME NEW t \in Int, NEW b \in Int, NEW m \in Nat,
           NEW s0 \in Int, NEW c0 \in Int, NEW x \in Int, NEW y \in Int,
           t * s0 <= b * c0, b * c0 <= t * s0 + m * (t - 1),
           t * x <= b * y, b * y <= t * x + (t - 1)
    PROVE  /\ t * (s0 + x) <= b * (c0 + y)
           /\ b * (c0 + y) <= t * (s0 + x) + (m + 1) * (t - 1)
<1>1. t * (s0 + x) = t * s0 + t * x /\ b * (c0 + y) = b * c0 + b * y
  OBVIOUS
<1>2. (m + 1) * (t - 1) = m * (t - 1) + (t - 1)
  OBVIOUS
<1>3. QED
  BY <1>1, <1>2

(***************************************************************************)
(* Summing floor divisions: when every share is the floor of its weight   *)
(* times b over t, t times the sum of the shares is at most b times the   *)
(* sum of the weights and falls short of it by at most t - 1 per share.   *)
(***************************************************************************)
LEMMA FloorSums ==
    ASSUME NEW t \in Nat \ {0}, NEW b \in Nat, NEW c \in Seq(Int), NEW sh \in Seq(Int),
           Len(sh) = Len(c),
           \A k \in 1 .. Len(c) : t * sh[k] <= b * c[k] /\ b * c[k] <= t * sh[k] + (t - 1)
    PROVE  /\ t * SeqSum(sh) <= b * SeqSum(c)
           /\ b * SeqSum(c) <= t * SeqSum(sh) + Len(c) * (t - 1)
<1> DEFINE n == Len(c)
           Good == {m \in Nat : m <= n =>
                      /\ SumFn(sh)[m] \in Int /\ SumFn(c)[m] \in Int
                      /\ t * SumFn(sh)[m] <= b * SumFn(c)[m]
                      /\ b * SumFn(c)[m] <= t * SumFn(sh)[m] + m * (t - 1)}
<1>1. n \in Nat
  OBVIOUS
<1>2. \A m \in 0 .. n : SumFn(sh)[m] = IF m = 0 THEN 0 ELSE SumFn(sh)[m - 1] + sh[m]
  BY SumFnRec
<1>3. \A m \in 0 .. n : SumFn(c)[m] = IF m = 0 THEN 0 ELSE SumFn(c)[m - 1] + c[m]
  BY SumFnRec
<1>4. 0 \in Good
  <2>1. SumFn(sh)[0] = 0 /\ SumFn(c)[0] = 0
    BY <1>1, <1>2, <1>3
  <2>2. QED
    BY <2>1 DEF Good
<1>5. \A m \in Nat : m \in Good => m + 1 \in Good
  <2> SUFFICES ASSUME NEW m \in Nat, m \in Good, m + 1 <= n
               PROVE  /\ SumFn(sh)[m + 1] \in Int /\ SumFn(c)[m + 1] \in Int
                      /\ t * SumFn(sh)[m + 1] <= b * SumFn(c)[m + 1]
                      /\ b * SumFn(c)[m + 1] <= t * SumFn(sh)[m + 1] + (m + 1) * (t - 1)
    BY DEF Good
  <2>1. /\ SumFn(sh)[m] \in Int /\ SumFn(c)[m] \in Int
        /\ t * SumFn(sh)[m] <= b * SumFn(c)[m]
        /\ b * SumFn(c)[m] <= t * SumFn(sh)[m] + m * (t - 1)
    BY DEF Good
  <2>2. SumFn(sh)[m + 1] = SumFn(sh)[m] + sh[m + 1] /\ SumFn(c)[m + 1] = SumFn(c)[m] + c[m + 1]
    <3>1. m + 1 \in 0 .. n /\ m + 1 # 0 /\ (m + 1) - 1 = m
      BY <1>1
    <3>2. QED
      BY <3>1, <1>2, <1>3
  <2>3. sh[m + 1] \in Int /\ c[m + 1] \in Int
        /\ t * sh[m + 1] <= b * c[m + 1] /\ b * c[m + 1] <= t * sh[m + 1] + (t - 1)
    BY <1>1
  <2>4. /\ t * (SumFn(sh)[m] + sh[m + 1]) <= b * (SumFn(c)[m] + c[m + 1])
        /\ b * (SumFn(c)[m] + c[m + 1]) <= t * (SumFn(sh)[m] + sh[m + 1]) + (m + 1) * (t - 1)
    <3>1. t \in Int /\ b \in Int
      OBVIOUS
    <3>2. QED
      BY <3>1, <2>1, <2>3, FloorSumStep, Zenon
  <2>5. SumFn(sh)[m + 1] \in Int /\ SumFn(c)[m + 1] \in Int
    <3>1. SumFn(sh)[m] \in Int /\ SumFn(c)[m] \in Int /\ sh[m + 1] \in Int /\ c[m + 1] \in Int
      BY <2>1, <2>3, Zenon
    <3>2. QED
      BY <2>2, <3>1, AddInt, Zenon
  <2>6. QED
    BY <2>2, <2>4, <2>5, Zenon
<1>6. Nat \subseteq Good
  BY <1>4, <1>5, NatSetInduction
<1>7. SeqSum(sh) = SumFn(sh)[n] /\ SeqSum(c) = SumFn(c)[n]
  BY SeqSumIsFn
<1>8. QED
  BY <1>1, <1>6, <1>7 DEF Good

\* The epoch-day split has one unit of weight per node.
LEMMA SeqSumOnes ==
    ASSUME NEW n \in Nat
    PROVE  SeqSum([k \in 1 .. n |-> 1]) = n
<1> DEFINE c == [k \in 1 .. n |-> 1]
           Good == {m \in Nat : m <= n => SumFn(c)[m] = m}
<1>1. c \in Seq(Nat) /\ Len(c) = n
  OBVIOUS
<1>2. \A m \in 0 .. n : SumFn(c)[m] = IF m = 0 THEN 0 ELSE SumFn(c)[m - 1] + c[m]
  BY <1>1, SumFnRec
<1>3. 0 \in Good
  BY <1>2 DEF Good
<1>4. \A m \in Nat : m \in Good => m + 1 \in Good
  <2> SUFFICES ASSUME NEW m \in Nat, m \in Good, m + 1 <= n
               PROVE  SumFn(c)[m + 1] = m + 1
    BY DEF Good
  <2>1. SumFn(c)[m] = m
    BY DEF Good
  <2>2. m + 1 \in 0 .. n /\ m + 1 # 0 /\ (m + 1) - 1 = m /\ c[m + 1] = 1
    OBVIOUS
  <2>3. QED
    BY <1>2, <2>1, <2>2
<1>5. Nat \subseteq Good
  BY <1>3, <1>4, NatSetInduction
<1>6. QED
  BY <1>1, <1>5, SeqSumIsFn DEF Good

\* Dividing the bounds of FloorSums by t.
LEMMA SplitBound ==
    ASSUME NEW t \in Nat \ {0}, NEW B \in Int, NEW X \in Int, NEW n \in Nat \ {0},
           t * X <= B * t, B * t <= t * X + n * (t - 1)
    PROVE  X <= B /\ B - X < n
<1>1. X <= B
  <2> SUFFICES ASSUME X > B PROVE FALSE
    OBVIOUS
  <2>1. t * X >= t * (B + 1)
    OBVIOUS
  <2>2. QED
    BY <2>1
<1>2. B - X < n
  <2> SUFFICES ASSUME B - X >= n PROVE FALSE
    OBVIOUS
  <2>1. t * (B - X) >= t * n
    OBVIOUS
  <2>2. t * (B - X) = B * t - t * X
    OBVIOUS
  <2>3. n * (t - 1) < t * n
    OBVIOUS
  <2>4. QED
    BY <2>1, <2>2, <2>3
<1>3. QED
  BY <1>1, <1>2

(***************************************************************************)
(* For every number of accepted nodes, every base, every threshold and    *)
(* every works ListNodeWorks may return, the shares of                    *)
(* distributeKernelMintByWorks never add up to more than the base, and    *)
(* the rounding of Ration.Product (or of the even epoch-day split) leaves *)
(* less than one unit per node for the builders' light or diff output.   *)
(***************************************************************************)
THEOREM SharesSplitBaseInvariant == Spec => []SharesSplitBase
<1>1. TypeOK => SharesSplitBase
  <2> SUFFICES ASSUME TypeOK, Result.status = "ok"
               PROVE  SeqSum(Result.shares) <= Base /\ Base - SeqSum(Result.shares) < NodeCount
    BY DEF SharesSplitBase
  <2> DEFINE N == NodeCount
             sh == Result.shares
  <2>1. raw \in [1 .. N -> RawChoices] /\ N \in Nat \ {0} /\ Base \in Nat
    BY MCDistributorAssumption DEF TypeOK
  <2>2. CASE day = 0
    <3> DEFINE c == [k \in 1 .. N |-> 1]
    <3>1. sh = [k \in 1 .. N |-> Base \div N]
      <4>1. Len(raw) = N
        BY <2>1, WorksNat
      <4>2. QED
        BY <2>2, <4>1 DEF Result, Distribute
    <3>2. Base \div N \in Int /\ N * (Base \div N) <= Base /\ Base <= N * (Base \div N) + (N - 1)
      <4>1. Base \in Int
        BY <2>1
      <4>2. QED
        BY <2>1, <4>1, DivBounds, Zenon
    <3>3. sh \in Seq(Int) /\ c \in Seq(Int) /\ Len(sh) = Len(c) /\ Len(c) = N
      BY <2>1, <3>1, <3>2
    <3>4. \A k \in 1 .. Len(c) : N * sh[k] <= Base * c[k] /\ Base * c[k] <= N * sh[k] + (N - 1)
      BY <2>1, <3>1, <3>2, <3>3
    <3>5. N * SeqSum(sh) <= Base * SeqSum(c) /\ Base * SeqSum(c) <= N * SeqSum(sh) + Len(c) * (N - 1)
      BY <2>1, <3>3, <3>4, FloorSums
    <3>6. SeqSum(c) = N /\ SeqSum(sh) \in Int
      <4>1. SeqSum(c) = N
        BY <2>1, SeqSumOnes, Zenon
      <4>2. 0 \in Int /\ \A x, y \in Int : x + y \in Int
        OBVIOUS
      <4>3. SeqSum(sh) \in Int
        BY <3>3, <4>2, SeqSumIn, Zenon
      <4>4. QED
        BY <4>1, <4>3
    <3>7. N * SeqSum(sh) <= Base * N /\ Base * N <= N * SeqSum(sh) + N * (N - 1)
      BY <3>3, <3>5, <3>6
    <3>8. QED
      <4>1. Base \in Int
        BY <2>1
      <4>2. QED
        BY <2>1, <3>6, <3>7, <4>1, SplitBound, Zenon
  <2>3. CASE day # 0
    <3> DEFINE cl == DClamped(raw)
               T  == DTotal(raw)
    <3>1. cl \in [1 .. N -> Nat] /\ T \in Nat \ {0}
          /\ sh = [k \in 1 .. N |-> Share(cl[k], T, Base)]
      BY <2>1, <2>3, DistributeOk DEF Result
    <3>2. \A k \in 1 .. N : /\ sh[k] \in Int
                            /\ T * sh[k] <= Base * cl[k]
                            /\ Base * cl[k] <= T * sh[k] + (T - 1)
      <4> SUFFICES ASSUME NEW k \in 1 .. N
                   PROVE  /\ sh[k] \in Int
                          /\ T * sh[k] <= Base * cl[k]
                          /\ Base * cl[k] <= T * sh[k] + (T - 1)
        OBVIOUS
      <4>1. cl[k] * Base \in Int /\ cl[k] * Base = Base * cl[k]
        BY <2>1, <3>1
      <4>2. sh[k] = (cl[k] * Base) \div T
        BY <3>1 DEF Share
      <4>3. QED
        BY <3>1, <4>1, <4>2, DivBounds
    <3>3. sh \in Seq(Int) /\ cl \in Seq(Int) /\ Len(sh) = Len(cl) /\ Len(cl) = N
      BY <2>1, <3>1, <3>2
    <3>4. T * SeqSum(sh) <= Base * SeqSum(cl) /\ Base * SeqSum(cl) <= T * SeqSum(sh) + Len(cl) * (T - 1)
      BY <2>1, <3>1, <3>2, <3>3, FloorSums
    <3>5. SeqSum(cl) = T /\ SeqSum(sh) \in Int
      BY <3>3, SeqSumIn DEF T, DTotal, cl
    <3>6. T * SeqSum(sh) <= Base * T /\ Base * T <= T * SeqSum(sh) + N * (T - 1)
      BY <3>3, <3>4, <3>5
    <3>7. QED
      <4>1. Base \in Int
        BY <2>1
      <4>2. QED
        BY <2>1, <3>1, <3>5, <3>6, <4>1, SplitBound, Zenon
  <2>4. QED
    BY <2>2, <2>3
<1>2. QED
  BY <1>1, TypeInvariant, PTL

\* A least element of a set of integers is its Min.
LEMMA MinIs ==
    ASSUME NEW S \in SUBSET Int, NEW a \in S, \A y \in S : a <= y
    PROVE  Min(S) = a
<1>1. Min(S) \in S /\ \A y \in S : Min(S) <= y
  BY Zenon DEF Min
<1>2. Min(S) \in Int /\ Min(S) <= a
  BY <1>1, Zenon
<1>3. a <= Min(S) /\ a \in Int
  BY <1>1, Zenon
<1>4. QED
  BY <1>2, <1>3

\* A greatest element of a set of integers is its Max.
LEMMA MaxIs ==
    ASSUME NEW S \in SUBSET Int, NEW a \in S, \A y \in S : y <= a
    PROVE  Max(S) = a
<1>1. Max(S) \in S /\ \A y \in S : Max(S) >= y
  BY Zenon DEF Max
<1>2. Max(S) \in Int /\ Max(S) >= a
  BY <1>1, Zenon
<1>3. Max(S) <= a /\ a \in Int
  BY <1>1, Zenon
<1>4. QED
  BY <1>2, <1>3

(***************************************************************************)
(* For every number of accepted nodes and every works ListNodeWorks may   *)
(* return, the statistics loop of distributeKernelMintByWorks counts the  *)
(* nonzero works in valid and finds their minimum and maximum, whatever   *)
(* the order of the nodes and wherever the zero works are.                *)
(***************************************************************************)
THEOREM StatsMatchReferenceInvariant == Spec => []StatsMatchReference
<1>1. TypeOK => StatsMatchReference
  <2> SUFFICES ASSUME TypeOK PROVE StatsMatchReference
    OBVIOUS
  <2> DEFINE work == Works(raw)
             st   == Stats(work)
             I    == {k \in DOMAIN work : work[k] # 0}
             nz   == {work[i] : i \in I}
  <2>1. work \in Seq(Nat) /\ DOMAIN work = 1 .. Len(work)
    <3>1. raw \in [1 .. NodeCount -> RawChoices]
      BY DEF TypeOK
    <3>2. QED
      BY <3>1, WorksNat DEF work
  <2>2. I = NZIdx(work, Len(work)) /\ nz = NZVal(work, Len(work))
    BY <2>1 DEF NZIdx, NZVal
  <2>3. StatsRef(work, Len(work), st)
    BY <2>1, StatsReference DEF st
  <2>4. st.valid = Cardinality(I)
    BY <2>2, <2>3 DEF StatsRef
  <2>5. nz # {} => st.minW = Min(nz) /\ st.maxW = Max(nz)
    <3> SUFFICES ASSUME nz # {} PROVE st.minW = Min(nz) /\ st.maxW = Max(nz)
      OBVIOUS
    <3>1. I # {}
      OBVIOUS
    <3>2. /\ st.minW \in nz /\ \A y \in nz : st.minW <= y
          /\ st.maxW \in nz /\ \A y \in nz : y <= st.maxW
      BY <2>2, <2>3, <3>1 DEF StatsRef
    <3>3. nz \in SUBSET Int
      BY <2>1
    <3>4. QED
      BY <3>2, <3>3, MinIs, MaxIs
  <2>6. QED
    BY <2>4, <2>5 DEF StatsMatchReference
<1>2. QED
  BY <1>1, TypeInvariant, PTL

=============================================================================

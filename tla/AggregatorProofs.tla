--------------------------- MODULE AggregatorProofs ---------------------------
(***************************************************************************)
(* Proofs that AggregateMintWork writes every round it moves past with    *)
(* the complete works of that round and that its cursor never passes the *)
(* cache round, for every bound and across any crashes, conflicts and     *)
(* read errors.                                                            *)
(***************************************************************************)
EXTENDS Aggregator, TLAPS

Running == pc \in {"loop", "read", "write"}

\* What the inner loop writes for the slice it holds.
ToWrite == IF Mainnet /\ round < ForkRound THEN 0 ELSE lsnaps

(***************************************************************************)
(* The inductive invariant.  Besides the two properties, it records that  *)
(* the stored offset and the loop's crn never pass the cache round, and   *)
(* that a slice held for a round behind the loop's crn was read when the  *)
(* round was already final, so that it is the round's complete works,    *)
(* and that the loop's cursor is at the stored offset or one past it.     *)
(***************************************************************************)
IInv ==
    /\ TypeOK
    /\ offset <= crn
    /\ lcrn <= crn
    /\ Running => round <= crn
    /\ pc \in {"read", "write"} => round <= lcrn
    /\ (pc = "write" /\ round < lcrn) => ToWrite = Expected(round)
    /\ \A r \in Rounds : r < offset => written[r] = Expected(r)
    /\ \A r \in Rounds : Running /\ r < round => written[r] = Expected(r)
    /\ Running => offset <= round /\ round <= offset + 1

LEMMA InitIInv == Init => IInv
BY AggregatorAssumption DEF Init, IInv, TypeOK, Rounds, NotWritten, Running

\* Rounds before the cache round are final: no step but AddSnapshot changes
\* snaps, and it changes only the cache round.
LEMMA ExpectedStable ==
    ASSUME IInv, [Next]_vars, NEW r \in Rounds, r < crn
    PROVE  Expected(r)' = Expected(r)
<1>1. snaps'[r] = snaps[r]
  <2>1. CASE AddSnapshot
    BY <2>1 DEF AddSnapshot, IInv, TypeOK, Rounds
  <2>2. CASE ~AddSnapshot
    <3>1. snaps' = snaps
      BY <2>2 DEF Next, Aggregate, Start, CheckCacheRound, ReadSnapshots, WriteRoundWork,
                  Restart, AdvanceCacheRound, vars, env
    <3>2. QED
      BY <3>1
  <2>3. QED
    BY <2>1, <2>2
<1>2. QED
  BY <1>1 DEF Expected

LEMMA NextIInv == IInv /\ [Next]_vars => IInv'
<1> SUFFICES ASSUME IInv, [Next]_vars PROVE IInv'
  OBVIOUS
<1> USE AggregatorAssumption DEF IInv, TypeOK, Rounds, NotWritten
<1>0. \A r \in Rounds : r < crn => Expected(r)' = Expected(r)
  BY ExpectedStable
<1>1. CASE Start
  BY <1>0, <1>1 DEF Start, Running, ToWrite, env, store
<1>2. CASE CheckCacheRound
  BY <1>0, <1>2 DEF CheckCacheRound, Running, ToWrite, env, store
<1>3. CASE ReadSnapshots
  <2>1. CASE pc' = "write"
    <3>1. lsnaps' = snaps[round] /\ snaps[round] > 0
      BY <1>3, <2>1 DEF ReadSnapshots
    <3>2. QED
      BY <1>0, <1>3, <2>1, <3>1 DEF ReadSnapshots, Running, ToWrite, Expected, env, store
  <2>2. CASE pc' # "write"
    BY <1>0, <1>3, <2>2 DEF ReadSnapshots, Running, ToWrite, env, store
  <2>3. QED
    BY <2>1, <2>2
<1>4. CASE WriteRoundWork
  <2> DEFINE s == IF Mainnet /\ round < ForkRound THEN 0 ELSE lsnaps
             Conflict == /\ faults < MaxFaults
                         /\ faults' = faults + 1
                         /\ lsnaps' = s
                         /\ UNCHANGED <<store, round, pc>>
             Success  == /\ written' = [written EXCEPT ![round] = s]
                         /\ offset' = round
                         /\ round' = Advance(round, lcrn)
                         /\ lsnaps' = s
                         /\ pc' = "loop"
                         /\ UNCHANGED faults
  <2>0. pc = "write" /\ UNCHANGED <<env, lcrn, restarts>>
    BY <1>4 DEF WriteRoundWork
  <2>1. CASE Mainnet /\ lsnaps = 0
    BY <1>0, <1>4, <2>1 DEF WriteRoundWork, Running, ToWrite, env, store
  <2>2. CASE ~(Mainnet /\ lsnaps = 0)
    <3>1. Conflict \/ Success
      BY <1>4, <2>2 DEF WriteRoundWork
    <3>2. round < lcrn => s = Expected(round)
      BY <2>0 DEF ToWrite
    <3>3. CASE Conflict
      \* the inner loop runs again with the slice it now holds
      <4>1. ToWrite' = s
        BY <3>3 DEF ToWrite, store
      <4>2. QED
        BY <1>0, <2>0, <3>2, <3>3, <4>1 DEF Running, store, env
    <3>4. CASE Success
      <4>1. round <= lcrn /\ lcrn <= crn /\ round \in Rounds
        BY <2>0
      <4>2. round' \in Rounds /\ round' <= crn
        BY <3>4, <4>1 DEF Advance
      <4>3. \A r \in Rounds : r < round => written'[r] = written[r]
        BY <3>4
      <4>4. round < round' => written'[round] = Expected(round)
        BY <3>2, <3>4, <4>1 DEF Advance
      <4>5. \A r \in Rounds : r < round' => written'[r] = Expected(r)'
        BY <1>0, <2>0, <3>4, <4>1, <4>3, <4>4 DEF Advance, Running
      <4>6. \A r \in Rounds : r < offset' => written'[r] = Expected(r)'
        BY <1>0, <2>0, <3>4, <4>1, <4>3 DEF Running
      <4>7. written' \in [Rounds -> {NotWritten} \cup 0 .. MaxSnaps]
        BY <3>4, <2>2, <2>0
      <4>8. offset' <= round' /\ round' <= offset' + 1
        BY <3>4, <4>1 DEF Advance
      <4>9. TypeOK'
        BY <2>0, <3>4, <4>2, <4>7 DEF env
      <4>10. QED
        BY <2>0, <3>4, <4>1, <4>2, <4>5, <4>6, <4>8, <4>9 DEF Running, env
    <3>5. QED
      BY <3>1, <3>3, <3>4
  <2>3. QED
    BY <2>1, <2>2
<1>5. CASE Restart
  BY <1>0, <1>5 DEF Restart, Running, ToWrite, env, store
<1>6. CASE AddSnapshot
  BY <1>0, <1>6 DEF AddSnapshot, Running, ToWrite, Expected, proc, store
<1>7. CASE AdvanceCacheRound
  BY <1>0, <1>7 DEF AdvanceCacheRound, Running, ToWrite, Expected, proc, store
<1>8. CASE UNCHANGED vars
  BY <1>0, <1>8 DEF vars, env, store, proc, Running, ToWrite, Expected
<1>9. QED
  BY <1>1, <1>2, <1>3, <1>4, <1>5, <1>6, <1>7, <1>8 DEF Next, Aggregate

(***************************************************************************)
(* Every round behind the loop's cursor or the stored work offset holds   *)
(* the complete works of that round, across crashes, conflicts and read   *)
(* errors: AggregateMintWork re-reads a round it wrote while it was the   *)
(* cache round, and resumes at the offset it last wrote.                   *)
(***************************************************************************)
THEOREM AggregatedCompleteInvariant == Spec => []AggregatedComplete
<1>1. IInv => AggregatedComplete
  BY DEF IInv, AggregatedComplete, Running
<1>2. QED
  BY <1>1, InitIInv, NextIInv, PTL DEF Spec

(***************************************************************************)
(* The cursor of AggregateMintWork never passes the cache round, so its   *)
(* "waiting" panic (crn < round) cannot fire.                              *)
(***************************************************************************)
THEOREM CursorWithinCacheInvariant == Spec => []CursorWithinCache
<1>1. IInv => CursorWithinCache
  BY DEF IInv, CursorWithinCache, Running
<1>2. QED
  BY <1>1, InitIInv, NextIInv, PTL DEF Spec

(***************************************************************************)
(* AggregateMintWork implements the abstract aggregation under the        *)
(* mapping of AggregatedWorks and the stored offset: a successful write   *)
(* at the offset rewrites a round the mapping hides, one just past it     *)
(* moves the offset over a round that is final and complete, and every    *)
(* other step of the loop leaves the store alone.                          *)
(***************************************************************************)
THEOREM AggregationRefinement == Spec => AggregationRefined
<1> DEFINE absvars == <<crn, snaps, AggregatedWorks, offset>>
<1>1. Init => Abstract!Init
  BY DEF Init, Abstract!Init, AggregatedWorks, Rounds, Abstract!Rounds, Abstract!NotWritten, NotWritten
<1>2. IInv /\ [Next]_vars => [Abstract!Next]_absvars
  <2> SUFFICES ASSUME IInv, [Next]_vars PROVE [Abstract!Next]_absvars
    OBVIOUS
  <2> USE AggregatorAssumption DEF IInv, TypeOK, Rounds, NotWritten
  <2>1. CASE UNCHANGED store
    <3>1. AggregatedWorks' = AggregatedWorks
      BY <2>1 DEF store, AggregatedWorks
    <3>2. CASE AddSnapshot
      <4>1. Abstract!AddSnapshot
        BY <3>1, <3>2 DEF AddSnapshot, Abstract!AddSnapshot, store
      <4>2. QED
        BY <4>1 DEF Abstract!Next
    <3>3. CASE AdvanceCacheRound
      <4>1. Abstract!AdvanceCacheRound
        BY <3>1, <3>3 DEF AdvanceCacheRound, Abstract!AdvanceCacheRound, store
      <4>2. QED
        BY <4>1 DEF Abstract!Next
    <3>4. CASE ~AddSnapshot /\ ~AdvanceCacheRound
      <4>1. UNCHANGED env
        BY <3>4 DEF Next, Aggregate, Start, CheckCacheRound, ReadSnapshots, WriteRoundWork,
                    Restart, vars
      <4>2. QED
        BY <2>1, <3>1, <4>1 DEF env, store
    <3>5. QED
      BY <3>2, <3>3, <3>4
  <2>2. CASE ~UNCHANGED store
    <3>1. WriteRoundWork /\ ~(Mainnet /\ lsnaps = 0)
      BY <2>2 DEF Next, Aggregate, Start, CheckCacheRound, ReadSnapshots, WriteRoundWork,
                  Restart, AddSnapshot, AdvanceCacheRound, vars, store
    <3> DEFINE s == IF Mainnet /\ round < ForkRound THEN 0 ELSE lsnaps
    <3>2. /\ written' = [written EXCEPT ![round] = s]
          /\ offset' = round
          /\ UNCHANGED env
          /\ pc = "write"
      BY <2>2, <3>1 DEF WriteRoundWork, store
    <3>3. offset <= round /\ round <= offset + 1 /\ round <= crn
      BY <3>2 DEF Running
    <3>4. CASE round = offset
      <4>1. AggregatedWorks' = AggregatedWorks
        BY <3>2, <3>4 DEF AggregatedWorks
      <4>2. QED
        BY <3>2, <3>4, <4>1 DEF env
    <3>5. CASE round = offset + 1
      <4>1. offset < crn
        BY <3>3, <3>5
      <4>2. written[offset] = Expected(offset)
        BY <3>2, <3>5 DEF Running
      <4>3. AggregatedWorks' = [AggregatedWorks EXCEPT ![offset] = Expected(offset)]
        <5>1. offset \in Rounds /\ offset' = offset + 1 /\ round \in Rounds
          BY <3>2, <3>5
        <5>2. \A r \in Rounds : r # round => written'[r] = written[r]
          BY <3>2
        <5>3. \A r \in Rounds : AggregatedWorks'[r] =
                 IF r = offset THEN Expected(offset) ELSE AggregatedWorks[r]
          BY <4>2, <5>1, <5>2, <3>5 DEF AggregatedWorks
        <5>4. QED
          BY <5>3 DEF AggregatedWorks
      <4>4. Abstract!AggregateRound
        BY <3>2, <3>5, <4>1, <4>3 DEF Abstract!AggregateRound, Abstract!Expected, Expected, env
      <4>5. QED
        BY <4>4 DEF Abstract!Next
    <3>6. QED
      BY <3>3, <3>4, <3>5
  <2>3. QED
    BY <2>1, <2>2
<1>3. QED
  BY <1>1, <1>2, InitIInv, NextIInv, PTL DEF Spec, AggregationRefined, Abstract!Spec, Abstract!vars


-----------------------------------------------------------------------------
(* Where AggregateMintWork can panic *)

(***************************************************************************)
(* The invariant for PanicOnlyPreFork: IInv, the property, and that the   *)
(* inner loop holds no snapshot slice only after a conflict retry of a    *)
(* pre-fork round on mainnet (ReadSnapshots enters it only with a         *)
(* nonempty one).                                                          *)
(***************************************************************************)
PInv ==
    /\ IInv
    /\ PanicOnlyPreFork
    /\ (pc = "write" /\ lsnaps = 0) => Mainnet /\ round < ForkRound

LEMMA InitPInv == Init => PInv
BY InitIInv DEF Init, PInv, PanicOnlyPreFork

LEMMA NextPInv == PInv /\ [Next]_vars => PInv'
<1> SUFFICES ASSUME PInv, [Next]_vars PROVE PInv'
  OBVIOUS
<1>0. IInv'
  BY NextIInv DEF PInv
<1> USE DEF PInv, PanicOnlyPreFork
<1>1. CASE Start
  BY <1>0, <1>1 DEF Start
<1>2. CASE CheckCacheRound
  <2>1. round <= crn
    BY <1>2 DEF CheckCacheRound, IInv, Running
  <2>2. pc' = "read" /\ UNCHANGED round
    BY <1>2, <2>1 DEF CheckCacheRound, IInv, TypeOK, Rounds
  <2>3. QED
    BY <1>0, <2>2
<1>3. CASE ReadSnapshots
  <2>1. pc' = "loop" \/ (pc' = "write" /\ lsnaps' > 0)
    BY <1>3 DEF ReadSnapshots
  <2>2. QED
    BY <1>0, <2>1
<1>4. CASE WriteRoundWork
  <2> DEFINE s == IF Mainnet /\ round < ForkRound THEN 0 ELSE lsnaps
  <2>0. (pc = "write" /\ UNCHANGED round) \/ pc' = "loop"
    BY <1>4 DEF WriteRoundWork, store
  <2>1. CASE Mainnet /\ lsnaps = 0
    <3>1. pc' = "panicked" /\ UNCHANGED round
      BY <1>4, <2>1 DEF WriteRoundWork, store
    <3>2. Mainnet /\ round < ForkRound
      BY <1>4, <2>1 DEF WriteRoundWork
    <3>3. QED
      BY <1>0, <3>1, <3>2
  <2>2. CASE ~(Mainnet /\ lsnaps = 0)
    <3>1. \/ pc' = "write" /\ lsnaps' = s /\ UNCHANGED round
          \/ pc' = "loop"
      BY <1>4, <2>2 DEF WriteRoundWork, store
    <3>2. s = 0 => Mainnet /\ round < ForkRound
      BY <1>4 DEF WriteRoundWork
    <3>3. QED
      BY <1>0, <3>1, <3>2
  <2>3. QED
    BY <2>1, <2>2
<1>5. CASE Restart
  BY <1>0, <1>5 DEF Restart
<1>6. CASE AddSnapshot
  BY <1>0, <1>6 DEF AddSnapshot, proc
<1>7. CASE AdvanceCacheRound
  BY <1>0, <1>7 DEF AdvanceCacheRound, proc
<1>8. CASE UNCHANGED vars
  BY <1>0, <1>8 DEF vars, proc
<1>9. QED
  BY <1>1, <1>2, <1>3, <1>4, <1>5, <1>6, <1>7, <1>8 DEF Next, Aggregate

(***************************************************************************)
(* AggregateMintWork panics only on mainnet and only at a round before    *)
(* the day-leap fork: the "waiting" panic (crn < round) never fires, and  *)
(* the nil-slice index needs the conflict retry of a pre-fork round, for  *)
(* every bound and across any restarts, conflicts and read errors.        *)
(***************************************************************************)
THEOREM PanicOnlyPreForkInvariant == Spec => []PanicOnlyPreFork
<1>1. Init => PInv
  BY InitPInv
<1>2. PInv /\ [Next]_vars => PInv'
  BY NextPInv
<1>3. PInv => PanicOnlyPreFork
  BY DEF PInv
<1>4. QED
  BY <1>1, <1>2, <1>3, PTL DEF Spec

(***************************************************************************)
(* Hence AggregateMintWork never panics off mainnet, nor on a chain with  *)
(* no round before the fork.                                               *)
(***************************************************************************)
THEOREM NoPanicOffPreFork ==
    ASSUME ~Mainnet \/ ForkRound = 0
    PROVE  Spec => []NoPanic
<1>1. PInv => NoPanic
  BY AggregatorAssumption DEF PInv, IInv, TypeOK, Rounds, PanicOnlyPreFork, NoPanic
<1>2. QED
  BY <1>1, InitPInv, NextPInv, PTL DEF Spec

=============================================================================

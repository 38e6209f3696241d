------------------------------ MODULE Aggregator ------------------------------
(***************************************************************************)
(* AggregateMintWork of src/kernel/mint.go: the per-chain loop that copies *)
(* the snapshot works of each round into the round-work aggregates, with   *)
(* the cache round advancing under it, store conflicts and read errors,    *)
(* and crashes and restarts of the node.                                   *)
(*                                                                         *)
(* The snapshots of a round are counted: a round gains snapshots while it  *)
(* is the cache round and is final once the cache round moves past it.     *)
(* WriteRoundWork is given the count of snapshots it writes (0 for nil).   *)
(***************************************************************************)
EXTENDS Integers

CONSTANTS
    Mainnet,      \* node.isMainnet()
    ForkRound,    \* first round whose first snapshot is at or after SnapshotRoundDayLeapForkHack
    MaxRound,     \* bound on the cache round
    MaxSnaps,     \* bound on the snapshots of a round
    MaxFaults,    \* bound on store conflicts and read errors
    MaxRestarts   \* bound on the restarts of the node

ASSUME AggregatorAssumption ==
    /\ Mainnet \in BOOLEAN
    /\ ForkRound \in Nat
    /\ MaxRound \in Nat /\ MaxSnaps \in Nat \ {0}
    /\ MaxFaults \in Nat /\ MaxRestarts \in Nat

Rounds == 0 .. MaxRound

NotWritten == -1

VARIABLES
    crn,       \* chain.State.CacheRound.Number
    snaps,     \* snaps[r]: the snapshots of round r in the store
    written,   \* written[r]: what WriteRoundWork last stored for round r
    offset,    \* the work offset ReadWorkOffset returns
    pc,        \* "init", "loop", "read", "write" or "panicked"
    round,     \* the loop's round cursor
    lcrn,      \* the loop's crn, read at the top of the iteration
    lsnaps,    \* the loop's snapshots slice (0 for nil)
    faults,    \* store conflicts and read errors so far
    restarts   \* restarts so far

env   == <<crn, snaps>>
store == <<written, offset>>
proc  == <<pc, round, lcrn, lsnaps>>
vars  == <<env, store, proc, faults, restarts>>

\* What a complete aggregation of round r writes: nothing for a round before
\* the day-leap fork on mainnet, all of its snapshots otherwise.
Expected(r) == IF Mainnet /\ r < ForkRound THEN 0 ELSE snaps[r]

Init ==
    /\ crn = 0
    /\ snaps = [r \in Rounds |-> 0]
    /\ written = [r \in Rounds |-> NotWritten]
    /\ offset = 0
    /\ pc = "init"
    /\ round = 0 /\ lcrn = 0 /\ lsnaps = 0
    /\ faults = 0 /\ restarts = 0

\* Mutant: the loop resumes after the stored offset instead of at it.
StartAfterOffset ==
    /\ pc = "init"
    /\ round' = offset + 1
    /\ pc' = "loop"
    /\ UNCHANGED <<env, store, lcrn, lsnaps, faults, restarts>>

\* Mutant: the loop ignores the stored offset and starts from round 0.
StartFromZero ==
    /\ pc = "init"
    /\ round' = 0
    /\ pc' = "loop"
    /\ UNCHANGED <<env, store, lcrn, lsnaps, faults, restarts>>

\* round, err := ReadWorkOffset(chain.ChainId).
Start ==
    /\ pc = "init"
    /\ round' = offset
    /\ pc' = "loop"
    /\ UNCHANGED <<env, store, lcrn, lsnaps, faults, restarts>>

\* Mutant: the panic also fires when the cursor is at the cache round.
CheckCacheRoundInclusive ==
    /\ pc = "loop"
    /\ lcrn' = crn
    /\ pc' = IF crn <= round THEN "panicked" ELSE "read"
    /\ UNCHANGED <<env, store, round, lsnaps, faults, restarts>>

\* crn := chain.State.CacheRound.Number, and the panic when it is behind
\* the cursor.
CheckCacheRound ==
    /\ pc = "loop"
    /\ lcrn' = crn
    /\ pc' = IF crn < round THEN "panicked" ELSE "read"
    /\ UNCHANGED <<env, store, round, lsnaps, faults, restarts>>

\* ReadSnapshotWorksForNodeRound: an error or no snapshots start the next
\* iteration (the latter after waiting); otherwise the snapshots are kept.
ReadSnapshots ==
    /\ pc = "read"
    /\ \/ /\ faults < MaxFaults
          /\ faults' = faults + 1
          /\ pc' = "loop"
          /\ UNCHANGED lsnaps
       \/ /\ snaps[round] = 0
          /\ pc' = "loop"
          /\ UNCHANGED <<lsnaps, faults>>
       \/ /\ snaps[round] > 0
          /\ lsnaps' = snaps[round]
          /\ pc' = "write"
          /\ UNCHANGED faults
    /\ UNCHANGED <<env, store, round, lcrn, restarts>>

\* Mutant: the cursor also advances past the cache round it wrote.
AdvanceInclusive(r, c) == IF r <= c THEN r + 1 ELSE r

\* After a successful write the cursor moves on only if the round was
\* already behind the cache round read at the top of the iteration.
Advance(r, c) == IF r < c THEN r + 1 ELSE r

\* One pass of the inner loop: on mainnet the first snapshot's timestamp is
\* compared with the fork (indexing the slice, which is nil after a first
\* pre-fork pass), then WriteRoundWork either conflicts (and the inner loop
\* runs again) or succeeds (and the cursor may advance).
WriteRoundWork ==
    /\ pc = "write"
    /\ IF Mainnet /\ lsnaps = 0
       THEN pc' = "panicked" /\ UNCHANGED <<store, round, lsnaps, faults>>
       ELSE LET s == IF Mainnet /\ round < ForkRound THEN 0 ELSE lsnaps
            IN  \/ /\ faults < MaxFaults
                   /\ faults' = faults + 1
                   /\ lsnaps' = s
                   /\ UNCHANGED <<store, round, pc>>
                \/ /\ written' = [written EXCEPT ![round] = s]
                   /\ offset' = round
                   /\ round' = Advance(round, lcrn)
                   /\ lsnaps' = s
                   /\ pc' = "loop"
                   /\ UNCHANGED faults
    /\ UNCHANGED <<env, lcrn, restarts>>

\* The node stops (a crash, or a panic) and is restarted; the loop's local
\* state is lost.
Restart ==
    /\ pc # "init"
    /\ restarts < MaxRestarts
    /\ pc' = "init"
    /\ round' = 0 /\ lcrn' = 0 /\ lsnaps' = 0
    /\ restarts' = restarts + 1
    /\ UNCHANGED <<env, store, faults>>

\* Consensus adds a snapshot of this chain to the cache round.
AddSnapshot ==
    /\ snaps[crn] < MaxSnaps
    /\ snaps' = [snaps EXCEPT ![crn] = @ + 1]
    /\ UNCHANGED <<crn, store, proc, faults, restarts>>

\* The cache round is finalized and the next one begins.
AdvanceCacheRound ==
    /\ crn < MaxRound
    /\ snaps[crn] > 0
    /\ crn' = crn + 1
    /\ UNCHANGED <<snaps, store, proc, faults, restarts>>

Aggregate == Start \/ CheckCacheRound \/ ReadSnapshots \/ WriteRoundWork

Next ==
    \/ Aggregate
    \/ Restart
    \/ AddSnapshot
    \/ AdvanceCacheRound

Spec == Init /\ [][Next]_vars

\* The aggregation goroutine runs for as long as the chain runs.
FairSpec == Spec /\ WF_vars(Aggregate)

-----------------------------------------------------------------------------
(* Properties *)

TypeOK ==
    /\ crn \in Rounds
    /\ snaps \in [Rounds -> 0 .. MaxSnaps]
    /\ written \in [Rounds -> {NotWritten} \cup 0 .. MaxSnaps]
    /\ offset \in Rounds
    /\ pc \in {"init", "loop", "read", "write", "panicked"}
    /\ round \in Rounds /\ lcrn \in Rounds /\ lsnaps \in 0 .. MaxSnaps
    /\ faults \in 0 .. MaxFaults /\ restarts \in 0 .. MaxRestarts

(***************************************************************************)
(* Every round the loop has moved past, and every round before the stored *)
(* work offset, holds the complete works of that round: a round written    *)
(* while it was still the cache round is written again once it is final.  *)
(***************************************************************************)
AggregatedComplete ==
    \A r \in Rounds :
        (r < offset \/ (pc \in {"loop", "read", "write"} /\ r < round))
            => written[r] = Expected(r)

(***************************************************************************)
(* The cursor never passes the cache round, across restarts: the "waiting" *)
(* panic of AggregateMintWork (crn < round) cannot fire.                   *)
(***************************************************************************)
CursorWithinCache ==
    pc \in {"loop", "read", "write"} => round <= crn

(***************************************************************************)
(* AggregateMintWork never panics.                                        *)
(***************************************************************************)
NoPanic == pc # "panicked"

(***************************************************************************)
(* The only panic of AggregateMintWork is the nil-slice one of a pre-fork *)
(* round on mainnet: the "waiting" panic never fires, and a write that    *)
(* finds no snapshot slice is one that a conflict retry of a pre-fork     *)
(* round reached.                                                          *)
(***************************************************************************)
PanicOnlyPreFork ==
    pc = "panicked" => Mainnet /\ round < ForkRound

(***************************************************************************)
(* Every round that the cache round has moved past is eventually          *)
(* aggregated completely, whatever conflicts, read errors and restarts     *)
(* happen on the way.                                                      *)
(***************************************************************************)
AggregationProgress ==
    \A r \in Rounds : (r < crn) ~> (written[r] = Expected(r))

-----------------------------------------------------------------------------
(* Refinement of AggregationAbstract *)

\* The rounds before the stored work offset, with what was written for them,
\* are the rounds the chain has aggregated.
AggregatedWorks == [r \in Rounds |-> IF r < offset THEN written[r] ELSE NotWritten]

Abstract == INSTANCE AggregationAbstract WITH works <- AggregatedWorks, aggregated <- offset

(***************************************************************************)
(* AggregateMintWork implements the abstract aggregation: the stored work *)
(* offset moves one round at a time, never past the cache round and never *)
(* back, across restarts that resume from ReadWorkOffset; and what is     *)
(* stored for a round behind the offset is its complete works and is      *)
(* never rewritten.                                                        *)
(***************************************************************************)
AggregationRefined == Abstract!Spec

=============================================================================

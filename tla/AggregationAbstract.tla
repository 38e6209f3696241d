------------------------- MODULE AggregationAbstract -------------------------
(***************************************************************************)
(* What the round-work aggregation of a chain promises (spec section 5):  *)
(* rounds are aggregated one at a time in round order, each only once it *)
(* is final (behind the cache round), and each with the complete works of *)
(* the round; an aggregated round is never aggregated again or taken      *)
(* back.  The cache round and its snapshots evolve as in Aggregator.      *)
(***************************************************************************)
EXTENDS Integers

CONSTANTS Mainnet, ForkRound, MaxRound, MaxSnaps

Rounds == 0 .. MaxRound

NotWritten == -1

VARIABLES
    crn,         \* the cache round
    snaps,       \* snaps[r]: the snapshots of round r
    works,       \* works[r]: the aggregated works of round r, or NotWritten
    aggregated   \* rounds below it are aggregated

vars == <<crn, snaps, works, aggregated>>

\* The complete works of round r: nothing for a round before the day-leap
\* fork on mainnet, all of its snapshots otherwise.
Expected(r) == IF Mainnet /\ r < ForkRound THEN 0 ELSE snaps[r]

Init ==
    /\ crn = 0
    /\ snaps = [r \in Rounds |-> 0]
    /\ works = [r \in Rounds |-> NotWritten]
    /\ aggregated = 0

\* The next round in order, once final, is aggregated with its works.
AggregateRound ==
    /\ aggregated < crn
    /\ works' = [works EXCEPT ![aggregated] = Expected(aggregated)]
    /\ aggregated' = aggregated + 1
    /\ UNCHANGED <<crn, snaps>>

AddSnapshot ==
    /\ snaps[crn] < MaxSnaps
    /\ snaps' = [snaps EXCEPT ![crn] = @ + 1]
    /\ UNCHANGED <<crn, works, aggregated>>

AdvanceCacheRound ==
    /\ crn < MaxRound
    /\ snaps[crn] > 0
    /\ crn' = crn + 1
    /\ UNCHANGED <<snaps, works, aggregated>>

Next == AggregateRound \/ AddSnapshot \/ AdvanceCacheRound

Spec == Init /\ [][Next]_vars

=============================================================================

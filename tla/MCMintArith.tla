---------------------------- MODULE MCMintArith ----------------------------
(***************************************************************************)
(* A day-by-day walk over the batches that exercises the pure arithmetic  *)
(* of MintArith: at every step the gates of mint.go issue the amount of   *)
(* the batches since the last mint at the current batch's daily rate      *)
(* (amount = total.Mul(batch - dist.Batch)), with gaps of up to MaxGap    *)
(* batches as when a day's mint is missed.                                 *)
(***************************************************************************)
EXTENDS MintArith

CONSTANTS MaxBatch, MaxGap

VARIABLES batch, issuedUniversal, issuedLegacy

vars == <<batch, issuedUniversal, issuedLegacy>>

Init ==
    /\ batch = 0
    /\ issuedUniversal = 0
    /\ issuedLegacy = 0

Mint(next) ==
    /\ batch' = next
    /\ issuedUniversal' = issuedUniversal + UniversalBatchAmount(next) * (next - batch)
    /\ issuedLegacy' = issuedLegacy + LegacyBatchAmount(next) * (next - batch)

Next ==
    \/ \E next \in batch + 1 .. batch + MaxGap :
          /\ next <= MaxBatch
          /\ Mint(next)
    \/ batch = MaxBatch /\ UNCHANGED vars

Spec == Init /\ [][Next]_vars

TypeOK ==
    /\ batch \in 0 .. MaxBatch
    /\ issuedUniversal \in Nat
    /\ issuedLegacy \in Nat

(***************************************************************************)
(* What the gates have issued up to a batch never exceeds what the pool   *)
(* accounting (poolSizeUniversal / poolSizeLegacy) says has left the pool:*)
(* the two separately written year loops of mint.go agree, across year    *)
(* boundaries and catch-up mints.                                          *)
(***************************************************************************)
GateWithinPool ==
    /\ issuedUniversal <= MintPool - poolSizeUniversal(batch)
    /\ issuedLegacy <= MintPool - poolSizeLegacy(batch)

(***************************************************************************)
(* The pool never grows from one batch to a later one.                    *)
(***************************************************************************)
PoolShrinks ==
    [][\A legacy \in BOOLEAN : PoolSize(legacy, batch') <= PoolSize(legacy, batch)]_vars

=============================================================================

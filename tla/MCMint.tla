------------------------------- MODULE MCMint -------------------------------
(***************************************************************************)
(* Constant values for checking Mint with TLC.                            *)
(***************************************************************************)
EXTENDS Mint

\* The clamped works of three kernel nodes: one clamped up to avg/7, one
\* at the average, one clamped down to 2 * avg (avg = 7).
MCWorks == <<1, 7, 14>>

=============================================================================

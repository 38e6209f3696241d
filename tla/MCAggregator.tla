----------------------------- MODULE MCAggregator -----------------------------
(* Model-checking instance of Aggregator: the constants are set in the    *)
(* cfg files; the state constraint keeps the cursor's restarts and faults *)
(* within their bounds (they are also guards).                             *)
EXTENDS Aggregator

=============================================================================

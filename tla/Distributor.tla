----------------------------- MODULE Distributor -----------------------------
(***************************************************************************)
(* distributeKernelMintByWorks of src/kernel/mint.go: the split of a mint *)
(* amount among the accepted kernel nodes by their work of the previous  *)
(* day.                                                                    *)
(*                                                                         *)
(* Amounts are common.Integer values counted in units of 1/Precision      *)
(* (10^8 in the code), so that Div is floor division at that unit, as in  *)
(* the code.  The accepted nodes are the positions 1..Len(raw) of the     *)
(* list NodesListWithoutState returns; raw[i] is ListNodeWorks' pair      *)
(* <<produced, signed>> for node i.                                        *)
(***************************************************************************)
EXTENDS Integers, Sequences

CONSTANTS
    Precision,  \* units of one XIN in common.Integer
    Thr         \* ConsensusThreshold(timestamp, false)

\* The genesis has seven nodes, so the threshold is at least 2 * 7 / 3 + 1.
\* Only valid >= Thr >= 3 is needed for valid - 2 to be a positive divisor.
ASSUME DistributorAssumption ==
    /\ Precision \in Nat \ {0}
    /\ Thr \in Nat /\ Thr >= 3

\* m.Work = NewInteger(w[0]).Mul(120).Div(100), plus NewInteger(w[1]) when
\* it is positive.
RawWork(w) ==
    (w[1] * Precision * 120) \div 100 + (IF w[2] > 0 THEN w[2] * Precision ELSE 0)

\* The sum of a sequence of amounts (the totalW accumulations).
SeqSum(s) ==
    LET sum[k \in 0 .. Len(s)] == IF k = 0 THEN 0 ELSE sum[k - 1] + s[k]
    IN  sum[Len(s)]

\* Mutant: minW is never taken from the first nonzero work.
StatsNoFirstMin(work) ==
    LET s[k \in 0 .. Len(work)] ==
            IF k = 0 THEN [valid |-> 0, minW |-> 0, maxW |-> 0, totalW |-> 0]
            ELSE LET p == s[k - 1]
                     x == work[k]
                 IN  IF x = 0 THEN p
                     ELSE [valid  |-> p.valid + 1,
                           minW   |-> IF x < p.minW THEN x ELSE p.minW,
                           maxW   |-> IF x > p.maxW THEN x ELSE p.maxW,
                           totalW |-> p.totalW + x]
    IN  s[Len(work)]

\* The statistics loop: nodes with zero work are skipped; the others count
\* towards valid, minW (taken from the first one, then lowered), maxW
\* (raised from zero) and totalW.
Stats(work) ==
    LET s[k \in 0 .. Len(work)] ==
            IF k = 0 THEN [valid |-> 0, minW |-> 0, maxW |-> 0, totalW |-> 0]
            ELSE LET p == s[k - 1]
                     x == work[k]
                 IN  IF x = 0 THEN p
                     ELSE [valid  |-> p.valid + 1,
                           minW   |-> IF p.minW = 0 \/ x < p.minW THEN x ELSE p.minW,
                           maxW   |-> IF x > p.maxW THEN x ELSE p.maxW,
                           totalW |-> p.totalW + x]
    IN  s[Len(work)]

\* Mutant: works at or above 7 * avg are clamped to avg instead of 2 * avg.
ClampUpperAvg(x, avg) ==
    IF x >= avg * 7 THEN avg
    ELSE IF x >= avg THEN x \div 6 + (avg * 5) \div 6
    ELSE IF x <= avg \div 7 THEN avg \div 7
    ELSE x

\* The clamp of every node's work against the trimmed average, in the
\* order of the code's branches; it is applied to every node, including
\* those with zero work.
Clamp(x, avg) ==
    IF x >= avg * 7 THEN avg * 2
    ELSE IF x >= avg THEN x \div 6 + (avg * 5) \div 6
    ELSE IF x <= avg \div 7 THEN avg \div 7
    ELSE x

\* Mutant: Product rounds up instead of down.
ShareCeil(w, total, base) == (w * base + total - 1) \div total

\* m.Work.Ration(totalW).Product(base): floor(w * base / totalW).
Share(w, total, base) == (w * base) \div total

\* The raw works of the accepted nodes, in list order.
Works(raw) == [i \in 1 .. Len(raw) |-> RawWork(raw[i])]

\* avg = totalW.Sub(minW).Sub(maxW).Div(valid - 2): the mean of the nonzero
\* works without one minimum and one maximum.
TrimmedAvg(st) == (st.totalW - st.minW - st.maxW) \div (st.valid - 2)

\* The works after the clamp loop.
Clamped(work, avg) == [i \in DOMAIN work |-> Clamp(work[i], avg)]

\* The outcome of distributeKernelMintByWorks for the raw works of the
\* accepted nodes, the base amount, day - epoch and the outcome of
\* validateWorksAndSpacesAggregator, in the order of its returns: the even
\* split on the epoch day, "not ready", "not valid" (too few nonzero works,
\* or a zero average), and the panic of a Ration with a zero denominator.
Distribute(raw, base, day, ready) ==
    LET n       == Len(raw)
        st      == Stats(Works(raw))
        avg     == TrimmedAvg(st)
        clamped == Clamped(Works(raw), avg)
        total   == SeqSum(clamped)
    IN  IF day = 0 THEN [status |-> "ok", shares |-> [i \in 1 .. n |-> base \div n]]
        ELSE IF ~ready THEN [status |-> "error", shares |-> <<>>]
        ELSE IF st.valid < Thr THEN [status |-> "error", shares |-> <<>>]
        ELSE IF avg = 0 THEN [status |-> "error", shares |-> <<>>]
        ELSE IF total = 0 THEN [status |-> "panic", shares |-> <<>>]
        ELSE [status |-> "ok", shares |-> [i \in 1 .. n |-> Share(clamped[i], total, base)]]

=============================================================================

---------------------------- MODULE MCDistributor ----------------------------
(***************************************************************************)
(* Checks distributeKernelMintByWorks over every assignment of a few raw *)
(* work pairs to five accepted nodes.  Each day ListNodeWorks returns new *)
(* works and validateWorksAndSpacesAggregator may or may not be ready;    *)
(* the first day is the epoch day with its even split.                    *)
(***************************************************************************)
EXTENDS Distributor, FiniteSets, FiniteSetsExt

CONSTANTS
    NodeCount,   \* len(accepted)
    RawChoices,  \* the <<produced, signed>> pairs a node may report
    Base         \* the amount to split

\* ListNodeWorks returns pairs of uint64 counts (common.NewInteger(w[0])).
ASSUME MCDistributorAssumption ==
    /\ NodeCount \in Nat \ {0}
    /\ Base \in Nat
    /\ RawChoices \subseteq Nat \X Nat

VARIABLES
    raw,    \* ListNodeWorks(cids, day - 1), in accepted order
    day,    \* day - epoch of the mint timestamp
    ready   \* validateWorksAndSpacesAggregator returned nil

vars == <<raw, day, ready>>

\* Raw work pairs giving works of 0, 1, 1.2, 15 and 120 XIN units: a
\* silent node, nodes far below, near and far above the average.
MCRawChoices == {<<0, 0>>, <<0, 1>>, <<1, 0>>, <<10, 3>>, <<100, 0>>}

Init ==
    /\ raw \in [1 .. NodeCount -> RawChoices]
    /\ day = 0
    /\ ready \in BOOLEAN

\* A later mint day: node i reports another pair for the previous day, and
\* the aggregates may or may not be ready.
NextDay(i, w) ==
    /\ raw' = [raw EXCEPT ![i] = w]
    /\ day' = 1
    /\ ready' \in BOOLEAN

Next == \E i \in 1 .. NodeCount, w \in RawChoices : NextDay(i, w)

Spec == Init /\ [][Next]_vars

Result == Distribute(raw, Base, day, ready)

TypeOK ==
    /\ raw \in [1 .. NodeCount -> RawChoices]
    /\ day \in {0, 1}
    /\ ready \in BOOLEAN

(***************************************************************************)
(* The statistics loop of distributeKernelMintByWorks computes what the  *)
(* spec says: the number of nonzero works, their minimum and maximum (one *)
(* occurrence each), whatever the order of the accepted nodes.            *)
(***************************************************************************)
StatsMatchReference ==
    LET work == Works(raw)
        nz   == {work[i] : i \in {k \in DOMAIN work : work[k] # 0}}
        st   == Stats(work)
    IN  /\ st.valid = Cardinality({k \in DOMAIN work : work[k] # 0})
        /\ nz # {} => st.minW = Min(nz) /\ st.maxW = Max(nz)

(***************************************************************************)
(* The shares never exceed the base, and the rounding of Ration.Product  *)
(* leaves less than one unit per node for the light or diff output of the *)
(* builders (spec section 8, distributor sum bound).                      *)
(***************************************************************************)
SharesSplitBase ==
    Result.status = "ok" =>
        /\ SeqSum(Result.shares) <= Base
        /\ Base - SeqSum(Result.shares) < NodeCount

(***************************************************************************)
(* A node that did more work the previous day never receives a smaller   *)
(* share than one that did less: the clamp and the ratio keep the order.  *)
(***************************************************************************)
MoreWorkNoLessShare ==
    Result.status = "ok" =>
        \A i, j \in 1 .. NodeCount :
            RawWork(raw[i]) >= RawWork(raw[j]) => Result.shares[i] >= Result.shares[j]

(***************************************************************************)
(* Spec section 8, scenario 6: a node with zero work is excluded from the *)
(* statistics and stays at 0.                                              *)
(***************************************************************************)
ZeroWorkUnpaid ==
    (Result.status = "ok" /\ day # 0) =>
        \A i \in 1 .. NodeCount : RawWork(raw[i]) = 0 => Result.shares[i] = 0

=============================================================================

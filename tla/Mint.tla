-------------------------------- MODULE Mint --------------------------------
(***************************************************************************)
(* The mint engine of src/kernel/mint.go: the MintLoop ticker, the mint   *)
(* gates (checkUniversalMintPossibility, checkLegacyMintPossibility), the *)
(* transaction builders (buildUniversalMintTransaction,                    *)
(* buildLegacyKerneNodeMintTransaction, tryToSlashLegacyLightPool) and    *)
(* the replay check validateMintSnapshot that every node runs on a mint   *)
(* snapshot before it is accepted.                                         *)
(*                                                                         *)
(* The persistent store is shared and linearizable (spec section 5): one  *)
(* sequence of accepted mint snapshots stands for the MintDistribution    *)
(* records every node reads.  Time is node.GraphTimestamp in whole hours  *)
(* since the epoch; a transaction is abstracted to its mint input and the *)
(* amounts and recipients of its outputs, which is what its payload hash  *)
(* depends on.                                                             *)
(***************************************************************************)
EXTENDS MintArith, Sequences

CONSTANTS
    Nil,                  \* no custodian request (ReadCustodian returns nil)
    DomainAccount,        \* ReadDomains()[0].Account
    Custodians,           \* custodian accounts that update requests may name
    Mainnet,              \* node.isMainnet()
    KernelMintTimeBegin,  \* config.KernelMintTimeBegin
    KernelMintTimeEnd,    \* config.KernelMintTimeEnd
    MainnetMintPeriodForkBatch,
    MainnetMintPeriodForkTimeBegin,
    MainnetMintPeriodForkTimeEnd,
    MainnetMintTransactionV2ForkBatch,
    MainnetMintTransactionV3ForkBatch,
    EpochHour,            \* hour of the day (UTC) at which the epoch falls
    Works,                \* the clamped works of the accepted kernel nodes, in list order
    MaxHour,              \* bound on the clock
    MaxCustodianUpdates   \* bound on the custodian update requests

ASSUME MintAssumption ==
    /\ Nil \notin Custodians
    /\ DomainAccount # Nil
    /\ Mainnet \in BOOLEAN
    /\ KernelMintTimeBegin \in 0 .. 23
    /\ KernelMintTimeEnd \in 0 .. 23
    /\ MainnetMintPeriodForkTimeBegin \in 0 .. 23
    /\ MainnetMintPeriodForkTimeEnd \in 0 .. 23
    /\ MainnetMintPeriodForkBatch \in Nat
    /\ MainnetMintTransactionV2ForkBatch \in Nat
    /\ MainnetMintTransactionV3ForkBatch \in Nat \ {0}
    /\ EpochHour \in 0 .. 23
    /\ Works \in Seq(Nat)
    /\ \E k \in DOMAIN Works : Works[k] > 0
    /\ MaxHour \in Nat
    /\ MaxCustodianUpdates \in Nat

VARIABLES
    hour,        \* node.GraphTimestamp, in hours since the epoch
    custodians,  \* custodian update requests [at, account], in the order accepted
    worksDay,    \* last day (counted from the epoch day) whose works and round spaces are aggregated
    mints,       \* accepted mint snapshots [tx, timestamp]: the MintDistribution records
    pending,     \* mint transactions MintLoop appended with AppendSelfEmpty, not yet accepted
    panicked     \* a builder has panicked on some node

vars == <<hour, custodians, worksDay, mints, pending, panicked>>

-----------------------------------------------------------------------------
(* Data *)

Groups == {"KERNELNODE", "UNIVERSAL"}

\* common.MintData: the mint input of a transaction, persisted as a MintDistribution.
MintData == [group : Groups \cup {""}, batch : Nat, amount : Nat]

\* A mint transaction as its payload hash sees it: the mint input, whether it
\* is the historical V1 format, the sum of the kernel node outputs, the
\* custodian output (universal only), and the light / diff output.
Payloads ==
    [v1 : BOOLEAN, mint : MintData, kernel : Nat,
     custodian : Custodians \cup {DomainAccount, Nil}, safe : Nat, light : Nat]

\* A builder returns a transaction, nil, or panics.
NoTx == [v1 |-> FALSE, mint |-> [group |-> "", batch |-> 0, amount |-> 0],
         kernel |-> 0, custodian |-> Nil, safe |-> 0, light |-> 0]
None == [status |-> "none", tx |-> NoTx]
Panic == [status |-> "panic", tx |-> NoTx]
Built(tx) == [status |-> "ok", tx |-> tx]

Dist(i) == mints[i].tx.mint

\* ReadLastMintDistribution(^uint64(0)); the empty store yields the zero record.
LastDist ==
    IF mints = <<>> THEN NoTx.mint ELSE Dist(Len(mints))

\* Node.PoolSize: the pool left at the last distribution's batch, by the
\* legacy schedule for a kernel-node distribution, the universal one
\* otherwise.
NodePoolSize ==
    PoolSize(LastDist.group = "KERNELNODE", LastDist.batch)

\* ReadCustodian(ts): the latest custodian request accepted at or before ts.
ReadCustodian(ts) ==
    LET upTo == {i \in DOMAIN custodians : custodians[i].at <= ts}
    IN  IF upTo = {} THEN Nil
        ELSE custodians[CHOOSE i \in upTo : \A j \in upTo : j <= i].account

\* day - epoch in distributeKernelMintByWorks: timestamp and Epoch are
\* divided by one day separately, so the day changes at midnight, not at the
\* batch boundary.
DayIndex(h) == (EpochHour + h) \div 24

\* The sum of the clamped works, totalW in distributeKernelMintByWorks.
WorkTotal ==
    LET sum[k \in 0 .. Len(Works)] == IF k = 0 THEN 0 ELSE sum[k - 1] + Works[k]
    IN  sum[Len(Works)]

\* The last loop of distributeKernelMintByWorks gives node k the share
\* Works[k].Ration(totalW).Product(base), floor(Works[k] * base / totalW);
\* the builders only add the shares up.
DistributedWork(base) ==
    LET sum[k \in 0 .. Len(Works)] ==
            IF k = 0 THEN 0 ELSE sum[k - 1] + (Works[k] * base) \div WorkTotal
    IN  sum[Len(Works)]

\* validateWorksAndSpacesAggregator: works and round spaces of the day are
\* aggregated for the threshold of nodes; the first day needs none.
WorksReady(h) == DayIndex(h) = 0 \/ worksDay >= DayIndex(h)

-----------------------------------------------------------------------------
(* The mint gates *)

NoMint == [batch |-> 0, amount |-> 0]

\* The mint hours [kmb, kme] of the gates: the configured window, or the
\* mainnet hours [6, 18] for legacy batches before the period fork.
InMintWindow(legacy, h) ==
    LET early == legacy /\ Mainnet /\ h \div 24 < MainnetMintPeriodForkBatch
        kmb   == IF early THEN MainnetMintPeriodForkTimeBegin ELSE KernelMintTimeBegin
        kme   == IF early THEN MainnetMintPeriodForkTimeEnd ELSE KernelMintTimeEnd
    IN  h % 24 >= kmb /\ h % 24 <= kme

\* Mutant: the mint window is checked only when building, not when validating.
CheckMintPossibilityNoWindowOnReplay(legacy, h, validateOnly) ==
    LET batch == h \div 24
        total == IF legacy THEN LegacyBatchAmount(batch) ELSE UniversalBatchAmount(batch)
        dist  == LastDist
    IN  IF batch < 1 \/ ~(validateOnly \/ InMintWindow(legacy, h)) THEN NoMint
        ELSE IF batch < dist.batch THEN NoMint
        ELSE IF batch = dist.batch
             THEN IF validateOnly THEN [batch |-> batch, amount |-> dist.amount] ELSE NoMint
        ELSE [batch |-> batch, amount |-> total * (batch - dist.batch)]

\* Mutant: the replay branch recomputes one day's amount.
CheckMintPossibilityReplayDaily(legacy, h, validateOnly) ==
    LET batch == h \div 24
        total == IF legacy THEN LegacyBatchAmount(batch) ELSE UniversalBatchAmount(batch)
        dist  == LastDist
    IN  IF batch < 1 \/ ~InMintWindow(legacy, h) THEN NoMint
        ELSE IF batch < dist.batch THEN NoMint
        ELSE IF batch = dist.batch
             THEN IF validateOnly THEN [batch |-> batch, amount |-> total] ELSE NoMint
        ELSE [batch |-> batch, amount |-> total * (batch - dist.batch)]

\* checkUniversalMintPossibility (legacy = FALSE) and
\* checkLegacyMintPossibility (legacy = TRUE) at hour h since the epoch, in the
\* order of their early returns.
CheckMintPossibility(legacy, h, validateOnly) ==
    LET batch == h \div 24
        total == IF legacy THEN LegacyBatchAmount(batch) ELSE UniversalBatchAmount(batch)
        dist  == LastDist
    IN  IF batch < 1 \/ ~InMintWindow(legacy, h) THEN NoMint
        ELSE IF batch < dist.batch THEN NoMint
        ELSE IF batch = dist.batch
             THEN IF validateOnly THEN [batch |-> batch, amount |-> dist.amount] ELSE NoMint
        ELSE [batch |-> batch, amount |-> total * (batch - dist.batch)]

-----------------------------------------------------------------------------
(* The transaction builders *)

\* tryToSlashLegacyLightPool returns at once: the mint amount is left alone.
NoSlash(amount) == [panic |-> FALSE, amount |-> amount]

\* Mutant: the slash is taken when the groups are equal.
SlashLegacyLightPoolSameGroup(batch, amount) ==
    LET from  == {i \in DOMAIN mints : Dist(i).batch >= batch - 1}
        first == CHOOSE i \in from : \A j \in from : Dist(i).batch <= Dist(j).batch
    IN  IF ~Mainnet \/ batch < MainnetMintTransactionV3ForkBatch THEN NoSlash(amount)
        ELSE IF from = {} \/ Dist(first).batch + 1 # batch THEN [panic |-> TRUE, amount |-> amount]
        ELSE IF Dist(first).group # "UNIVERSAL" THEN NoSlash(amount)
        ELSE [panic |-> FALSE,
              amount |-> amount + (poolSizeLegacy(Dist(first).batch) - poolSizeUniversal(Dist(first).batch))]

\* Mutant: the two pool sizes are subtracted the wrong way round.
SlashLegacyLightPoolSwapped(batch, amount) ==
    LET from  == {i \in DOMAIN mints : Dist(i).batch >= batch - 1}
        first == CHOOSE i \in from : \A j \in from : Dist(i).batch <= Dist(j).batch
    IN  IF ~Mainnet \/ batch < MainnetMintTransactionV3ForkBatch THEN NoSlash(amount)
        ELSE IF from = {} \/ Dist(first).batch + 1 # batch THEN [panic |-> TRUE, amount |-> amount]
        ELSE IF Dist(first).group = "UNIVERSAL" THEN NoSlash(amount)
        ELSE [panic |-> FALSE,
              amount |-> amount + (poolSizeUniversal(Dist(first).batch) - poolSizeLegacy(Dist(first).batch))]

\* tryToSlashLegacyLightPool: past the V3 fork the previous batch's
\* distribution, ReadMintDistributions(batch-1, 1), must be batch - 1; when
\* its group differs, the legacy light pool is added to the mint amount.
\* Returns the mint amount as the transaction's input leaves it.
SlashLegacyLightPool(batch, amount) ==
    LET from  == {i \in DOMAIN mints : Dist(i).batch >= batch - 1}
        first == CHOOSE i \in from : \A j \in from : Dist(i).batch <= Dist(j).batch
    IN  IF ~Mainnet \/ batch < MainnetMintTransactionV3ForkBatch THEN NoSlash(amount)
        ELSE IF from = {} \/ Dist(first).batch + 1 # batch THEN [panic |-> TRUE, amount |-> amount]
        ELSE IF Dist(first).group = "UNIVERSAL" THEN NoSlash(amount)
        ELSE [panic |-> FALSE,
              amount |-> amount + (poolSizeLegacy(Dist(first).batch) - poolSizeUniversal(Dist(first).batch))]

\* buildUniversalMintTransaction: half of the amount to the kernel nodes by
\* work, four tenths to the custodian, the rest (with the slash) to light.
BuildUniversalMintTransaction(cur, h, validateOnly) ==
    LET g      == CheckMintPossibility(FALSE, h, validateOnly)
        kernel == DistributedWork((g.amount \div 10) * 5)
        safe   == (g.amount \div 10) * 4
        s      == SlashLegacyLightPool(g.batch, g.amount)
        amount == s.amount
    IN  IF g.amount <= 0 \/ g.batch <= 0 THEN None
        ELSE IF ~WorksReady(h) THEN None
        ELSE IF kernel > g.amount \/ kernel + safe > g.amount THEN Panic
        ELSE IF s.panic THEN Panic
        ELSE Built([v1 |-> FALSE,
                    mint |-> [group |-> "UNIVERSAL", batch |-> g.batch, amount |-> amount],
                    kernel |-> kernel,
                    custodian |-> IF cur = Nil THEN DomainAccount ELSE cur,
                    safe |-> safe,
                    light |-> amount - (kernel + safe)])

\* buildLegacyKerneNodeMintTransaction: the whole amount to the kernel nodes
\* by work, the rounding remainder to the diff output.  Before the V2 fork on
\* mainnet the V1 builder issues the same mint input.
BuildLegacyKerneNodeMintTransaction(h, validateOnly) ==
    LET g      == CheckMintPossibility(TRUE, h, validateOnly)
        kernel == DistributedWork(g.amount)
        input  == [group |-> "KERNELNODE", batch |-> g.batch, amount |-> g.amount]
    IN  IF g.amount <= 0 \/ g.batch <= 0 THEN None
        ELSE IF Mainnet /\ g.batch < MainnetMintTransactionV2ForkBatch
             THEN Built([v1 |-> TRUE, mint |-> input, kernel |-> g.amount,
                         custodian |-> Nil, safe |-> 0, light |-> 0])
        ELSE IF ~WorksReady(h) THEN None
        ELSE IF kernel > g.amount THEN Panic
        ELSE Built([v1 |-> FALSE, mint |-> input, kernel |-> kernel,
                    custodian |-> Nil, safe |-> 0, light |-> g.amount - kernel])

\* The path MintLoop and validateMintSnapshot take: legacy while there is no
\* custodian on mainnet, universal otherwise.
BuildMintTransaction(h, validateOnly) ==
    LET cur == ReadCustodian(h)
    IN  IF cur = Nil /\ Mainnet
        THEN BuildLegacyKerneNodeMintTransaction(h, validateOnly)
        ELSE BuildUniversalMintTransaction(cur, h, validateOnly)

-----------------------------------------------------------------------------
(* Actions *)

Init ==
    /\ hour = 0
    /\ custodians = <<>>
    /\ worksDay = 0
    /\ mints = <<>>
    /\ pending = {}
    /\ panicked = FALSE

\* A MintLoop tick: build at GraphTimestamp, sign, cache and AppendSelfEmpty.
MintLoop ==
    LET r == BuildMintTransaction(hour, FALSE)
    IN  /\ IF r.status = "panic"
           THEN panicked' = TRUE /\ UNCHANGED pending
           ELSE /\ pending' = IF r.status = "ok" THEN pending \cup {r.tx} ELSE pending
                /\ UNCHANGED panicked
        /\ UNCHANGED <<hour, custodians, worksDay, mints>>

\* Consensus takes a pending mint snapshot at the current time; every node
\* runs validateMintSnapshot, re-deriving the transaction with
\* validateOnly = TRUE and comparing payloads.  A match is accepted unless the
\* same transaction already was; a mismatch drops the snapshot; a panic leaves
\* it to be retried.
AcceptMintSnapshot(tx) ==
    LET r == BuildMintTransaction(hour, TRUE)
    IN  /\ tx \in pending
        /\ IF r.status = "panic"
           THEN panicked' = TRUE /\ UNCHANGED <<pending, mints>>
           ELSE /\ pending' = pending \ {tx}
                /\ mints' = IF r.tx = tx /\ \A i \in DOMAIN mints : mints[i].tx # tx
                            THEN Append(mints, [tx |-> tx, timestamp |-> hour])
                            ELSE mints
                /\ UNCHANGED panicked
        /\ UNCHANGED <<hour, custodians, worksDay>>

\* The consensus clock advances.
AdvanceClock ==
    /\ hour < MaxHour
    /\ hour' = hour + 1
    /\ UNCHANGED <<custodians, worksDay, mints, pending, panicked>>

\* AggregateMintWork and the round-space checkpoints catch up by one day.
AggregateWorks ==
    /\ worksDay < DayIndex(hour)
    /\ worksDay' = worksDay + 1
    /\ UNCHANGED <<hour, custodians, mints, pending, panicked>>

\* A custodian update request is accepted; its timestamp follows those of
\* the mint snapshots of the current hour, so it counts from the next hour.
UpdateCustodian(c) ==
    /\ Len(custodians) < MaxCustodianUpdates
    /\ hour < MaxHour
    /\ custodians' = Append(custodians, [at |-> hour + 1, account |-> c])
    /\ UNCHANGED <<hour, worksDay, mints, pending, panicked>>

Next ==
    \/ MintLoop
    \/ \E tx \in pending : AcceptMintSnapshot(tx)
    \/ AdvanceClock
    \/ AggregateWorks
    \/ \E c \in Custodians : UpdateCustodian(c)

Spec == Init /\ [][Next]_vars

-----------------------------------------------------------------------------
(* Properties *)

TypeOK ==
    /\ hour \in 0 .. MaxHour
    /\ custodians \in Seq([at : 1 .. MaxHour, account : Custodians])
    /\ worksDay \in Nat
    /\ mints \in Seq([tx : Payloads, timestamp : 0 .. MaxHour])
    /\ pending \subseteq Payloads
    /\ panicked \in BOOLEAN

\* The total of the mint inputs of the accepted mint transactions.
IssuedUpTo[n \in Nat] ==
    IF n = 0 THEN 0 ELSE IssuedUpTo[n - 1] + Dist(n).amount
Issued == IssuedUpTo[Len(mints)]

(***************************************************************************)
(* The mint never outruns the pool: what the accepted mint transactions   *)
(* have issued, catch-up mints and the legacy light-pool slash included,  *)
(* is within what Node.PoolSize says has left the pool at the last batch. *)
(***************************************************************************)
IssuedWithinPool ==
    Issued <= MintPool - NodePoolSize

(***************************************************************************)
(* A mint snapshot is accepted only for the batch of its own timestamp   *)
(* and only when that timestamp is within the gate's mint hours: a        *)
(* snapshot MintLoop built on one day and ordered by consensus later is   *)
(* never accepted outside the window, for a later batch, or for its old   *)
(* batch.                                                                  *)
(***************************************************************************)
MintedInWindow ==
    \A i \in DOMAIN mints :
        LET m == mints[i]
        IN  /\ m.tx.mint.batch = m.timestamp \div 24
            /\ m.tx.mint.batch >= 1
            /\ InMintWindow(m.tx.mint.group = "KERNELNODE", m.timestamp)

(***************************************************************************)
(* No node panics in a mint builder (tryToSlashLegacyLightPool, the       *)
(* total > amount checks), neither in MintLoop nor in validateMintSnapshot.*)
(***************************************************************************)
NoPanic == panicked = FALSE

(***************************************************************************)
(* Validation round trip (spec section 8): the last accepted mint         *)
(* snapshot, re-derived with validateOnly = TRUE at its timestamp against *)
(* the persisted distributions, yields its own payload, so that a node    *)
(* that validates it after it was persisted accepts it too.               *)
(***************************************************************************)
ReplayRoundTrip ==
    mints # <<>> =>
        LET m == mints[Len(mints)]
        IN  BuildMintTransaction(m.timestamp, TRUE) = Built(m.tx)

=============================================================================

# A TLA+ model of the Mixin kernel mint engine

This directory models `src/kernel/mint.go` and `src/kernel/genesis.go` in TLA+.
TLC checks the models on small instances, and TLAPS proves the safety
properties that do not depend on amounts for every value of the constants.

## The system

The mint engine issues XIN from a fixed pool, once per day (a *batch*),
counted from the network epoch. The code has these parts:

| part | code | what it does |
|------|------|--------------|
| pool model | `poolSizeUniversal`, `poolSizeLegacy`, `pledgeAmount`, `PoolSize` | Pure functions. Each full year takes a tenth of the remaining pool. Each day takes a 365th of that tenth. The legacy variant credits only nine tenths of each share. |
| mint gate | `checkUniversalMintPossibility`, `checkLegacyMintPossibility` | Given a timestamp, returns the batch and amount to mint, or nothing. It checks the epoch, `batch >= 1` and the mint window of hours. It then compares the batch with the last persisted distribution: an older batch gets nothing; an equal batch gets nothing, or replays the persisted amount when `validateOnly`; a newer batch gets one daily amount for every batch since the last. |
| builders | `buildUniversalMintTransaction`, `buildLegacyKerneNodeMintTransaction`, `tryToSlashLegacyLightPool` | Turn the gate's result into a transaction. Universal: half to the kernel nodes by work, four tenths to the custodian, and the rest to a light-pool address; past the V3 fork, a batch that follows a legacy batch adds the legacy light pool (the *slash*) to the input. Legacy: everything to the kernel nodes, and the rounding remainder to a diff address. Before the V2 fork it delegates to the V1 builder. |
| distributor | `distributeKernelMintByWorks`, `validateWorksAndSpacesAggregator` | Splits a base amount among the accepted nodes by clamped work. It returns "not ready" until the previous day's works are aggregated. |
| mint loop | `MintLoop`, `tryToMintUniversal`, `tryToMintKernelNodeLegacy` | On every tick, reads the custodian at `GraphTimestamp`, builds with `validateOnly = false`, signs, caches and `AppendSelfEmpty`s the mint snapshot. It uses the legacy path on mainnet when there is no custodian. |
| validation | `validateMintSnapshot` | Every node re-derives the mint at the snapshot's timestamp with `validateOnly = true` and compares payload hashes. |
| aggregation | `AggregateMintWork` | One loop per chain. It copies snapshot works into per-round aggregates and advances a round cursor; it retries on store conflicts. |
| genesis | `LoadGenesis`, `readGenesis` | Validates `genesis.json`, derives the network id, and loads the pledge snapshots once, guarded by a state key. |

How the parts interact:
- The only shared state is the store (spec section 5).
- The mint loop and validation read the last mint distribution and the custodian requests from the store.
- Acceptance by consensus writes a new distribution.
- The aggregation loop writes the works that the distributor waits for.
- Nodes run the mint loop concurrently. Several mint snapshots of one batch can therefore be pending at once, and consensus orders them at a time of its own.

## Modules

| module | models | state / actions |
|--------|--------|-----------------|
| `MintArith` | the pool model and the amounts of the gates | constants only; the year loops of `poolSizeUniversal` and `poolSizeLegacy` are the one-argument recursive functions `YearLoopUniversal` and `YearLoopLegacy` over the step `YearStep` (one function per loop rather than one of two arguments, because the provers cannot handle a function of two arguments), `YearLoop(legacy, y)` picks one, and `PoolSize`, `UniversalBatchAmount`, `LegacyBatchAmount` and `PledgeAmount` are built on it |
| `MCMintArith` | a harness for the pool model | `batch` advances by 1 or 2 (a skipped batch is caught up); the issuance of each gate is accumulated |
| `Mint` | gate, builders, slash, mint loop, validation, custodian updates | variables `hour` (`GraphTimestamp` in hours), `custodians`, `worksDay`, `mints` (the accepted distributions), `pending` (snapshots appended but not yet ordered), `panicked`; actions `MintLoop`, `AcceptMintSnapshot`, `AdvanceClock`, `AggregateWorks`, `UpdateCustodian` |
| `MCMint` | constants for `Mint` | the clamped works `<<1, 7, 14>>` |
| `MintProofs` | TLAPS proofs about `Mint` | see below |
| `Distributor` | `distributeKernelMintByWorks` | constants only: `RawWork` (`w[0] * 1.2 + w[1]`), `Stats` (the statistics loop as a recursive function over the works), `TrimmedAvg`, `Clamp`, `Share` (`Ration(totalW).Product(base)`), and `Distribute`, which returns the even split, "not ready", "not valid" or the shares, in the order of the code's returns |
| `MCDistributor` | a harness for `Distributor` | `raw` (the `ListNodeWorks` pairs of five nodes), `day` and `ready` (the result of `validateWorksAndSpacesAggregator`); each step changes one node's works, so every vector over the choices is reached |
| `Aggregator` | `AggregateMintWork` (one chain) | variables `crn` (the cache round), `snaps` (the snapshot count of each round), `written` and `offset` (the round works and the work offset in the store), and the loop's `pc`, `round`, `lcrn` (its `crn`) and `lsnaps` (its slice; 0 for nil), with `faults` and `restarts`; actions `Start` (`ReadWorkOffset`), `CheckCacheRound`, `ReadSnapshots`, `WriteRoundWork` (one pass of the inner retry loop), `Restart`, and the environment's `AddSnapshot` and `AdvanceCacheRound` |
| `AggregationAbstract` | what the aggregation of a chain promises (spec section 5) | variables `crn`, `snaps`, `works` (the aggregated works of each round) and `aggregated` (rounds below it are done); actions `AggregateRound` (the next round, once final, with its complete works), `AddSnapshot`, `AdvanceCacheRound` |
| `MCAggregator` | the instance for TLC | constants in the cfg files |
| `AggregatorProofs` | TLAPS proofs about `Aggregator` | see below |
| `Genesis` | `LoadGenesis`, `readGenesis` | variables `file` (which candidate `genesis.json` is in place), `stored` (the state key `"network"`), `loads` (the networks whose genesis snapshots were written), `pc`, `restarts`; actions `LoadGenesis` (up to `SnapshotsLoadGenesis`), `SetNetworkState` (`StateSet`), `Restart`, `ReplaceFile` |
| `MCGenesis` | candidate genesis files | a valid file, a valid file of another network, and files with a duplicate address, a bad view key, six nodes, and a balance under the pledge |
| `GenesisProofs` | TLAPS proofs about `Genesis` | see below |
| `DistributorProofs` | TLAPS proofs about `Distributor` | see below |
| `MintArithLemmas` | TLAPS lemmas about `MintArith` | the year loops' recursion, the pool's closed form `MintAmt`, catch-up, and the legacy pool never below the universal one; cited by `MintArithProofs` and `MintProofs` |
| `InductionLemmas` | induction on `Nat` for the proofs | `NatSetInduction`, used by `MintArithProofs` and `DistributorProofs` |

How the code maps to the model:
- **Gate and builders.** Each is an operator of `Mint`, written as an `IF`/`ELSE` chain in the order of the code's early returns. A builder returns `Built(tx)`, `None` (nil) or `Panic`.
- **Transactions.** A transaction is abstracted to what its payload hash depends on: the mint input (group, batch, amount), whether it is a V1 transaction, the sum of the kernel outputs, the custodian, the safe output and the light or diff output.
- **`MintLoop`** is one tick. It uses `BuildMintTransaction(hour, FALSE)`, the branch of `MintLoop` and `validateMintSnapshot` between the two paths. A panic sets `panicked`, and a transaction joins `pending`.
- **`AcceptMintSnapshot(tx)`** is consensus ordering `tx` at the current hour, together with `validateMintSnapshot` on every node. The node rebuilds with `validateOnly = TRUE` and appends the distribution if the payloads are equal. A mismatch drops the snapshot; a panic leaves it pending.
- **Identical transactions.** An identical transaction is accepted once. This models the store's deduplication by transaction hash.
- **Custodian updates** take effect from the next hour, after the mint snapshots of the current hour.
- **Slash.** `SlashLegacyLightPool(batch, amount)` returns the mint amount unchanged on every early return of `tryToSlashLegacyLightPool` (`NoSlash`). Only the last branch adds `poolSizeLegacy(old) - poolSizeUniversal(old)`, as `mint.Amount.Add` does.
- **`AggregateWorks`** abstracts `AggregateMintWork` and the round-space checkpoints to the last aggregated day. `WorksReady` is the readiness test of `validateWorksAndSpacesAggregator`. `DayIndex` is `day - epoch` of the distributor, counted from midnight and not from the epoch hour.

- **Distributor.** Works are `common.Integer`s in units of `1/Precision` (`Precision = 100` in the runs), so every `Div` floors at that unit as in the code. The clamp runs over every node, including those the statistics loop skipped.
- **`NodePoolSize`** is `Node.PoolSize`: the pool left at the last distribution's batch, by the legacy schedule for a `KERNELNODE` distribution and the universal one otherwise. `IssuedWithinPool` compares the issuance with it.
- **Aggregator.** A round gains snapshots only while it is the cache round, and at least one before the cache round moves on. What a complete aggregation writes (`Expected`) is nil for a mainnet round before the day-leap fork, and all of the round's snapshots otherwise. `WriteRoundWork` is assumed to store the work offset together with the round (spec section 6 names only `ReadWorkOffset`). The loop's waits are left out, since a wait changes nothing. `Aggregator` also defines the refinement mapping to `AggregationAbstract`: `aggregated` is the stored work offset, and `works` (`AggregatedWorks`) is what is stored for each round below the offset (nothing above it).
- **Genesis.** `LoadGenesis` is cut in two at the only point where a crash leaves a trace: `SnapshotsLoadGenesis` has written, and `StateSet` has not. `readGenesis` keeps its `inputsFilter`, which is created empty and never written. The network id is the index of the file: the hash of the JSON is taken to be injective.

Modelled from spec section 5, since that code is not under `src/` (these are the `spec_modelled` entries of the map):
- the store, as one linearizable sequence;
- `ReadLastMintDistribution` on an empty store, which returns the zero record;
- `ReadMintDistributions(batch - 1, 1)`, which returns the first distribution at or after `batch - 1`;
- the clock;
- custodian updates.

Amounts are scaled down, because TLC's integers are 32 bits wide:
- `MCMintArith` uses a pool of `500000000` (three decimals of the real 500000 XIN), so that the daily amounts of the first three years are exact.
- `MCMint` uses a pool of 100000 and two batches per year, so that a year boundary, the forks and the switchover all happen within a few days.

## Runs

| run | cfg | checks | result |
|-----|-----|--------|--------|
| mintarith | `MCMintArith.cfg` | `GateWithinPool`, `PoolShrinks` | pass, 2603 states |
| mint_testnet | `MCMint_testnet.cfg` | `ReplayRoundTrip` | pass, 1314970 states |
| mint_mainnet | `MCMint_mainnet.cfg` | `TypeOK`, `IssuedWithinPool`, `MintedInWindow` | pass, 1218779 states |
| mint_panic | `MCMint_panic.cfg` | `NoPanic` | violation (finding) |
| mint_replay | `MCMint_replay.cfg` | `ReplayRoundTrip` | violation (finding) |
| distributor | `MCDistributor.cfg` | `StatsMatchReference`, `SharesSplitBase`, `MoreWorkNoLessShare` | pass, 12500 states |
| distributor_zero | `MCDistributor_zero.cfg` | `ZeroWorkUnpaid` | violation (finding) |
| aggregator | `MCAggregator.cfg` | `AggregatedComplete`, `CursorWithinCache`, `AggregationProgress`, `AggregationRefined`, `PanicOnlyPreFork` | pass, 123132 states |
| aggregator_prefork_conflict | `MCAggregator_prefork.cfg` | `NoPanic` (of `Aggregator`) | violation (finding) |
| genesis | `MCGenesis.cfg` | `UpOnlyOnOwnNetwork`, `StoreBoundOnce`, `StoredNetworkLoaded` | pass, 4599 states |
| genesis_duplicate | `MCGenesis_duplicate.cfg` | `LoadedGenesisValid` | violation (finding) |
| genesis_crash | `MCGenesis_crash.cfg` | `LoadedGenesisOfStoredNetwork` | violation (finding) |

**What the properties say.**
- `GateWithinPool`: the amounts the gates issue over any sequence of batches, with catch-up over skipped batches and across year boundaries, never exceed what `poolSize*` says has left the pool.
- `PoolShrinks`: the pool never grows from one batch to the next.
- `ReplayRoundTrip`: the last accepted mint, rebuilt with `validateOnly` at its timestamp against the persisted store, is the same transaction.
- `IssuedWithinPool`: the sum of the accepted mint inputs (the slash included) is within what the pool model says has left the pool at the last batch.
- `MintedInWindow`: every accepted mint is for the batch of its own timestamp, is at least batch 1, and is inside the window of its group's gate.
- `NoPanic`: no builder panics.
- `StatsMatchReference`: the statistics loop's `valid`, `minW` and `maxW` are the count, minimum and maximum of the nonzero works. `minW` uses zero as "unset".
- `SharesSplitBase`: when the distributor returns shares, they add up to at most the base, and less than one unit per node is lost to rounding.
- `MoreWorkNoLessShare`: a node with more raw work never gets a smaller share, across all the clamp's boundaries.
- `ZeroWorkUnpaid`: a node with zero work on a day past the epoch gets nothing (spec scenario 6).
- `AggregatedComplete`: every round behind the aggregation cursor, or behind the stored work offset, holds the complete works of that round. A round written while it was still the cache round must be written again once it is final.
- `CursorWithinCache`: the cursor never passes the cache round, so the `crn < round` panic cannot fire.
- `AggregationProgress`: every round the cache round has moved past is eventually aggregated completely.
- `AggregationRefined`: the loop implements `AggregationAbstract`. The stored offset moves one round at a time, only over a round that is final and whose complete works are stored, never past the cache round and never back (a restart resumes from `ReadWorkOffset`). What is stored behind the offset is never rewritten.
- `NoPanic` (`Aggregator`): the aggregation loop never panics.
- `PanicOnlyPreFork`: the only panic the aggregation loop can reach is on a mainnet round before the day-leap fork; the cursor check and the conflict retry never panic elsewhere.
- `UpOnlyOnOwnNetwork`: a node that finished `LoadGenesis` runs on the network its store is bound to.
- `StoreBoundOnce`: the state key `"network"` is never rewritten once set.
- `StoredNetworkLoaded`: once the state key names a network, the last genesis whose snapshots were written is that network's. `StateSet` only ever records the network just loaded, across crashes and file replacements.
- `LoadedGenesisValid`: every genesis whose snapshots were loaded satisfies spec section 3: seven nodes, unique addresses, pledged balances, derived view keys.
- `LoadedGenesisOfStoredNetwork`: the store holds only the genesis snapshots of the network it is bound to.

**Findings.**
- **mint_panic.** Catch-up mints leave batches without a distribution. The next universal mint past the V3 fork finds no distribution for `batch - 1`, and `tryToSlashLegacyLightPool` panics on every node, in `MintLoop` and in validation (`mint.go:226`).
- **mint_replay.** The switchover mint is persisted with the slash already in its amount. Its replay starts from that amount and adds the slash again, so a node that validates the snapshot after it was persisted rejects it (`mint.go:234`, `mint.go:458`).
- **distributor_zero.** The clamp raises a node with zero work to `avg/7` (`mint.go:640`), so it is paid. Spec scenario 6 says it gets 0.
- **Clamp idempotence.** No run is needed to see that spec section 8's clamp idempotence fails. A work at or above `7*avg` becomes `2*avg` (`mint.go:637`), which lies in `[avg, 7*avg)`, so a second clamp gives `2*avg/6 + 5*avg/6`, about `7/6*avg`.
- **aggregator_prefork_conflict.** On mainnet, a round before the day-leap fork gets `snapshots = nil` in the inner loop. If `WriteRoundWork` then returns a conflict, the retry reads `snapshots[0]` of the nil slice and panics (`mint.go:83`). Spec section 7 says conflicts are retried.
- **genesis_duplicate.** `inputsFilter` is never written (`genesis.go:149`), so a genesis naming one address twice is accepted.
- **genesis_crash.** A crash between `SnapshotsLoadGenesis` and `StateSet` (`genesis.go:116`), followed by a restart with another `genesis.json`, loads a second network's genesis snapshots into the store and binds it to the second network.

**Bounds.** `MaxHour = 104` covers:
- four batches;
- the mainnet period fork (batch 2), whose mint window is hours 6 to 18;
- the V2 fork (batch 2) and the V3 fork (batch 3);
- a year boundary (two batches per year).

The works of three nodes make the distributor round down, so the light and diff outputs are non-zero. One custodian update is enough to reach the switchover; on testnet it goes to either of two custodians, so the recipient of a re-derived mint can differ from the one the mint loop used. A custodian that changes and changes back within one mint window needs three updates. Then the replay branch (`mint.go:456`) accepts a second, different mint of an already-minted batch, and one mint per batch rests on the store rejecting a second distribution, which the spec does not require. With three updates the pending snapshots and update hours take the state space past thirty million states, beyond a run of a few minutes, and with fewer updates one mint per batch holds by the bound alone. So no run states it: the case is listed as the hazard at `mint.go:456`, with no property.

The mutants listed in `PROJECT.json` change one definition each: a dropped window check, a replay of one day's amount, a slash with swapped operands or the wrong group test, a year counted a batch early, a gate that forgets the elapsed years, and, in the aggregation loop, a resume after the offset, a resume from round 0 that ignores the offset (caught only by `AggregationRefined`), a cursor advanced past the cache round, and a panic at the cache round. Each is caught by its property in its run.

The distributor run covers all 3125 vectors of five nodes over five work pairs: zero works, signatures only, one produced snapshot, and two works large enough to cross `7*avg`. Five nodes with `Thr = 4` reach the "not valid" return, the trimmed average, and each clamp branch. The genesis run allows four restarts, which is enough to crash while loading, replace the file, and load again, twice.

The passing aggregator run uses rounds 0 to 4 with up to two snapshots each, three faults (conflicts or read errors) and two restarts. This is enough to write a round while it is open and again once it is final, to conflict and to hit a read error on one round, to restart after a partial write, and to restart twice around the same offset. The violation run keeps rounds 0 to 3, two faults and one restart. The passing run is off mainnet: on mainnet the pre-fork conflict panics, which the violation run shows (fork at round 1), and which would also break progress. The theorems cover mainnet for every fork round. The aggregator runs do not check deadlock, because a panic ends the process for good once the restarts are used up.

The genesis runs do not check deadlock: once the restarts are used up, a failed node has exited for good (genesis loading never retries), and a running node continues outside this module.

**Fairness.** `AggregationProgress` assumes weak fairness of the aggregation goroutine's steps (`Aggregate`). The goroutine loops for as long as the chain runs, and each of its steps is enabled until taken. No fairness is assumed for the environment, for restarts, or for faults. Faults and restarts are bounded, so the property shows progress after the last fault; a store that fails forever stalls the loop. In `Mint`, the mint loop's ticker would justify weak fairness of `MintLoop`, but consensus ordering of pending snapshots is outside this code, so no liveness property is checked there.

## Proofs

`MintProofs` proves `THEOREM MintedInWindowInvariant == Spec => []MintedInWindow` from `MintAssumption` and `ArithAssumption`.

`MintedInWindow` alone is not inductive, because acceptance appends whatever was pending. The inductive invariant `IInv` adds three facts:
- `hour` is a natural number;
- `mints` has domain `1..n`;
- every pending transaction has batch at least 1, so it is never the empty transaction that a builder returns with nil or a panic.

The lemmas:
- `GateBatch`: a positive batch from a gate is the batch of the hour, and the hour is in the gate's window.
- `UniversalBuilt` and `LegacyBuilt`: a builder returns status `"ok"` only for such a batch, under its group, and otherwise returns the empty transaction.
- `BuildInWindow`: combines the two for the path `MintLoop` and validation choose.

`NextIInv` then has one step per action. Acceptance appends only a transaction equal to one rebuilt at the acceptance hour. The proofs never look at amounts, so the recursive functions of `MintArith` and the work sums stay unexpanded.

`GenesisProofs` proves `THEOREM UpOnlyOnOwnNetworkInvariant == Spec => []UpOnlyOnOwnNetwork` and `THEOREM StoreBoundOnceProperty == Spec => StoreBoundOnce` from `GenesisAssumption`, for any genesis files and any number of restarts. The inductive invariant adds to the type invariant one fact: a node between `SnapshotsLoadGenesis` and `StateSet` has an unbound store. This holds because `LoadGenesis` writes snapshots only after finding the key absent, and only `StateSet` writes the key. `StateSet` therefore never overwrites a bound store, which is the action property. The `LoadGenesis` step is split along the branches of the code's returns.

`AggregatorProofs` proves `THEOREM AggregatedCompleteInvariant == Spec => []AggregatedComplete` and `THEOREM CursorWithinCacheInvariant == Spec => []CursorWithinCache` from `AggregatorAssumption`, for every bound. The inductive invariant `IInv` needs four more facts:
- the stored offset and the loop's `crn` never pass the cache round;
- the cursor is at most the loop's `crn` while it reads or writes;
- a slice held for a round behind the loop's `crn` is that round's complete works (`ToWrite = Expected(round)`), because the round was final when the slice was read;
- rounds behind the cache round never change (lemma `ExpectedStable`).

The `WriteRoundWork` step splits into the panic, the conflict and the success. The success advances the cursor only past a round whose slice was complete.

`AggregatorProofs` also proves `THEOREM AggregationRefinement == Spec => AggregationRefined`, that the loop implements `AggregationAbstract`. For this, `IInv` has one more conjunct: while the loop runs, its cursor is at the stored offset or one round past it. `Start` sets the cursor to the offset, and a successful write sets the offset to the cursor and advances the cursor by at most one. The proof follows the usual layout: `Init` maps to the abstract `Init`, and each step maps to an abstract step or a stutter.
- A step that leaves the store alone is an abstract `AddSnapshot`, an `AdvanceCacheRound`, or a stutter.
- A successful write at the offset rewrites a round that the mapping hides, so it is a stutter.
- A successful write one round past the offset is `AggregateRound`. The round the offset moves over is behind the cursor, so `IInv` says it holds its complete works, and it is behind the cache round.

`DistributorProofs` proves `THEOREM ClampAndShareKeepOrder`. For every nonzero trimmed average, every positive `totalW` and every base, a node with at least as much work as another gets a share at least as large after the clamp and the ratio step. It rests on these lemmas:
- `ClampMonotonePositive`: each branch of the clamp is monotone, and the branches meet without a drop.
- `ClampConstantNegative`: a negative average clamps every work to `2*avg`.
- `ClampBounds`: a positive average clamps into `[avg/7, 2*avg]`.
- `ShareMonotone`: `Ration(totalW).Product(base)` is monotone for a positive total.

`DistributorProofs` also proves the three invariants the `distributor` run checks, for every number of nodes, every base and every raw works (`MCDistributorAssumption`: `ListNodeWorks` returns pairs of natural numbers):
- `THEOREM StatsMatchReferenceInvariant == Spec => []StatsMatchReference`. The loop of `Stats` is reached through `StatsFn`, a `CHOOSE` of the recursive function it defines, whose recursion equation comes from `FiniteNatInductiveDef`. The loop invariant `StatsRef(work, m, p)` says that after `m` works the accumulator counts the nonzero works among them and holds their least, greatest and summed value. It is proved by `NatSetInduction` (lemma `StatsReference`), one step per branch of the loop body (`StatsRefStep`).
- `THEOREM MoreWorkNoLessShareInvariant == Spec => []MoreWorkNoLessShare`. The proof needs the trimmed average to be a positive natural number on the ratio path. The part of `StatsRef` called `StatsOK` gives it. With at least two nonzero works, `totalW >= minW + maxW`, so `(totalW - minW - maxW) / (valid - 2)` is not negative. A negative average, whose clamp branch `ClampConstantNegative` covers, is therefore unreachable. This matters because TLA+'s `\div` says nothing for a negative divisor: without `StatsOK` the share of a negative total would be unspecified. `DistributeOk` collects what the ratio path returns: a positive average, clamped works that are natural numbers, a positive `totalW` (the sum of works of at least 1, by `SeqSumIn` over the sum's recursive function `SumFn`), and the shares. `ClampAndShareKeepOrder` then applies.
- `THEOREM SharesSplitBaseInvariant == Spec => []SharesSplitBase`. `FloorSums` is proved by induction: the sum of `floor(c[k] * base / t)` is at most `floor(sum(c) * base / t)` and more than `sum(c) * base / t - n`. `SplitBound` turns this into the property, both for the first day's even split (clamped works all 1, `t = n`) and for the ratio split. The arithmetic is in small lemmas (`DivBounds`, `AddInt`, `FloorSumStep`) discharged by Zenon, because Z3 fails when the context holds products of variables.

`MintProofs` also proves `THEOREM ReplayRoundTripInvariant == ASSUME Mainnet = FALSE PROVE Spec => []ReplayRoundTrip`. Off mainnet, every accepted mint re-derives to itself when validated after it is persisted. This holds for any number of custodian updates. The inductive invariant `RInv` adds three facts to `IInv` and `ReplayRoundTrip`:
- the custodian requests are a sequence of records, and `worksDay` is a natural number;
- the last accepted mint's timestamp is at most the current `hour`.

The clock bound is what the proof needs. A custodian update is appended at `hour + 1`, after the last mint's timestamp, so `ReadCustodian` at that timestamp is unchanged (lemma `CustodianKept`). Then the replay's builder input is unchanged too.

`CustodianKept` needs a latest request at or before a timestamp. Lemma `MaxExists` gets it from `WFMin` of `WellFoundedInduction` over the well-founded order on `Nat`. The induction lemmas of `NaturalsInduction` take an operator parameter and cannot be used here.

The acceptance step splits in two. The new mint is the rebuilt one, so its replay is its own build: the gate's replay branch returns the persisted batch and amount (`GateRecord`, `BuildRecord`). A step that does not append leaves the replay's inputs alone (`ReplayFrame`). Off mainnet the slash never fires (`OffMainnetUniversal`). On mainnet the theorem is false: `mint_replay` is the counterexample.

`AggregatorProofs` also proves two panic theorems:
- `THEOREM PanicOnlyPreForkInvariant == Spec => []PanicOnlyPreFork`, for every bound and fork round. The strengthening `PInv` adds one fact to `IInv`: a loop about to write with a nil slice (`lsnaps = 0`) is on a mainnet round before the fork. This holds because `ReadSnapshots` moves to the write only with a non-empty slice, and only the pre-fork mainnet branch sets the slice to nil.
- `THEOREM NoPanicOffPreFork == ASSUME ~Mainnet \/ ForkRound = 0 PROVE Spec => []NoPanic`, a corollary: off mainnet, or with the fork at round 0, no round is pre-fork, so the loop never panics.

`GenesisProofs` also proves `THEOREM StoredNetworkLoadedInvariant == Spec => []StoredNetworkLoaded`. The strengthening `LInv` adds one fact: a node between `SnapshotsLoadGenesis` and `StateSet` has just loaded the network of the file in place. A file replacement during that gap would break this. The code reads the file once at start-up, so `ReplaceFile` happens only while the node is down, and a restart leaves the gap.

`MintArithProofs` proves `THEOREM GateWithinPoolInvariant == Spec => []GateWithinPool` and `THEOREM PoolShrinksProperty == Spec => PoolShrinks` for every pool, year length, share and catch-up gap (`ArithAssumption`). The argument works on the loop's closed form. The lemmas that speak of `MintArith` alone are in `MintArithLemmas`:
- `YearLoopUniversalDef` and `YearLoopLegacyDef` give the recursion equation of each loop. They come from `NatInductiveDef` of `NaturalsInduction`, instantiated with an explicit `LAMBDA` for the step.
- `NatSetInduction` (module `InductionLemmas`) is induction on `Nat` for a set, derived from `WFMin`. The library's `NatInduction` takes an operator parameter and cannot be used. Every inductive lemma below applies it to a set defined in the proof.
- `YearLoopFacts`: both loops keep the same pool, and the pool and the mints stay natural numbers.
- `MintAmt(legacy, b)` is what `poolSize*` subtracts at batch `b`: the mint of the full years plus the daily amount times the days of the current year. Lemma `PoolSizeIs` says `PoolSize = MintPool - MintAmt`, and `GateAmounts` says each gate's daily amount is the daily amount of the current year.
- `PoolMono` and `DayMono`: the pool, and so the daily amount, never grows from a year to a later one. `GrowthLB`: over `n` years the mint grows by at least `n` years of the later year's daily amount. This holds because a year's mint is at least `MintYearBatches` of its own daily amount (`ShDay`), also with the 9/10 share of the legacy gate.
- `Catchup`: from batch `b` to a later `b2`, `MintAmt` grows by at least `b2 - b` times the daily amount at `b2`. A gate that catches up over skipped batches multiplies that daily amount by the gap, so it issues at most what the pool lost.

The inductive invariant is `IInv`: for each gate, the issued total is a natural number of at most `MintAmt(legacy, batch)`. `GateWithinPool` alone is not inductive, because it speaks of `PoolSize`, whose closed form the step must see. `Catchup` carries `IInv` over a mint step, and `PoolShrinks` follows from `Catchup` with a nonnegative daily amount.

`MintProofs` also proves `THEOREM TypeOKInvariant == Spec => []TypeOK` for `Mint`, on mainnet and off, for every value of the constants and any custodian updates. `TypeOK` is inductive as it stands. Its real content is that every transaction `MintLoop` enqueues is in `Payloads`: every amount of it is a natural number, so no output is negative. The lemma `BuildPayload` proves this for both builders, and it rests on these lemmas:
- `GateNat`: a gate's amount is the replayed distribution's (`LastDistType`), or the daily issue times the batches caught up (`GateAmountsNat`).
- `DistributedWorkNat`: the builders' sum of the kernel shares is a natural number. It needs `totalW` positive (`WorkTotalPositive`). That follows from `MintAssumption`, which requires a positive clamped work, by induction over the sum (`WorkTotalFn`, `NatSetInduction`).
- `SlashNat`: past the V3 fork, `tryToSlashLegacyLightPool` adds `poolSizeLegacy - poolSizeUniversal` of a persisted distribution's batch. `MinExists` puts `ReadMintDistributions`' first record among the persisted ones. `LegacyPoolAbove` (in `MintArithLemmas`) shows the difference is a natural number: both loops keep the same pool, and the legacy loop credits nine tenths of each year (`LegacyMintBelow`).
- The panic guards `kernel + safe > amount` and `kernel > amount` then keep the light output and the diff output natural.

In `Mint` the gates and builders are applied to the literals `TRUE` and `FALSE`, and the SMT backend fails on such applications. The proofs therefore name these terms with local definitions, hide them, and let Zenon expand them.

What stays with TLC:
- `IssuedWithinPool` of `Mint`. It rests on one mint per batch, which holds only while custodian updates are bounded (see Bounds). A second mint of a batch issues that batch twice, so the invariant is not true for every value of the constants. `NoPanic` of `Mint` is violated on mainnet.
- Liveness (`AggregationProgress`): the provers have no liveness reasoning with `ENABLED` here.
- The aggregator's `NoPanic` on mainnet with a positive fork round: it is violated there (the finding). The theorems prove it elsewhere, and prove that the pre-fork panic is the only one.

## Not modelled

- `TransactionMintWorkHacks`: the pinned transactions are not in `src/`.
- The V1 builder's payload: it is assumed to carry the same mint input.
- Seeds, scripts, keys, signing, JSON and hashing.
- In `Mint`, a fixed vector of clamped works stands for the distributor. `Distributor` checks the distributor on its own.
- The distributor's store reads, the `day < epoch` panic (`MintLoop` never runs before the epoch), and the round-space checks of `validateWorksAndSpacesAggregator`, which are abstracted to a flag.
- In `AggregateMintWork`, the wait while `chain.State` is nil, and the panics on `ReadWorkOffset` errors and non-conflict write errors (fatal by design).
- The contents of the genesis snapshots (keys, scripts, topological order) and the in-memory `ConsensusNodes` list.
- The wall-clock fallback of `validateMintSnapshot` for self-proposed snapshots with timestamp 0.

## Plan

1. Done: `Distributor`. Division by zero at `valid == 2` cannot happen, because the threshold of a network of seven or more nodes is at least 5.
2. Done: `Aggregator` and `AggregatorProofs`.
3. Done: `Genesis` and `GenesisProofs`.
4. Done in part: `AggregationAbstract` and the refinement proof of `Aggregator`. Left: an abstract "one mint per batch" specification with `Mint` refining it. This holds only while custodian updates are bounded (see Bounds). For every value of the constants it needs a store that rejects a second distribution of a batch, and that store is outside `src/`. Its model comes first.
5. Done in part: TLAPS proves `MintedInWindow`, off mainnet `ReplayRoundTrip`, and the pool bounds `GateWithinPool` and `PoolShrinks`. Also done: `TypeOK` of `Mint`. Left: `IssuedWithinPool` of `Mint`, which holds only while custodian updates are bounded (item 4). Done: the distributor's invariants `StatsMatchReference`, `SharesSplitBase` and `MoreWorkNoLessShare`.
6. `validateWorksAndSpacesAggregator` in detail (works and round-space counts), composed with per-chain aggregation cursors, so that the distributor's readiness comes from the aggregated rounds. This is the hazard at `mint.go:583`. Readiness counts the nodes that have works for today, at least the threshold of them. The distribution reads every node's works for yesterday, and these can still grow for a node whose chain lags. Then `MintLoop` and a later validator derive different shares. Which node a round's work is credited to is decided in the storage layer, outside `src/`.

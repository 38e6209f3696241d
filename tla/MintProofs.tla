------------------------------ MODULE MintProofs ------------------------------
(***************************************************************************)
(* Proofs about the mint engine of Mint.tla, for every value of the       *)
(* constants that MintAssumption allows.                                   *)
(*                                                                         *)
(* The argument for MintedInWindow: whatever the builders do with the     *)
(* amounts (work distribution, slash, catch-up), a transaction they return *)
(* with status "ok" carries the batch of the hour it was built at, that   *)
(* batch is at least 1, and the hour is within the mint window of the     *)
(* gate its group went through.  validateMintSnapshot accepts a snapshot  *)
(* only when the transaction rebuilt at the snapshot's hour equals it, so *)
(* the accepted snapshot inherits these facts from the rebuilt one.  The  *)
(* amounts themselves are never looked at, so the recursive functions of  *)
(* MintArith stay unexpanded.                                              *)
(***************************************************************************)
EXTENDS Mint, MintArithLemmas, WellFoundedInduction, SequenceTheorems, TLAPS

(***************************************************************************)
(* The inductive invariant: the clock is a natural number, mints is a     *)
(* sequence, every pending mint transaction was built for a batch of at   *)
(* least 1 (so it is never the empty transaction a builder returns with   *)
(* nil or a panic), and MintedInWindow.                                    *)
(***************************************************************************)
IInv ==
    /\ hour \in Nat
    /\ \E n \in Nat : DOMAIN mints = 1 .. n
    /\ \A tx \in pending : tx.mint.batch >= 1
    /\ MintedInWindow

-----------------------------------------------------------------------------

(***************************************************************************)
(* checkUniversalMintPossibility and checkLegacyMintPossibility return a  *)
(* positive batch only for the batch of the hour they are asked about,   *)
(* and only inside their mint window.                                      *)
(***************************************************************************)
LEMMA GateBatch ==
    ASSUME NEW legacy \in BOOLEAN, NEW h \in Nat, NEW vo \in BOOLEAN,
           ~(CheckMintPossibility(legacy, h, vo).batch <= 0)
    PROVE  /\ CheckMintPossibility(legacy, h, vo).batch = h \div 24
           /\ CheckMintPossibility(legacy, h, vo).batch >= 1
           /\ InMintWindow(legacy, h)
BY DEF CheckMintPossibility, NoMint

(***************************************************************************)
(* buildUniversalMintTransaction returns a transaction only for the batch *)
(* of the build hour, inside the window of the universal gate and under   *)
(* the UNIVERSAL group; otherwise the empty one.                           *)
(***************************************************************************)
LEMMA UniversalBuilt ==
    ASSUME NEW cur, NEW h \in Nat, NEW vo \in BOOLEAN
    PROVE  LET R == BuildUniversalMintTransaction(cur, h, vo)
           IN  /\ R.status = "ok" => /\ R.tx.mint.group = "UNIVERSAL"
                                     /\ R.tx.mint.batch = h \div 24
                                     /\ R.tx.mint.batch >= 1
                                     /\ InMintWindow(FALSE, h)
               /\ R.status # "ok" => R.tx = NoTx
<1> DEFINE R == BuildUniversalMintTransaction(cur, h, vo)
           g == CheckMintPossibility(FALSE, h, vo)
<1>2. R.status = "ok" => R.tx.mint.group = "UNIVERSAL" /\ R.tx.mint.batch = g.batch /\ ~(g.batch <= 0)
  BY Zenon DEF BuildUniversalMintTransaction, None, Panic, Built
<1>3. R.status # "ok" => R.tx = NoTx
  BY DEF BuildUniversalMintTransaction, None, Panic, Built
<1>4. ~(g.batch <= 0) => g.batch = h \div 24 /\ g.batch >= 1 /\ InMintWindow(FALSE, h)
  BY GateBatch
<1>5. QED
  BY <1>2, <1>3, <1>4, Zenon

(***************************************************************************)
(* buildLegacyKerneNodeMintTransaction, and the V1 builder before the V2  *)
(* fork, likewise inside the window of the legacy gate and under the      *)
(* KERNELNODE group.                                                       *)
(***************************************************************************)
LEMMA LegacyBuilt ==
    ASSUME NEW h \in Nat, NEW vo \in BOOLEAN
    PROVE  LET R == BuildLegacyKerneNodeMintTransaction(h, vo)
           IN  /\ R.status = "ok" => /\ R.tx.mint.group = "KERNELNODE"
                                     /\ R.tx.mint.batch = h \div 24
                                     /\ R.tx.mint.batch >= 1
                                     /\ InMintWindow(TRUE, h)
               /\ R.status # "ok" => R.tx = NoTx
<1> DEFINE R == BuildLegacyKerneNodeMintTransaction(h, vo)
           g == CheckMintPossibility(TRUE, h, vo)
<1>2. R.status = "ok" => R.tx.mint.group = "KERNELNODE" /\ R.tx.mint.batch = g.batch /\ ~(g.batch <= 0)
  BY Zenon DEF BuildLegacyKerneNodeMintTransaction, None, Panic, Built
<1>3. R.status # "ok" => R.tx = NoTx
  BY DEF BuildLegacyKerneNodeMintTransaction, None, Panic, Built
<1>4. ~(g.batch <= 0) => g.batch = h \div 24 /\ g.batch >= 1 /\ InMintWindow(TRUE, h)
  BY GateBatch
<1>5. QED
  BY <1>2, <1>3, <1>4, Zenon

(***************************************************************************)
(* What MintLoop and validateMintSnapshot build: a transaction for the    *)
(* batch of the build hour, at least 1, inside the window of its group's  *)
(* gate; or no transaction at all.                                         *)
(***************************************************************************)
LEMMA BuildInWindow ==
    ASSUME NEW h \in Nat, NEW vo \in BOOLEAN
    PROVE  LET R == BuildMintTransaction(h, vo)
           IN  /\ R.status = "ok" =>
                    /\ R.tx.mint.batch = h \div 24
                    /\ R.tx.mint.batch >= 1
                    /\ InMintWindow(R.tx.mint.group = "KERNELNODE", h)
               /\ R.status # "ok" => R.tx = NoTx
<1> DEFINE cur == ReadCustodian(h)
           R   == BuildMintTransaction(h, vo)
<1>1. CASE cur = Nil /\ Mainnet
  <2> DEFINE L == BuildLegacyKerneNodeMintTransaction(h, vo)
  <2>1. R = L
    BY <1>1 DEF BuildMintTransaction
  <2>2. /\ L.status = "ok" => /\ L.tx.mint.group = "KERNELNODE"
                              /\ L.tx.mint.batch = h \div 24
                              /\ L.tx.mint.batch >= 1
                              /\ InMintWindow(TRUE, h)
        /\ L.status # "ok" => L.tx = NoTx
    BY LegacyBuilt
  <2>3. L.status = "ok" => (L.tx.mint.group = "KERNELNODE") = TRUE
    BY <2>2
  <2>4. QED
    BY <2>1, <2>2, <2>3, Zenon
<1>2. CASE ~(cur = Nil /\ Mainnet)
  <2> DEFINE U == BuildUniversalMintTransaction(cur, h, vo)
  <2>1. R = U
    BY <1>2 DEF BuildMintTransaction
  <2>2. /\ U.status = "ok" => /\ U.tx.mint.group = "UNIVERSAL"
                              /\ U.tx.mint.batch = h \div 24
                              /\ U.tx.mint.batch >= 1
                              /\ InMintWindow(FALSE, h)
        /\ U.status # "ok" => U.tx = NoTx
    BY UniversalBuilt
  <2>3. U.status = "ok" => (U.tx.mint.group = "KERNELNODE") = FALSE
    BY <2>2
  <2>4. QED
    BY <2>1, <2>2, <2>3, Zenon
<1>3. QED
  BY <1>1, <1>2

-----------------------------------------------------------------------------

\* A batch of at least 1 is not the batch 0 of the empty transaction.
LEMMA PositiveNotZero == \A x : x >= 1 => x # 0
OBVIOUS

LEMMA InitIInv == Init => IInv
BY DEF Init, IInv, MintedInWindow

LEMMA NextIInv == IInv /\ [Next]_vars => IInv'
<1> SUFFICES ASSUME IInv, [Next]_vars PROVE IInv'
  OBVIOUS
<1>1. CASE MintLoop
  <2> DEFINE R == BuildMintTransaction(hour, FALSE)
  <2>1. R.status = "ok" => R.tx.mint.batch >= 1
    BY BuildInWindow DEF IInv
  <2>2. \A tx \in pending' : tx.mint.batch >= 1
    BY <1>1, <2>1 DEF MintLoop, IInv
  <2>3. QED
    BY <1>1, <2>2 DEF MintLoop, IInv, MintedInWindow, Dist
<1>2. ASSUME NEW tx \in pending, AcceptMintSnapshot(tx) PROVE IInv'
  <2> DEFINE R == BuildMintTransaction(hour, TRUE)
             e == [tx |-> tx, timestamp |-> hour]
  <2>1. PICK n \in Nat : DOMAIN mints = 1 .. n
    BY DEF IInv
  <2>2. CASE R.status = "panic"
    BY <1>2, <2>2 DEF AcceptMintSnapshot, IInv, MintedInWindow, Dist
  <2>3. CASE R.status # "panic" /\ ~(R.tx = tx /\ \A i \in DOMAIN mints : mints[i].tx # tx)
    BY <1>2, <2>3 DEF AcceptMintSnapshot, IInv, MintedInWindow, Dist
  <2>4. CASE R.status # "panic" /\ R.tx = tx /\ \A i \in DOMAIN mints : mints[i].tx # tx
    <3>1. mints' = Append(mints, e)
      BY <1>2, <2>4 DEF AcceptMintSnapshot
    <3>2. R.status = "ok"
      <4>1. tx.mint.batch >= 1
        BY DEF IInv
      <4>2. R.status # "ok" => R.tx = NoTx
        BY BuildInWindow DEF IInv
      <4>3. NoTx.mint.batch = 0
        BY DEF NoTx
      <4>4. R.status # "ok" => tx.mint.batch = 0
        BY <2>4, <4>2, <4>3
      <4>5. QED
        BY <4>1, <4>4, PositiveNotZero, Zenon
    <3>3. /\ tx.mint.batch = hour \div 24
          /\ tx.mint.batch >= 1
          /\ InMintWindow(tx.mint.group = "KERNELNODE", hour)
      BY <3>2, <2>4, BuildInWindow DEF IInv
    <3>4. /\ DOMAIN mints' = 1 .. n + 1
          /\ mints'[n + 1] = e
          /\ \A i \in 1 .. n : mints'[i] = mints[i]
      BY <3>1, <2>1
    <3>5. hour' = hour
      BY <1>2 DEF AcceptMintSnapshot
    <3>6. MintedInWindow'
      <4> SUFFICES ASSUME NEW i \in DOMAIN mints'
                   PROVE  LET m == mints'[i]
                          IN  /\ m.tx.mint.batch = m.timestamp \div 24
                              /\ m.tx.mint.batch >= 1
                              /\ InMintWindow(m.tx.mint.group = "KERNELNODE", m.timestamp)
        BY DEF MintedInWindow
      <4>1. CASE i = n + 1
        BY <4>1, <3>3, <3>4, <3>5
      <4>2. CASE i \in 1 .. n
        BY <4>2, <3>4, <2>1 DEF IInv, MintedInWindow
      <4>3. QED
        BY <4>1, <4>2, <3>4
    <3>7. \A t \in pending' : t.mint.batch >= 1
      BY <1>2, <2>4 DEF AcceptMintSnapshot, IInv
    <3>8. QED
      BY <3>4, <3>5, <3>6, <3>7 DEF IInv
  <2>5. QED
    BY <2>2, <2>3, <2>4
<1>3. CASE AdvanceClock
  BY <1>3 DEF AdvanceClock, IInv, MintedInWindow, Dist
<1>4. CASE AggregateWorks
  BY <1>4 DEF AggregateWorks, IInv, MintedInWindow, Dist
<1>5. ASSUME NEW c \in Custodians, UpdateCustodian(c) PROVE IInv'
  BY <1>5 DEF UpdateCustodian, IInv, MintedInWindow, Dist
<1>6. CASE UNCHANGED vars
  BY <1>6 DEF vars, IInv, MintedInWindow, Dist
<1>7. QED
  BY <1>1, <1>2, <1>3, <1>4, <1>5, <1>6 DEF Next

(***************************************************************************)
(* Every accepted mint snapshot (validateMintSnapshot) is for the batch   *)
(* of its own timestamp, at least 1, and was taken within the mint hours  *)
(* of checkUniversalMintPossibility or checkLegacyMintPossibility,        *)
(* however late consensus orders a snapshot MintLoop built.                *)
(***************************************************************************)
THEOREM MintedInWindowInvariant == Spec => []MintedInWindow
<1>1. Init => IInv
  BY InitIInv
<1>2. IInv /\ [Next]_vars => IInv'
  BY NextIInv
<1>3. IInv => MintedInWindow
  BY DEF IInv
<1>4. QED
  BY <1>1, <1>2, <1>3, PTL DEF Spec


-----------------------------------------------------------------------------
(* The validation round trip off mainnet *)

(***************************************************************************)
(* The inductive invariant for ReplayRoundTrip: IInv, the custodian        *)
(* requests and the works day typed, the last accepted mint snapshot not  *)
(* later than the clock, and ReplayRoundTrip itself.  The clock bound is   *)
(* what keeps a custodian request, which counts from the hour after it is *)
(* accepted, out of ReadCustodian at the last snapshot's timestamp.       *)
(***************************************************************************)
RInv ==
    /\ IInv
    /\ custodians \in Seq([at : Nat, account : Custodians])
    /\ worksDay \in Nat
    /\ mints # <<>> => mints[Len(mints)].timestamp \in 0 .. hour
    /\ ReplayRoundTrip


\* ReadCustodian over a given sequence of custodian requests.
CustodianIn(cs, ts) ==
    LET upTo == {i \in DOMAIN cs : cs[i].at <= ts}
    IN  IF upTo = {} THEN Nil
        ELSE cs[CHOOSE i \in upTo : \A j \in upTo : j <= i].account

(***************************************************************************)
(* A nonempty set of indices of a sequence has a largest element: the     *)
(* least n - i over the set, by the well-foundedness of < on Nat.         *)
(***************************************************************************)
LEMMA MaxExists ==
    ASSUME NEW n \in Nat, NEW S \in SUBSET (1 .. n), S # {}
    PROVE  \E k \in S : \A j \in S : j <= k
<1> DEFINE T == {n - i : i \in S}
<1>1. T \subseteq Nat
  <2>1. \A i \in S : n - i \in Nat
    OBVIOUS
  <2>2. QED
    BY <2>1, Zenon
<1>2. T # {}
  BY Zenon
<1>3. \E x \in T : \A y \in T : ~(<<y, x>> \in OpToRel(<, Nat))
  BY <1>1, <1>2, NatLessThanWellFounded, WFMin
<1>4. PICK x \in T : \A y \in T : ~(<<y, x>> \in OpToRel(<, Nat))
  BY <1>3
<1>5. PICK k \in S : x = n - k
  BY Zenon
<1>6. ASSUME NEW j \in S PROVE j <= k
  <2>1. n - j \in T
    BY Zenon
  <2>2. ~(<<n - j, x>> \in OpToRel(<, Nat))
    BY <2>1, <1>4
  <2>3. n - j \in Nat /\ x \in Nat
    BY <1>1, <2>1
  <2>4. ~(n - j < x)
    BY <2>2, <2>3 DEF OpToRel
  <2>5. QED
    BY <2>4, <1>5
<1>7. QED
  BY <1>5, <1>6

(***************************************************************************)
(* A custodian request that counts from a later hour than ts does not     *)
(* change what ReadCustodian(ts) returns.                                 *)
(***************************************************************************)
LEMMA CustodianKept ==
    ASSUME NEW cs \in Seq([at : Nat, account : Custodians]),
           NEW e \in [at : Nat, account : Custodians],
           NEW ts \in Nat, ~(e.at <= ts)
    PROVE  CustodianIn(Append(cs, e), ts) = CustodianIn(cs, ts)
<1> DEFINE cs2 == Append(cs, e)
           up1 == {i \in DOMAIN cs : cs[i].at <= ts}
           up2 == {i \in DOMAIN cs2 : cs2[i].at <= ts}
<1>1. up2 = up1
  BY DEF up1, up2
<1>2. CASE up1 = {}
  BY <1>1, <1>2 DEF CustodianIn
<1>3. CASE up1 # {}
  <2> DEFINE k == CHOOSE i \in up1 : \A j \in up1 : j <= i
  <2>1. \E i \in up1 : \A j \in up1 : j <= i
    <3>1. up1 \in SUBSET (1 .. Len(cs)) /\ Len(cs) \in Nat
      OBVIOUS
    <3>2. QED
      BY <1>3, <3>1, MaxExists, Zenon
  <2>2. k \in 1 .. Len(cs)
    BY <2>1
  <2>3. cs2[k] = cs[k]
    BY <2>2
  <2>4. CustodianIn(cs2, ts) = cs2[k].account /\ CustodianIn(cs, ts) = cs[k].account
    BY <1>1, <1>3 DEF CustodianIn
  <2>5. QED
    BY <2>3, <2>4
<1>4. QED
  BY <1>2, <1>3

\* Off mainnet every mint goes through buildUniversalMintTransaction.
LEMMA OffMainnetUniversal ==
    ASSUME Mainnet = FALSE, NEW h, NEW vo
    PROVE  /\ BuildMintTransaction(h, vo) = BuildUniversalMintTransaction(ReadCustodian(h), h, vo)
           /\ BuildMintTransaction(h, vo)' = (BuildUniversalMintTransaction(ReadCustodian(h), h, vo))'
BY DEF BuildMintTransaction, SlashLegacyLightPool

(***************************************************************************)
(* buildUniversalMintTransaction depends on the state only through its    *)
(* gate, the works check and the slash.                                   *)
(***************************************************************************)
LEMMA UniversalCongruent ==
    ASSUME NEW cur, NEW h \in Nat, NEW vo \in BOOLEAN,
           CheckMintPossibility(FALSE, h, vo)' = CheckMintPossibility(FALSE, h, vo),
           WorksReady(h)' = WorksReady(h),
           LET g == CheckMintPossibility(FALSE, h, vo)
           IN  SlashLegacyLightPool(g.batch, g.amount)' = SlashLegacyLightPool(g.batch, g.amount)
    PROVE  BuildUniversalMintTransaction(cur, h, vo)' = BuildUniversalMintTransaction(cur, h, vo)
BY DEF BuildUniversalMintTransaction

(***************************************************************************)
(* A universal transaction that was built passed the works check, and its *)
(* mint input is its gate's batch and amount plus the slash.              *)
(***************************************************************************)
LEMMA UniversalOk ==
    ASSUME NEW cur, NEW h \in Nat, NEW vo \in BOOLEAN,
           BuildUniversalMintTransaction(cur, h, vo).status = "ok"
    PROVE  LET g == CheckMintPossibility(FALSE, h, vo)
               t == BuildUniversalMintTransaction(cur, h, vo).tx
           IN  /\ WorksReady(h)
               /\ t.mint.batch = g.batch
               /\ t.mint.amount = SlashLegacyLightPool(g.batch, g.amount).amount
BY Zenon DEF BuildUniversalMintTransaction, None, Panic, Built

\* The gates return a record of a batch and an amount.
LEMMA GateRecord ==
    ASSUME NEW legacy, NEW h, NEW vo
    PROVE  LET g == CheckMintPossibility(legacy, h, vo)
           IN  g = [batch |-> g.batch, amount |-> g.amount]
BY DEF CheckMintPossibility, NoMint


(***************************************************************************)
(* Off mainnet a step that leaves the mint distributions alone, does not  *)
(* change the custodian at ts and only lets the works day grow keeps what *)
(* validateMintSnapshot rebuilds at ts, once that was a transaction.      *)
(***************************************************************************)
LEMMA ReplayKept ==
    ASSUME Mainnet = FALSE, NEW ts \in Nat, NEW t,
           BuildMintTransaction(ts, TRUE) = Built(t),
           LastDist' = LastDist,
           ReadCustodian(ts)' = ReadCustodian(ts),
           worksDay \in Nat, worksDay' \in Nat, worksDay <= worksDay'
    PROVE  BuildMintTransaction(ts, TRUE)' = Built(t)
<1> DEFINE cur == ReadCustodian(ts)
           g   == CheckMintPossibility(FALSE, ts, TRUE)
           U   == BuildUniversalMintTransaction(cur, ts, TRUE)
<1>1. BuildMintTransaction(ts, TRUE) = U /\ BuildMintTransaction(ts, TRUE)' = U'
  BY OffMainnetUniversal
<1>2. g' = g
  BY DEF CheckMintPossibility
<1>3. WorksReady(ts)
  <2>1. U.status = "ok"
    <3>1. U = Built(t)
      BY <1>1
    <3>2. Built(t).status = "ok"
      BY DEF Built
    <3>3. QED
      BY <3>1, <3>2
  <2>2. QED
    BY <2>1, UniversalOk
<1>4. WorksReady(ts)'
  <2>1. DayIndex(ts) \in Nat
    BY MintAssumption DEF DayIndex
  <2>2. QED
    BY <1>3, <2>1 DEF WorksReady, DayIndex
<1>5. SlashLegacyLightPool(g.batch, g.amount)' = SlashLegacyLightPool(g.batch, g.amount)
  BY <1>2 DEF SlashLegacyLightPool, NoSlash
<1>6. U' = U
  BY <1>2, <1>3, <1>4, <1>5 DEF BuildUniversalMintTransaction
<1>7. QED
  BY <1>1, <1>6


(***************************************************************************)
(* Off mainnet, once validateMintSnapshot has accepted the transaction it *)
(* rebuilt at h and persisted it as the last distribution, rebuilding at  *)
(* h yields it again: the gate now takes its replay branch (batch equal   *)
(* to the last distribution's) and returns the persisted amount, which is *)
(* the amount it computed before.                                          *)
(***************************************************************************)
LEMMA ReplayAppended ==
    ASSUME Mainnet = FALSE, NEW tx, NEW h \in Nat,
           BuildMintTransaction(h, TRUE) = Built(tx),
           LastDist' = tx.mint,
           custodians' = custodians, worksDay' = worksDay
    PROVE  BuildMintTransaction(h, TRUE)' = Built(tx)
<1> DEFINE cur == ReadCustodian(h)
           g   == CheckMintPossibility(FALSE, h, TRUE)
           U   == BuildUniversalMintTransaction(cur, h, TRUE)
<1>1. BuildMintTransaction(h, TRUE) = U /\ BuildMintTransaction(h, TRUE)' = U'
  BY OffMainnetUniversal
<1>2. U.status = "ok" /\ U.tx = tx
  <2>1. U = Built(tx)
    BY <1>1
  <2>2. Built(tx).status = "ok" /\ Built(tx).tx = tx
    BY DEF Built
  <2>3. QED
    BY <2>1, <2>2
<1>3. /\ tx.mint.batch = h \div 24
      /\ tx.mint.batch >= 1
      /\ InMintWindow(FALSE, h)
  BY <1>2, UniversalBuilt
<1>4. tx.mint.batch = g.batch /\ tx.mint.amount = g.amount
  <2>1. tx.mint.batch = g.batch /\ tx.mint.amount = SlashLegacyLightPool(g.batch, g.amount).amount
    BY <1>2, UniversalOk
  <2>2. SlashLegacyLightPool(g.batch, g.amount).amount = g.amount
    BY DEF SlashLegacyLightPool, NoSlash
  <2>3. QED
    BY <2>1, <2>2
<1>5. g' = [batch |-> h \div 24, amount |-> tx.mint.amount]
  BY <1>3 DEF CheckMintPossibility, InMintWindow
<1>6. g' = g
  <2>1. g = [batch |-> g.batch, amount |-> g.amount]
    BY GateRecord
  <2>2. QED
    BY <1>3, <1>4, <1>5, <2>1
<1>7. ReadCustodian(h)' = ReadCustodian(h) /\ WorksReady(h)' = WorksReady(h)
  BY DEF ReadCustodian, WorksReady
<1>8. SlashLegacyLightPool(g.batch, g.amount)' = SlashLegacyLightPool(g.batch, g.amount)
  BY <1>6 DEF SlashLegacyLightPool, NoSlash
<1>9. U' = U
  BY <1>6, <1>7, <1>8 DEF BuildUniversalMintTransaction
<1>10. QED
  BY <1>1, <1>2, <1>9


\* A builder returns a status and a transaction.
LEMMA BuildRecord ==
    ASSUME NEW h, NEW vo
    PROVE  LET R == BuildMintTransaction(h, vo)
           IN  R = [status |-> R.status, tx |-> R.tx]
BY DEF BuildMintTransaction, BuildUniversalMintTransaction,
       BuildLegacyKerneNodeMintTransaction, None, Panic, Built

(***************************************************************************)
(* Off mainnet, a step that leaves the mint distributions alone, does not *)
(* change the custodian at any past hour and only lets the works day grow *)
(* keeps ReplayRoundTrip.                                                  *)
(***************************************************************************)
LEMMA ReplayFrame ==
    ASSUME Mainnet = FALSE, RInv, mints' = mints,
           \A ts \in 0 .. hour : ReadCustodian(ts)' = ReadCustodian(ts),
           worksDay' \in Nat, worksDay <= worksDay'
    PROVE  ReplayRoundTrip'
<1> DEFINE m == mints[Len(mints)]
<1> SUFFICES ASSUME mints # <<>>
             PROVE  BuildMintTransaction(m.timestamp, TRUE)' = Built(m.tx)
  BY Zenon DEF ReplayRoundTrip
<1>1. m.timestamp \in 0 .. hour /\ BuildMintTransaction(m.timestamp, TRUE) = Built(m.tx)
  BY DEF RInv, ReplayRoundTrip
<1>2. LastDist' = LastDist
  BY DEF LastDist, Dist
<1>3. ReadCustodian(m.timestamp)' = ReadCustodian(m.timestamp)
  BY <1>1
<1>4. m.timestamp \in Nat /\ worksDay \in Nat
  BY <1>1 DEF RInv, IInv
<1>5. QED
  BY <1>1, <1>2, <1>3, <1>4, ReplayKept


\* ... in particular a step that changes none of them.
LEMMA ReplayUnchanged ==
    ASSUME Mainnet = FALSE, RInv, UNCHANGED <<mints, custodians, worksDay>>
    PROVE  ReplayRoundTrip'
<1>1. \A ts \in 0 .. hour : ReadCustodian(ts)' = ReadCustodian(ts)
  BY DEF ReadCustodian
<1>2. worksDay' \in Nat /\ worksDay <= worksDay'
  BY DEF RInv
<1>3. QED
  BY <1>1, <1>2, ReplayFrame

LEMMA InitRInv == Init => RInv
BY InitIInv DEF Init, RInv, ReplayRoundTrip

LEMMA NextRInv ==
    ASSUME Mainnet = FALSE
    PROVE  RInv /\ [Next]_vars => RInv'
<1> SUFFICES ASSUME RInv, [Next]_vars PROVE RInv'
  OBVIOUS
<1> DEFINE m == mints[Len(mints)]
<1>0. IInv'
  BY NextIInv DEF RInv
<1>1. CASE MintLoop
  <2>1. ReplayRoundTrip'
    BY <1>1, ReplayUnchanged DEF MintLoop
  <2>2. QED
    BY <1>0, <1>1, <2>1 DEF MintLoop, RInv
<1>2. ASSUME NEW tx \in pending, AcceptMintSnapshot(tx) PROVE RInv'
  <2> DEFINE R == BuildMintTransaction(hour, TRUE)
             e == [tx |-> tx, timestamp |-> hour]
  <2>1. UNCHANGED <<hour, custodians, worksDay>>
    BY <1>2 DEF AcceptMintSnapshot
  <2>2. CASE mints' = mints
    <3>1. ReplayRoundTrip'
      BY <2>1, <2>2, ReplayUnchanged
    <3>2. QED
      BY <1>0, <2>1, <2>2, <3>1 DEF RInv
  <2>3. CASE mints' # mints
    <3>1. R.status # "panic" /\ R.tx = tx /\ mints' = Append(mints, e)
      BY <1>2, <2>3 DEF AcceptMintSnapshot
    <3>2. R.status = "ok"
      <4>1. tx.mint.batch >= 1
        BY DEF RInv, IInv
      <4>2. R.status # "ok" => R.tx = NoTx
        BY BuildInWindow DEF RInv, IInv
      <4>3. NoTx.mint.batch = 0
        BY DEF NoTx
      <4>4. QED
        BY <3>1, <4>1, <4>2, <4>3, PositiveNotZero, Zenon
    <3>3. R = Built(tx)
      <4>1. R = [status |-> R.status, tx |-> R.tx]
        BY BuildRecord
      <4>2. QED
        BY <3>1, <3>2, <4>1 DEF Built
    <3>4. mints' # <<>> /\ mints'[Len(mints')] = e
      BY <3>1
    <3>5. LastDist' = tx.mint
      BY <3>4 DEF LastDist, Dist
    <3>6. BuildMintTransaction(hour, TRUE)' = Built(tx)
      BY <2>1, <3>3, <3>5, ReplayAppended DEF RInv, IInv
    <3>7. ReplayRoundTrip'
      <4>1. mints'[Len(mints')].timestamp = hour' /\ mints'[Len(mints')].tx = tx
        BY <2>1, <3>4
      <4>2. QED
        BY <3>4, <3>6, <4>1, Zenon DEF ReplayRoundTrip
    <3>8. QED
      BY <1>0, <2>1, <3>4, <3>7 DEF RInv, IInv
  <2>4. QED
    BY <2>2, <2>3
<1>3. CASE AdvanceClock
  <2>1. ReplayRoundTrip'
    BY <1>3, ReplayUnchanged DEF AdvanceClock
  <2>2. QED
    BY <1>0, <1>3, <2>1 DEF AdvanceClock, RInv, IInv
<1>4. CASE AggregateWorks
  <2>1. ReplayRoundTrip'
    <3>1. \A ts \in 0 .. hour : ReadCustodian(ts)' = ReadCustodian(ts)
      BY <1>4 DEF AggregateWorks, ReadCustodian
    <3>2. worksDay' \in Nat /\ worksDay <= worksDay' /\ mints' = mints
      BY <1>4 DEF AggregateWorks, RInv
    <3>3. QED
      BY <3>1, <3>2, ReplayFrame
  <2>2. QED
    BY <1>0, <1>4, <2>1 DEF AggregateWorks, RInv
<1>5. ASSUME NEW c \in Custodians, UpdateCustodian(c) PROVE RInv'
  <2> DEFINE e == [at |-> hour + 1, account |-> c]
  <2>1. custodians' = Append(custodians, e) /\ UNCHANGED <<hour, worksDay, mints>>
    BY <1>5 DEF UpdateCustodian
  <2>2. hour \in Nat /\ custodians \in Seq([at : Nat, account : Custodians])
    BY DEF RInv, IInv
  <2>3. e \in [at : Nat, account : Custodians]
    BY <2>2
  <2>4. \A ts \in 0 .. hour : ReadCustodian(ts)' = ReadCustodian(ts)
    <3> TAKE ts \in 0 .. hour
    <3>1. ~(e.at <= ts)
      BY <2>2
    <3>2. CustodianIn(Append(custodians, e), ts) = CustodianIn(custodians, ts)
      <4>1. ts \in Nat
        BY <2>2
      <4>2. QED
        BY <2>2, <2>3, <3>1, <4>1, CustodianKept
    <3>3. QED
      BY <2>1, <3>2 DEF ReadCustodian, CustodianIn
  <2>5. ReplayRoundTrip'
    <3>1. worksDay' \in Nat /\ worksDay <= worksDay'
      BY <2>1 DEF RInv
    <3>2. QED
      BY <2>1, <2>4, <3>1, ReplayFrame
  <2>6. custodians' \in Seq([at : Nat, account : Custodians])
    BY <2>1, <2>2, <2>3
  <2>7. QED
    BY <1>0, <2>1, <2>5, <2>6 DEF RInv
<1>6. CASE UNCHANGED vars
  <2>1. ReplayRoundTrip'
    BY <1>6, ReplayUnchanged DEF vars
  <2>2. QED
    BY <1>0, <1>6, <2>1 DEF vars, RInv
<1>7. QED
  BY <1>1, <1>2, <1>3, <1>4, <1>5, <1>6 DEF Next

(***************************************************************************)
(* Off mainnet, the last accepted mint snapshot always passes             *)
(* validateMintSnapshot again: rebuilt at its timestamp with              *)
(* validateOnly = TRUE against the distributions it was persisted into,   *)
(* it yields its own payload, whatever custodian updates, works           *)
(* aggregation and later mint snapshots interleave with it.  On mainnet   *)
(* the switchover slash breaks this (run mint_replay).                     *)
(***************************************************************************)
THEOREM ReplayRoundTripInvariant ==
    ASSUME Mainnet = FALSE
    PROVE  Spec => []ReplayRoundTrip
<1>1. Init => RInv
  BY InitRInv
<1>2. RInv /\ [Next]_vars => RInv'
  BY NextRInv
<1>3. RInv => ReplayRoundTrip
  BY DEF RInv
<1>4. QED
  BY <1>1, <1>2, <1>3, PTL DEF Spec

-----------------------------------------------------------------------------
(* Type correctness of the mint engine *)

(***************************************************************************)
(* The two accumulations over the clamped works: totalW, and the sum of   *)
(* the kernel node shares that the builders pay out of base.              *)
(***************************************************************************)
WorkTotalFn ==
    CHOOSE g : g = [k \in 0 .. Len(Works) |-> IF k = 0 THEN 0 ELSE g[k - 1] + Works[k]]

DistributedWorkFn(base) ==
    CHOOSE g : g = [k \in 0 .. Len(Works) |->
                      IF k = 0 THEN 0
                      ELSE g[k - 1] + (Works[k] * base) \div WorkTotal]

LEMMA WorkTotalRec ==
    /\ WorkTotal = WorkTotalFn[Len(Works)]
    /\ \A k \in 0 .. Len(Works) :
          WorkTotalFn[k] = IF k = 0 THEN 0 ELSE WorkTotalFn[k - 1] + Works[k]
<1> DEFINE Acc(v, k) == v + Works[k]
<1>1. FiniteNatInductiveDefHypothesis(WorkTotalFn, 0, Acc, 0, Len(Works))
  BY DEF FiniteNatInductiveDefHypothesis, WorkTotalFn, Acc
<1>2. Len(Works) \in Nat /\ 0 \in Nat
  BY MintAssumption
<1>3. FiniteNatInductiveDefConclusion(WorkTotalFn, 0, Acc, 0, Len(Works))
  BY <1>1, <1>2, FiniteNatInductiveDef
<1>4. WorkTotal = WorkTotalFn[Len(Works)]
  BY DEF WorkTotal, WorkTotalFn
<1>5. QED
  BY <1>3, <1>4 DEF FiniteNatInductiveDefConclusion, Acc

LEMMA DistributedWorkRec ==
    ASSUME NEW base
    PROVE  /\ DistributedWork(base) = DistributedWorkFn(base)[Len(Works)]
           /\ \A k \in 0 .. Len(Works) :
                 DistributedWorkFn(base)[k] =
                   IF k = 0 THEN 0
                   ELSE DistributedWorkFn(base)[k - 1] + (Works[k] * base) \div WorkTotal
<1> DEFINE Acc(v, k) == v + (Works[k] * base) \div WorkTotal
<1>1. FiniteNatInductiveDefHypothesis(DistributedWorkFn(base), 0, Acc, 0, Len(Works))
  BY DEF FiniteNatInductiveDefHypothesis, DistributedWorkFn, Acc
<1>2. Len(Works) \in Nat /\ 0 \in Nat
  BY MintAssumption
<1>3. FiniteNatInductiveDefConclusion(DistributedWorkFn(base), 0, Acc, 0, Len(Works))
  BY <1>1, <1>2, FiniteNatInductiveDef
<1>4. DistributedWork(base) = DistributedWorkFn(base)[Len(Works)]
  BY DEF DistributedWork, DistributedWorkFn
<1>5. QED
  BY <1>3, <1>4 DEF FiniteNatInductiveDefConclusion, Acc

\* totalW is positive: it is a sum of natural numbers one of which is positive.
LEMMA WorkTotalPositive == WorkTotal \in Nat \ {0}
<1>1. Len(Works) \in Nat /\ \A k \in 1 .. Len(Works) : Works[k] \in Nat
  BY MintAssumption
<1>2. \A k \in 0 .. Len(Works) :
          WorkTotalFn[k] = IF k = 0 THEN 0 ELSE WorkTotalFn[k - 1] + Works[k]
  BY WorkTotalRec
<1> DEFINE Good == {k \in Nat : k <= Len(Works) =>
                       /\ WorkTotalFn[k] \in Nat
                       /\ \A j \in 1 .. k : Works[j] <= WorkTotalFn[k]}
<1>3. 0 \in Good
  <2>1. WorkTotalFn[0] = 0
    BY <1>1, <1>2
  <2>2. QED
    BY <2>1 DEF Good
<1>4. \A n \in Nat : n \in Good => n + 1 \in Good
  <2> SUFFICES ASSUME NEW n \in Nat, n \in Good, n + 1 <= Len(Works)
               PROVE  /\ WorkTotalFn[n + 1] \in Nat
                      /\ \A j \in 1 .. n + 1 : Works[j] <= WorkTotalFn[n + 1]
    BY DEF Good
  <2>1. WorkTotalFn[n] \in Nat /\ \A j \in 1 .. n : Works[j] <= WorkTotalFn[n]
    BY DEF Good
  <2>2. WorkTotalFn[n + 1] = WorkTotalFn[n] + Works[n + 1]
    <3>1. n + 1 \in 0 .. Len(Works) /\ n + 1 # 0 /\ (n + 1) - 1 = n
      BY <1>1
    <3>2. QED
      BY <3>1, <1>2
  <2>3. Works[n + 1] \in Nat /\ \A j \in 1 .. n : Works[j] \in Nat
    BY <1>1
  <2>4. QED
    BY <2>1, <2>2, <2>3
<1>5. Nat \subseteq Good
  BY <1>3, <1>4, NatSetInduction
<1>6. WorkTotalFn[Len(Works)] \in Nat
      /\ \A j \in 1 .. Len(Works) : Works[j] <= WorkTotalFn[Len(Works)]
  BY <1>1, <1>5 DEF Good
<1>7. PICK j \in DOMAIN Works : Works[j] > 0
  BY MintAssumption
<1>8. j \in 1 .. Len(Works) /\ Works[j] \in Nat
  BY <1>1, MintAssumption
<1>9. QED
  BY <1>6, <1>7, <1>8, WorkTotalRec

\* A share Works[k].Ration(totalW).Product(base) is a natural number.
LEMMA ShareNat ==
    ASSUME NEW a \in Nat, NEW b \in Nat, NEW d \in Nat \ {0}
    PROVE  (a * b) \div d \in Nat
<1>1. a * b \in Nat
  OBVIOUS
<1>2. QED
  BY <1>1

\* The builders' sum of the kernel node shares is a natural number.
LEMMA DistributedWorkNat ==
    ASSUME NEW base \in Nat
    PROVE  DistributedWork(base) \in Nat
<1>1. Len(Works) \in Nat /\ \A k \in 1 .. Len(Works) : Works[k] \in Nat
  BY MintAssumption
<1>2. WorkTotal \in Nat \ {0}
  BY WorkTotalPositive
<1>3. \A k \in 0 .. Len(Works) :
          DistributedWorkFn(base)[k] =
            IF k = 0 THEN 0
            ELSE DistributedWorkFn(base)[k - 1] + (Works[k] * base) \div WorkTotal
  BY DistributedWorkRec
<1> DEFINE Good == {k \in Nat : k <= Len(Works) => DistributedWorkFn(base)[k] \in Nat}
<1>4. 0 \in Good
  <2>1. DistributedWorkFn(base)[0] = 0
    BY <1>1, <1>3
  <2>2. QED
    BY <2>1 DEF Good
<1>5. \A n \in Nat : n \in Good => n + 1 \in Good
  <2> SUFFICES ASSUME NEW n \in Nat, n \in Good, n + 1 <= Len(Works)
               PROVE  DistributedWorkFn(base)[n + 1] \in Nat
    BY DEF Good
  <2>1. DistributedWorkFn(base)[n] \in Nat
    BY DEF Good
  <2>2. DistributedWorkFn(base)[n + 1]
          = DistributedWorkFn(base)[n] + (Works[n + 1] * base) \div WorkTotal
    <3>1. n + 1 \in 0 .. Len(Works) /\ n + 1 # 0 /\ (n + 1) - 1 = n
      BY <1>1
    <3>2. QED
      BY <3>1, <1>3
  <2>3. (Works[n + 1] * base) \div WorkTotal \in Nat
    BY <1>1, <1>2, ShareNat
  <2>4. QED
    BY <2>1, <2>2, <2>3
<1>6. Nat \subseteq Good
  BY <1>4, <1>5, NatSetInduction
<1>7. QED
  BY <1>1, <1>6, DistributedWorkRec DEF Good

(***************************************************************************)
(* A nonempty set has an element at which a natural-valued function is    *)
(* least, by the well-foundedness of < on Nat.                             *)
(***************************************************************************)
LEMMA MinExists ==
    ASSUME NEW S, S # {}, NEW f \in [S -> Nat]
    PROVE  \E k \in S : \A j \in S : f[k] <= f[j]
<1> DEFINE T == {f[i] : i \in S}
<1>1. T \subseteq Nat /\ T # {}
  BY Zenon
<1>2. PICK x \in T : \A y \in T : ~(<<y, x>> \in OpToRel(<, Nat))
  BY <1>1, NatLessThanWellFounded, WFMin
<1>3. PICK k \in S : x = f[k]
  BY Zenon
<1>4. ASSUME NEW j \in S PROVE f[k] <= f[j]
  <2>1. f[j] \in T
    BY Zenon
  <2>2. ~(f[j] < x)
    BY <2>1, <1>1, <1>2 DEF OpToRel
  <2>3. QED
    BY <2>2, <1>1, <1>3, <2>1
<1>5. QED
  BY <1>3, <1>4

\* An element of a sequence is in the sequence's range.
LEMMA SeqElem ==
    ASSUME NEW T, NEW s \in Seq(T), NEW i \in 1 .. Len(s)
    PROVE  s[i] \in T
OBVIOUS

\* ReadCustodian returns one of the accepted requests' accounts, or nil.
LEMMA CustodianRange ==
    ASSUME NEW cs \in Seq([at : Nat, account : Custodians]), NEW ts \in Nat
    PROVE  CustodianIn(cs, ts) \in Custodians \cup {Nil}
<1> DEFINE up == {i \in DOMAIN cs : cs[i].at <= ts}
<1>1. CASE up = {}
  BY <1>1 DEF CustodianIn
<1>2. CASE up # {}
  <2> DEFINE k == CHOOSE i \in up : \A j \in up : j <= i
  <2>1. \E i \in up : \A j \in up : j <= i
    <3>1. up \in SUBSET (1 .. Len(cs)) /\ Len(cs) \in Nat
      OBVIOUS
    <3>2. QED
      BY <1>2, <3>1, MaxExists, Zenon
  <2>2. k \in 1 .. Len(cs)
    BY <2>1
  <2>3. CustodianIn(cs, ts) = cs[k].account
    BY <1>2 DEF CustodianIn
  <2> HIDE DEF k
  <2>4. cs[k] \in [at : Nat, account : Custodians]
    BY <2>2, SeqElem, Zenon
  <2>5. QED
    BY <2>3, <2>4
<1>3. QED
  BY <1>1, <1>2

\* ReadCustodian is CustodianIn over the accepted requests.
LEMMA ReadCustodianIs ==
    ASSUME NEW ts
    PROVE  ReadCustodian(ts) = CustodianIn(custodians, ts)
BY DEF ReadCustodian, CustodianIn

\* The last distribution is a mint record when every accepted one is.
LEMMA LastDistType ==
    ASSUME mints \in Seq([tx : Payloads, timestamp : Nat])
    PROVE  LastDist \in MintData
<1>1. CASE mints = <<>>
  BY <1>1 DEF LastDist, NoTx, MintData, Groups
<1>2. CASE mints # <<>>
  <2>1. Len(mints) \in 1 .. Len(mints)
    BY <1>2
  <2>2. mints[Len(mints)] \in [tx : Payloads, timestamp : Nat]
    BY <2>1, SeqElem, Zenon
  <2>3. mints[Len(mints)].tx.mint \in MintData
    BY <2>2 DEF Payloads
  <2>4. QED
    BY <1>2, <2>3 DEF LastDist, Dist
<1>3. QED
  BY <1>1, <1>2

(***************************************************************************)
(* checkUniversalMintPossibility and checkLegacyMintPossibility return    *)
(* a natural batch and amount: the replayed distribution's, or the daily  *)
(* issue times the batches caught up.                                      *)
(***************************************************************************)
LEMMA GateNat ==
    ASSUME LastDist \in MintData,
           NEW legacy \in BOOLEAN, NEW h \in Nat, NEW vo \in BOOLEAN
    PROVE  /\ CheckMintPossibility(legacy, h, vo).batch \in Nat
           /\ CheckMintPossibility(legacy, h, vo).amount \in Nat
<1> DEFINE batch == h \div 24
           total == IF legacy THEN LegacyBatchAmount(batch) ELSE UniversalBatchAmount(batch)
<1>1. batch \in Nat /\ LastDist.batch \in Nat /\ LastDist.amount \in Nat
  <2>1. batch \in Nat
    OBVIOUS
  <2>2. LastDist.batch \in Nat /\ LastDist.amount \in Nat
    BY Zenon DEF MintData
  <2>3. QED
    BY <2>1, <2>2
<1>2. total \in Nat
  BY <1>1, GateAmountsNat
<1>3. batch > LastDist.batch => total * (batch - LastDist.batch) \in Nat
  BY <1>1, <1>2
<1>4. QED
  BY <1>1, <1>3 DEF CheckMintPossibility, NoMint

(***************************************************************************)
(* tryToSlashLegacyLightPool, when it does not panic, leaves a natural    *)
(* mint amount no smaller than the one it was given: the previous         *)
(* distribution it reads is a persisted one, and the legacy pool it adds  *)
(* is never below the universal one.                                       *)
(***************************************************************************)
LEMMA SlashNat ==
    ASSUME mints \in Seq([tx : Payloads, timestamp : Nat]),
           NEW batch \in Nat, NEW amount \in Nat
    PROVE  LET s == SlashLegacyLightPool(batch, amount)
           IN  ~s.panic => s.amount \in Nat /\ s.amount >= amount
<1> DEFINE from  == {i \in DOMAIN mints : Dist(i).batch >= batch - 1}
           first == CHOOSE i \in from : \A j \in from : Dist(i).batch <= Dist(j).batch
           s     == SlashLegacyLightPool(batch, amount)
<1>1. CASE ~Mainnet \/ batch < MainnetMintTransactionV3ForkBatch
  <2>1. s = NoSlash(amount)
    BY <1>1 DEF SlashLegacyLightPool
  <2>2. QED
    BY <2>1 DEF NoSlash
<1>2. CASE ~(~Mainnet \/ batch < MainnetMintTransactionV3ForkBatch)
           /\ (from = {} \/ Dist(first).batch + 1 # batch)
  <2>1. s = [panic |-> TRUE, amount |-> amount]
    BY <1>2 DEF SlashLegacyLightPool
  <2>2. QED
    BY <2>1
<1>3. CASE ~(~Mainnet \/ batch < MainnetMintTransactionV3ForkBatch)
           /\ ~(from = {} \/ Dist(first).batch + 1 # batch)
           /\ Dist(first).group = "UNIVERSAL"
  <2>1. s = NoSlash(amount)
    BY <1>3 DEF SlashLegacyLightPool
  <2>2. QED
    BY <2>1 DEF NoSlash
<1>4. CASE ~(~Mainnet \/ batch < MainnetMintTransactionV3ForkBatch)
           /\ ~(from = {} \/ Dist(first).batch + 1 # batch)
           /\ Dist(first).group # "UNIVERSAL"
  <2> DEFINE b == Dist(first).batch
  <2>1. s = [panic |-> FALSE,
             amount |-> amount + (poolSizeLegacy(b) - poolSizeUniversal(b))]
    BY <1>4 DEF SlashLegacyLightPool
  <2>2. \A i \in DOMAIN mints : Dist(i).batch \in Nat
    <3> SUFFICES ASSUME NEW i \in DOMAIN mints PROVE Dist(i).batch \in Nat
      OBVIOUS
    <3>1. i \in 1 .. Len(mints)
      OBVIOUS
    <3>2. mints[i] \in [tx : Payloads, timestamp : Nat]
      BY <3>1, SeqElem, Zenon
    <3>3. QED
      BY <3>2 DEF Dist, Payloads, MintData
  <2>3. first \in from
    <3> DEFINE f == [i \in from |-> Dist(i).batch]
    <3>1. f \in [from -> Nat] /\ from # {}
      BY <1>4, <2>2
    <3>2. \E k \in from : \A j \in from : f[k] <= f[j]
      BY <3>1, MinExists
    <3>3. \E k \in from : \A j \in from : Dist(k).batch <= Dist(j).batch
      BY <3>2
    <3>4. QED
      BY <3>3
  <2>4. b \in Nat
    BY <2>2, <2>3
  <2>5. poolSizeLegacy(b) - poolSizeUniversal(b) \in Nat
    BY <2>4, LegacyPoolAbove
  <2>6. QED
    BY <2>1, <2>5
<1>5. QED
  BY <1>1, <1>2, <1>3, <1>4

(***************************************************************************)
(* buildUniversalMintTransaction builds a well-formed payload: the kernel *)
(* shares and the custodian's four tenths are natural numbers, and its    *)
(* panic guard keeps the light output (the mint amount, slash included,   *)
(* less both) from going negative.                                         *)
(***************************************************************************)
LEMMA UniversalPayload ==
    ASSUME mints \in Seq([tx : Payloads, timestamp : Nat]),
           NEW cur \in Custodians \cup {Nil}, NEW h \in Nat, NEW vo \in BOOLEAN
    PROVE  LET R == BuildUniversalMintTransaction(cur, h, vo)
           IN  R.status = "ok" => R.tx \in Payloads
<1> DEFINE g      == CheckMintPossibility(FALSE, h, vo)
           kernel == DistributedWork((g.amount \div 10) * 5)
           safe   == (g.amount \div 10) * 4
           s      == SlashLegacyLightPool(g.batch, g.amount)
           amount == s.amount
           tx     == [v1 |-> FALSE,
                      mint |-> [group |-> "UNIVERSAL", batch |-> g.batch, amount |-> amount],
                      kernel |-> kernel,
                      custodian |-> IF cur = Nil THEN DomainAccount ELSE cur,
                      safe |-> safe,
                      light |-> amount - (kernel + safe)]
           R      == BuildUniversalMintTransaction(cur, h, vo)
\* The gate's Boolean literal argument is kept out of SMT's sight.
<1> HIDE DEF g, kernel, safe, s, amount, tx, R
<1>1. g.batch \in Nat /\ g.amount \in Nat
  BY LastDistType, GateNat DEF g
<1>2. safe \in Nat /\ (g.amount \div 10) * 5 \in Nat
  BY <1>1 DEF safe
<1>3. kernel \in Nat
  BY <1>2, DistributedWorkNat DEF kernel
<1>4. ~s.panic => amount \in Nat /\ amount >= g.amount
  BY <1>1, SlashNat DEF s, amount
<1>5. R.status = "ok" => /\ ~(kernel > g.amount \/ kernel + safe > g.amount)
                         /\ ~s.panic
                         /\ R.tx = tx
  BY Zenon DEF BuildUniversalMintTransaction, None, Panic, Built,
               g, kernel, safe, s, amount, tx, R
<1>6. ASSUME ~(kernel + safe > g.amount), ~s.panic
      PROVE  tx \in Payloads
  <2>1. amount \in Nat /\ amount >= g.amount
    BY <1>4, <1>6
  <2>2. amount - (kernel + safe) \in Nat
    BY <1>1, <1>2, <1>3, <1>6, <2>1
  <2>3. (IF cur = Nil THEN DomainAccount ELSE cur) \in Custodians \cup {DomainAccount, Nil}
    OBVIOUS
  <2>4. QED
    BY <1>1, <1>2, <1>3, <2>1, <2>2, <2>3 DEF Payloads, MintData, Groups, tx
<1>7. QED
  BY <1>5, <1>6 DEF R

(***************************************************************************)
(* buildLegacyKerneNodeMintTransaction, and the V1 builder before the V2  *)
(* fork, build a well-formed payload: the diff output is what the kernel  *)
(* shares leave of the amount, and the panic guard keeps it natural.      *)
(***************************************************************************)
LEMMA LegacyPayload ==
    ASSUME mints \in Seq([tx : Payloads, timestamp : Nat]),
           NEW h \in Nat, NEW vo \in BOOLEAN
    PROVE  LET R == BuildLegacyKerneNodeMintTransaction(h, vo)
           IN  R.status = "ok" => R.tx \in Payloads
<1> DEFINE g      == CheckMintPossibility(TRUE, h, vo)
           kernel == DistributedWork(g.amount)
           input  == [group |-> "KERNELNODE", batch |-> g.batch, amount |-> g.amount]
           tx1    == [v1 |-> TRUE, mint |-> input, kernel |-> g.amount,
                      custodian |-> Nil, safe |-> 0, light |-> 0]
           tx     == [v1 |-> FALSE, mint |-> input, kernel |-> kernel,
                      custodian |-> Nil, safe |-> 0, light |-> g.amount - kernel]
           R      == BuildLegacyKerneNodeMintTransaction(h, vo)
\* The gate's Boolean literal argument is kept out of SMT's sight.
<1> HIDE DEF g, kernel, input, tx1, tx, R
<1>1. g.batch \in Nat /\ g.amount \in Nat
  BY LastDistType, GateNat DEF g
<1>2. kernel \in Nat
  BY <1>1, DistributedWorkNat DEF kernel
<1>3. input \in MintData
  BY <1>1 DEF MintData, Groups, input
<1>4. R.status = "ok" => \/ R.tx = tx1
                         \/ R.tx = tx /\ ~(kernel > g.amount)
  BY Zenon DEF BuildLegacyKerneNodeMintTransaction, None, Panic, Built,
               g, kernel, input, tx1, tx, R
<1>5. tx1 \in Payloads
  BY <1>1, <1>3 DEF Payloads, tx1
<1>6. ~(kernel > g.amount) => tx \in Payloads
  BY <1>1, <1>2, <1>3 DEF Payloads, tx
<1>7. QED
  BY <1>4, <1>5, <1>6 DEF R

\* What MintLoop and validateMintSnapshot build is a well-formed payload.
LEMMA BuildPayload ==
    ASSUME mints \in Seq([tx : Payloads, timestamp : Nat]),
           custodians \in Seq([at : Nat, account : Custodians]),
           NEW h \in Nat, NEW vo \in BOOLEAN
    PROVE  LET R == BuildMintTransaction(h, vo)
           IN  R.status = "ok" => R.tx \in Payloads
<1>1. ReadCustodian(h) \in Custodians \cup {Nil}
  BY CustodianRange, ReadCustodianIs
<1>2. QED
  BY <1>1, UniversalPayload, LegacyPayload DEF BuildMintTransaction

\* A sequence over a set is a sequence over any superset.
LEMMA SeqMono ==
    ASSUME NEW A, NEW B, A \subseteq B, NEW s \in Seq(A)
    PROVE  s \in Seq(B)
<1>1. \A i \in 1 .. Len(s) : s[i] \in B
  OBVIOUS
<1>2. QED
  BY <1>1, SeqDef

LEMMA MaxHourNat == MaxHour \in Nat
BY MintAssumption

\* The store's records, read with natural timestamps, as the lemmas take them.
LEMMA TypeOKStore ==
    ASSUME TypeOK
    PROVE  /\ mints \in Seq([tx : Payloads, timestamp : Nat])
           /\ custodians \in Seq([at : Nat, account : Custodians])
           /\ hour \in Nat
<1> DEFINE M1 == [tx : Payloads, timestamp : 0 .. MaxHour]
           M2 == [tx : Payloads, timestamp : Nat]
           C1 == [at : 1 .. MaxHour, account : Custodians]
           C2 == [at : Nat, account : Custodians]
<1>1. M1 \subseteq M2 /\ C1 \subseteq C2
  BY MaxHourNat
<1>2. mints \in Seq(M1) /\ custodians \in Seq(C1)
  BY DEF TypeOK
<1> HIDE DEF M1, M2, C1, C2
<1>3. mints \in Seq(M2) /\ custodians \in Seq(C2)
  BY <1>1, <1>2, SeqMono
<1>4. hour \in Nat
  BY MaxHourNat DEF TypeOK
<1>5. QED
  BY <1>3, <1>4 DEF M2, C2

LEMMA InitTypeOK == Init => TypeOK
<1> SUFFICES ASSUME Init PROVE TypeOK
  OBVIOUS
<1>1. hour \in 0 .. MaxHour /\ worksDay \in Nat
  BY MaxHourNat DEF Init
<1>2. custodians \in Seq([at : 1 .. MaxHour, account : Custodians])
      /\ mints \in Seq([tx : Payloads, timestamp : 0 .. MaxHour])
  BY DEF Init
<1>3. pending \subseteq Payloads /\ panicked \in BOOLEAN
  BY Zenon DEF Init
<1>4. QED
  BY <1>1, <1>2, <1>3, Zenon DEF TypeOK

LEMMA NextTypeOK == TypeOK /\ [Next]_vars => TypeOK'
<1> SUFFICES ASSUME TypeOK, [Next]_vars PROVE TypeOK'
  OBVIOUS
<1>0. /\ mints \in Seq([tx : Payloads, timestamp : Nat])
      /\ custodians \in Seq([at : Nat, account : Custodians])
      /\ hour \in Nat
      /\ MaxHour \in Nat
  BY TypeOKStore, MaxHourNat
<1>1. CASE MintLoop
  <2> DEFINE R == BuildMintTransaction(hour, FALSE)
  <2>1. R.status = "ok" => R.tx \in Payloads
    BY <1>0, BuildPayload
  <2>2. pending' \subseteq Payloads
    BY <1>1, <2>1 DEF MintLoop, TypeOK
  <2>3. panicked' \in BOOLEAN
    BY <1>1 DEF MintLoop, TypeOK
  <2>4. QED
    BY <1>1, <2>2, <2>3 DEF MintLoop, TypeOK
<1>2. ASSUME NEW tx \in pending, AcceptMintSnapshot(tx) PROVE TypeOK'
  <2>1. [tx |-> tx, timestamp |-> hour] \in [tx : Payloads, timestamp : 0 .. MaxHour]
    BY DEF TypeOK
  <2>2. mints' \in Seq([tx : Payloads, timestamp : 0 .. MaxHour])
    <3>1. Append(mints, [tx |-> tx, timestamp |-> hour])
            \in Seq([tx : Payloads, timestamp : 0 .. MaxHour])
      BY <2>1 DEF TypeOK
    <3>2. \/ mints' = Append(mints, [tx |-> tx, timestamp |-> hour])
          \/ mints' = mints
      BY <1>2, Zenon DEF AcceptMintSnapshot
    <3>3. QED
      BY <3>1, <3>2 DEF TypeOK
  <2>3. pending' \subseteq Payloads /\ panicked' \in BOOLEAN
    BY <1>2 DEF AcceptMintSnapshot, TypeOK
  <2>4. QED
    BY <1>2, <2>2, <2>3 DEF AcceptMintSnapshot, TypeOK
<1>3. CASE AdvanceClock
  BY <1>0, <1>3 DEF AdvanceClock, TypeOK
<1>4. CASE AggregateWorks
  BY <1>4 DEF AggregateWorks, TypeOK
<1>5. ASSUME NEW c \in Custodians, UpdateCustodian(c) PROVE TypeOK'
  <2>1. [at |-> hour + 1, account |-> c] \in [at : 1 .. MaxHour, account : Custodians]
    BY <1>0, <1>5 DEF UpdateCustodian, TypeOK
  <2>2. QED
    BY <1>5, <2>1 DEF UpdateCustodian, TypeOK
<1>6. CASE UNCHANGED vars
  BY <1>6 DEF vars, TypeOK
<1>7. QED
  BY <1>1, <1>2, <1>3, <1>4, <1>5, <1>6 DEF Next

(***************************************************************************)
(* Every mint transaction MintLoop enqueues and every one                 *)
(* validateMintSnapshot accepts is well formed, whatever the clock,       *)
(* custodian updates and earlier distributions: its mint amount (the       *)
(* catch-up or replayed gate amount, plus the light pool slashed on the   *)
(* switchover), its kernel node shares, its custodian and safe outputs     *)
(* and its light or diff output are natural numbers, so no output of      *)
(* buildUniversalMintTransaction or buildLegacyKerneNodeMintTransaction   *)
(* is negative.                                                            *)
(***************************************************************************)
THEOREM TypeOKInvariant == Spec => []TypeOK
<1>1. Init => TypeOK
  BY InitTypeOK
<1>2. TypeOK /\ [Next]_vars => TypeOK'
  BY NextTypeOK
<1>3. QED
  BY <1>1, <1>2, PTL DEF Spec

=============================================================================

---------------------------- MODULE GenesisProofs ----------------------------
(***************************************************************************)
(* Proofs that LoadGenesis never rebinds a store and never lets a node    *)
(* run on a store of another network, for every set of genesis files and *)
(* every number of restarts.                                               *)
(***************************************************************************)
EXTENDS Genesis, TLAPS

(***************************************************************************)
(* The inductive invariant.  A node between SnapshotsLoadGenesis and      *)
(* StateSet has found the state key absent, and it stays absent until     *)
(* StateSet, since nothing else writes it.                                 *)
(***************************************************************************)
IInv ==
    /\ TypeOK
    /\ UpOnlyOnOwnNetwork
    /\ pc = "loading" => stored = NoNetwork

LEMMA InitIInv == Init => IInv
BY GenesisAssumption DEF Init, IInv, TypeOK, UpOnlyOnOwnNetwork

LEMMA NextIInv == IInv /\ [Next]_vars => IInv'
<1> SUFFICES ASSUME IInv, [Next]_vars PROVE IInv'
    OBVIOUS
<1> USE GenesisAssumption DEF IInv, TypeOK, UpOnlyOnOwnNetwork, NetworkId
<1>1. CASE LoadGenesis
      <2> DEFINE id == NetworkId(file)
      <2>1. pc = "down" /\ UNCHANGED <<file, stored, restarts>>
            BY <1>1 DEF LoadGenesis
      <2>2. CASE ~ReadGenesis(Files[file])
            BY <1>1, <2>1, <2>2 DEF LoadGenesis
      <2>3. CASE ReadGenesis(Files[file]) /\ stored = id
            BY <1>1, <2>1, <2>3 DEF LoadGenesis
      <2>4. CASE ReadGenesis(Files[file]) /\ stored # id /\ stored # NoNetwork
            BY <1>1, <2>1, <2>4 DEF LoadGenesis
      <2>5. CASE ReadGenesis(Files[file]) /\ stored # id /\ stored = NoNetwork
            <3>1. pc' = "loading" /\ loads' = Append(loads, id)
                  BY <1>1, <2>5 DEF LoadGenesis
            <3>2. loads' \in Seq(DOMAIN Files)
                  BY <3>1
            <3>3. QED
                  BY <2>1, <2>5, <3>1, <3>2
      <2>6. QED
            BY <2>2, <2>3, <2>4, <2>5
<1>2. CASE SetNetworkState
      BY <1>2 DEF SetNetworkState
<1>3. CASE Restart
      BY <1>3 DEF Restart
<1>4. CASE \E k \in DOMAIN Files : ReplaceFile(k)
      BY <1>4 DEF ReplaceFile
<1>5. CASE UNCHANGED vars
      BY <1>5 DEF vars
<1>6. QED
      BY <1>1, <1>2, <1>3, <1>4, <1>5 DEF Next

(***************************************************************************)
(* A node that completed LoadGenesis always runs on the network its store *)
(* is bound to, across crashes, restarts and replaced genesis files.       *)
(***************************************************************************)
THEOREM UpOnlyOnOwnNetworkInvariant == Spec => []UpOnlyOnOwnNetwork
<1>1. IInv => UpOnlyOnOwnNetwork
      BY DEF IInv
<1>2. QED
      BY <1>1, InitIInv, NextIInv, PTL DEF Spec

(***************************************************************************)
(* The state key "network" is written at most once: StateSet runs only    *)
(* after StateGet found the key absent.                                    *)
(***************************************************************************)
THEOREM StoreBoundOnceProperty == Spec => StoreBoundOnce
<1>1. IInv /\ [Next]_vars => [stored # NoNetwork => stored' = stored]_vars
      <2> SUFFICES ASSUME IInv, [Next]_vars, stored # NoNetwork PROVE stored' = stored
          BY DEF vars
      <2>1. ~SetNetworkState
            BY DEF IInv, SetNetworkState
      <2>2. QED
            BY <2>1 DEF Next, LoadGenesis, Restart, ReplaceFile, vars
<1>2. QED
      BY <1>1, InitIInv, NextIInv, PTL DEF Spec, StoreBoundOnce


-----------------------------------------------------------------------------

(***************************************************************************)
(* The invariant for StoredNetworkLoaded: IInv, the property, and that a  *)
(* node between SnapshotsLoadGenesis and StateSet has just written the    *)
(* snapshots of the file it is loading (the file is replaced only while   *)
(* the node is down).                                                      *)
(***************************************************************************)
LInv ==
    /\ IInv
    /\ pc = "loading" => loads # <<>> /\ loads[Len(loads)] = NetworkId(file)
    /\ StoredNetworkLoaded

LEMMA InitLInv == Init => LInv
BY InitIInv DEF Init, LInv, StoredNetworkLoaded

LEMMA NextLInv == LInv /\ [Next]_vars => LInv'
<1> SUFFICES ASSUME LInv, [Next]_vars PROVE LInv'
    OBVIOUS
<1>0. IInv'
      BY NextIInv DEF LInv
<1> USE DEF LInv, StoredNetworkLoaded
<1>1. CASE LoadGenesis
      <2> DEFINE id == NetworkId(file)
      <2>1. pc = "down" /\ UNCHANGED <<file, stored, restarts>>
            BY <1>1 DEF LoadGenesis
      <2>2. CASE ~(ReadGenesis(Files[file]) /\ stored = NoNetwork /\ stored # id)
            <3>1. pc' # "loading" /\ loads' = loads
                  BY <1>1, <2>2 DEF LoadGenesis
            <3>2. QED
                  BY <1>0, <2>1, <3>1
      <2>3. CASE ReadGenesis(Files[file]) /\ stored = NoNetwork /\ stored # id
            <3>1. pc' = "loading" /\ loads' = Append(loads, id)
                  BY <1>1, <2>3 DEF LoadGenesis
            <3>2. loads \in Seq(DOMAIN Files)
                  BY DEF IInv, TypeOK
            <3>3. loads' # <<>> /\ loads'[Len(loads')] = id
                  BY <3>1, <3>2
            <3>4. QED
                  BY <1>0, <2>1, <2>3, <3>1, <3>3
      <2>4. QED
            BY <2>2, <2>3
<1>2. CASE SetNetworkState
      BY <1>0, <1>2 DEF SetNetworkState
<1>3. CASE Restart
      BY <1>0, <1>3 DEF Restart
<1>4. CASE \E k \in DOMAIN Files : ReplaceFile(k)
      BY <1>0, <1>4 DEF ReplaceFile
<1>5. CASE UNCHANGED vars
      BY <1>0, <1>5 DEF vars
<1>6. QED
      BY <1>1, <1>2, <1>3, <1>4, <1>5 DEF Next

(***************************************************************************)
(* A store bound to a network always holds that network's genesis         *)
(* snapshots, as the last set SnapshotsLoadGenesis wrote: StateSet is the *)
(* last step of LoadGenesis, and a bound store is never loaded into       *)
(* again, whatever crashes and replaced genesis files come between.      *)
(***************************************************************************)
THEOREM StoredNetworkLoadedInvariant == Spec => []StoredNetworkLoaded
<1>1. LInv => StoredNetworkLoaded
      BY DEF LInv
<1>2. QED
      BY <1>1, InitLInv, NextLInv, PTL DEF Spec

=============================================================================

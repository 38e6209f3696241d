------------------------------- MODULE Genesis -------------------------------
(***************************************************************************)
(* LoadGenesis and readGenesis of src/kernel/genesis.go across restarts  *)
(* of the node.                                                            *)
(*                                                                         *)
(* genesis.json is one of the candidate files Files[1..]; the network id  *)
(* hash(json.Marshal(genesis)) is the file's index, i.e. distinct files   *)
(* have distinct ids (no hash collisions).  The store keeps the state key *)
(* "network" and the genesis snapshots loaded by SnapshotsLoadGenesis.    *)
(* The process may crash at any point after it started loading and is     *)
(* restarted, possibly after the operator replaced genesis.json.           *)
(***************************************************************************)
EXTENDS Integers, Sequences, FiniteSets

CONSTANTS
    Addresses,         \* the addresses genesis files name
    BadViewKeys,       \* addresses whose view key is not derived from the spend key
    Files,             \* candidate contents of genesis.json
    NoNetwork,         \* state key "network" absent
    MinimumNodeCount,  \* MinimumNodeCount
    PledgeAmount,      \* PledgeAmount
    MaxRestarts        \* bound on the restarts of the node

GenesisRecord == [epoch : Nat, nodes : Seq([address : Addresses, balance : Nat])]

\* Distinct files hash to distinct network ids.
ASSUME GenesisAssumption ==
    /\ BadViewKeys \subseteq Addresses
    /\ Files \in Seq(GenesisRecord)
    /\ \A k, l \in DOMAIN Files : Files[k] = Files[l] => k = l
    /\ NoNetwork \notin DOMAIN Files
    /\ MinimumNodeCount \in Nat /\ PledgeAmount \in Nat /\ MaxRestarts \in Nat

VARIABLES
    file,      \* which candidate genesis.json is in configDir
    stored,    \* state["network"].Id, or NoNetwork
    loads,     \* network ids of the genesis snapshot sets SnapshotsLoadGenesis wrote, in order
    pc,        \* "down", "loading" (snapshots written, state not set), "up", "failed"
    restarts   \* restarts so far

vars == <<file, stored, loads, pc, restarts>>

\* networkId = crypto.NewHash(json.Marshal(gns)): injective on the files.
NetworkId(k) == k

\* readGenesis: seven nodes, each with at least the pledge, not already in
\* inputsFilter, and with a derived view key.  inputsFilter is created and
\* consulted but never written.
ReadGenesis(g) ==
    LET inputsFilter == {}
    IN  /\ Len(g.nodes) = MinimumNodeCount
        /\ \A i \in DOMAIN g.nodes :
              /\ g.nodes[i].balance >= PledgeAmount
              /\ g.nodes[i].address \notin inputsFilter
              /\ g.nodes[i].address \notin BadViewKeys

Init ==
    /\ file \in DOMAIN Files
    /\ stored = NoNetwork
    /\ loads = <<>>
    /\ pc = "down"
    /\ restarts = 0

\* Mutant: a store bound to another network is treated as empty.
LoadGenesisIgnoreFound ==
    LET id == NetworkId(file)
    IN  /\ pc = "down"
        /\ IF ~ReadGenesis(Files[file]) THEN pc' = "failed" /\ UNCHANGED loads
           ELSE IF stored = id THEN pc' = "up" /\ UNCHANGED loads
           ELSE pc' = "loading" /\ loads' = Append(loads, id)
        /\ UNCHANGED <<file, stored, restarts>>

\* Mutant: any stored network counts as this one.
LoadGenesisAnyFound ==
    LET id == NetworkId(file)
    IN  /\ pc = "down"
        /\ IF ~ReadGenesis(Files[file]) THEN pc' = "failed" /\ UNCHANGED loads
           ELSE IF stored # NoNetwork THEN pc' = "up" /\ UNCHANGED loads
           ELSE pc' = "loading" /\ loads' = Append(loads, id)
        /\ UNCHANGED <<file, stored, restarts>>

\* Mutant: genesis snapshots already in the store are not written again.
LoadGenesisSkipLoaded ==
    LET id == NetworkId(file)
    IN  /\ pc = "down"
        /\ IF ~ReadGenesis(Files[file]) THEN pc' = "failed" /\ UNCHANGED loads
           ELSE IF stored = id THEN pc' = "up" /\ UNCHANGED loads
           ELSE IF stored # NoNetwork THEN pc' = "failed" /\ UNCHANGED loads
           ELSE pc' = "loading" /\ loads' = IF loads = <<>> THEN Append(loads, id) ELSE loads
        /\ UNCHANGED <<file, stored, restarts>>

\* LoadGenesis up to SnapshotsLoadGenesis: read and validate the file,
\* derive the network id, return nil if the store is bound to it, fail if
\* it is bound to another, and otherwise write the genesis snapshots.
LoadGenesis ==
    LET id == NetworkId(file)
    IN  /\ pc = "down"
        /\ IF ~ReadGenesis(Files[file]) THEN pc' = "failed" /\ UNCHANGED loads
           ELSE IF stored = id THEN pc' = "up" /\ UNCHANGED loads
           ELSE IF stored # NoNetwork THEN pc' = "failed" /\ UNCHANGED loads
           ELSE pc' = "loading" /\ loads' = Append(loads, id)
        /\ UNCHANGED <<file, stored, restarts>>

\* The last statement of LoadGenesis: StateSet("network", {Id: networkId}).
SetNetworkState ==
    /\ pc = "loading"
    /\ stored' = NetworkId(file)
    /\ pc' = "up"
    /\ UNCHANGED <<file, loads, restarts>>

\* The process stops (crash, or exit after an error) and is restarted.
Restart ==
    /\ pc # "down"
    /\ restarts < MaxRestarts
    /\ pc' = "down"
    /\ restarts' = restarts + 1
    /\ UNCHANGED <<file, stored, loads>>

\* While the node is down the operator puts another genesis.json in place.
ReplaceFile(k) ==
    /\ pc = "down"
    /\ file' = k
    /\ UNCHANGED <<stored, loads, pc, restarts>>

Next ==
    \/ LoadGenesis
    \/ SetNetworkState
    \/ Restart
    \/ \E k \in DOMAIN Files : ReplaceFile(k)

Spec == Init /\ [][Next]_vars

-----------------------------------------------------------------------------
(* Properties *)

TypeOK ==
    /\ file \in DOMAIN Files
    /\ stored \in DOMAIN Files \cup {NoNetwork}
    /\ loads \in Seq(DOMAIN Files)
    /\ pc \in {"down", "loading", "up", "failed"}
    /\ restarts \in 0 .. MaxRestarts

(***************************************************************************)
(* The state key "network" is written once: a store bound to a network is *)
(* never rebound to another, whatever genesis.json the node is restarted  *)
(* with (LoadGenesis returns an error for a different network).           *)
(***************************************************************************)
StoreBoundOnce ==
    [][stored # NoNetwork => stored' = stored]_vars

(***************************************************************************)
(* A node that finished LoadGenesis runs on the network its store is      *)
(* bound to: the one of the genesis.json it was started with.             *)
(***************************************************************************)
UpOnlyOnOwnNetwork ==
    pc = "up" => stored = NetworkId(file)

(***************************************************************************)
(* Spec section 3: a loaded genesis has exactly MinimumNodeCount nodes,   *)
(* every address unique, every balance at least the pledge, and every     *)
(* view key derived from its spend key.                                    *)
(***************************************************************************)
LoadedGenesisValid ==
    \A i \in DOMAIN loads :
        LET g == Files[loads[i]]
        IN  /\ Len(g.nodes) = MinimumNodeCount
            /\ Cardinality({g.nodes[j].address : j \in DOMAIN g.nodes}) = Len(g.nodes)
            /\ \A j \in DOMAIN g.nodes :
                  g.nodes[j].balance >= PledgeAmount /\ g.nodes[j].address \notin BadViewKeys

(***************************************************************************)
(* Spec sections 3 and 6: the store holds the genesis snapshots of the    *)
(* network it is bound to and of no other.                                 *)
(***************************************************************************)
LoadedGenesisOfStoredNetwork ==
    stored # NoNetwork => \A i \in DOMAIN loads : loads[i] = stored

(***************************************************************************)
(* What does hold: a store bound to a network holds that network's        *)
(* genesis snapshots, and they are the last ones SnapshotsLoadGenesis     *)
(* wrote, across crashes between the two writes and restarts with other   *)
(* genesis files.                                                          *)
(***************************************************************************)
StoredNetworkLoaded ==
    stored # NoNetwork => loads # <<>> /\ loads[Len(loads)] = stored

=============================================================================

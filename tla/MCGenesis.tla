------------------------------ MODULE MCGenesis ------------------------------
(* Candidate genesis files for Genesis: a valid one, a second valid one   *)
(* with other balances (another network), one naming an address twice,   *)
(* one with a bad view key, one with six nodes and one under the pledge.  *)
EXTENDS Genesis

CONSTANTS a1, a2, a3, a4, a5, a6, a7, bad

MCAddresses == {a1, a2, a3, a4, a5, a6, a7, bad}

Node(a, b) == [address |-> a, balance |-> b]

MCValid == <<Node(a1, 10000), Node(a2, 10000), Node(a3, 10000), Node(a4, 10000),
             Node(a5, 10000), Node(a6, 10000), Node(a7, 10000)>>

MCFiles ==
    << [epoch |-> 1, nodes |-> MCValid],
       [epoch |-> 1, nodes |-> [MCValid EXCEPT ![1] = Node(a1, 15000)]],
       [epoch |-> 1, nodes |-> [MCValid EXCEPT ![2] = Node(a1, 10000)]],
       [epoch |-> 1, nodes |-> [MCValid EXCEPT ![3] = Node(bad, 10000)]],
       [epoch |-> 1, nodes |-> SubSeq(MCValid, 1, 6)],
       [epoch |-> 1, nodes |-> [MCValid EXCEPT ![4] = Node(a4, 9999)]] >>

=============================================================================

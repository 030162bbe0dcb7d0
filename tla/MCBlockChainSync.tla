-------------------------- MODULE MCBlockChainSync --------------------------
(***************************************************************************)
(* Instances of BlockChainSync for TLC.  The chain of the network is made  *)
(* of blocks "m"; the node may have two blocks "x" of its own above the    *)
(* first block, and is unable to enact block 4.                            *)
(***************************************************************************)
EXTENDS BlockChainSync

CONSTANTS p1, p2

M(n) == [i \in 1..n |-> "m"]

MCPeer   == {p1, p2}
MCServed == [p \in {p1, p2} |-> IF p = p1 THEN M(5) ELSE M(3)]
MCFirst  == [p \in {p1, p2} |-> IF p = p1 THEN 3 ELSE 2]
MCOwn    == {M(1), <<"m", "x", "x">>}
MCBad    == {M(4)}
=============================================================================

------------------------------- MODULE MCPBFT -------------------------------
(* Small instances of PBFT for TLC.  Blocks are numbers: 0 is the genesis  *)
(* block and -1 the empty hash.                                            *)
EXTENDS PBFT

NoHash == -1

\* Two blocks of height 1, by the leaders of views 0 and 1.
ForkNumber == [b \in -1 .. 2 |-> IF b < 1 THEN b ELSE 1]
ForkParent == [b \in 0 .. 2 |-> 0]
ForkSealer == [b \in 0 .. 2 |-> IF b = 2 THEN 1 ELSE 0]

\* One block of height 1, by the leader of view 1.
OneNumber == [b \in -1 .. 1 |-> b]
OneParent == [b \in 0 .. 1 |-> 0]
OneSealer == [b \in 0 .. 1 |-> b]

\* A chain of two blocks, by the leaders of view 0.
ChainNumber == [b \in -1 .. 2 |-> b]
ChainParent == [b \in 0 .. 2 |-> IF b = 2 THEN 1 ELSE 0]
ChainSealer == [b \in 0 .. 2 |-> IF b = 2 THEN 1 ELSE 0]
=============================================================================

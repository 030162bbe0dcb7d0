---------------------------- MODULE MCBlockQueue ----------------------------
(* Small instances of BlockQueue for TLC.                                  *)
EXTENDS BlockQueue

\* 2 is a child of 1; 1 and 3 are children of the genesis block 0.
ForkParent == [b \in 1 .. 3 |-> IF b = 2 THEN 1 ELSE 0]
\* 2, 3, 4 is a chain beside block 1.
TreeParent == [b \in 1 .. 4 |-> IF b < 3 THEN 0 ELSE b - 1]

AtOnce == [b \in 1 .. 3 |-> 0]
\* 3 comes a tick too early.
Early == [b \in 1 .. 4 |-> IF b = 3 THEN 1 ELSE 0]
=============================================================================

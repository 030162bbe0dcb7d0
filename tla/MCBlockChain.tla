---------------------------- MODULE MCBlockChain ----------------------------
(***************************************************************************)
(* Instances of BlockChain for TLC: two transactions, blocks with none or  *)
(* one of them.                                                            *)
(***************************************************************************)
EXTENDS BlockChain

CONSTANTS a, b

MCTx         == {a, b}
MCKey        == [t \in {a, b} |-> t]
MCBlockLimit == [t \in {a, b} |-> 9]
MCPayload    == {{}, {a}, {b}}
=============================================================================

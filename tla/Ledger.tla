------------------------------- MODULE Ledger -------------------------------
(***************************************************************************)
(* What the PBFT engine promises its users: one block of every height is   *)
(* decided, for good, and the nodes copy decided blocks, each after its    *)
(* parent.  The promise ends when a proposal is stale: `fresh' says that   *)
(* none has been so far.                                                   *)
(***************************************************************************)
EXTENDS Integers

CONSTANTS
    Node,     \* the miners
    Block,    \* the blocks that may exist
    Genesis,  \* the block everybody starts with
    Number,   \* block -> its number
    Parent,   \* block -> its parent
    Omitted   \* the blocks that are never decided

VARIABLES
    fresh,    \* no proposal has been stale
    decided,  \* the blocks decided so far
    copy      \* node -> the blocks it has

ledger == <<fresh, decided, copy>>

Init == fresh = TRUE /\ decided = {} /\ copy = [i \in Node |-> {Genesis}]

(* A block is decided.  It is the only one of its height, while proposals  *)
(* are fresh.                                                              *)
Decide(b) ==
    /\ b \notin Omitted
    /\ decided' = decided \cup {b}
    /\ fresh' => fresh /\ \A d \in decided : Number[d] # Number[b]
    /\ UNCHANGED copy

(* A node takes a decided block whose parent it has.                       *)
Take(i, b) ==
    /\ b \notin copy[i] /\ Parent[b] \in copy[i]
    /\ copy' = [copy EXCEPT ![i] = @ \cup {b}]
    /\ UNCHANGED <<fresh, decided>>

(* A proposal is stale.                                                    *)
Stale == fresh /\ ~fresh' /\ UNCHANGED <<decided, copy>>

Next ==
    \/ \E b \in Block \ decided : Decide(b)
    \/ \E b \in decided : \E i \in Node : Take(i, b)
    \/ Stale

Spec == Init /\ [][Next]_ledger
=============================================================================

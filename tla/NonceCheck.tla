----------------------------- MODULE NonceCheck -----------------------------
(***************************************************************************)
(* The check that a transaction is not on the chain already                *)
(* (libcv/NonceCheck.cpp) and the check of its block limit                 *)
(* (BlockChain::isNonceOk, BlockChain::isBlockLimitOk).                    *)
(*                                                                         *)
(* The check keeps the keys (sender and random id) of the transactions of  *)
(* the last MaxBlockSize blocks in a cache.  A cache is a record nc; every *)
(* method of the class holds m_lock, so a method is a function from the    *)
(* cache before to the cache after.  The chain it reads, by numberHash and *)
(* transactions, is the sequence of the blocks above the genesis, which    *)
(* has no transactions; a block is the set of its transactions.            *)
(***************************************************************************)
EXTENDS Integers, Sequences, FiniteSets

CONSTANTS
    Tx,             \* transactions, by hash
    Key,            \* transaction -> its sender and random id
    BlockLimit,     \* transaction -> its blockLimit()
    MaxBlockSize,   \* NonceCheck::maxblocksize
    MaxBlockLimit   \* BlockChain::maxBlockLimit

ASSUME NonceCheckAssumption ==
    /\ DOMAIN Key = Tx
    /\ BlockLimit \in [Tx -> Nat]
    /\ MaxBlockSize \in Nat /\ MaxBlockLimit \in Nat

Keys == {Key[t] : t \in Tx}

NonceCache == [cache : SUBSET Keys, startblk : Nat, endblk : Nat]

-----------------------------------------------------------------------------
GenerateKeys(txs) == {Key[t] : t \in txs}

(* The keys of the blocks lo..hi of the chain.                             *)
KeysIn(chain, lo, hi) ==
    UNION {GenerateKeys(chain[i]) : i \in {j \in DOMAIN chain : lo <= j /\ j <= hi}}

Ok(nc, t) == Key[t] \notin nc.cache

DelCache(nc, txs) == [nc EXCEPT !.cache = @ \ GenerateKeys(txs)]

StartBlk(last) == IF last > MaxBlockSize THEN last - MaxBlockSize ELSE 0

(* Mutant: the first block of the window is evicted too.                   *)
UpdateCache_Short(nc, chain, last, rebuild) ==
    LET start == StartBlk(last)
        kept  == IF rebuild THEN {} ELSE nc.cache \ KeysIn(chain, nc.startblk, start)
        first == IF ~rebuild /\ nc.endblk + 1 > start THEN nc.endblk + 1 ELSE start + 1
    IN  [cache |-> kept \cup KeysIn(chain, first + 1, last), startblk |-> start, endblk |-> last]

(* The window moves to the last block: the blocks it leaves behind are     *)
(* evicted, the blocks above the previous end are added.                   *)
UpdateCache(nc, chain, last, rebuild) ==
    LET start   == StartBlk(last)
        preend  == IF rebuild THEN 0 ELSE nc.endblk
        kept    == IF rebuild THEN {}
                   ELSE nc.cache \ KeysIn(chain, nc.startblk, start - 1)
        first   == IF preend + 1 > start THEN preend + 1 ELSE start
    IN  [cache |-> kept \cup KeysIn(chain, first, last), startblk |-> start, endblk |-> last]

NoCache == [cache |-> {}, startblk |-> 0, endblk |-> 0]

(* NonceCheck::init *)
Rebuilt(chain) == UpdateCache(NoCache, chain, Len(chain), TRUE)

IsBlockLimitOk(number, t) ==
    number < BlockLimit[t] /\ BlockLimit[t] <= number + MaxBlockLimit

IsNonceOk(nc, t) == Ok(nc, t)
=============================================================================

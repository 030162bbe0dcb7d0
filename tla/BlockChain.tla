----------------------------- MODULE BlockChain -----------------------------
(***************************************************************************)
(* The chain on disk and in memory (libcv/BlockChain.cpp): the import of a *)
(* block in the order of its writes, the choice of the best block, the     *)
(* change to another branch, rewind, the bloom index of the logs, and a    *)
(* crash between any two writes.                                           *)
(*                                                                         *)
(* A block is the path from the genesis to it: the sequence of the sets of *)
(* transactions of the blocks on it.  Its length is the number of the      *)
(* block and its front is the parent.  Every header has difficulty 1       *)
(* (BlockHeader::populateFromParent), so the total difficulty of a block   *)
(* is its number.  A transaction logs one entry of its own, so that the    *)
(* bloom of a block is its set of transactions; a false positive of a real *)
(* bloom only adds a block to the result of a search.                      *)
(*                                                                         *)
(* The client thread imports one block at a time; the threads of the RPC   *)
(* server read numbers and transaction addresses, and cache what they      *)
(* read, also in the middle of an import.                                  *)
(***************************************************************************)
EXTENDS NonceCheck

CONSTANTS
    Payload,      \* the sets of transactions a block may have
    IndexSize,    \* c_bloomIndexSize
    MaxNumber,    \* bound on the numbers of blocks
    MaxBlocks,    \* bound on the number of imported blocks
    MaxCrashes,   \* bound on the crashes
    MaxRewinds,   \* bound on the calls of rewind
    TieBreakingGas, \* ChainParams::tieBreakingGas
    NoBlock       \* no entry

ASSUME BlockChainAssumption ==
    /\ Payload \subseteq SUBSET Tx /\ IndexSize \in Nat \ {0, 1}
    /\ {MaxNumber, MaxBlocks, MaxCrashes, MaxRewinds} \subseteq Nat
    /\ TieBreakingGas \in BOOLEAN
    /\ NoBlock \notin UNION {[1..n -> Payload] : n \in 0..MaxNumber}

VARIABLES
    blocksDB,   \* m_blocksDB: the blocks
    detailsDB,  \* m_extrasDB: the blocks with details, receipts and blooms
    hashDB,     \* m_extrasDB: number -> block
    addrDB,     \* m_extrasDB: transaction -> block
    bloomDB,    \* m_extrasDB: level -> item -> bloom
    best,       \* m_extrasDB: "best"
    hashes,     \* m_blockHashes: number -> the cached block, or NoBlock
    addresses,  \* m_transactionAddresses: transaction -> the cached block, or NoBlock
    blooms,     \* m_blocksBlooms over bloomDB: level -> item -> bloom
    last,       \* m_lastBlockHash, m_lastBlockNumber
    nc,         \* the nonce check
    imp,        \* where the import of a block is
    imports,    \* blocks imported so far
    crashes,    \* crashes so far
    rewinds,    \* rewinds so far
    torn,       \* a crash hit an import between its batch and its "best"
    raced       \* a reader cached a number of a branch that is left

disk   == <<blocksDB, detailsDB, hashDB, addrDB, bloomDB, best>>
memory == <<hashes, addresses, blooms, last, nc>>
bounds == <<imports, crashes, rewinds, torn, raced>>
vars   == <<disk, memory, imp, bounds>>

-----------------------------------------------------------------------------
Genesis    == <<>>
Number     == 1..MaxNumber
Level      == 0..1
Item       == 0..MaxNumber
Parent(b)  == SubSeq(b, 1, Len(b) - 1)
Txs(b)     == b[Len(b)]
Path(b)    == {SubSeq(b, 1, n) : n \in 0..Len(b)}

(* The last common ancestor of two blocks (treeRoute).                     *)
Common(b, c) == CHOOSE a \in Path(b) \cap Path(c) :
                    \A d \in Path(b) \cap Path(c) : Len(d) <= Len(a)

NoHashes    == [n \in Number |-> NoBlock]
NoAddresses == [t \in Tx |-> NoBlock]
NoBlooms    == [l \in Level |-> [i \in Item |-> {}]]

Idle == [at |-> "idle", block |-> Genesis, best |-> FALSE, reorg |-> FALSE, common |-> Genesis]

Init ==
    /\ blocksDB = {} /\ detailsDB = {Genesis} /\ hashDB = NoHashes
    /\ addrDB = NoAddresses /\ bloomDB = NoBlooms /\ best = Genesis
    /\ hashes = NoHashes /\ addresses = NoAddresses /\ blooms = NoBlooms
    /\ last = Genesis /\ nc = Rebuilt(<<>>)
    /\ imp = Idle /\ imports = 0 /\ crashes = 0 /\ rewinds = 0 /\ torn = FALSE /\ raced = FALSE

-----------------------------------------------------------------------------
(* queryExtras: the cache, then the database.                              *)
QueryExtras(cache, db, k) == IF cache[k] # NoBlock THEN cache[k] ELSE db[k]

NumberHash(n) == IF n = 0 THEN Genesis ELSE QueryExtras(hashes, hashDB, n)

IsKnown(b, isCurrent) ==
    \/ b = Genesis
    \/ b \in blocksDB /\ b \in detailsDB /\ (isCurrent => Len(b) <= Len(last))

(* The bloom index: item i of level 0 is the bloom of block i, item i of   *)
(* level 1 is the union of the items i * IndexSize and following.          *)

(* The number of blocks of an item.                                        *)
Fine(level) == IF level = 0 THEN 1 ELSE IndexSize

(* Mutant: the upper level is cleared instead of rebuilt.                  *)
ClearBlockBlooms_Empty(bl, begin, end) ==
    [l \in Level |-> [i \in Item |->
        IF begin \div Fine(l) <= i /\ i <= (end - 1) \div Fine(l) THEN {} ELSE bl[l][i]]]

(* clearBlockBlooms(begin, end) *)
ClearBlockBlooms(bl, begin, end) ==
    LET low  == [i \in Item |-> IF begin <= i /\ i < end THEN {} ELSE bl[0][i]]
        high == [i \in Item |->
                    IF begin \div IndexSize <= i /\ i < (end - 1) \div IndexSize + 1
                    THEN UNION {low[j] : j \in {k \in Item : k \div IndexSize = i}}
                    ELSE bl[1][i]]
    IN  [l \in Level |-> IF l = 0 THEN low ELSE high]

(* The blooms of the blocks of a new branch are or-ed into both levels.    *)
AddBlooms(bl, route) ==
    [l \in Level |-> [i \in Item |->
        bl[l][i] \cup UNION {Txs(b) : b \in {c \in route : Len(c) \div Fine(l) = i}}]]

(* The chunk with item i of level l has an item of block b: it is written. *)
InChunk(b, l, i) == i \div IndexSize = (Len(b) \div Fine(l)) \div IndexSize

CeilDiv(n, d) == (n + d - 1) \div d

(* The items of chunk `index` that withBlockBloom looks at in a level.     *)
Items(level, index, earliest, latest) ==
    {index * IndexSize + o : o \in {p \in 0..(IndexSize - 1) :
        /\ index = earliest \div (Fine(level) * IndexSize) => (earliest \div Fine(level)) % IndexSize <= p
        /\ index = latest \div (Fine(level) * IndexSize) => p <= (latest \div Fine(level)) % IndexSize}}

(* withBlockBloom: the numbers of the blocks that may log t.               *)
WithBlockBloom(t, earliest, latest) ==
    LET u    == IndexSize * IndexSize
        top  == UNION {Items(1, i, earliest, latest) : i \in (earliest \div u)..CeilDiv(latest, u)}
        high == {i \in top \cap Item : t \in blooms[1][i]}
        low  == UNION {Items(0, i, earliest, latest) : i \in high}
    IN  {i \in low \cap Item : t \in blooms[0][i]}

-----------------------------------------------------------------------------
(* BlockChain::import.  A block with a known parent that is not known      *)
(* itself is enacted; a block that is higher than the last one becomes the *)
(* best one, and if it is on another branch the caches forget the branch   *)
(* that is left.                                                           *)

Route(b, common) == Path(b) \ Path(common)

(* Mutant: the numbers of the branch that is left stay in the cache.       *)
ClearCachesDuringChainReversion_Keep(firstInvalid) ==
    hashes' = hashes /\ addresses' = NoAddresses

ClearCachesDuringChainReversion(firstInvalid) ==
    /\ hashes' = [n \in Number |-> IF firstInvalid <= n /\ n <= Len(last) THEN NoBlock ELSE hashes[n]]
    /\ addresses' = NoAddresses

(* The blocks whose parent is known, without which import gives up.        *)
Parents == {q \in detailsDB : IsKnown(q, FALSE) /\ Len(q) < MaxNumber}

Blocks == {Append(p, x) : p \in Parents, x \in Payload}

(* A verified block repeats no key of its branch that is in the window of  *)
(* the nonce check; the blocks here repeat none at all.                    *)
Sound(b) == \A i \in 1..(Len(b) - 1) : GenerateKeys(b[i]) \cap GenerateKeys(Txs(b)) = {}

(* The gas a block uses is that of its transactions, one unit each.        *)
GasUsed(b) == IF b = Genesis THEN 0 ELSE Cardinality(Txs(b))

IsBest(b) == \/ Len(b) > Len(last)
             \/ TieBreakingGas /\ Len(b) = Len(last) /\ GasUsed(b) > GasUsed(last)

(* Mutant: every block of another branch counts as a reversion.            *)
StartImport_Reorg(b) ==
    LET common == Common(last, Parent(b))
    IN  /\ imp.at = "idle" /\ imports < MaxBlocks
        /\ Sound(b) /\ ~IsKnown(b, TRUE)
        /\ ClearCachesDuringChainReversion(Len(common) + 1)
        /\ blooms' = AddBlooms(blooms, Route(b, common))
        /\ imp' = [at |-> "blocks", block |-> b, best |-> IsBest(b), reorg |-> common # last, common |-> common]
        /\ imports' = imports + 1
        /\ UNCHANGED <<disk, last, nc, crashes, rewinds, torn, raced>>

StartImport(b) ==
    LET common == Common(last, Parent(b))
        reorg  == IsBest(b) /\ common # last
    IN  /\ imp.at = "idle" /\ imports < MaxBlocks
        /\ Sound(b) /\ ~IsKnown(b, TRUE)
        /\ IF reorg THEN ClearCachesDuringChainReversion(Len(common) + 1)
                    ELSE UNCHANGED <<hashes, addresses>>
        /\ blooms' = LET kept == IF reorg THEN ClearBlockBlooms(blooms, Len(common) + 1, Len(last) + 1)
                                          ELSE blooms
                     IN  IF IsBest(b) THEN AddBlooms(kept, Route(b, common)) ELSE kept
        /\ imp' = [at |-> "blocks", block |-> b, best |-> IsBest(b), reorg |-> reorg, common |-> common]
        /\ imports' = imports + 1
        /\ UNCHANGED <<disk, last, nc, crashes, rewinds, torn, raced>>

(* Mutant: "best" is written with the block, before its details.           *)
WriteBlocks_Best ==
    /\ imp.at = "blocks"
    /\ blocksDB' = blocksDB \cup {imp.block}
    /\ best' = IF imp.best THEN imp.block ELSE best
    /\ imp' = [imp EXCEPT !.at = "extras"]
    /\ UNCHANGED <<detailsDB, hashDB, addrDB, bloomDB, memory, bounds>>

WriteBlocks ==
    /\ imp.at = "blocks"
    /\ blocksDB' = blocksDB \cup {imp.block}
    /\ imp' = [imp EXCEPT !.at = "extras"]
    /\ UNCHANGED <<detailsDB, hashDB, addrDB, bloomDB, best, memory, bounds>>

(* Mutant: only the new block, not the rest of its branch, is indexed by   *)
(* transaction.                                                            *)
WriteExtras_Head ==
    LET route == IF imp.best THEN Route(imp.block, imp.common) ELSE {}
    IN  /\ imp.at = "extras"
        /\ detailsDB' = detailsDB \cup {imp.block}
        /\ hashDB' = [n \in Number |-> IF \E b \in route : Len(b) = n
                                       THEN CHOOSE b \in route : Len(b) = n ELSE hashDB[n]]
        /\ addrDB' = [t \in Tx |-> IF imp.best /\ t \in Txs(imp.block) THEN imp.block ELSE addrDB[t]]
        /\ bloomDB' = IF imp.best THEN blooms ELSE bloomDB
        /\ imp' = [imp EXCEPT !.at = "nonces"]
        /\ UNCHANGED <<blocksDB, best, memory, bounds>>

(* One batch: the details and, for the best block, the addresses of the    *)
(* transactions, the numbers and the blooms of the new blocks.             *)
WriteExtras ==
    LET route == IF imp.best THEN Route(imp.block, imp.common) ELSE {}
    IN  /\ imp.at = "extras"
        /\ detailsDB' = detailsDB \cup {imp.block}
        /\ hashDB' = [n \in Number |-> IF \E b \in route : Len(b) = n
                                       THEN CHOOSE b \in route : Len(b) = n ELSE hashDB[n]]
        /\ addrDB' = [t \in Tx |-> IF \E b \in route : t \in Txs(b)
                                   THEN CHOOSE b \in route : t \in Txs(b) ELSE addrDB[t]]
        /\ bloomDB' = [l \in Level |-> [i \in Item |->
                         IF \E b \in route : InChunk(b, l, i) THEN blooms[l][i] ELSE bloomDB[l][i]]]
        /\ imp' = [imp EXCEPT !.at = "nonces"]
        /\ UNCHANGED <<blocksDB, best, memory, bounds>>

ForgetNonces ==
    /\ imp.at = "nonces"
    /\ nc' = DelCache(nc, Txs(imp.block))
    /\ imp' = IF imp.best THEN [imp EXCEPT !.at = "best"] ELSE Idle
    /\ UNCHANGED <<disk, hashes, addresses, blooms, last, bounds>>

WriteBest ==
    /\ imp.at = "best"
    /\ last' = imp.block
    /\ best' = imp.block
    /\ imp' = [imp EXCEPT !.at = "update"]
    /\ UNCHANGED <<blocksDB, detailsDB, hashDB, addrDB, bloomDB, hashes, addresses, blooms, nc, bounds>>

(* The chain as numberHash and transactions show it to updateCache, whose  *)
(* queries fill the cache.                                                 *)
Numbered(head) == [n \in 1..Len(head) |-> IF NumberHash(n) = NoBlock THEN {} ELSE Txs(NumberHash(n))]

Read(numbers) == [n \in Number |-> IF n \in numbers THEN NumberHash(n) ELSE hashes[n]]

(* Mutant: the window is moved, not rebuilt, when the branch changes.      *)
UpdateNonces_NoRebuild ==
    /\ imp.at = "update"
    /\ nc' = UpdateCache(nc, Numbered(last), Len(last), FALSE)
    /\ hashes' = Read(1..Len(last))
    /\ imp' = Idle
    /\ UNCHANGED <<disk, addresses, blooms, last, bounds>>

UpdateNonces ==
    LET start   == StartBlk(Len(last))
        first   == IF imp.reorg THEN 1 ELSE nc.endblk + 1
        evicted == IF imp.reorg THEN {} ELSE nc.startblk..(start - 1)
    IN  /\ imp.at = "update"
        /\ nc' = UpdateCache(nc, Numbered(last), Len(last), imp.reorg)
        /\ hashes' = Read(evicted \cup (IF first > start THEN first ELSE start)..Len(last))
        /\ imp' = Idle
        /\ UNCHANGED <<disk, addresses, blooms, last, bounds>>

-----------------------------------------------------------------------------
(* The process stops at any point; open() takes "best" from the database,  *)
(* the caches are empty and the nonce check is built anew.                 *)
Crash ==
    /\ crashes < MaxCrashes
    /\ last' = best
    /\ addresses' = NoAddresses /\ blooms' = bloomDB
    /\ nc' = Rebuilt([n \in 1..Len(best) |-> IF hashDB[n] = NoBlock THEN {} ELSE Txs(hashDB[n])])
    /\ hashes' = [n \in Number |-> IF StartBlk(Len(best)) <= n /\ n <= Len(best) THEN hashDB[n] ELSE NoBlock]
    /\ torn' = (torn \/ (imp.best /\ imp.at \in {"nonces", "best"}))
    /\ imp' = Idle /\ crashes' = crashes + 1
    /\ UNCHANGED <<disk, imports, rewinds, raced>>

(* rewind: the nonce check keeps the blocks that are left.                 *)
Rewind(n) ==
    /\ imp.at = "idle" /\ rewinds < MaxRewinds /\ n < Len(last)
    /\ LET cleared == [k \in Number |-> IF n < k /\ k <= Len(last) THEN NoBlock ELSE hashes[k]]
           head    == IF n = 0 THEN Genesis ELSE QueryExtras(cleared, hashDB, n)
       IN  /\ hashes' = [k \in Number |-> IF k = n THEN head ELSE cleared[k]]
           /\ last' = head /\ best' = head
    /\ addresses' = NoAddresses
    /\ blooms' = ClearBlockBlooms(blooms, n + 1, Len(last) + 1)
    /\ rewinds' = rewinds + 1
    /\ UNCHANGED <<blocksDB, detailsDB, hashDB, addrDB, bloomDB, nc, imp, imports, crashes, torn, raced>>

(* garbageCollect drops an address or a chunk of blooms; numbers are never *)
(* dropped.                                                                *)
CollectAddress(t) ==
    /\ imp.at = "idle" /\ addresses[t] # NoBlock
    /\ addresses' = [addresses EXCEPT ![t] = NoBlock]
    /\ UNCHANGED <<disk, hashes, blooms, last, nc, imp, bounds>>

CollectBlooms(l, chunk) ==
    /\ imp.at = "idle"
    /\ blooms' = [blooms EXCEPT ![l] = [i \in Item |-> IF i \div IndexSize = chunk THEN bloomDB[l][i] ELSE @[i]]]
    /\ UNCHANGED <<disk, hashes, addresses, last, nc, imp, bounds>>

(* The block whose branch the number index on disk follows.                *)
Indexed == IF imp.best /\ imp.at \in {"nonces", "best"} THEN imp.block ELSE last

(* The reads of an RPC thread: numberHash and transactionLocation.  A      *)
(* number read between a reversion of the caches and the batch that        *)
(* follows it, or above the last block after a rewind, is that of a branch *)
(* that is left.                                                           *)
ReadNumber(n) ==
    /\ hashes' = Read({n})
    /\ raced' = (\/ raced
                 \/ imp.reorg /\ imp.at \in {"blocks", "extras"}
                 \/ n > Len(Indexed) /\ NumberHash(n) # NoBlock)
    /\ UNCHANGED <<disk, addresses, blooms, last, nc, imp, imports, crashes, rewinds, torn>>

ReadAddress(t) ==
    /\ addresses' = [addresses EXCEPT ![t] = QueryExtras(addresses, addrDB, t)]
    /\ UNCHANGED <<disk, hashes, blooms, last, nc, imp, bounds>>

-----------------------------------------------------------------------------
Next ==
    \/ \E b \in Blocks : StartImport(b)
    \/ WriteBlocks \/ WriteExtras \/ ForgetNonces \/ WriteBest \/ UpdateNonces
    \/ Crash
    \/ \E n \in 0..MaxNumber : Rewind(n)
    \/ \E t \in Tx : CollectAddress(t) \/ ReadAddress(t)
    \/ \E l \in Level, c \in Item : CollectBlooms(l, c)
    \/ \E n \in Number : ReadNumber(n)

Spec == Init /\ [][Next]_vars

-----------------------------------------------------------------------------
MaybeBlock == {NoBlock} \cup UNION {[1..n -> Payload] : n \in 0..MaxNumber}

(* Every variable has its type: the caches hold blocks or nothing, the     *)
(* counters keep to their bounds, only a best block changes the branch.    *)
TypeOK ==
    /\ blocksDB \cup detailsDB \cup {best, last} \subseteq MaybeBlock \ {NoBlock}
    /\ {hashDB, hashes} \subseteq [Number -> MaybeBlock]
    /\ {addrDB, addresses} \subseteq [Tx -> MaybeBlock]
    /\ {bloomDB, blooms} \subseteq [Level -> [Item -> SUBSET Tx]]
    /\ nc \in NonceCache /\ (imp.reorg => imp.best)
    /\ imports \in 0..MaxBlocks /\ crashes \in 0..MaxCrashes /\ rewinds \in 0..MaxRewinds
    /\ torn \in BOOLEAN /\ raced \in BOOLEAN

(* What the indexes do not survive: a crash between the batch and "best",  *)
(* and a number of a branch that is left in the cache.                     *)
Undisturbed == imp.at = "idle" /\ ~torn /\ ~raced

(* Between imports numberHash gives the block of that number on the branch *)
(* of the last block, whatever branch was left and however often the chain *)
(* was rewound (the number index of import and                             *)
(* clearCachesDuringChainReversion).                                       *)
CanonicalIndex == Undisturbed => \A n \in 1..Len(last) : NumberHash(n) = SubSeq(last, 1, n)

(* A transaction on the branch of the last block is found, on disk, in its *)
(* block on that branch, also if it was in a block of a branch that was    *)
(* left, and after rewinds.                                                *)
AddressOnDisk ==
    Undisturbed => \A n \in 1..Len(last) : \A t \in last[n] : addrDB[t] = SubSeq(last, 1, n)

(* "best" always names a block whose ancestors are all on disk with their  *)
(* details, so that a node that stops at any point can open its database.  *)
DiskClosed == Path(best) \ {Genesis} \subseteq blocksDB \cap detailsDB

(* A search by bloom over any range that holds the block of a transaction  *)
(* finds that block, over reversions, rewinds and evictions of the cache.  *)
NoMissedLogs ==
    Undisturbed =>
        \A n \in 1..Len(last) : \A t \in last[n] :
            \A lo \in 0..n, hi \in n..MaxNumber : n \in WithBlockBloom(t, lo, hi)

(* The nonce check knows no key that is not in its window of the branch of *)
(* the last block, and misses a key only if a block of another branch has  *)
(* it too (delCache is called for every imported block, updateCache only   *)
(* for the best).  rewind leaves the nonce check as it is.                 *)
NonceWindow ==
    Undisturbed /\ rewinds = 0 =>
        LET window == KeysIn(last, StartBlk(Len(last)), Len(last))
        IN  /\ nc.cache \subseteq window
            /\ window \ nc.cache \subseteq
                  UNION {GenerateKeys(Txs(b)) : b \in detailsDB \ Path(last)}
=============================================================================

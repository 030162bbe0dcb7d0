------------------------------- MODULE Client -------------------------------
(***************************************************************************)
(* The life of a transaction in one node: from the RPC threads and the     *)
(* verifier threads of the transaction queue, through the working block of *)
(* the client thread (libcv/Client.cpp, libcv/Block.cpp,                   *)
(* libpbftseal/PBFTClient.cpp), to the chain.                              *)
(*                                                                         *)
(* The steps of the client thread are the points where another thread can  *)
(* see the difference: doWork imports the next block of the chain          *)
(* (BlockChain::import, whose nonce check is updated in two steps around   *)
(* the change of the last block), drops its transactions from the queue,   *)
(* restarts the working block, answers a replaced transaction with a reset *)
(* of the state, and, as the leader, fills, executes and seals the working *)
(* block.  The consensus decides which block is next: module PBFT.  Here   *)
(* it is the block this node sealed or the block of another leader, which  *)
(* runs the same checks.                                                   *)
(***************************************************************************)
EXTENDS TransactionQueue

CONSTANTS
    Verifier,     \* the verifier threads of the transaction queue
    MaxTxs,       \* m_maxBlockTranscations
    MaxQueue,     \* c_maxVerificationQueueSize
    MaxNumber,    \* bound on the length of the chain
    MaxViews,     \* bound on the view changes that reset the working block
    MaxSyncs      \* bound on the times the node starts a major sync

ASSUME ClientAssumption ==
    MaxTxs \in Nat \ {0} /\ MaxQueue \in Nat /\ {MaxNumber, MaxViews, MaxSyncs} \subseteq Nat

VARIABLES
    tq,          \* the transaction queue
    unverified,  \* m_unverified: transactions of peers, in the order they came
    job,         \* verifier -> the transaction it took, or NoTx
    chain,       \* the blocks on the chain
    number,      \* m_lastBlockNumber
    nc,          \* the nonce check
    pre,         \* m_preSeal: the number of the block it builds on
    working,     \* m_working
    post,        \* m_postSeal
    ready,       \* m_syncTransactionQueue
    needReset,   \* m_needStateReset
    major,       \* isMajorSyncing()
    pc,          \* where the client thread is
    todo,        \* the transactions the step at pc has still to handle
    views,       \* view changes so far
    syncs        \* major syncs so far

chainVars == <<chain, number, nc>>
queueVars == <<tq, unverified, job>>
blockVars == <<pre, working, post>>
envVars   == <<major, views, syncs>>
vars == <<queueVars, chainVars, blockVars, ready, needReset, pc, todo, envVars>>

Thread == {"idle", "written", "deleted", "best", "dropGood", "resubmit",
           "reset", "clearing", "rejig", "fill", "seal"}

(* A block under construction: the number of its parent, its transactions, *)
(* and whether it is sealed.                                               *)
BlockState == [base : Nat, txs : SUBSET Tx, sealed : BOOLEAN]

(* Block::resetCurrent *)
ResetCurrent(b) == [b EXCEPT !.txs = {}, !.sealed = FALSE]

Fresh(n) == [base |-> n, txs |-> {}, sealed |-> FALSE]

Init ==
    /\ tq = EmptyQueue /\ unverified = <<>> /\ job = [v \in Verifier |-> NoTx]
    /\ chain = <<>> /\ number = 0 /\ nc = Rebuilt(<<>>)
    /\ pre = 0 /\ working = Fresh(0) /\ post = Fresh(0)
    /\ ready = FALSE /\ needReset = FALSE /\ major = FALSE
    /\ pc = "idle" /\ todo = {} /\ views = 0 /\ syncs = 0

-----------------------------------------------------------------------------
(* The callers of TransactionQueue::import.  m_onReady raises the flag of  *)
(* the client thread, m_onReplaced asks it for a reset.                    *)

ImportTransaction(t, retry) ==
    \E i \in Import(tq, t, retry, nc, number) :
        /\ tq' = i.queue
        /\ ready' = (ready \/ i.result = "Success")
        /\ needReset' = (needReset \/ i.replaced)

(* ClientBase::submitTransaction and injectTransaction: an RPC thread.     *)
SubmitTransaction(t) ==
    /\ ImportTransaction(t, FALSE)
    /\ UNCHANGED <<unverified, job, chainVars, blockVars, pc, todo, envVars>>

(* EthereumPeer hands the transactions of a peer to the queue.             *)
Enqueue(t) ==
    /\ Len(unverified) < MaxQueue
    /\ unverified' = Append(unverified, t)
    /\ UNCHANGED <<tq, job, chainVars, blockVars, ready, needReset, pc, todo, envVars>>

VerifierTake(v) ==
    /\ job[v] = NoTx /\ unverified # <<>>
    /\ job' = [job EXCEPT ![v] = Head(unverified)]
    /\ unverified' = Tail(unverified)
    /\ UNCHANGED <<tq, chainVars, blockVars, ready, needReset, pc, todo, envVars>>

VerifierImport(v) ==
    /\ job[v] # NoTx
    /\ ImportTransaction(job[v], FALSE)
    /\ job' = [job EXCEPT ![v] = NoTx]
    /\ UNCHANGED <<unverified, chainVars, blockVars, pc, todo, envVars>>

-----------------------------------------------------------------------------
(* Client::syncBlockQueue: the import of the next block and what follows.  *)

(* Mutant: the transactions already in the block are not looked at.        *)
Packable_NoDuplicates(t, cache, last, txs) ==
    IsBlockLimitOk(last, t) /\ IsNonceOk(cache, t)

(* Mutant: the chain is not looked at.                                     *)
Packable_NoNonce(t, cache, last, txs) ==
    IsBlockLimitOk(last, t) /\ Key[t] \notin GenerateKeys(txs)

(* What Block::sync lets into a block: a check against the last blocks and *)
(* against the transactions that are already in.                           *)
Packable(t, cache, last, txs) ==
    /\ IsBlockLimitOk(last, t) /\ IsNonceOk(cache, t)
    /\ Key[t] \notin GenerateKeys(txs)

(* The blocks of the other leaders, which checked them on the same chain.  *)
OtherBlocks ==
    {b \in SUBSET Tx : /\ Cardinality(b) <= MaxTxs
                       /\ \A t \in b : Packable(t, Rebuilt(chain), number, b \ {t})}

OwnBlocks == IF working.sealed /\ working.base = number THEN {working.txs} ELSE {}

(* BlockChain::import up to the write of both databases.                   *)
ImportBlock ==
    /\ pc = "idle" /\ number < MaxNumber
    /\ \E b \in OtherBlocks \cup OwnBlocks : chain' = Append(chain, b) /\ todo' = b
    /\ pc' = "written"
    /\ UNCHANGED <<queueVars, number, nc, blockVars, ready, needReset, envVars>>

ImportDelCache ==
    /\ pc = "written"
    /\ nc' = DelCache(nc, todo)
    /\ pc' = "deleted"
    /\ UNCHANGED <<queueVars, chain, number, blockVars, ready, needReset, todo, envVars>>

(* Mutant: the number of the parent's parent is stored.                    *)
ImportBest_Parent ==
    /\ pc = "deleted"
    /\ number' = Len(chain) - 2
    /\ pc' = "best"
    /\ UNCHANGED <<queueVars, chain, nc, blockVars, ready, needReset, todo, envVars>>

ImportBest ==
    /\ pc = "deleted"
    /\ number' = Len(chain)
    /\ pc' = "best"
    /\ UNCHANGED <<queueVars, chain, nc, blockVars, ready, needReset, todo, envVars>>

ImportUpdateCache ==
    /\ pc = "best"
    /\ nc' = UpdateCache(nc, chain, number, FALSE)
    /\ pc' = "dropGood"
    /\ UNCHANGED <<queueVars, chain, number, blockVars, ready, needReset, todo, envVars>>

(* Client::onChainChanged drops the transactions of the block one by one.  *)
OnChainChanged(t) ==
    /\ pc = "dropGood" /\ t \in todo
    /\ tq' = DropGood(tq, t)
    /\ todo' = todo \ {t}
    /\ UNCHANGED <<unverified, job, chainVars, blockVars, ready, needReset, pc, envVars>>

(* PBFTClient::syncBlockQueue ends with the reset of a sealed block that   *)
(* is not new.                                                             *)
ResetStale(b) == IF b.sealed /\ b.base + 1 <= number THEN ResetCurrent(b) ELSE b

(* Client::resyncStateFromChain; during a major sync it does nothing.  The *)
(* transactions of m_postSeal go back to the queue unless it was the block *)
(* that became the last one.                                               *)
IsLast(b) == b.sealed /\ b.base + 1 = number /\ chain[number] = b.txs

ResyncStateFromChain ==
    /\ pc = "dropGood" /\ todo = {}
    /\ IF major
       THEN /\ working' = ResetStale(working)
            /\ pc' = "reset"
            /\ UNCHANGED <<pre, todo>>
       ELSE /\ pre' = number
            /\ working' = Fresh(number)
            /\ todo' = IF IsLast(post) THEN {} ELSE post.txs
            /\ pc' = "resubmit"
    /\ UNCHANGED <<queueVars, chainVars, post, ready, needReset, envVars>>

ResubmitPostSeal(t) ==
    /\ pc = "resubmit" /\ t \in todo
    /\ ImportTransaction(t, TRUE)
    /\ todo' = todo \ {t}
    /\ UNCHANGED <<unverified, job, chainVars, blockVars, pc, envVars>>

EndResync ==
    /\ pc = "resubmit" /\ todo = {}
    /\ post' = working /\ ready' = TRUE
    /\ working' = ResetStale(working)
    /\ pc' = "reset"
    /\ UNCHANGED <<queueVars, chainVars, pre, needReset, todo, envVars>>

-----------------------------------------------------------------------------
(* The rest of PBFTClient::doWork, with or without a block.  A replaced    *)
(* transaction resets the state; the flag is lowered after the reset.      *)

ResetState ==
    /\ pc \in {"idle", "reset"}
    /\ IF needReset
       THEN /\ working' = Fresh(pre) /\ post' = Fresh(pre)
            /\ ready' = TRUE /\ pc' = "clearing"
       ELSE pc' = "rejig" /\ UNCHANGED <<working, post, ready>>
    /\ UNCHANGED <<queueVars, chainVars, pre, needReset, todo, envVars>>

ClearNeedReset ==
    /\ pc = "clearing"
    /\ needReset' = FALSE
    /\ pc' = "rejig"
    /\ UNCHANGED <<queueVars, chainVars, blockVars, ready, todo, envVars>>

(* PBFTClient::rejigSealing.  A node that is not the leader, that syncs,   *)
(* or whose working block is sealed goes back to the start of doWork.      *)
NotSealing ==
    /\ pc = "rejig"
    /\ pc' = "idle"
    /\ UNCHANGED <<queueVars, chainVars, blockVars, ready, needReset, todo, envVars>>

Full == Cardinality(working.txs) >= MaxTxs

(* syncTransactionQueue takes the flag and copies the queue.               *)
SyncTransactionQueue ==
    /\ pc = "rejig" /\ ~major /\ ~working.sealed
    /\ IF ready /\ ~Full
       THEN /\ ready' = FALSE
            /\ todo' = tq.current \ working.txs
            /\ pc' = "fill"
       ELSE pc' = "seal" /\ UNCHANGED <<ready, todo>>
    /\ UNCHANGED <<queueVars, chainVars, blockVars, needReset, envVars>>

(* The loop of Block::sync.  A transaction that fails a check is dropped;  *)
(* a full block ends the loop.                                             *)
Fill(t) ==
    /\ pc = "fill" /\ t \in todo /\ ~Full
    /\ todo' = todo \ {t}
    /\ IF Packable(t, nc, number, working.txs)
       THEN working' = [working EXCEPT !.txs = @ \cup {t}] /\ UNCHANGED tq
       ELSE tq' = Drop(tq, t) /\ UNCHANGED working
    /\ UNCHANGED <<unverified, job, chainVars, pre, post, ready, needReset, pc, envVars>>

(* The end of the loop stores whether there is more in the flag.           *)
EndFill ==
    /\ pc = "fill" /\ (todo = {} \/ Full)
    /\ ready' = Full
    /\ todo' = {} /\ pc' = "seal"
    /\ UNCHANGED <<queueVars, chainVars, blockVars, needReset, envVars>>

(* The rest of rejigSealing: wait for the next interval, seal, or give up  *)
(* and reset: the consensus refused the block, the block is empty, or a    *)
(* transaction failed, which drops it.                                     *)
Wait ==
    /\ pc = "seal" /\ ~Full
    /\ pc' = "idle"
    /\ UNCHANGED <<queueVars, chainVars, blockVars, ready, needReset, todo, envVars>>

Seal ==
    /\ pc = "seal"
    /\ working' = [working EXCEPT !.sealed = TRUE]
    /\ post' = working'
    /\ pc' = "idle"
    /\ UNCHANGED <<queueVars, chainVars, pre, ready, needReset, todo, envVars>>

SealFails ==
    /\ pc = "seal"
    /\ tq' \in {tq} \cup {Drop(tq, t) : t \in working.txs}
    /\ working' = ResetCurrent(working)
    /\ pc' = "idle"
    /\ UNCHANGED <<unverified, job, chainVars, pre, post, ready, needReset, todo, envVars>>

-----------------------------------------------------------------------------
(* The consensus changed the view: the callback resets a sealed block.     *)
OnViewChange ==
    /\ working.sealed /\ views < MaxViews
    /\ working' = ResetCurrent(working)
    /\ views' = views + 1
    /\ UNCHANGED <<queueVars, chainVars, pre, post, ready, needReset, pc, todo, major, syncs>>

(* BlockChainSync starts and ends a download of blocks.                    *)
MajorSync ==
    /\ \/ ~major /\ syncs < MaxSyncs /\ syncs' = syncs + 1
       \/ major /\ UNCHANGED syncs
    /\ major' = ~major
    /\ UNCHANGED <<queueVars, chainVars, blockVars, ready, needReset, pc, todo, views>>

-----------------------------------------------------------------------------
ClientThread ==
    \/ ImportBlock \/ ImportDelCache \/ ImportBest \/ ImportUpdateCache
    \/ \E t \in Tx : OnChainChanged(t) \/ ResubmitPostSeal(t) \/ Fill(t)
    \/ ResyncStateFromChain \/ EndResync \/ ResetState \/ ClearNeedReset
    \/ NotSealing \/ SyncTransactionQueue \/ EndFill
    \/ Wait \/ Seal \/ SealFails

Next ==
    \/ \E t \in Tx : SubmitTransaction(t) \/ Enqueue(t)
    \/ \E v \in Verifier : VerifierTake(v) \/ VerifierImport(v)
    \/ ClientThread
    \/ OnViewChange \/ MajorSync

Spec == Init /\ [][Next]_vars

-----------------------------------------------------------------------------
(* Properties *)

TypeOK ==
    /\ tq \in Queue /\ unverified \in Seq(Tx) /\ job \in [Verifier -> Tx \cup {NoTx}]
    /\ chain \in Seq(SUBSET Tx) /\ number \in Nat /\ nc \in NonceCache
    /\ pre \in Nat /\ working \in BlockState /\ post \in BlockState
    /\ {ready, needReset, major} \subseteq BOOLEAN
    /\ pc \in Thread /\ todo \subseteq Tx /\ views \in Nat /\ syncs \in Nat

(* The import of a block is under way.                                     *)
Importing == pc \in {"written", "deleted", "best"}

OnChain == UNION {chain[i] : i \in DOMAIN chain}

(* No transaction is on the chain twice: a transaction that the nonce      *)
(* check forgets, because its block left the window of NonceCheck, is      *)
(* refused by its block limit from then on.                                *)
NoReplay ==
    \A i, j \in DOMAIN chain : i # j => chain[i] \cap chain[j] = {}

(* Whenever no block is being imported, the nonce check refuses exactly    *)
(* the keys of the last blocks: the removal of the keys of the new block   *)
(* before the window moves (BlockChain::import) loses none of them.        *)
WindowExact ==
    ~Importing => /\ nc.cache = KeysIn(chain, nc.startblk, number)
                  /\ nc.startblk = StartBlk(number) /\ nc.endblk = number

(* Once the client thread has dropped the transactions of a block from the *)
(* queue they do not come back: a thread that imports one of them sees the *)
(* new window of the nonce check or comes before the drop, and so does the *)
(* client when it resubmits the transactions of m_postSeal.                *)
CommittedLeavesQueue ==
    ~Importing /\ pc # "dropGood" => tq.current \cap OnChain = {}

(* The three indexes of the queue agree, a sender and random id has at     *)
(* most one transaction in it, and the queue keeps to its limit.           *)
QueueIndexed ==
    /\ tq.known = tq.current
    /\ \A k \in Keys : tq.byNonce[k] # NoTx => Key[tq.byNonce[k]] = k /\ tq.byNonce[k] \in tq.current
    /\ \A t \in tq.current : tq.byNonce[Key[t]] = t
    /\ Cardinality(tq.current) <= Limit

(* The block this node seals on top of the last block repeats no key of    *)
(* the window and none of its own, whatever blocks came in and whatever    *)
(* resets happened while it was filled.                                    *)
SealedIsFresh ==
    working.sealed /\ working.base = number /\ ~Importing =>
        /\ GenerateKeys(working.txs) \cap nc.cache = {}
        /\ \A t, u \in working.txs : Key[t] = Key[u] => t = u
=============================================================================

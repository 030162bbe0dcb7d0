# UtispaceChain: a verification project

UtispaceChain is a consortium chain node: a C++ Ethereum client whose proof of
work is replaced by a PBFT seal engine.  This directory holds TLA+ modules
translated from its source, the TLC runs that check them on small instances,
and TLAPS proofs that hold for every instance.  `PROJECT.json` lists the runs,
the mutants that show each property can fail, the source lines behind every
definition, the hazards of the code, the disagreements found, and the theorems.

## 1. The system and its parts

A node is one process.  The parts with logic of their own:

| part | state | operations | works with |
|---|---|---|---|
| PBFT engine, `libpbftseal/PBFT.cpp` | view and wanted view; raw, accepted, committed (also on disk) and future prepare; caches of signs and commits; view change requests; the height under consensus | `handlePrepareMsg`, `handleSignMsg`, `handleCommitMsg`, `handleViewChangeMsg`, `checkTimeout`, `handleFutureBlock`, `collectGarbage` (worker); `shouldSeal`, `generateSeal`, `generateCommit`, `reportBlock` (client) | peers through PBFTHost; the client through `onViewChange`; the block queue through `onSealGenerated` |
| PBFT client, `libpbftseal/PBFTClient.cpp` | the block being built (`m_working`, `m_sealingInfo`) | `doWork`, `rejigSealing`, `submitSealed` | engine, block and transaction queues |
| block queue, `libcv/BlockQueue.cpp` | unverified, verifying and verified queues; ready, draining, unknown and bad sets; future blocks | `import`, `verifierBody`, `drain`, `doneDrain`, `tick`, `clear`, `retryAllUnknown` | consensus and peers import; the client drains, called by `onReady` |
| block chain, `libcv/BlockChain.cpp` | blocks, details, number, address and bloom indexes on disk; caches of them; the last block | `sync`, `import`, `rewind`, `checkBlockValid`, `withBlockBloom`, `garbageCollect`, `open` | block queue, nonce check, state |
| client, `libcv/Client.cpp` | `m_syncBlockQueue`, `m_syncTransactionQueue`, `m_needStateReset`; `m_preSeal`, `m_working`, `m_postSeal` | `syncBlockQueue`, `onChainChanged`, `resyncStateFromChain`, `resetState`, `tick` | everything |
| transaction queue, `libcv/TransactionQueue.cpp` | current transactions, by hash and by sender and random id; known and dropped hashes; unverified ones of peers | `import`, `drop`, `dropGood`, `enqueue`, `verifierBody` | client, peers, RPC |
| nonce check, `libcv/NonceCheck.cpp` | the keys of the transactions of the last blocks | `ok`, `delCache`, `updateCache`, `init` | chain, transaction queue, block building |
| synchronisation, `libcv/BlockChainSync.cpp`, `EthereumHost.cpp`, `EthereumPeer.cpp` | headers and bodies, the numbers being downloaded and by whom, sync state, the last block that went to the queue | `onPeerStatus`, `onPeerBlockHeaders`, `onPeerBlockBodies`, `onPeerNewHashes`, `onPeerNewBlock`, `onPeerAborting`, `onBlockImported`, `collectBlocks`, `restartSync` | block queue, chain, peers |
| dissemination, `libpbftseal/PBFTHost.cpp`, `PBFTPeer.cpp` | which peer knows which message | `foreachPeer`, `onMsg` | engine, network |
| network, `libp2p` | sessions, node table | handshake, ping, disconnect | all capabilities |
| execution, `libcv/State.cpp`, `Executive.cpp`, `libcvvm` | accounts, storage | transactions | blocks |

What is hard here:

* **two threads on one engine.**  The worker and the client take `m_mutex` for
  one call at a time.  The client's chain of calls (may I seal, here is my block,
  here is my sign) can be interrupted by a view change after every one.
* **messages** arrive late, twice, in any order and from earlier views; votes
  are cached under a signature that covers the block and not the view.
* **restarts.**  Only the lock (`m_committed_prepare_cache`) and the chain
  survive, and the lock is written between two broadcasts.  A block reaches the
  disk in three writes, with the process free to stop between them.
* **verifiers.**  Any number of threads verify blocks in parallel and must pass
  them on in order, while blocks turn bad, the queue is cleared and the client
  holds a batch outside the queue.
* **callbacks** (`onViewChange`, `onReady`, `onBlockImported`) run when the locks
  are released, so what they announce may no longer be true.
* **a window in steps.**  The nonce check forgets the keys of a new block before
  the block is the last one and learns them again after, while RPC threads and
  verifiers ask it about transactions.
* **caches over a database** that several branches write: what a reader caches in
  the middle of a change of branch, or before it, may be of the branch that is left.
* **download beside consensus.**  The same block may be asked for, be in the
  queue, be in the hands of the client and be committed by consensus, which also
  goes through the queue: a header may be of a block that the queue has got meanwhile.

What makes the parts correct: no two nodes save different blocks of a height; a
node that has committed a block does not help another one; views move forward
and only when others want them; what is saved carries a quorum; the queue gives
blocks to the chain in order, once, and says so to the client; it calls bad only
what is bad; no transaction is on the chain twice, and none that is on it is still
queued; the indexes show the branch of the last block, and a database can be
opened wherever the node stopped; a download asks for what it misses until it has
it.

## 2. Modules

| module | what it is |
|---|---|
| `PBFT` | N miners, each with its engine and its client thread, and the network between them |
| `Ledger` | what the engine promises: one block of a height is decided, nodes take decided blocks in order |
| `PBFT_proofs`, `PBFT_ledger_proofs` | the theorems about `PBFT`; the second has those that came with `Ledger` |
| `BlockQueue` | the block queue, its verifiers, and the client thread that drains it into the chain |
| `NonceCheck` | the nonce check and the check of the block limit, as functions |
| `TransactionQueue` | the transaction queue, as functions; extends `NonceCheck` |
| `Client` | the life of a transaction in a node; composes the transaction queue, the nonce check, the import of blocks and the working block; extends `TransactionQueue` |
| `BlockChain` | the chain on disk and in memory; extends `NonceCheck` |
| `BlockChainSync` | the download of blocks, with peers, block queue and chain |
| `BlockQueue_proofs` | the theorems about `BlockQueue`, and the lemmas about its operators |
| `BlockChainSync_proofs` | the theorems about `BlockChainSync` |
| `Iterations` | lemmas about numbers and loops that the proofs share |
| `NonceCheck_proofs`, `Client_proofs`, `BlockChain_proofs` | lemmas about the nonce check; the theorems about the two modules that use it |
| `MCPBFT`, `MCBlockQueue`, `MCClient`, `MCBlockChain`, `MCBlockChainSync` | instances for TLC |

Definitions whose comment starts with *Mutant* are the wrong versions of the
definition that follows; `PROJECT.json` says which property each of them breaks.

### PBFT

The state of a node is one record (`NodeState`), a field per member of the class
(named beside it).  A handler is a function from the record before to the record
after, built from the functions it calls, as in the code: `HandleSignMsg` ends in
`CheckAndCommit`, which stores the lock, broadcasts through `BroadcastCommitReq`
and ends in `CheckAndSave`.  Actions of the worker apply such a function to any
message in the network.  The client thread is a small program counter (`step`):
`ShouldSeal`, `GenerateSeal`, then `GenerateCommit` or `ChangeViewForEmptyBlock`
or `AbandonSeal`; `SyncBlockQueue` and `ReportBlock`.  `OnViewChange` is the
callback, after the lock is released.  `Restart` keeps what is on disk; `InFlight`
adds the stop between a sign's broadcast and the write of the lock.

Abstractions.  The network is the set of all messages ever broadcast: a message
may be received at any time, any number of times, or never, and relaying adds
nothing.  Signatures are unforgeable, so a message's idx is its author; nodes
follow the code (they may stop, be slow, or fail to validate, `Checks`).  A block
is its hash, which fixes number, parent, sealer and whether it is empty.  Empty
blocks only change the view if the network's setting `omitEmptyBlock` says so
(`OmitEmptyBlock`, PBFT.cpp:776, PBFTClient.cpp:328-343; `Omitted` are the blocks
concerned); the setting does not change (Client.cpp:143-147 rereads it).  Timers
decide only when a time-out happens and are left open, and so is the choice of
transactions.  Garbage collection by age is a step that may happen at any time.
The set of miners is fixed.  `SyncBlockQueue` is the block queue and the
synchronisation seen from consensus: a block that carries enough signatures and
whose parent is there may be imported.  It becomes the head if its number is
greater; that a tie goes to the block with more gas (BlockChain.cpp:1116) is left to
`BlockChain`.  `CheckBlockSign` counts a set of signers where the code compares the
length of a list (PBFT.cpp:1297): the two agree because the list a node makes has
every signer once.
`ShouldSeal` is one step with the test of `isSealed` that `rejigSealing` makes after
it, which only the client thread and the callback change.

### Ledger

Three variables: the decided blocks, each node's copy, and whether proposals have
been fresh so far.  `Decide` adds a block that is not omitted, the only one of its height
while proposals are fresh; `Take` gives a node a decided block whose parent it has;
`Stale` ends the promise.  `PBFT` implements it (`LedgerSpec`) with decided <- the
blocks for which a quorum has sent commits in one view, copy <- the blocks a node
has saved or imported, fresh <- `FreshProposals`, a condition on the messages that
were sent.

### BlockQueue

The queue is one record; the methods are functions of it, since each holds the
two locks while it changes the queue.  A verifier takes a block (`TakeJob`), and
later fails (`VerifyFails`), is next (`VerifyNext`) or has to wait
(`VerifyLater`); the signal after the locks are released is `OnReady`.  The client
is `StartSync` (the flag is taken), `Drain`, `ImportNext` for each block of the
batch, `DoneDrain`, `AssignSync` (the flag is assigned), and `Tick`, `TickImport`.
Any thread may import any block at any time (`ImportBlock`); `Clear` is
`restartSync`, `RetryAllUnknown` the administrator's command.

Conversions are modelled by what they do.  `Returned` is what
`SizedBlockQueue::removeIf` really returns: the last elements of the queue,
because `std::remove_if` moves the kept ones to the front.  `Sha3Uncles` is the
field in which an unfinished entry keeps its hash, and which in a finished entry is
the hash of the empty list, the same for all.  `RemoveSize` is unsigned
arithmetic (`Word` stands for 2^64), and `InsertSize` adds nothing, because the
data is moved away first.  A block is one byte long.

The loops of the class are bounded iterations: `Bfs` walks the descendants of a
block in `m_unknown` (`goodQueue`, `badQueue`), `Passes` is the loop of `updateBad`,
`Drains` that of `drainVerified`, `Updates` that of `doneDrain`.  Their bounds are
the lengths of the queues, and the proofs show that the loops are over by then: a
family has all descendants, and after the last pass no block is found bad.

Left out: malformed blocks (they change nothing), `m_difficulty` and
`m_onRoomAvailable` (both in `BlockChainSync`), the status reports, `importVerified`
(nothing calls it).

### NonceCheck, TransactionQueue, Client

The methods of the two classes hold one lock each and are functions of their
records.  `Client` has the threads: RPC threads (`SubmitTransaction`), peers and
verifiers (`Enqueue`, `VerifierTake`, `VerifierImport`), and the client thread, a
program counter `pc` that stops wherever another thread can see a difference:

| `pc` | code |
|---|---|
| `written`, `deleted`, `best` | `BlockChain::import`: the block is written, `delCache`, the last block changes, `updateCache` |
| `dropGood` | `Client::onChainChanged` drops the block's transactions one at a time |
| `resubmit` | `resyncStateFromChain` gives the transactions of `m_postSeal` back to the queue |
| `reset`, `clearing` | `resetState` after a replaced transaction; the flag is lowered afterwards |
| `rejig`, `fill`, `seal` | `rejigSealing`: fill the working block with `Block::sync`, then wait, seal, or give up |

Blocks of other leaders have passed the same checks on the same chain
(`OtherBlocks`), in any selection of transactions; `OnViewChange` and `MajorSync`
come at any time.

A cycle of the client imports one block here, where `BlockChain::sync` imports up to
`m_syncAmount` before `onChainChanged` (Client.cpp:510-524); on one chain no block
dies, so `onDeadBlocks` is left out.  `TransactionQueue::import` asks for the nonce and
for the block limit in two calls (TransactionQueue.cpp:159, 166), here one step: that a
block becomes the last one between them is what a step at `best` sees, the old window
and the new number.  The size of the window is a
constant: `updateConfig` may enlarge it at run time (Client.cpp:121-126) without
reading the older blocks again, so `WindowExact` is about a node whose configuration
does not change.

Left out: the order of `m_current` (any transaction may be the one the limit cuts),
signatures and gas.  `m_future` is left out because it stays empty: `setFuture` is
called on an `InvalidNonce` only, which `Executive::initialize` no longer throws.
`clear` is reached from `clearPending` and `reopenChain`, which nothing calls.  `ok`
is never asked to insert.

### BlockChain

A block is the path from the genesis to it, so its length is its number; every
header has difficulty 1, so the higher block is the best one, and with equal
numbers the one that used more gas where the chain parameters say so.  `import` is
`StartImport` (enact, decide whether the block is best, clear the caches of the
branch that is left, put the blooms of the new blocks into the cached index), then
`WriteBlocks`, `WriteExtras` (one batch), `ForgetNonces` (`delCache`), `WriteBest`,
`UpdateNonces`.  `Crash` may come between any two; the node opens with what is on
disk.  `Rewind`, the evictions of `garbageCollect`, and the reads of RPC threads,
which fill the caches, come in between.  The bloom index has two levels of
`IndexSize` items a chunk; `WithBlockBloom` is the search.

A read of a number is one step; `queryExtras` (BlockChain.h:351-376) releases its
lock between the lookup, the read of the disk and the insertion, and a read that spans
a reversion has the effect of the one in the middle of it, which is the case `raced`
(section 3).  `Sound`, the condition that no block repeats a key of its branch, is
what the checks before an import give; `import` does not check it itself, and keys may
come again once they have left the window.  Only `NonceWindow` depends on it.

Left out: receipts, the verification of a block, the age at which entries are
evicted.  A transaction logs one entry of its own.

### BlockChainSync

Every handler holds `x_sync` and is one step: a function of a record of downloads,
peers and block queue, followed through every call it makes (`OnPeerBlockHeaders`
ends in `CollectBlocks` and `ContinueSync`, which asks every idle peer, in any
order).  A peer has one outstanding request, as in `EthereumPeer`; a time-out is a
lost peer.  The client thread takes a block (`Drain`, with `onRoomAvailable`) and
imports it later (`ImportDrained`).  `Commit` is `submitSealed`: the next block of the
chain goes into the queue, and the client drains and imports it like any other, so
that steps of the download may come before, between and after.  The three loops of the
class (`Continues` over the peers, `Adds` over the headers of an answer, `Collects`
over the blocks of a run) are bounded iterations, functions on 0..n.  A peer that
sends more than `c_maxPeerUknownNewBlocks` blocks of unknown parents is disabled, and
the download starts over (`CountUnknown`).

The queue is `BlockQueue` reduced to what `import` answers: `ready` is `m_readySet`, and
`pipe` what is in the three queues, from which the client drains.  The two differ once
a block is bad: `UpdateBad` removes from the queues the blocks that are bad or follow a
bad one, but marks bad and no longer ready any blocks on their way (`Marks`), because
`removeIf` returns other elements than it removes.  Which ones, and what verifiers do,
is in `BlockQueue`.  The path of `import` that finds a bad parent needs no removal from
`pipe`: no block of it is bad or follows a bad one.  The client takes one block at a
time, in any order in which parents come first, and `onRoomAvailable` is in the step of
the drain; the code drains a batch and calls back after it has released the lock
(BlockQueue.cpp:487-512).  An answer with bodies may stop after any of them, for
`c_maxBlocks` and `c_maxPayload`.

`OneChain` is a condition on the state, not on the constants: the node's blocks and
those of the peers are of one chain, as consensus makes them.

Left out: ratings of peers, blocks ahead of the clock, peers of another network,
`onForceSync` (nothing calls it).

## 3. Runs

Deadlock is not checked, because the runs stop at their bounds.

Runs of `MCPBFT`:

| run | instance | shows |
|---|---|---|
| `views` | 4 miners, one down, an empty block of the leader of view 1, omitted, views to 2 | `ViewIsJustified`, `ViewsGrow`: time-outs, ordinary and fast view changes, in every order in which the unordered map may be walked |
| `fork` | 2 miners, two competing blocks in two views, one import, validation and execution failing locally | `VotesMatchPrepare`; `LedgerSpec`, the refinement of `Ledger` |
| `restart` | the same with one restart and no import | `LockHolds`, `Agreement`, `CommitsArePrepared` |
| `progress` | 4 miners, one down, a chain of two blocks, the first one empty and not omitted, with fairness | `TypeOK`, `SealsAreCertified`: messages of two heights overlap; `Progress`: every running miner gets both blocks |
| `lock` | as `fork` | violated: `LockCoversCommit`, see section 5 |

Two miners are enough for competing blocks: with quorum 2 of 2 every commit
needs both, one of them may be ahead by a view, and both lead one view.  Four
with one down are the smallest group with f = 1; a quorum is then all that run.
Four running miners with a block have several million states and are left to the
proofs.  `MaxView`, `MaxRestarts` and `MaxImports` bound the runs; the proofs hold
for every value.

Runs of `MCBlockQueue`:

| run | instance | shows |
|---|---|---|
| `bq_order` | 3 good blocks, 3 verifiers, one clear, fairness | `ReadySetMatches` (the class's own `invariants()`), `QueueOrder`, `NoDuplicates`, `VerifiedInTheEnd` |
| `bq_bad` | a chain of 3 beside a block: one the chain refuses, one no verifier accepts, one that fails transiently, one ahead of the clock; one retry | `TypeOK`, `BadStaysOut`, `UnknownWaits` |
| `bq_wakeup` | smallest instance | violated: `ClientIsCalled`, see section 5 |

`BadStaysOut` and `UnknownWaits` hold as long as the queue is not cleared under a
running import (section 5).  `QueueOrder` is about blocks that are not ahead of the
clock: one that is, if it comes from this node, skips the check of its parent.
Three or four blocks give a parent, a child, a grandchild and a bystander, which
is all that the queue's rules tell apart; two verifiers finish out of order, a
third lets two wait behind one.

Run of `MCClient`, `client_pool`: three transactions, two of them with one sender
and random id and different prices, block limits that end at different blocks; a
queue of two; three blocks; one view change and one major sync.  `NoReplay`: no
transaction is on the chain twice.  `WindowExact`: between imports the window holds
exactly the keys of the last blocks.  `CommittedLeavesQueue`: what is on the chain
does not come back into the queue.  `QueueIndexed`: the three indexes of the queue
agree.  `SealedIsFresh`: the sealed block repeats nothing.  The window has its
smallest size (`MaxBlockSize` 0: the last block only) and the block limit the
largest that fits it (`MaxBlockLimit` 2), so that a transaction leaves the window
as early and stays acceptable as long as the two checks allow; with a limit of 3 a
transaction of the chain gets back into the queue.  Three blocks let the window move twice.

Run of `MCBlockChain`, `chain_branches`: two transactions, blocks with none or one
of them, numbers to 3, four blocks on any branches, chunks of two, one crash, one
rewind; about 3.5 million states.  `CanonicalIndex`, `AddressOnDisk`, `NoMissedLogs`
and `NonceWindow`: the four indexes follow the branch of the last block.
`DiskClosed`: the best block on disk has all its ancestors there, at every moment.
Four blocks give a branch that is overtaken by a longer one, or replaced by one of
the same length that used more gas, and that grows again afterwards; number 3 lies
in the second chunk of the lower level, so a search crosses a chunk.  The first
four except what the code does not keep: a crash between the batch and the best
block leaves the number index one block ahead (`torn`); a number that is read in
the middle of a reversion, or above the last block after a rewind, stays in the
cache although its branch is left (`raced`); and `rewind` never tells the nonce
check, so `NonceWindow` is about a node that has not rewound.  The indexes hold
over any number of rewinds: the same instance with two of them (11.2 million
states, too slow to keep as a run) agrees, and the proofs have no bound.

Runs of `MCBlockChainSync`:

| run | instance | shows |
|---|---|---|
| `sync_download` | 2 peers whose chains grow to 5 and 3, a node one block up or on a branch of its own of two blocks, block 4 cannot be enacted, requests of 2, a queue of 1, at most one unknown new block of a peer, one lost peer, two commits | `TypeOK`; `NoOrphans`: a number is noted as asked for only while a peer is asked for it; `BodiesMatch`: headers and bodies fit together; and while there is one chain and no block was found bad `HeadersAbove`: headers lie above the last block, `RemovesFirst`: nothing is removed from inside a run |
| `sync_stall` | the same without bad blocks and lost peers | violated: `NoStall`, see section 5 |

Two peers are asked for neighbouring ranges and may answer in either order; a chain
of five is more than one request above the node, and lets two blocks of consensus
enter the queue while their headers are stored or asked for; a block follows the one
that cannot be enacted; a queue of one is full at once, so the download waits for the
client.  The instance has 880 thousand states.  The node that is behind has one chain with the
peers; the one with a branch of its own is there for `TypeOK`, `NoOrphans` and
`BodiesMatch`, which do not need one, and makes the search for the common block go
down, blocks wait for parents and the peer that sends them be disabled.

Fairness.  In `PBFT` each action of the worker and of the client is weakly fair:
both are loops that take what they find, messages are relayed until they arrive,
and timers run out.  Restarts, local failures and garbage collection are not fair.
In `BlockQueue` the verifiers are: they loop, and the condition variable is
notified when a block is queued.  The other modules state safety only.

## 4. Proofs

`PBFT_proofs` and `PBFT_ledger_proofs` prove, for every N and every number of
blocks, views, restarts and imports, from the assumptions named in `PBFT` (N
positive; a block's number is its parent's plus one; only the genesis block has
number 0):

* `TypeCorrect`, `VotesMatch`, `CommitsPrepared`, `SealsCertified`,
  `ViewsJustified`: the type invariant and four of the invariants above, without
  further conditions;
* `NoEmptySaved`: where empty blocks are omitted none is saved or imported; the
  setting is a hypothesis of the property (`NoEmptyBlocks`).  No run states this: an
  instance with enough followers to break it is too large;
* `LockSafety` and `AgreementHolds`: the lock covers the commits of the open
  height, and no two blocks of a height are saved, as long as proposals are
  *fresh*;
* `Refinement`: `Spec => LedgerSpec`, the engine implements `Ledger`, for either value
  of the setting;
* `ViewsOnlyGrow`: between two blocks, neither the view nor the wanted view of a
  node that is not restarted goes back.

`Fresh` says what `shouldSeal` established was still true when `generateSeal`
broadcast the block: no view of a height has two proposals, and nobody proposes
against a commit of its own.  The code does not guarantee it, because the lock is
released between the two calls (run `lock` is such a case), so it is a hypothesis
of the theorems, stated over the messages that were sent, and a variable of
`Ledger`.

The inductive invariant `IndInv` is a predicate of one node and the network.  The
properties are not inductive alone: that the lock is right needs to know that the
raw prepare is at the height and in the view of the prepare (`HeightInv`), that
cached votes are real and of the prepare's view (`OriginInv`, `VoteInv`), so that
a quorum of cached votes is a quorum of senders (`CertInv`), and where the commits
of the open height can be (`CommitInv`, `LockInv`).  Agreement then follows from
two quorums meeting (`QuorumsMeet`) and the least view in which a block of the
height was committed: a node of the intersection would have signed a later
proposal against its lock.  The proof follows the code: a lemma per function
(`BroadcastGood`, `CheckAndSaveGood`, `CheckAndCommitGood`, `HandlePrepareGood`
...) says that it leads from a good record to a good record and says what it may
have sent; a lemma per action applies them; `Invariance` puts them together.

`PBFT_ledger_proofs` adds a second invariant, proved in the same way
(`SaveInvariance`): the accepted prepare, every commit that is out and everything
saved is of a block that is not omitted; the cached view changes are requests that
others have sent, one per node and view, and enough of them for the node's view.  The
refinement needs both: a step of the engine that completes a quorum of commits is a
`Decide`, one that saves or imports is a `Take`, a proposal that is not fresh a `Stale`;
the rest change nothing of the ledger.

`ViewsOnlyGrow` is the action property `ViewsGrow`.  It needs that a node's height
is one above its highest block and its view at most the wanted one (`ViewInv`).  A
function leads *forward* (`Forward`) when the pair of height and view does not
fall; each function of the engine does, and composition keeps it
(`ForwardThrough`).  The view a fast view change takes is one of a map walked in
any order, and is above the own one whichever it is.

`Client_proofs` holds for any transactions, limits, sizes of queue and window, and
any number of blocks, view changes and syncs:

* `ClientTypes`, `QueueStaysIndexed`: the type invariant and the agreement of the
  three indexes of the queue, through `import`, `drop` and the limit;
* `WindowStaysExact`: between imports the window holds exactly the keys of the last
  blocks.  During an import it holds those below the new block, at every stop
  (`WindowInv`): `delCache` then takes nothing away, because no block of the chain
  repeats a key of the window below it (`ChainInv`);
* `SealedStaysFresh`, `NoTransactionReplayed`: the block being built and the chain
  hold no transaction twice.  A block that is sealed or imported was checked against
  the window of its own parent, and what has left the window cannot be accepted any
  more: the block limit of a transaction is at most `MaxBlockLimit` above the block
  it was accepted on.  This rests on `LimitsFit` (`MaxBlockLimit <= MaxBlockSize + 2`),
  which is a hypothesis of the theorem and not an assumption on the constants, as
  the code allows other values (section 5);
* `CommittedStaysOut`: what is on the chain is not in the queue once `dropGood` has
  run, under the same hypothesis.

`NonceCheck_proofs` has what these need about windows: the keys of the last blocks
as a set, how they change when a block is added, that `delCache` does nothing on a
sound branch.  `BlockChain_proofs` uses them again, for any blocks, number of
crashes, rewinds, reads and evictions:

* `ChainTypes`;
* `DiskStaysClosed`: whenever the node stops, the best block of the disk has its
  ancestors there (`DiskInv`, over the order of the three writes: blocks, extras,
  best);
* `IndexStaysCanonical`, `AddressesStayOnDisk`, `LogsAreFound`, `NoncesFollowBranch`:
  the four indexes follow the branch of the last block, with the exceptions above.

The inductive invariant of `BlockChain` (`IndInv`) has a part per index.  What an
import has decided and not yet written must be carried along: the block in hand and
its common ancestor with the last block (`ImportInv`); the numbers and addresses on
disk are those of the branch of the last block, or of the block in hand once the
batch is written, and the caches hold some of them and, in a reversion, none above
the common ancestor (`NumbersInv`, `IndexInv`, `AddressInv`); the blooms in memory run
ahead of those on disk until the batch is written, and both levels have all that the
branch logs (`BloomInv`); the window lacks at most keys that a block of another
branch has too, since `delCache` is also called for those (`NonceInv`).

`BlockQueue_proofs` proves, for any blocks and parents, any number of verifiers,
clears, retries and ticks of the clock:

* `BlockQueueTypes`, `BlockOnItsWayOnce`: the type invariant (`knownSize` never falls
  below zero) and that no block is twice on its way, without further conditions;
* `ReadySetOfThePipe`: until a block is known to be bad, `m_readySet` is exactly what
  is in the three queues.  Afterwards it is not, because of what `removeIf` returns
  (section 5);
* `ParentsComeFirst`: until a block is bad the queue is in order, if no import fails
  transiently, nothing is retried and no block is early.  Each of the three
  conditions is needed: a block that is passed over, or retried without its parent,
  leaves a block behind it that has no parent ahead;
* `GoodBlocksStayGood`: under the same conditions and with good blocks only, no block
  is ever taken for bad, so that the two results above hold for ever.  `clear` may
  come in the middle of an import and the blocks of the batch may come again;
* `UnknownBlocksWait`, `BadBlocksStayOut`: as long as `clear` is not called, a block
  waits only for a parent that is not there, and no block of the chain is known to
  be bad.

The inductive invariant has three layers.  `BasicInv`: the queue is *sane*, that is,
every block is once in `m_unverified`, `m_verifying`, `m_verified` or `m_unknown`, all
that is on its way is ready or bad, and `knownSize` covers the data that is held.
`ReadyInv` and `OrderInv`: the ready set and the order, and that the batch of the
client is in order too, which is why no good block meets an unknown parent.
`KnownInv`: nothing on its way or waiting is bad or on the chain, and every verifier
has a block of its own that nobody else has; without the latter a verifier could
mark a block bad that has been imported in the meantime, which is what may happen
after a `clear`.  The methods are functions of the queue, so the proof first states
what each may do to a sane queue (`Purged`, `Settled`, `Accepted`, `Fetched`, ...),
then what each action does, and each layer uses only that.

`BlockChainSync_proofs` proves, for any number of peers, chains of any length and
branching, any limits, any blocks that cannot be enacted, any disconnections and
commits:

* `SyncInvariant`: the inductive invariant `SyncInv`;
* `SyncTypeOK`, `SyncNoOrphans`, `SyncBodiesMatch`: three of the invariants above,
  without further conditions, so with peers on different branches too;
* `SyncHeadersAbove`, `SyncRemovesFirst`: the other two, in every state in which there
  is one chain and no block was found bad.  The first condition is needed for both,
  the second for `HeadersAbove` (section 5).

The assumptions are those of the module: the chains are sequences of labels, each
peer starts with a block of its chain, the node starts with blocks that can be
enacted, requests are for at least one block.

`SyncInv` has a part without and a part with the condition.  `Sane` holds of the
record a handler works on: the types (a peer that is asked is connected, and the
request is of the kind it is asked for), `NoOrphans` and `BodiesMatch` of that record,
and that only the block in the client's hand is being drained.  `Linear` holds while
there is one chain and nothing is bad (`Clean`): what is in the queue is of the chain,
on its way, reaches down to the node's blocks and never waits (`QueueLinear`); the block
in hand follows one of the node's, even if the queue was cleared since (`HandLinear`);
the last block is one the node or the queue has (`LastLinear`); and every header is of
the chain, above the last block, not of a block of the database, and not below any
block that is had (`HeadersLinear`).  A header may be of a block that the queue has:
one that a peer sent whole or that consensus committed while the header was stored.

`HeadersAbove` is not inductive without these.  When a block joins the chain its parent
is in the database; so a header is not of the parent and, being at or above all that is
had, lies at or above the block, and `onBlockImported` takes the one of the block itself
away before it moves the last block up to it.  When consensus puts a block on the head
into the queue, the same argument shows that no header is below it.  When
`collectBlocks` meets such a block it is told AlreadyKnown and leaves the last block where
it is; the next ones are imported after it.  `Base` says that the node's blocks are
whole chains that can be enacted.

The proof follows the calls.  A request changes nothing but the notes and, in the
search for the common block, the last block (`Asks`, through `AskAboveFacts`,
`AskBelowFacts`, `RequestBlocksFacts`, `SyncPeerFacts`, `ContinueSyncFacts`).  Between
`clearPeerDownload` and the next request the notes of one peer are without a request
(`TrackedBut`).  A lemma per handler then leads from an ordered record to an ordered
one (`CollectBlocksFacts`, `AddHeaderFacts`, `OnPeerBlockHeadersFacts`,
`OnPeerNewBlockFacts`, ...), a lemma per action applies it.  `Iterations` has what the
loops need here and in `BlockQueue_proofs`: a recursive function on 0..n exists, and
what its first value has and every step keeps holds all along.

Only model-checked: the liveness properties (`Progress`, `VerifiedInTheEnd`), which
need fairness and are out of the prover's reach.

## 5. Where code and words disagree

Three disagreements have a run; the comments and logs they contradict are quoted in
`PROJECT.json`.

* `lock`: `checkAndCommit` commits the accepted prepare and locks the *raw* one
  (PBFT.cpp:1068).  They differ when a leader's `generateSeal` comes after a view
  change: the block that is "posted out again" is then not the committed one.
* `bq_wakeup`: after a failed verification finished blocks become verified and
  the client is not called.
* `sync_stall`: the download is declared complete whenever no headers are stored,
  also while they are being asked for; the answers are then ignored, and the node
  stays behind until a peer announces another block.

Observations made on the way.  The models follow the code in all of them; no run is
kept for them.

* `SizedBlockQueue::removeIf` (BlockQueue.h:102) returns the wrong elements, so a
  good block behind a bad one is marked bad for ever, and the bad one stays in the
  ready set.  `SizedBlockMap::insert` (BlockQueue.h:168) adds the size of data it has
  moved away, so the size of the unknown blocks wraps around.
* A clear of the queue during an import leaves the child of the imported block
  waiting for a parent that is on the chain.  A block to be attempted "in import
  later" is dropped, and its child is marked bad.
* With three verifiers and a bad block `m_verifying` may be left with a finished
  block in front, after which no verifier is next.
* `m_syncTransactionQueue` is lowered when the working block is filled and not
  raised when that block is given up (PBFTClient.cpp:311-375, 78-85) or overwritten
  (:151): the transactions wait until another one arrives.  `m_needStateReset`, which
  is lowered after the reset (:207-211), may lose a replacement.
* `TransactionQueue::import` answers Success for a transaction that the limit
  removes in the same call (TransactionQueue.cpp:235-242).
* `maxBlockLimit` may be set above the window of the nonce check (Client.cpp:123-134);
  a transaction can then be packed again.
* An address cached after a reversion stays when the transaction gets into a later
  block, although the comment at BlockChain.cpp:1170 says that it always points to
  the current chain: the cache is only cleared on a reversion (1605-1617).
* `withBlockBloom` (BlockChain.cpp:1643) looks at one chunk too many and may return
  blocks beyond the range.
* `rewind` (BlockChain.cpp:1412) never tells the nonce check, and `delCache` (1241)
  is called for blocks that do not become the best one.
* `rewind` leaves the number index above the new last block on disk.  A number read
  there is cached, and a second `rewind` to it leads to a block of the branch that
  was left, although the comment says "Alter the head of the chain to some prior
  block along it." (BlockChain.h:237).
* The download may stop in Waiting.  `onRoomAvailable` sets the state back to Waiting
  when no peer can be asked at that moment (BlockChainSync.cpp:213-223), for instance
  because the one that has more blocks still owes an answer.  That answer is then
  ignored (:600, :725), and no peer is asked in Waiting (:324): the node stays behind
  until the queue gets full and is drained again.  `NoStall` is violated in this way too.
* After a block was found bad a header can be at the last block: that block stays the
  last one although it was refused, and while the common block is searched for its
  header is stored, at the number of the last block (BlockChainSync.cpp:420-428, 610-705).
* Off one chain `HeadersAbove` and `RemovesFirst` fail: with three peers, and a node on
  a branch of its own, blocks that wait for a parent become ready when it comes while
  their headers stay (BlockChainSync.cpp:935-949).  A header of a block that is had then
  sets the last block above those headers (:636), after which `collectBlocks` collects
  nothing, and `removeItem` (:87-95) may be asked for a number inside a run, where it
  uses a vector it has moved from.  The class's own check would say "Header is too
  old" (:1126-1142), but its body is commented out.

## 6. Not modelled, and the plan

Most of the repository's lines are not control that a model checker can say much
about: the virtual machine and the execution of transactions (data, deterministic),
RLP, tries, hashing and signatures, the word list and the logging library, the
vendored libraries (`utils`, `libwebthree/libexecstream`), RPC and channel server
(I/O around tables), the command line, and copies (`cvpoc` of the engine, `cvvm`
of `libcvvm`, `libdevcypto` of `libdevcrypto`).  The modules cover the parts that
decide what the chain is.  Of those parts, left out:

* changes of the set of miners (`resetConfig`), and the contracts they come from;
* the filters of `PBFTHost`, which only lessen what is sent again, and p2p sessions;
* filters, watches and state snapshots of the client;
* liveness of the download: with fairness the graph of `sync_download` is too large
  for TLC, and `NoStall` shows that it does not hold as it stands.

What would come next: the engine with all four miners running, for the exact
comparisons with the quorum, and a changing set of miners; then dissemination and
sessions.

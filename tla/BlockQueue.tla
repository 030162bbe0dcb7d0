----------------------------- MODULE BlockQueue -----------------------------
(***************************************************************************)
(* The queue of blocks between the network and the chain                   *)
(* (libcv/BlockQueue.cpp), with its verifier threads, the client thread    *)
(* that drains it into the chain (BlockChain::sync, Client::syncBlockQueue *)
(* and Client::tick) and its other callers: the consensus and the peers    *)
(* that import blocks, BlockChainSync that clears the queue, and the       *)
(* administrator that retries the blocks of unknown parents.               *)
(*                                                                         *)
(* The queue is one record q.  Every method of the class holds m_lock and  *)
(* m_verification as long as it changes the queue, so a method is a        *)
(* function from the queue before to the queue after, and its callers are  *)
(* actions.  Signals are raised when the locks are released: they are      *)
(* steps of their own.                                                     *)
(*                                                                         *)
(* A block is named by its hash.  All blocks are one byte long: the sizes  *)
(* kept beside the queues then count the blocks they speak of.  Blocks     *)
(* that import rejects as malformed change nothing and are left out, and   *)
(* so is m_difficulty, which only the status reports read.                 *)
(***************************************************************************)
EXTENDS Integers, FiniteSets, Sequences, SequencesExt

CONSTANTS
    Block,       \* hashes of the blocks that may arrive
    Genesis,     \* the hash of the block that is on the chain from the start
    Uncles,      \* sha3Uncles() of every block: the hash of the empty list
    Parent,      \* block -> the hash of its parent
    Time,        \* block -> its timestamp
    Invalid,     \* blocks that verifyBlock rejects in a verifier
    Unsound,     \* blocks that BlockChain::import rejects
    Transient,   \* blocks whose import may fail with a TransientError
    Verifier,    \* the verifier threads
    MaxTime,     \* bound on the clock
    MaxFuture,   \* bound on the entries of m_future
    MaxClears,   \* bound on the calls of clear
    MaxRetries,  \* bound on the calls of retryAllUnknown
    Word         \* number of values of a size_t

ASSUME ConstantsAssumption ==
    /\ Genesis \notin Block /\ Uncles \notin Block \cup {Genesis}
    /\ Parent \in [Block -> Block \cup {Genesis}] /\ Time \in [Block -> Nat]
    /\ Invalid \subseteq Block /\ Unsound \subseteq Block /\ Transient \subseteq Block
    /\ {MaxTime, MaxFuture, MaxClears, MaxRetries} \subseteq Nat /\ Word \in Nat \ {0}

VARIABLES
    q,        \* the queue
    chain,    \* the blocks on the chain
    job,      \* verifier -> the block it verifies, and where it is
    client,   \* where the client thread is, and its local variables
    sync,     \* m_syncBlockQueue
    clock,    \* utcTime()
    clears,   \* calls of clear so far
    retries   \* calls of retryAllUnknown so far

vars == <<q, chain, job, client, sync, clock, clears, retries>>
env  == <<clock, clears, retries>>

-----------------------------------------------------------------------------
(* The state of the queue.  An entry of m_verifying that is not done       *)
(* carries the hash of the block in sha3Uncles; a done one is the verified *)
(* block, whose sha3Uncles is the hash of the empty list.                  *)

Queue ==
    [ unverified  : Seq(Block),                             \* m_unverified
      verifying   : Seq([hash : Block, done : BOOLEAN]),    \* m_verifying
      verified    : Seq(Block),                             \* m_verified
      ready       : SUBSET Block,                           \* m_readySet
      draining    : SUBSET Block,                           \* m_drainingSet
      unknown     : Seq(Block),                             \* m_unknown, m_unknownSet
      future      : Seq(Block),                             \* m_future
      bad         : SUBSET (Block \cup {Uncles}),           \* m_knownBad
      knownSize   : Nat,                                    \* knownSize()
      unknownSize : 0 .. Word - 1 ]                         \* unknownSize()

EmptyQueue(bad) ==
    [ unverified |-> <<>>, verifying |-> <<>>, verified |-> <<>>, ready |-> {},
      draining |-> {}, unknown |-> <<>>, future |-> <<>>, bad |-> bad,
      knownSize |-> 0, unknownSize |-> 0 ]

Sha3Uncles(e) == IF e.done THEN Uncles ELSE e.hash

NoJob == [pc |-> "idle", hash |-> Genesis]
Idle  == [pc |-> "idle", batch |-> <<>>, bads |-> <<>>, more |-> FALSE]

Init ==
    /\ q = EmptyQueue({}) /\ chain = {Genesis}
    /\ job = [v \in Verifier |-> NoJob]
    /\ client = Idle /\ sync = FALSE
    /\ clock = 0 /\ clears = 0 /\ retries = 0

-----------------------------------------------------------------------------
(* Blocks of unknown parents.  m_unknown is keyed by the parent, and keeps *)
(* the blocks of one parent in the order of their arrival.                 *)

\* the first k elements of s but for those outside S
Keep(kept, x, S) == IF x \in S THEN Append(kept, x) ELSE kept
Pick(s, S) ==
    LET pick[k \in 0 .. Len(s)] == IF k = 0 THEN <<>> ELSE Keep(pick[k - 1], s[k], S)
    IN  pick
Only(s, S)    == Pick(s, S)[Len(s)]
Without(s, S) == Only(s, ToSet(s) \ S)

Kids(p, s) == Only(s, {b \in ToSet(s) : Parent[b] = p})

\* the blocks of s that descend from p through blocks of s, breadth first:
\* goodQueue and what has left it, after k blocks of it
Visit(seen, k, s) == IF k <= Len(seen) THEN seen \o Kids(seen[k], s) ELSE seen
Bfs(p, s) ==
    LET bfs[k \in 0 .. Len(s) + 1] == IF k = 0 THEN <<p>> ELSE Visit(bfs[k - 1], k, s)
    IN  bfs
Family(p, s) == Tail(Bfs(p, s)[Len(s) + 1])

(* SizedBlockMap::insert moves the data away before it adds its size;      *)
(* removeRange subtracts the size of what it removes.                      *)
InsertSize(n) == n
\* Mutant: the size is a signed number.
RemoveSize_Signed(n, count) == n - count
RemoveSize(n, count) == (n - count) % Word

\* Mutant: only the children of the block become ready, not theirs.
NoteReady_KidsOnly(s, h) ==
    LET f == Kids(h, s.unknown) IN
    [s EXCEPT !.unverified = @ \o f, !.ready = @ \cup ToSet(f),
              !.unknown = Without(@, ToSet(f)),
              !.knownSize = @ + Len(f), !.unknownSize = RemoveSize(@, Len(f))]

NoteReady(s, h) ==
    LET f == Family(h, s.unknown) IN
    [s EXCEPT !.unverified = @ \o f, !.ready = @ \cup ToSet(f),
              !.unknown = Without(@, ToSet(f)),
              !.knownSize = @ + Len(f), !.unknownSize = RemoveSize(@, Len(f))]

CollectUnknownBad(s, hashes) ==
    LET f == UNION {ToSet(Family(h, s.unknown)) : h \in hashes} IN
    [s EXCEPT !.bad = @ \cup f, !.unknown = Without(@, f),
              !.unknownSize = RemoveSize(@, Cardinality(f))]

-----------------------------------------------------------------------------
(* SizedBlockQueue::removeIf.  std::remove_if moves the elements to keep   *)
(* to the front; what is left behind them, which removeIf returns, are the *)
(* last elements of the queue, with their data if they were not moved.     *)

Returned(s, gone) == ToSet(SubSeq(s, Len(Without(s, gone)) + 1, Len(s)))

\* what updateBad does with the hashes it takes from the returned elements
MarkBad(s, hashes) ==
    CollectUnknownBad([s EXCEPT !.bad = @ \cup hashes, !.ready = @ \ hashes], hashes)

\* bad blocks and their children, as updateBad sees them in a queue of blocks and
\* in m_verifying
Tainted(blocks, bad) == {b \in ToSet(blocks) : Parent[b] \in bad \/ b \in bad}
TaintedEntries(entries, bad) ==
    {e \in ToSet(entries) : Parent[e.hash] \in bad \/ Sha3Uncles(e) \in bad}

PurgeVerified(s) ==
    LET gone == Tainted(s.verified, s.bad)
        out  == Returned(s.verified, gone)
    IN  MarkBad([s EXCEPT !.verified = Without(@, gone),
                          !.knownSize = @ - Cardinality(out \cap gone)], out)

PurgeUnverified(s) ==
    LET gone == Tainted(s.unverified, s.bad)
        out  == Returned(s.unverified, gone)
    IN  MarkBad([s EXCEPT !.unverified = Without(@, gone),
                          !.knownSize = @ - Cardinality(out \cap gone)], out)

PurgeVerifying(s) ==
    LET gone  == TaintedEntries(s.verifying, s.bad)
        out   == Returned(s.verifying, gone)
        whole == {e \in out \cap gone : e.done}
    IN  MarkBad([s EXCEPT !.verifying = Without(@, gone),
                          !.knownSize = @ - Cardinality(whole)],
                {e.hash : e \in whole} \cup {Sha3Uncles(e) : e \in out \ whole})

Purge(s) == PurgeVerifying(PurgeUnverified(PurgeVerified(s)))

\* The loop ends when a pass removes nothing, so after one pass per element.
KnownCount(s) == Len(s.verified) + Len(s.unverified) + Len(s.verifying)
Passes(s, h) ==
    LET pass[k \in 0 .. KnownCount(s)] ==
            IF k = 0 THEN CollectUnknownBad(s, {h}) ELSE Purge(pass[k - 1])
    IN  pass
UpdateBad(s, h) == Passes(s, h)[KnownCount(s)]

-----------------------------------------------------------------------------
(* import.                                                                 *)

\* Mutants: m_readySet, m_drainingSet are not looked at.
Known_NoReady(s)    == s.draining \cup ToSet(s.unknown) \cup s.bad
Known_NoDraining(s) == s.ready \cup ToSet(s.unknown) \cup s.bad
Known(s) == s.ready \cup s.draining \cup ToSet(s.unknown) \cup s.bad

\* Mutant: the parent of a block may be unknown.
Import_AnyParent(s, b, ours) ==
    IF b \in Known(s) \cup chain THEN s
    ELSE IF Time[b] > clock /\ ~ours
         THEN [s EXCEPT !.future = Append(@, b), !.unknownSize = InsertSize(@)]
    ELSE IF Parent[b] \in s.bad
         THEN UpdateBad([s EXCEPT !.bad = @ \cup {b}], b)
    ELSE NoteReady([s EXCEPT !.unverified = Append(@, b), !.ready = @ \cup {b},
                             !.knownSize = @ + 1], b)

Import(s, b, ours) ==
    IF b \in Known(s) \cup chain THEN s
    ELSE IF Time[b] > clock /\ ~ours
         THEN [s EXCEPT !.future = Append(@, b), !.unknownSize = InsertSize(@)]
    ELSE IF Parent[b] \in s.bad
         THEN UpdateBad([s EXCEPT !.bad = @ \cup {b}], b)
    ELSE IF Parent[b] \notin s.ready \cup s.draining \cup chain
         THEN [s EXCEPT !.unknown = Append(@, b), !.unknownSize = InsertSize(@)]
    ELSE NoteReady([s EXCEPT !.unverified = Append(@, b), !.ready = @ \cup {b},
                             !.knownSize = @ + 1], b)

\* a peer's block, or a block the consensus has sealed
ImportBlock ==
    /\ \E b \in Block, ours \in BOOLEAN :
        /\ Len(q.future) < MaxFuture \/ ours \/ Time[b] <= clock
        /\ q' = Import(q, b, ours)
    /\ UNCHANGED <<chain, job, client, sync, env>>

-----------------------------------------------------------------------------
(* The verifiers.                                                          *)

\* a verified block leaves m_verifying: bad if its parent is, else verified
Settle(s, b) ==
    IF Parent[b] \in s.bad
    THEN [s EXCEPT !.ready = @ \ {b}, !.bad = @ \cup {b}]
    ELSE [s EXCEPT !.verified = Append(@, b), !.knownSize = @ + 1]

\* Mutant: what is finished behind the next block stays there.
DrainVerified_Nothing(s) == s

DrainOne(s) ==
    IF s.verifying # <<>> /\ Head(s.verifying).done
    THEN Settle([s EXCEPT !.verifying = Tail(@), !.knownSize = @ - 1],
                Head(s.verifying).hash)
    ELSE s
Drains(s) ==
    LET drain[k \in 0 .. Len(s.verifying)] == IF k = 0 THEN s ELSE DrainOne(drain[k - 1])
    IN  drain
DrainVerified(s) == Drains(s)[Len(s.verifying)]

TakeJob(v) ==
    /\ job[v].pc = "idle" /\ q.unverified # <<>>
    /\ LET b == Head(q.unverified) IN
        /\ q' = [q EXCEPT !.unverified = Tail(@), !.knownSize = @ - 1,
                          !.verifying = Append(@, [hash |-> b, done |-> FALSE])]
        /\ job' = [job EXCEPT ![v] = [pc |-> "verify", hash |-> b]]
    /\ UNCHANGED <<chain, client, sync, env>>

VerifyFails(v) ==
    LET b == job[v].hash IN
    /\ job[v].pc = "verify" /\ b \in Invalid
    /\ q' = DrainVerified([q EXCEPT !.ready = @ \ {b}, !.bad = @ \cup {b},
                !.verifying = Without(@, {e \in ToSet(@) : Sha3Uncles(e) = b})])
    /\ job' = [job EXCEPT ![v] = NoJob]
    /\ UNCHANGED <<chain, client, sync, env>>

IsNext(b) == q.verifying # <<>> /\ Sha3Uncles(Head(q.verifying)) = b

\* the block is next, and is passed on with the finished ones behind it
VerifyNext(v) ==
    LET b == job[v].hash IN
    /\ job[v].pc = "verify" /\ b \notin Invalid
    /\ IsNext(b)
    /\ q' = DrainVerified(Settle([q EXCEPT !.verifying = Tail(@)], b))
    /\ job' = [job EXCEPT ![v] = [NoJob EXCEPT !.pc = "notify"]]
    /\ UNCHANGED <<chain, client, sync, env>>

\* it has to wait, unless a clear has removed it
VerifyLater(v) ==
    LET b     == job[v].hash
        Mine  == {i \in DOMAIN q.verifying : Sha3Uncles(q.verifying[i]) = b}
        first == CHOOSE i \in Mine : \A j \in Mine : i <= j
    IN
    /\ job[v].pc = "verify" /\ b \notin Invalid
    /\ ~IsNext(b)
    /\ q' = IF Mine = {} THEN q
            ELSE [q EXCEPT !.verifying[first].done = TRUE, !.knownSize = @ + 1]
    /\ job' = [job EXCEPT ![v] = NoJob]
    /\ UNCHANGED <<chain, client, sync, env>>

\* m_onReady, which is Client::onBlockQueueReady
OnReady(v) ==
    /\ job[v].pc = "notify"
    /\ sync' = TRUE
    /\ job' = [job EXCEPT ![v] = NoJob]
    /\ UNCHANGED <<q, chain, client, env>>

-----------------------------------------------------------------------------
(* The client thread: doWork, syncBlockQueue, BlockChain::sync, tick.      *)

StartSync ==
    /\ client.pc = "idle" /\ sync
    /\ sync' = FALSE /\ client' = [client EXCEPT !.pc = "drain"]
    /\ UNCHANGED <<q, chain, job, env>>

\* Mutant: the drained blocks stay ready.
Drain_KeepReady ==
    /\ client.pc = "drain"
    /\ \E max \in 1 .. Cardinality(Block) :
        LET n   == IF max < Len(q.verified) THEN max ELSE Len(q.verified)
            out == IF q.draining = {} THEN SubSeq(q.verified, 1, n) ELSE <<>>
        IN  /\ q' = [q EXCEPT !.verified  = SubSeq(@, Len(out) + 1, Len(@)),
                              !.draining  = @ \cup ToSet(out),
                              !.knownSize = @ - Len(out)]
            /\ client' = [client EXCEPT !.pc = "import", !.batch = out]
    /\ UNCHANGED <<chain, job, sync, env>>

\* _max is m_syncAmount, which goes up and down with the time a sync takes
Drain ==
    /\ client.pc = "drain"
    /\ \E max \in 1 .. Cardinality(Block) :
        LET n   == IF max < Len(q.verified) THEN max ELSE Len(q.verified)
            out == IF q.draining = {} THEN SubSeq(q.verified, 1, n) ELSE <<>>
        IN  /\ q' = [q EXCEPT !.verified  = SubSeq(@, Len(out) + 1, Len(@)),
                              !.draining  = @ \cup ToSet(out),
                              !.ready     = @ \ ToSet(out),
                              !.knownSize = @ - Len(out)]
            /\ client' = [client EXCEPT !.pc = "import", !.batch = out]
    /\ UNCHANGED <<chain, job, sync, env>>

\* how BlockChain::import may end
Outcomes(b) ==
    IF b \in chain THEN {"known"}
    ELSE IF Parent[b] \notin chain THEN {"unknown parent"}
    ELSE IF Time[b] > clock THEN {"future time"}
    ELSE IF b \in Unsound THEN {"bad"}
    ELSE IF b \in Transient THEN {"imported", "transient"}
    ELSE {"imported"}

\* one block of the batch: it is imported, is bad, or is passed over
ImportNext ==
    /\ client.pc = "import" /\ client.batch # <<>>
    /\ LET b == Head(client.batch) IN \E r \in Outcomes(b) :
        /\ chain' = IF r = "imported" THEN chain \cup {b} ELSE chain
        /\ client' = [client EXCEPT !.batch = Tail(@),
              !.bads = IF r \in {"unknown parent", "bad"} THEN Append(@, b) ELSE @]
    /\ UNCHANGED <<q, job, sync, env>>

\* updateBad for each of the blocks that the chain refused
Updates(s, bads) ==
    LET upd[k \in 0 .. Len(bads)] ==
            IF k = 0 THEN [s EXCEPT !.draining = {}, !.bad = @ \cup ToSet(bads)]
            ELSE UpdateBad(upd[k - 1], bads[k])
    IN  upd

DoneDrain ==
    /\ client.pc = "import" /\ client.batch = <<>>
    /\ q' = Updates(q, client.bads)[Len(client.bads)]
    /\ client' = [client EXCEPT !.pc = "assign", !.bads = <<>>, !.more = (q'.ready # {})]
    /\ UNCHANGED <<chain, job, sync, env>>

\* tie(ir, m_syncBlockQueue, count) = ...
AssignSync ==
    /\ client.pc = "assign"
    /\ sync' = client.more /\ client' = Idle
    /\ UNCHANGED <<q, chain, job, env>>

\* the positions of a multimap's elements, filled with s: equal keys side by side,
\* in the order of their arrival
Grouped(s, key) == {o \in Bijection(DOMAIN s, DOMAIN s) : \A i, j \in DOMAIN s :
    i < j /\ key[s[o[i]]] = key[s[o[j]]] =>
        o[i] < o[j] /\ \A k \in i .. j : key[s[o[k]]] = key[s[o[i]]]}
\* and smaller keys first
Orders(s, key) == {o \in Grouped(s, key) : \A i, j \in DOMAIN s :
    i < j => key[s[o[i]]] <= key[s[o[j]]]}

\* tick: the past-future blocks leave m_future and are then imported one by one
Tick ==
    LET due == Only(q.future, {b \in Block : Time[b] <= clock}) IN
    /\ client.pc = "idle" /\ due # <<>>
    /\ \E order \in Orders(due, Time) :
        client' = [client EXCEPT !.pc = "tick", !.batch = [i \in DOMAIN due |-> due[order[i]]]]
    /\ q' = [q EXCEPT !.future = Without(@, ToSet(due)), !.unknownSize = RemoveSize(@, Len(due))]
    /\ UNCHANGED <<chain, job, sync, env>>

TickImport ==
    /\ client.pc = "tick"
    /\ q' = Import(q, Head(client.batch), FALSE)
    /\ client' = IF Len(client.batch) = 1 THEN Idle
                 ELSE [client EXCEPT !.batch = Tail(@)]
    /\ UNCHANGED <<chain, job, sync, env>>

-----------------------------------------------------------------------------
(* Other callers, and the clock.                                           *)

\* BlockChainSync::restartSync, on a thread of the network
Clear ==
    /\ clears < MaxClears /\ clears' = clears + 1
    /\ q' = EmptyQueue(q.bad)
    /\ UNCHANGED <<chain, job, client, sync, clock, retries>>

\* admin_eth_blockQueueRetryUnknown; the parents come in the order of their hashes
RetryAllUnknown ==
    /\ retries < MaxRetries /\ retries' = retries + 1
    /\ \E order \in Grouped(q.unknown, Parent) :
        q' = [q EXCEPT
            !.unverified = @ \o [i \in DOMAIN q.unknown |-> q.unknown[order[i]]],
            !.ready = @ \cup ToSet(q.unknown), !.unknown = <<>>,
            !.knownSize = @ + Len(q.unknown),
            !.unknownSize = RemoveSize(@, Len(q.unknown))]
    /\ UNCHANGED <<chain, job, client, sync, clock, clears>>

Advance ==
    /\ clock < MaxTime /\ clock' = clock + 1
    /\ UNCHANGED <<q, chain, job, client, sync, clears, retries>>

Next ==
    \/ ImportBlock
    \/ \E v \in Verifier : TakeJob(v) \/ VerifyFails(v) \/ VerifyNext(v)
                           \/ VerifyLater(v) \/ OnReady(v)
    \/ StartSync \/ Drain \/ ImportNext \/ DoneDrain \/ AssignSync
    \/ Tick \/ TickImport
    \/ Clear \/ RetryAllUnknown \/ Advance

Spec == Init /\ [][Next]_vars

(* The verifiers loop for ever, and are woken up when there is work.       *)
Fairness == \A v \in Verifier :
    /\ WF_vars(TakeJob(v)) /\ WF_vars(OnReady(v))
    /\ WF_vars(VerifyFails(v) \/ VerifyNext(v) \/ VerifyLater(v))

FairSpec == Spec /\ Fairness

-----------------------------------------------------------------------------
(* Properties.                                                             *)

\* the blocks on their way to the chain, first to last
Pipe(s) == s.verified \o [i \in DOMAIN s.verifying |-> s.verifying[i].hash] \o s.unverified
Pipeline == Pipe(q)

\* the blocks the client is importing into the chain
Batch == IF client.pc = "import" THEN ToSet(client.batch) ELSE {}

\* The queue and the threads keep their types.
TypeOK ==
    /\ q \in Queue
    /\ chain \subseteq Block \cup {Genesis}
    /\ job \in [Verifier -> [pc : {"idle", "verify", "notify"}, hash : Block \cup {Genesis}]]
    /\ client \in [pc : {"idle", "drain", "import", "assign", "tick"}, batch : Seq(Block),
                   bads : Seq(Block), more : BOOLEAN]
    /\ sync \in BOOLEAN

\* BlockQueue::invariants, by its sizes and by its contents: m_readySet is what
\* is unverified, verifying or verified.
ReadySetMatches ==
    Cardinality(q.ready) = Len(Pipeline) /\ q.ready = ToSet(Pipeline)

\* drain gives blocks "in the correct order for insertion into the chain": the
\* parent of a block on its way is on the chain, in the batch, or ahead of it.
QueueOrder == \A i \in DOMAIN Pipeline :
    Parent[Pipeline[i]] \in chain \cup Batch \cup ToSet(SubSeq(Pipeline, 1, i - 1))

\* A block is on its way at most once, whatever is imported twice, cleared,
\* retried or bad: import knows it from m_readySet or m_knownBad.
NoDuplicates == \A i, j \in DOMAIN Pipeline : Pipeline[i] = Pipeline[j] => i = j

\* What is ready is verified in the end, in whatever order the verifiers finish:
\* the last one passes on what has been waiting behind its block.
VerifiedInTheEnd == \A b \in Block :
    b \in q.ready ~> b \in ToSet(q.verified) \/ b \notin q.ready

\* A block is in m_unknown only as long as its parent is neither ready nor being
\* imported nor on the chain: "It'll get resent to us if we find out about its
\* ancestry later on".
UnknownWaits == \A b \in ToSet(q.unknown) :
    Parent[b] \notin q.ready \cup q.draining \cup chain

\* A block that is known to be bad is not on the chain.
BadStaysOut == chain \cap q.bad = {}

\* m_onReady is "called when a subsequent call to import blocks will return a
\* non-empty container": with verified blocks waiting, the client is at work or
\* will be called to it.
ClientIsCalled ==
    q.verified # <<>> => \/ sync \/ client.pc \in {"drain", "import", "assign"}
                         \/ \E v \in Verifier : job[v].pc = "notify"
=============================================================================

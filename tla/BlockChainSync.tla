--------------------------- MODULE BlockChainSync ---------------------------
(***************************************************************************)
(* The download of blocks from peers (libcv/BlockChainSync.cpp), with the  *)
(* state that EthereumPeer keeps of a peer and the answers EthereumHost    *)
(* gives to its requests.                                                  *)
(*                                                                         *)
(* A block is the path from the genesis to it, so that its length is its   *)
(* number and its front is its parent; a header and a body are named by    *)
(* their block.  The maps from a number to a run of headers or bodies are  *)
(* functions from the numbers: mergeInto keeps the runs maximal.  Every    *)
(* handler holds x_sync and is one step; it works on a record w of the     *)
(* downloads (s), the peers (p) and the block queue (q).                   *)
(*                                                                         *)
(* The block queue is that of module BlockQueue reduced to the answers     *)
(* import gives: m_readySet is ready, and pipe holds the blocks of the     *)
(* queues m_unverified, m_verifying and m_verified.  A block in the        *)
(* future, ratings, and peers of another network are left out.             *)
(***************************************************************************)
EXTENDS Integers, Sequences, FiniteSets

CONSTANTS
    Label,              \* what tells apart the blocks of one parent
    Peer,               \* the peers
    Served,             \* peer -> the block its chain ends with, at last
    First,              \* peer -> the number its chain starts with
    Own,                \* the blocks the node's chain may end with at start
    Bad,                \* the blocks that cannot be enacted
    MaxRequestHeaders,  \* c_maxRequestHeaders
    MaxRequestBodies,   \* c_maxRequestBodies
    MaxUnknownNewBlocks,  \* c_maxPeerUknownNewBlocks
    MaxKnown,           \* BlockQueue c_maxKnownCount
    MaxUnknown,         \* BlockQueue c_maxUnknownCount
    MaxDowns,           \* bound on the disconnections
    MaxCommits,         \* bound on the blocks the consensus commits
    NoBlock             \* the null hash

Block == Seq(Label)

ASSUME BlockChainSyncAssumption ==
    /\ IsFiniteSet(Peer) /\ NoBlock \notin Block
    /\ DOMAIN Served = Peer /\ First \in [Peer -> Nat]
    /\ \A p \in Peer : Served[p] \in Block /\ First[p] <= Len(Served[p])
    /\ \A b \in Own : b \in Block /\ \A n \in 0..Len(b) : SubSeq(b, 1, n) \notin Bad
    /\ {MaxRequestHeaders, MaxRequestBodies} \subseteq Nat \ {0}
    /\ {MaxUnknownNewBlocks, MaxKnown, MaxUnknown, MaxDowns, MaxCommits} \subseteq Nat

VARIABLES
    sync,     \* the members of BlockChainSync
    peer,     \* peer -> the members of EthereumPeer
    queue,    \* the block queue
    known,    \* the blocks of the node's database
    head,     \* its last block
    hand,     \* the block the client thread imports, or NoBlock
    served,   \* peer -> the block its chain ends with
    offered,  \* peer -> it has sent its last block as NewBlock
    downs,    \* disconnections so far
    commits   \* commits so far

vars == <<sync, peer, queue, known, head, hand, served, offered, downs, commits>>

-----------------------------------------------------------------------------
Parent(b)   == SubSeq(b, 1, Len(b) - 1)
Path(b)     == {SubSeq(b, 1, n) : n \in 0..Len(b)}
Prefix(b, n) == IF n <= Len(b) THEN SubSeq(b, 1, n) ELSE NoBlock
NumberHash(n) == Prefix(head, n)

Least(S)    == CHOOSE n \in S : \A m \in S : n <= m
Without(f, S) == [n \in DOMAIN f \ S |-> f[n]]

(* The numbers of the run of f that starts with n.                         *)
Run(f, n) == {m \in DOMAIN f : n <= m /\ n..m \subseteq DOMAIN f}

Empty == [n \in {} |-> NoBlock]

(* resetSync and the members it leaves alone.                              *)
ResetSync(s) ==
    [s EXCEPT !.state = "NotSynced", !.headers = Empty, !.bodies = Empty,
              !.dlHeaders = {}, !.dlBodies = {}, !.ids = {}, !.syncTD = 0,
              !.headerPeers = [p \in Peer |-> {}], !.bodyPeers = [p \in Peer |-> {}]]

CompleteSync(s) == [ResetSync(s) EXCEPT !.state = "Idle"]

RestartSync(w) ==
    [w EXCEPT !.s = [ResetSync(w.s) EXCEPT !.common = FALSE, !.last = Len(head), !.lastHash = head],
              !.q = [w.q EXCEPT !.ready = {}, !.pipe = {}, !.draining = {}, !.unknown = {}, !.difficulty = 0]]

(* What is asked of a peer: a header by hash, headers by numbers, bodies.   *)
NoRequest == [none |-> TRUE]

Down == [up |-> FALSE, enabled |-> FALSE, asking |-> "Nothing", request |-> NoRequest,
         height |-> 0, latest |-> NoBlock, td |-> 0, unknowns |-> 0]

Init ==
    /\ head \in Own /\ known = Path(head) /\ hand = NoBlock
    /\ sync = [state |-> "Idle", headers |-> Empty, bodies |-> Empty,
               dlHeaders |-> {}, dlBodies |-> {}, ids |-> {}, syncTD |-> 0,
               headerPeers |-> [p \in Peer |-> {}], bodyPeers |-> [p \in Peer |-> {}],
               common |-> FALSE, last |-> Len(head), lastHash |-> head]
    /\ peer = [p \in Peer |-> Down]
    /\ queue = [ready |-> {}, pipe |-> {}, draining |-> {}, unknown |-> {}, bad |-> {}, difficulty |-> 0]
    /\ served = [p \in Peer |-> Prefix(Served[p], First[p])]
    /\ offered = [p \in Peer |-> TRUE]
    /\ downs = 0 /\ commits = 0

-----------------------------------------------------------------------------
(* The block queue: import, blockStatus, knownFull, and the blocks of the  *)
(* unknown set that follow a block that is ready (noteReady) or bad.       *)

Following(b, S) == {c \in S : b \in Path(c) /\ \A d \in Path(c) \ Path(b) : d \in S}

QueueHas(q, b) == b \in q.ready \cup q.draining \cup q.unknown \cup q.bad

ImportResult(q, b) ==
    IF QueueHas(q, b) THEN "AlreadyKnown"
    ELSE IF b \in known THEN "AlreadyInChain"
    ELSE IF Parent(b) \in q.bad THEN "BadChain"
    ELSE IF Parent(b) \in q.ready \cup q.draining \cup known THEN "Success"
    ELSE "UnknownParent"

Imported(q, b) ==
    LET r == ImportResult(q, b)
        f == Following(b, q.unknown)
    IN  IF r = "Success"
        THEN [q EXCEPT !.ready = @ \cup {b} \cup f, !.pipe = @ \cup {b} \cup f, !.unknown = @ \ f,
                       !.difficulty = @ + 1]
        ELSE IF r = "BadChain" THEN [q EXCEPT !.bad = @ \cup {b} \cup f, !.unknown = @ \ f]
        ELSE IF r = "UnknownParent" THEN [q EXCEPT !.unknown = @ \cup {b}, !.difficulty = @ + 1]
        ELSE q

(* updateBad for a block b that was drained and refused.  removeIf returns *)
(* the last blocks of a queue, not those it removes: if it removes any,    *)
(* those that become bad and are no longer ready (marked) may be any       *)
(* blocks on their way, while those that go from the queues are the ones   *)
(* that are then bad or follow a bad one.  Which blocks are marked is the  *)
(* matter of module BlockQueue.                                            *)
Marks(q, b) ==
    LET bad == q.bad \cup {b} \cup Following(b, q.unknown)
    IN  IF \E c \in q.pipe : c \in bad \/ Parent(c) \in bad THEN SUBSET q.pipe \ {{}} ELSE {{}}

UpdateBad(q, b, marked) ==
    LET f   == UNION {Following(c, q.unknown) : c \in marked \cup {b}}
        bad == q.bad \cup {b} \cup marked \cup f
    IN  [q EXCEPT !.ready = @ \ marked, !.pipe = {c \in @ : c \notin bad /\ Parent(c) \notin bad},
                  !.unknown = @ \ f, !.bad = bad]

KnownFull(q) == Cardinality(q.pipe) > MaxKnown
HaveBlock(q, b) == b \in q.ready \cup q.draining \cup known

-----------------------------------------------------------------------------
(* What is asked of a peer.                                                *)

(* Mutant: only the bodies are given up.                                   *)
ClearPeerDownload_Bodies(w, p) ==
    [w EXCEPT !.s.dlBodies = @ \ w.s.bodyPeers[p], !.s.bodyPeers[p] = {}]

ClearPeerDownload(w, p) ==
    [w EXCEPT !.s.dlHeaders = @ \ w.s.headerPeers[p], !.s.headerPeers[p] = {},
              !.s.dlBodies = @ \ w.s.bodyPeers[p], !.s.bodyPeers[p] = {}]

(* requestBlockHeaders from a number on, and its bookkeeping.              *)
AskHeaders(w, p, numbers, mine, request) ==
    [w EXCEPT !.s = [w.s EXCEPT !.dlHeaders = @ \cup numbers, !.headerPeers[p] = mine],
              !.p = [w.p EXCEPT ![p] = [w.p[p] EXCEPT !.asking = "BlockHeaders", !.request = request]]]

(* The bodies of the first run of headers, if it follows the last block.   *)
NeededBodies(w, p) ==
    LET s     == w.s
        start == Least(DOMAIN s.headers)
        free  == {n \in Run(s.headers, start) :
                     n \notin s.dlBodies /\ n \notin DOMAIN s.bodies /\ n <= w.p[p].height}
    IN  IF ~s.common \/ s.headers = Empty \/ start # s.last + 1 THEN {}
        ELSE {n \in free : Cardinality({m \in free : m < n}) < MaxRequestBodies}

(* The numbers of a gap, between the last block and a run of headers or    *)
(* between two runs, from the first that is not asked for and the peer has *)
(* to the end of its window: the gap is cut in windows of                  *)
(* MaxRequestHeaders numbers.                                              *)
GapHeaders(w, p) ==
    LET H     == DOMAIN w.s.headers
        from  == IF H # {} /\ w.s.last + 1 >= Least(H)
                 THEN Least(H) + Cardinality(Run(w.s.headers, Least(H))) ELSE w.s.last + 1
        free  == {n \in from..w.p[p].height : n \notin H \cup w.s.dlHeaders /\ \E m \in H : n < m}
        start == Least(free)
        gap   == Least({n \in from..start : n..start \cap H = {}})
        window == {n \in gap..Least({m \in H : start < m}) - 1 :
                      (n - gap) \div MaxRequestHeaders = (start - gap) \div MaxRequestHeaders}
    IN  IF free = {} THEN {} ELSE {n \in window : start <= n}

RequestBodies(w, p, needed) ==
    LET request == [bodies |-> {w.s.headers[n] : n \in needed}]
    IN  [w EXCEPT !.s = [w.s EXCEPT !.dlBodies = @ \cup needed, !.bodyPeers[p] = needed],
                  !.p = [w.p EXCEPT ![p] = [w.p[p] EXCEPT !.asking = "BlockBodies", !.request = request]]]

AskGap(w, p, gap) ==
    AskHeaders(w, p, gap, gap, [start |-> Least(gap), count |-> Cardinality(gap)])

(* requestBlocks: the result says whether something was asked.  Above the  *)
(* common block, the bodies of headers come first, then the gaps.          *)
AskAbove(w, p) ==
    IF NeededBodies(w, p) # {} THEN [w |-> RequestBodies(w, p, NeededBodies(w, p)), asked |-> TRUE]
    ELSE IF GapHeaders(w, p) # {} THEN [w |-> AskGap(w, p, GapHeaders(w, p)), asked |-> TRUE]
    ELSE [w |-> w, asked |-> FALSE]

(* The common block is searched downwards, one header at a time.           *)
AskBelow(w, p) ==
    LET start == Least({w.s.last} \cup {n - 1 : n \in DOMAIN w.s.headers})
        back  == [w EXCEPT !.s.last = start, !.s.lastHash = NumberHash(start)]
    IN  IF start = 0 THEN AskAbove([back EXCEPT !.s.common = TRUE], p)
        ELSE [w |-> AskHeaders(back, p, {start}, {start}, [start |-> start, count |-> 1]),
              asked |-> TRUE]

RequestBlocks(w0, p) ==
    LET w == ClearPeerDownload(w0, p)
    IN  IF KnownFull(w.q) THEN [w |-> [w EXCEPT !.s.state = "Waiting"], asked |-> FALSE]
        ELSE IF w.s.common THEN AskAbove(w, p)
        ELSE AskBelow(w, p)

(* The difficulty of the queue counts if it is active; a block that turns  *)
(* out bad before it is drained is never subtracted.                       *)
Difficulty(q) == IF q.ready \cup q.pipe \cup q.draining = {} THEN 0 ELSE q.difficulty

SyncPeer(w, p, force) ==
    IF w.p[p].asking # "Nothing" \/ w.s.state = "Waiting"
    THEN [w |-> w, asked |-> FALSE]
    ELSE IF force \/ (w.p[p].td > w.s.syncTD /\ w.p[p].td > Len(head) + Difficulty(w.q))
    THEN [w |-> [AskHeaders(w, p, {w.p[p].height}, w.s.headerPeers[p] \cup {w.p[p].height},
                            [hash |-> w.p[p].latest])
                 EXCEPT !.s.syncTD = w.p[p].td,
                        !.s.state = IF @ \in {"Idle", "NotSynced"} THEN "Blocks" ELSE @],
          asked |-> TRUE]
    ELSE IF w.s.state = "Blocks" THEN RequestBlocks(w, p)
    ELSE [w |-> w, asked |-> FALSE]

(* continueSync, for the connected peers in some order.                    *)
ContinueOne(r, p) ==
    LET t == SyncPeer(r.w, p, FALSE)
    IN  IF r.w.p[p].up THEN [w |-> t.w, asked |-> r.asked \/ t.asked] ELSE r
Continues(w, order) ==
    LET ask[k \in 0..Cardinality(Peer)] ==
            IF k = 0 THEN [w |-> w, asked |-> FALSE] ELSE ContinueOne(ask[k - 1], order[k])
    IN  ask
ContinueSync(w, order) == Continues(w, order)[Cardinality(Peer)]

(* The orders foreachPeer may use: they depend on the ratings.             *)
Orders == {o \in [1..Cardinality(Peer) -> Peer] : \A i, j \in DOMAIN o : o[i] = o[j] => i = j}

-----------------------------------------------------------------------------
(* collectBlocks: the blocks that are complete and follow the last one go  *)
(* to the block queue, in order, until one is refused.                     *)

CollectOne(c, n) ==
    LET b == c.w.s.headers[n]
        r == ImportResult(c.w.q, b)
        v == [c.w EXCEPT !.q = Imported(c.w.q, b)]
    IN  CASE c.stop -> c
          [] ~c.stop /\ r = "Success" ->
                [c EXCEPT !.w = [v EXCEPT !.s.dlHeaders = @ \ {n}, !.s.dlBodies = @ \ {n},
                                          !.s.last = IF n > @ THEN n ELSE @,
                                          !.s.lastHash = IF n > c.w.s.last THEN b ELSE @]]
          [] ~c.stop /\ r = "BadChain" -> [w |-> RestartSync(v), stop |-> TRUE]
          [] ~c.stop /\ r = "UnknownParent" ->
                [w |-> IF n > c.w.s.last
                       THEN [v EXCEPT !.s = [ResetSync(v.s) EXCEPT !.common = FALSE]] ELSE v,
                 stop |-> TRUE]
          [] ~c.stop /\ r \in {"AlreadyKnown", "AlreadyInChain"} -> c

Collects(w, start, count) ==
    LET collect[k \in 0..count] ==
            IF k = 0 THEN [w |-> w, stop |-> FALSE] ELSE CollectOne(collect[k - 1], start + k - 1)
    IN  collect

CollectBlocks(w) ==
    LET s     == w.s
        start == Least(DOMAIN s.headers)
        ready == Run(s.headers, start) \cap Run(s.bodies, start)
        c     == Collects(w, start, Cardinality(ready))[Cardinality(ready)]
        left  == [c.w.s EXCEPT !.headers = Without(@, ready), !.bodies = Without(@, ready)]
    IN  IF s.common /\ s.headers = Empty /\ s.dlHeaders = {} /\ s.dlBodies = {}
        THEN [w EXCEPT !.s = CompleteSync(s)]
        ELSE IF \/ ~s.common \/ s.headers = Empty \/ s.bodies = Empty
                \/ start # Least(DOMAIN s.bodies) \/ start # s.last + 1
        THEN w
        ELSE IF c.stop THEN c.w
        ELSE IF Cardinality(c.w.q.unknown) > MaxUnknown THEN RestartSync(c.w)
        ELSE [c.w EXCEPT !.s = IF left.headers = Empty THEN CompleteSync(left) ELSE left]

-----------------------------------------------------------------------------
(* onPeerBlockHeaders *)

(* Mutants: a header is kept under the next number; the body of a header   *)
(* is not expected.                                                        *)
AddHeader_Next(c, b) ==
    IF c.stop \/ HaveBlock(c.w.q, b) THEN [c EXCEPT !.w.s.common = TRUE]
    ELSE [c EXCEPT !.w.s.headers = [m \in DOMAIN @ \cup {Len(b) + 1} |-> IF m = Len(b) + 1 THEN b ELSE @[m]],
                   !.w.s.ids = @ \cup {b}]

AddHeader_NoId(c, b) ==
    LET n == Len(b)
    IN  IF c.stop \/ n \in DOMAIN c.w.s.headers \/ (n <= c.w.s.last /\ c.w.s.common) THEN c
        ELSE IF HaveBlock(c.w.q, b)
        THEN [c EXCEPT !.w.s.common = TRUE, !.w.s.last = n, !.w.s.lastHash = b]
        ELSE [c EXCEPT !.w.s.headers = [m \in DOMAIN @ \cup {n} |-> IF m = n THEN b ELSE @[m]]]

AddHeader(c, b) ==
    LET s    == c.w.s
        n    == Len(b)
        run  == Run(s.headers, n + 1)
        later == {m \in DOMAIN s.headers \cup DOMAIN s.bodies : m > n}
        linked == (n - 1 \in DOMAIN s.headers => s.headers[n - 1] = Parent(b))
                  /\ (n = s.last + 1 => s.lastHash = Parent(b))
        follows == n + 1 \in DOMAIN s.headers => Parent(s.headers[n + 1]) = b
        kept == IF s.common /\ ~follows
                THEN [s EXCEPT !.ids = @ \ {s.headers[m] : m \in run},
                               !.dlHeaders = @ \ run, !.dlBodies = @ \ run,
                               !.headers = Without(@, later), !.bodies = Without(@, later)]
                ELSE s
    IN  IF c.stop \/ n \in DOMAIN s.headers \/ (n <= s.last /\ s.common) THEN c
        ELSE IF HaveBlock(c.w.q, b)
        THEN [c EXCEPT !.w.s = [s EXCEPT !.common = TRUE, !.last = n, !.lastHash = b]]
        ELSE IF s.common /\ ~linked THEN [w |-> RestartSync(c.w), stop |-> TRUE]
        ELSE [c EXCEPT !.w.s = [kept EXCEPT !.headers = [m \in DOMAIN @ \cup {n} |-> IF m = n THEN b ELSE @[m]],
                                            !.ids = @ \cup {b}]]

Adds(w, headers) ==
    LET add[k \in 0..Len(headers)] ==
            IF k = 0 THEN [w |-> w, stop |-> FALSE] ELSE AddHeader(add[k - 1], headers[k])
    IN  add

OnPeerBlockHeaders(w0, p, headers, order) ==
    LET w == ClearPeerDownload(w0, p)
        c == Adds(w, headers)[Len(headers)]
    IN  IF w.s.state # "Blocks" THEN w
        ELSE IF c.stop THEN c.w
        ELSE ContinueSync(CollectBlocks(c.w), order).w

(* onPeerBlockBodies: a body names its block, and is taken if the block is *)
(* expected, has a header and no body yet.                                 *)
AddBodies(w, bodies) ==
    LET taken == {b \in bodies : /\ b \in w.s.ids /\ Len(b) \in DOMAIN w.s.headers \ DOMAIN w.s.bodies
                                 /\ w.s.headers[Len(b)] = b}
        new   == {Len(b) : b \in taken}
    IN  [w EXCEPT !.s.ids = @ \ taken,
                  !.s.bodies = [n \in DOMAIN @ \cup new |-> IF n \in new THEN w.s.headers[n] ELSE @[n]]]

OnPeerBlockBodies(w0, p, bodies, order) ==
    LET w == ClearPeerDownload(w0, p)
    IN  IF w.s.state # "Blocks" THEN w
        ELSE ContinueSync(CollectBlocks(AddBodies(w, bodies)), order).w

-----------------------------------------------------------------------------
(* Mutants: the header of a block that is imported stays; the next block   *)
(* counts as old.                                                          *)
OnBlockImported_KeepHeader(s, b) ==
    IF Len(b) <= s.last THEN s
    ELSE [s EXCEPT !.last = Len(b), !.lastHash = b,
                   !.dlHeaders = @ \ {Len(b)}, !.dlBodies = @ \ {Len(b)}]

OnBlockImported_Old(s, b) ==
    LET n     == Len(b)
        match == n \in DOMAIN s.headers /\ s.headers[n] = b
        left  == [s EXCEPT !.last = n, !.lastHash = b, !.ids = @ \ {b},
                           !.headers = IF match THEN Without(@, {n}) ELSE @,
                           !.bodies = IF match THEN Without(@, {n}) ELSE @,
                           !.dlHeaders = @ \ {n}, !.dlBodies = @ \ {n}]
    IN  IF n <= s.last + 1 THEN s
        ELSE IF left.headers = Empty THEN CompleteSync(left) ELSE left

(* onBlockImported: b became the best block of the chain.                  *)
OnBlockImported(s, b) ==
    LET n     == Len(b)
        match == n \in DOMAIN s.headers /\ s.headers[n] = b
        left  == [s EXCEPT !.last = n, !.lastHash = b, !.ids = @ \ {b},
                           !.headers = IF match THEN Without(@, {n}) ELSE @,
                           !.bodies = IF match THEN Without(@, {n}) ELSE @,
                           !.dlHeaders = @ \ {n}, !.dlBodies = @ \ {n}]
    IN  IF n <= s.last THEN s
        ELSE IF left.headers = Empty THEN CompleteSync(left) ELSE left

(* onPeerNewHashes, for one hash.                                          *)
Heard(w, p, b) ==
    IF Len(b) > w.p[p].height
    THEN [w EXCEPT !.p[p] = [w.p[p] EXCEPT !.height = Len(b), !.latest = b]] ELSE w

OnPeerNewHashes(w, p, b) ==
    LET v == Heard(w, p, b)
    IN  IF w.p[p].asking # "Nothing" THEN w
        ELSE IF HaveBlock(w.q, b) \/ b \in w.q.bad \cup w.q.unknown THEN v
        ELSE SyncPeer(v, p, TRUE).w

(* The block b that a peer sent is in the queue: nothing of its number has *)
(* to be downloaded.                                                       *)
TakeBlock(s, b) ==
    LET n    == Len(b)
        done == [s EXCEPT !.last = IF n > s.last THEN n ELSE s.last,
                          !.lastHash = IF n > s.last THEN b ELSE s.lastHash,
                          !.headers = Without(@, {n}), !.bodies = Without(@, {n}),
                          !.dlHeaders = @ \ {n}, !.dlBodies = @ \ {n}]
    IN  IF done.headers = Empty THEN CompleteSync(done) ELSE done

(* A peer that sends too many blocks of unknown parents is disabled.       *)
CountUnknown(w, p) ==
    LET u == [w EXCEPT !.p[p].unknowns = @ + 1]
    IN  IF u.p[p].unknowns <= MaxUnknownNewBlocks THEN u
        ELSE RestartSync([u EXCEPT !.p[p].enabled = FALSE])

OnPeerNewBlock(w, p, b) ==
    LET n == Len(b)
        h == Heard(w, p, b)
        v == [h EXCEPT !.p[p].td = IF n > h.p[p].td THEN n ELSE h.p[p].td]
        r == ImportResult(w.q, b)
        i == [v EXCEPT !.q = Imported(w.q, b)]
        x == CountUnknown(i, p)
    IN  CASE n > w.s.last + 1 -> SyncPeer(v, p, TRUE).w
          [] n <= w.s.last + 1 /\ r = "Success" -> [i EXCEPT !.s = TakeBlock(w.s, b)]
          [] n <= w.s.last + 1 /\ r = "UnknownParent" ->
                IF n > w.p[p].td THEN SyncPeer(x, p, TRUE).w ELSE x
          [] n <= w.s.last + 1 /\ r \in {"AlreadyKnown", "AlreadyInChain"} -> v
          [] n <= w.s.last + 1 /\ r = "BadChain" -> [i EXCEPT !.p[p].enabled = FALSE]

-----------------------------------------------------------------------------
(* The steps.  Sync is the state after a handler.                          *)

World == [s |-> sync, p |-> peer, q |-> queue]
Sync(w) == sync' = w.s /\ peer' = w.p /\ queue' = w.q
local  == <<known, head, hand>>
remote == <<served, offered>>
counts == <<downs, commits>>

(* A peer connects and sends its status.                                   *)
OnPeerStatus(p) ==
    /\ ~peer[p].up
    /\ Sync(SyncPeer([World EXCEPT !.p[p] = [Down EXCEPT !.up = TRUE, !.enabled = TRUE, !.height = Len(served[p]),
                                              !.latest = served[p], !.td = Len(served[p])]],
                     p, FALSE).w)
    /\ UNCHANGED <<local, remote, counts>>

(* A peer answers a request for headers, by hash or by numbers: those it   *)
(* has.                                                                    *)
Chunk(b, start, count) ==
    LET n == IF start + count <= Len(b) + 1 THEN count ELSE Len(b) + 1 - start
    IN  IF start > Len(b) THEN <<>> ELSE [i \in 1..n |-> Prefix(b, start + i - 1)]

Answer(b, r) ==
    IF "hash" \in DOMAIN r THEN IF r.hash \in Path(b) THEN <<r.hash>> ELSE <<>>
    ELSE Chunk(b, r.start, r.count)

Answered(p) ==
    [World EXCEPT !.p[p] = [peer[p] EXCEPT !.asking = "Nothing", !.request = NoRequest]]

BlockHeaders(p) ==
    /\ peer[p].enabled /\ peer[p].asking = "BlockHeaders"
    /\ \E order \in Orders :
          Sync(OnPeerBlockHeaders(Answered(p), p, Answer(served[p], peer[p].request), order))
    /\ UNCHANGED <<local, remote, counts>>

(* ... or for bodies: those it has, as many as fit in a packet.            *)
BlockBodies(p) ==
    LET has == peer[p].request.bodies \cap Path(served[p])
    IN  /\ peer[p].enabled /\ peer[p].asking = "BlockBodies"
        /\ \E order \in Orders, sent \in {{c \in has : Len(c) <= Len(b)} : b \in has \cup {served[p]}} :
              Sync(OnPeerBlockBodies(Answered(p), p, sent, order))
        /\ UNCHANGED <<local, remote, counts>>

(* The chain of a peer grows by a block, and the peer announces its hash.  *)
NewBlockHashes(p) ==
    /\ Len(served[p]) < Len(Served[p])
    /\ served' = [served EXCEPT ![p] = Prefix(Served[p], Len(@) + 1)]
    /\ offered' = [offered EXCEPT ![p] = FALSE]
    /\ IF peer[p].enabled THEN Sync(OnPeerNewHashes(World, p, served'[p]))
                     ELSE UNCHANGED <<sync, peer, queue>>
    /\ UNCHANGED <<local, counts>>

(* A peer sends the block itself, to some of its peers.                    *)
NewBlock(p) ==
    /\ peer[p].enabled /\ ~offered[p]
    /\ offered' = [offered EXCEPT ![p] = TRUE]
    /\ Sync(OnPeerNewBlock(World, p, served[p]))
    /\ UNCHANGED <<local, served, counts>>

(* A peer is lost, or has not answered in time (a disabled one never does). *)
OnPeerAborting(p) ==
    /\ peer[p].up /\ downs < MaxDowns
    /\ \E order \in Orders :
          Sync(ContinueSync(ClearPeerDownload([World EXCEPT !.p[p] = Down], p), order).w)
    /\ downs' = downs + 1
    /\ UNCHANGED <<local, remote, commits>>

(* The client thread takes a block from the queue, parents first;          *)
(* onRoomAvailable.                                                        *)
Drain(b) ==
    LET q == [queue EXCEPT !.ready = @ \ {b}, !.pipe = @ \ {b}, !.draining = {b}]
        w == [World EXCEPT !.q = q]
    IN  /\ b \in queue.pipe /\ Path(b) \cap queue.pipe = {b} /\ hand = NoBlock
        /\ IF KnownFull(queue) /\ ~KnownFull(q)
           THEN \E order \in Orders :
                  LET r == ContinueSync([w EXCEPT !.s.state = "Blocks"], order)
                  IN  Sync(IF r.asked THEN r.w ELSE [r.w EXCEPT !.s.state = sync.state])
           ELSE Sync(w)
        /\ hand' = b
        /\ UNCHANGED <<known, head, remote, counts>>

(* ... and imports it, if its parent is known and it can be enacted;       *)
(* doneDrain.                                                              *)
ImportDrained ==
    LET best == Len(hand) > Len(head)
        q    == [queue EXCEPT !.draining = {}, !.difficulty = @ - Cardinality(queue.draining)]
    IN  /\ hand # NoBlock
        /\ \/ /\ hand \in Bad \/ Parent(hand) \notin known
              /\ \E marked \in Marks(q, hand) : queue' = UpdateBad(q, hand, marked)
              /\ UNCHANGED <<sync, known, head>>
           \/ /\ hand \notin Bad /\ Parent(hand) \in known
              /\ queue' = q
              /\ known' = known \cup {hand}
              /\ head' = IF best THEN hand ELSE head
              /\ sync' = IF best THEN OnBlockImported(sync, hand) ELSE sync
        /\ hand' = NoBlock
        /\ UNCHANGED <<peer, remote, counts>>

(* The consensus has a quorum for the next block of the chain the peers    *)
(* serve and hands it to the block queue (submitSealed).                   *)
Commit(p) ==
    LET b == Prefix(Served[p], Len(head) + 1)
    IN  /\ commits < MaxCommits /\ b # NoBlock /\ b \notin Bad /\ Parent(b) = head
        /\ queue' = Imported(queue, b)
        /\ commits' = commits + 1
        /\ UNCHANGED <<sync, peer, local, remote, downs>>

Next ==
    \/ \E p \in Peer : OnPeerStatus(p) \/ BlockHeaders(p) \/ BlockBodies(p)
                       \/ NewBlockHashes(p) \/ NewBlock(p) \/ OnPeerAborting(p) \/ Commit(p)
    \/ \E b \in queue.pipe : Drain(b)
    \/ ImportDrained

Spec == Init /\ [][Next]_vars

-----------------------------------------------------------------------------
(* Every member has its type, and what is asked of a peer fits its state.  *)
TypeOK ==
    /\ sync.state \in {"Idle", "NotSynced", "Blocks", "Waiting"}
    /\ sync.common \in BOOLEAN /\ sync.last \in Nat
    /\ \A n \in DOMAIN sync.headers : Len(sync.headers[n]) = n
    /\ \A n \in DOMAIN sync.bodies : Len(sync.bodies[n]) = n
    /\ \A p \in Peer : peer[p].asking \in {"Nothing", "BlockHeaders", "BlockBodies"}
    /\ Cardinality(queue.draining) <= 1 /\ head \in known

(* A number is noted as being downloaded only while a peer is asked for    *)
(* it: nothing else would ever take the note away, and the number would    *)
(* not be asked for again.                                                 *)
NoOrphans ==
    /\ \A n \in sync.dlHeaders : \E p \in Peer : n \in sync.headerPeers[p] /\ peer[p].asking # "Nothing"
    /\ \A n \in sync.dlBodies : \E p \in Peer : n \in sync.bodyPeers[p] /\ peer[p].asking # "Nothing"

(* A body is kept only for the header it belongs to, and the body of every *)
(* other header is still expected (m_headerIdToNumber), so that it is      *)
(* taken when it comes.                                                    *)
BodiesMatch ==
    /\ \A n \in DOMAIN sync.bodies : n \in DOMAIN sync.headers /\ sync.headers[n] = sync.bodies[n]
    /\ \A n \in DOMAIN sync.headers \ DOMAIN sync.bodies : sync.headers[n] \in sync.ids

(* The node's blocks and those of the peers are of one chain, which is     *)
(* what the consensus gives.                                               *)
OneChain ==
    LET blocks == known \cup {Served[p] : p \in Peer}
    IN  \A b, c \in blocks : b \in Path(c) \/ c \in Path(b)

(* While no block was found bad, no header is at or below the last block:  *)
(* the run of headers would not follow the last block, and nothing would   *)
(* be collected any more (collectBlocks).                                  *)
HeadersAbove ==
    OneChain /\ queue.bad = {} => \A n \in DOMAIN sync.headers : n > sync.last

(* removeItem is only asked for the first number of a run: for another one *)
(* it erases from a vector it has just moved from, which is undefined.     *)
Inside(n) == \/ n \in DOMAIN sync.headers /\ n - 1 \in DOMAIN sync.headers
             \/ n \in DOMAIN sync.bodies /\ n - 1 \in DOMAIN sync.bodies

Removes(b) == Len(b) > sync.last /\ Len(b) \in DOMAIN sync.headers /\ sync.headers[Len(b)] = b

RemovesFirst ==
    OneChain /\ queue.bad = {} =>
    /\ hand # NoBlock /\ Len(hand) > Len(head) /\ Removes(hand) => ~Inside(Len(hand))
    /\ \A p \in Peer : LET b == served[p]
                      IN  Len(b) <= sync.last + 1 /\ ImportResult(queue, b) = "Success" => ~Inside(Len(b))

(* The download does not stop short: when every peer is connected, none is *)
(* asked for anything and the queue is empty, the node has every block it  *)
(* has heard of.                                                           *)
NoStall ==
    (/\ \A p \in Peer : peer[p].enabled /\ peer[p].asking = "Nothing"
     /\ queue.ready = {} /\ hand = NoBlock)
    => \A p \in Peer : peer[p].height <= Len(head)
=============================================================================

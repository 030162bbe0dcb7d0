-------------------------------- MODULE PBFT --------------------------------
(***************************************************************************)
(* The PBFT seal engine (libpbftseal/PBFT.cpp) of a group of N miners,     *)
(* with the sealing thread of PBFTClient.cpp that drives it.               *)
(*                                                                         *)
(* Each node is one record.  A handler of the engine runs under m_mutex    *)
(* and is a function from the record before to the record after; the calls *)
(* it makes (addPrepareReq, checkAndCommit, checkAndSave ...) are the same *)
(* functions in the model.  A handler writes what it broadcasts into the   *)
(* record's field `sent', which only grows: every node may receive any     *)
(* message of any other node, at any time, any number of times, or never.  *)
(* The signatures of the code make idx the author of a message, and        *)
(* handleMsg relays the messages of others unchanged, so relaying adds     *)
(* nothing to this.                                                        *)
(*                                                                         *)
(* Two threads act on a node: the worker of PBFT::workLoop (messages,      *)
(* timeout, future block, garbage) and the client of PBFTClient::doWork    *)
(* (importing blocks, reporting them, sealing).  m_mutex is released       *)
(* between the calls the client makes, so each call is an action.          *)
(*                                                                         *)
(* A block is named by its hash, which fixes its number, its parent, its   *)
(* sealer (genIndex) and whether it holds transactions.  The code gives a  *)
(* block one hash before execution (the raw prepare and the lock) and one  *)
(* after (prepare, signs, commits, chain), and never compares one kind     *)
(* with the other; execution is deterministic, so one name stands for both.*)
(***************************************************************************)
EXTENDS Integers, FiniteSets

CONSTANTS
    N,            \* m_node_num, the number of miners
    Crashed,      \* the miners that never run
    Block,        \* hashes of the blocks that may exist
    Genesis,      \* the hash of block 0
    NoBlock,      \* the empty hash, of a cleared PBFTMsg
    Number,       \* block -> its number
    Parent,       \* block -> the hash of its parent
    Sealer,       \* block -> the idx of the node that seals it
    Empty,        \* the blocks without transactions
    OmitEmptyBlock,  \* m_omit_empty_block, a setting of the network
    Checks,       \* the outcomes checkBlockValid may have beyond the height
                  \* and the parent: TRUE, and FALSE for a local failure such
                  \* as a clock behind the leader's
    MaxView,      \* bound: no node times out into a later view
    MaxRestarts,  \* bound on the restarts of all nodes together
    MaxImports    \* bound on the blocks a node imports

Node  == 0 .. N - 1
Views == 0 .. MaxView

ASSUME NodeAssumption  == N \in Nat \ {0} /\ Crashed \subseteq Node
ASSUME BoundAssumption == MaxView \in Nat /\ MaxRestarts \in Nat /\ MaxImports \in Nat
ASSUME BlockAssumption ==
    /\ Genesis \in Block /\ NoBlock \notin Block
    /\ Number \in [Block \cup {NoBlock} -> Int]
    /\ Number[NoBlock] = -1 /\ Number[Genesis] = 0
    /\ Parent \in [Block -> Block] /\ Sealer \in [Block -> Node]
    /\ \A b \in Block \ {Genesis} : /\ Number[b] >= 1
                                    /\ Number[b] = Number[Parent[b]] + 1
    /\ Empty \subseteq Block /\ OmitEmptyBlock \in BOOLEAN
    /\ Checks \subseteq BOOLEAN

\* The blocks that only change the view.
Omitted == IF OmitEmptyBlock THEN Empty ELSE {}

\* m_f, and quorum() = m_node_num - m_f
F == (N - 1) \div 3
\* Mutant: half of the miners.
Quorum_Half == N \div 2
Quorum == N - F

VARIABLES
    node,      \* the state of every node
    restarts   \* restarts so far

vars == <<node, restarts>>

-----------------------------------------------------------------------------
(* Messages.  The height of a message is the number of its block.          *)

Msg(type, b, v, i) == [type |-> type, hash |-> b, view |-> v, idx |-> i]
MsgOf(type) == [type : {type}, hash : Block, view : Views, idx : Node]
Message     == MsgOf("prepare") \cup MsgOf("sign") \cup MsgOf("commit")
               \cup MsgOf("viewchange")

\* a PBFTMsg after clear()
NoReq == Msg("prepare", NoBlock, -1, -1)

\* A block with the sign_list that checkAndSave appends to it.
SealedBlock == [hash : Block, signers : SUBSET Node]

-----------------------------------------------------------------------------
(* The state of a node.                                                    *)

Steps == {"idle", "seal", "empty", "commit", "report"}

NodeState ==
    [ idx          : Node,                       \* m_node_idx
      view         : Views,                      \* m_view
      toView       : Views,                      \* m_to_view
      leaderFailed : BOOLEAN,                    \* m_leader_failed
      highest      : Block,                      \* m_highest_block
      consensus    : Nat,                        \* m_consensus_block_number
      raw          : MsgOf("prepare") \cup {NoReq},  \* m_raw_prepare_cache
      prepare      : MsgOf("prepare") \cup {NoReq},  \* m_prepare_cache
      committed    : MsgOf("prepare") \cup {NoReq},  \* m_committed_prepare_cache, on disk
      future       : MsgOf("prepare") \cup {NoReq},  \* m_future_prepare_cache
      signs        : SUBSET MsgOf("sign"),       \* m_sign_cache
      commits      : SUBSET MsgOf("commit"),     \* m_commit_cache
      viewChanges  : SUBSET MsgOf("viewchange"), \* m_recv_view_change_req
      notify       : BOOLEAN,                    \* m_onViewChange still to be called
      step         : Steps,                      \* where the client thread is
      block        : Block \cup {NoBlock},       \* m_sealingInfo while it seals
      sealView     : Views,                      \* the view generateSeal returned
      sealed       : BOOLEAN,                    \* m_working.isSealed()
      queue        : SUBSET SealedBlock,         \* blocks submitted to the BlockQueue
      chain        : SUBSET SealedBlock,         \* blocks imported, on disk
      head         : Block,                      \* m_lastBlockHash, on disk
      sent         : SUBSET Message ]            \* every message ever broadcast

(* Mutant: the lock is not reloaded from disk.                             *)
InitEnv_NoReload(i, lock, chain, head, sent) ==
    [ idx |-> i, view |-> 0, toView |-> 0, leaderFailed |-> FALSE,
      highest |-> head, consensus |-> Number[head] + 1,
      raw |-> NoReq, prepare |-> NoReq, committed |-> NoReq, future |-> NoReq,
      signs |-> {}, commits |-> {}, viewChanges |-> {}, notify |-> FALSE,
      step |-> "idle", block |-> NoBlock, sealView |-> 0, sealed |-> FALSE,
      queue |-> {}, chain |-> chain, head |-> head, sent |-> sent ]

(* initEnv, then the first reportBlock: everything but the lock, the chain *)
(* and what the network has already seen is lost.                          *)
InitEnv(i, lock, chain, head, sent) ==
    [ idx |-> i, view |-> 0, toView |-> 0, leaderFailed |-> FALSE,
      highest |-> head, consensus |-> Number[head] + 1,
      raw |-> NoReq, prepare |-> NoReq, committed |-> lock, future |-> NoReq,
      signs |-> {}, commits |-> {}, viewChanges |-> {}, notify |-> FALSE,
      step |-> "idle", block |-> NoBlock, sealView |-> 0, sealed |-> FALSE,
      queue |-> {}, chain |-> chain, head |-> head, sent |-> sent ]

Init ==
    /\ node = [i \in Node |-> InitEnv(i, NoReq, {}, Genesis, {})]
    /\ restarts = 0

Imported(s) == {Genesis} \cup {c.hash : c \in s.chain}

\* getLeader(): the leader of the block after the highest one
Leader(s) == (s.view + Number[s.highest]) % N

Broadcast(s, m) == [s EXCEPT !.sent = @ \cup {m}]

-----------------------------------------------------------------------------
(* Caches of votes, keyed by block and signature: a node has one signature *)
(* of a block, whatever the view.                                          *)

Votes(cache, b)    == {m \in cache : m.hash = b}
HasVote(cache, m)  == \E x \in cache : x.hash = m.hash /\ x.idx = m.idx
AddVote(cache, m)  == {x \in cache : x.hash # m.hash \/ x.idx # m.idx} \cup {m}
DropOtherViews(cache, req) ==
    {m \in cache : m.hash = req.hash => m.view = req.view}

\* Mutant: the commits of other views are kept.
AddPrepareReq_KeepCommits(s, req) ==
    [s EXCEPT !.prepare = req, !.signs = DropOtherViews(@, req)]

AddPrepareReq(s, req) ==
    [s EXCEPT !.prepare = req,
              !.signs   = DropOtherViews(@, req),
              !.commits = DropOtherViews(@, req)]

BroadcastSignReq(s, req) ==
    LET m == Msg("sign", req.hash, req.view, s.idx)
    IN  [Broadcast(s, m) EXCEPT !.signs = AddVote(@, m)]

\* Mutant: the commit goes to the cache of signs.
BroadcastCommitReq_WrongCache(s, req) ==
    LET m == Msg("commit", req.hash, req.view, s.idx)
    IN  [Broadcast(s, m) EXCEPT !.signs = AddVote(@, m)]

BroadcastCommitReq(s, req) ==
    LET m == Msg("commit", req.hash, req.view, s.idx)
    IN  [Broadcast(s, m) EXCEPT !.commits = AddVote(@, m)]

\* Mutant: one commit short of a quorum.
CheckAndSave_OneShort(s) ==
    LET b == s.prepare.hash IN
    IF /\ Cardinality(Votes(s.signs, b)) >= Quorum
       /\ Cardinality(Votes(s.commits, b)) = Quorum - 1
       /\ s.prepare.view = s.view
       /\ Number[b] > Number[s.highest]
    THEN [s EXCEPT !.queue = @ \cup
            {[hash |-> b, signers |-> {m.idx : m \in Votes(s.commits, b)}]}]
    ELSE s

(* Enough commits: the block goes to the BlockQueue with their signatures. *)
CheckAndSave(s) ==
    LET b == s.prepare.hash IN
    IF /\ Cardinality(Votes(s.signs, b)) >= Quorum
       /\ Cardinality(Votes(s.commits, b)) = Quorum
       /\ s.prepare.view = s.view
       /\ Number[b] > Number[s.highest]
    THEN [s EXCEPT !.queue = @ \cup
            {[hash |-> b, signers |-> {m.idx : m \in Votes(s.commits, b)}]}]
    ELSE s

\* Mutant: one sign short of a quorum.
CheckAndCommit_OneShort(s) ==
    IF /\ Cardinality(Votes(s.signs, s.prepare.hash)) = Quorum - 1
       /\ s.prepare.view = s.view
    THEN CheckAndSave(BroadcastCommitReq([s EXCEPT !.committed = s.raw], s.prepare))
    ELSE s

(* Enough signs: the raw prepare becomes the lock, in memory and on disk.  *)
CheckAndCommit(s) ==
    IF /\ Cardinality(Votes(s.signs, s.prepare.hash)) = Quorum
       /\ s.prepare.view = s.view
    THEN CheckAndSave(BroadcastCommitReq([s EXCEPT !.committed = s.raw], s.prepare))
    ELSE s

-----------------------------------------------------------------------------
(* handlePrepareMsg.                                                       *)

RecvFutureBlock(s, req) ==
    IF s.future.hash # req.hash THEN [s EXCEPT !.future = req] ELSE s

\* the part of checkBlockValid that depends on the chain
CheckBlockValid(s, b) ==
    Number[b] > Number[s.head] /\ Parent[b] \in Imported(s)

DiscardPrepare(s, req, self) ==
    \/ req.hash = s.raw.hash
    \/ ~self /\ req.idx = s.idx
    \/ Number[req.hash] < s.consensus
    \/ req.view < s.view

AcceptPrepare(s, req, ok) ==
    /\ ~s.leaderFailed /\ req.idx = Leader(s)
    /\ Number[req.hash] = Number[s.committed.hash] => req.hash = s.committed.hash
    /\ CheckBlockValid(s, req.hash) /\ ok
    /\ req.hash \notin Omitted

HandlePrepareMsg(s, req, self, ok) ==
    IF DiscardPrepare(s, req, self) THEN s
    ELSE IF Number[req.hash] > s.consensus \/ req.view > s.view
         THEN RecvFutureBlock(s, req)
    ELSE LET s1 == [s EXCEPT !.raw = req] IN
         IF AcceptPrepare(s1, req, ok)
         THEN CheckAndCommit(BroadcastSignReq(AddPrepareReq(s1, req), req))
         ELSE s1

(* handleSignMsg and handleCommitMsg.                                      *)

FutureVote(s, m) == Number[m.hash] >= s.consensus \/ m.view > s.view

\* Mutant: checkAndCommit is not called.
HandleSignMsg_NoCheck(s, m) ==
    IF HasVote(s.signs, m) \/ m.idx = s.idx THEN s
    ELSE IF s.prepare.hash # m.hash /\ ~FutureVote(s, m) THEN s
    ELSE IF s.prepare.hash = m.hash /\ s.prepare.view # m.view THEN s
    ELSE [s EXCEPT !.signs = AddVote(@, m)]

HandleSignMsg(s, m) ==
    LET s1 == [s EXCEPT !.signs = AddVote(@, m)] IN
    IF HasVote(s.signs, m) \/ m.idx = s.idx THEN s
    ELSE IF s.prepare.hash # m.hash THEN IF FutureVote(s, m) THEN s1 ELSE s
    ELSE IF s.prepare.view # m.view THEN s
    ELSE CheckAndCommit(s1)

HandleCommitMsg(s, m) ==
    LET s1 == [s EXCEPT !.commits = AddVote(@, m)] IN
    IF HasVote(s.commits, m) \/ m.idx = s.idx THEN s
    ELSE IF s.prepare.hash # m.hash THEN IF FutureVote(s, m) THEN s1 ELSE s
    ELSE IF s.prepare.view # m.view THEN s
    ELSE CheckAndSave(s1)

-----------------------------------------------------------------------------
(* View changes.                                                           *)

BroadcastViewChangeReq(s) ==
    Broadcast(s, Msg("viewchange", s.highest, s.toView, s.idx))

\* Mutant: one request short.
CheckAndChangeView_OneShort(s) ==
    IF Cardinality({m \in s.viewChanges : m.view = s.toView}) >= Quorum - 2
    THEN [s EXCEPT !.leaderFailed = FALSE, !.view = s.toView,
                   !.raw = NoReq, !.prepare = NoReq,
                   !.signs = {}, !.commits = {},
                   !.viewChanges = {m \in @ : m.view > s.toView}]
    ELSE s

(* quorum() - 1 requests of others for the view this node wants.           *)
CheckAndChangeView(s) ==
    IF Cardinality({m \in s.viewChanges : m.view = s.toView}) >= Quorum - 1
    THEN [s EXCEPT !.leaderFailed = FALSE, !.view = s.toView,
                   !.raw = NoReq, !.prepare = NoReq,
                   !.signs = {}, !.commits = {},
                   !.viewChanges = {m \in @ : m.view > s.toView}]
    ELSE s

\* a view change request that this node's highest block has overtaken
Obsolete(s, m) ==
    \/ Number[m.hash] < Number[s.highest]
    \/ Number[m.hash] = Number[s.highest] /\ m.hash # s.highest

DiscardViewChange(s, m) ==
    \/ Number[m.hash] < Number[s.highest] \/ m.view <= s.view
    \/ Obsolete(s, m) /\ m.hash \notin Imported(s)

(* The loop over m_recv_view_change_req that looks for f + 1 nodes ahead   *)
(* of m_to_view.  The map is unordered: `order' is the order in which the  *)
(* loop meets the views, and a request counts unless a later view of the   *)
(* same node was met before it.                                            *)
\* Mutant: requests ahead of the current view, not of the wanted one.
Ahead_OfView(s) == {m \in s.viewChanges : /\ m.view > s.view
                                          /\ Number[m.hash] >= Number[s.highest]}
Ahead(s) == {m \in s.viewChanges : /\ m.view > s.toView
                                   /\ Number[m.hash] >= Number[s.highest]}
Orders(s, m) ==
    LET keys == {x.view : x \in s.viewChanges} \cup {m.view}
    IN  [keys -> 1 .. Cardinality(keys)]
Counted(s, order) ==
    {m \in Ahead(s) : \A x \in Ahead(s) :
        x.idx = m.idx /\ x.view > m.view => order[m.view] < order[x.view]}

FastViewChange(s, order) ==
    LET c    == Counted(s, order)
        minV == CHOOSE v \in {m.view : m \in c} : \A m \in c : v <= m.view
        minH == CHOOSE h \in {Number[m.hash] : m \in c} : \A m \in c : h <= Number[m.hash]
    IN  IF /\ Cardinality({m.idx : m \in c}) > F
           /\ ~(minH = s.consensus /\ minH = Number[s.committed.hash])
        THEN [s EXCEPT !.toView = minV - 1]
        ELSE s

HandleViewChangeMsg(s, m, order) ==
    LET s1 == IF m.view + 1 < s.toView THEN BroadcastViewChangeReq(s) ELSE s
        s2 == [s1 EXCEPT !.viewChanges = @ \cup {m}]
    IN  IF \/ \E x \in s.viewChanges : x.view = m.view /\ x.idx = m.idx
           \/ m.idx = s.idx
        THEN s
        ELSE IF DiscardViewChange(s, m) THEN s1
        ELSE IF m.view = s.toView THEN CheckAndChangeView(s2)
        ELSE FastViewChange(s2, order)

-----------------------------------------------------------------------------
(* Actions of the worker thread.  It calls m_onViewChange after releasing  *)
(* m_mutex, and handles nothing else until that call is done.              *)

Messages == UNION {node[i].sent : i \in Node}

Worker(i) == i \notin Crashed /\ ~node[i].notify

Step(i, s) == node' = [node EXCEPT ![i] = s] /\ UNCHANGED restarts

HandlePrepare(i) ==
    /\ Worker(i)
    /\ \E m \in Messages, ok \in Checks :
        /\ m.type = "prepare"
        /\ Step(i, HandlePrepareMsg(node[i], m, FALSE, ok))

HandleSign(i) ==
    /\ Worker(i)
    /\ \E m \in Messages : m.type = "sign" /\ Step(i, HandleSignMsg(node[i], m))

HandleCommit(i) ==
    /\ Worker(i)
    /\ \E m \in Messages : m.type = "commit" /\ Step(i, HandleCommitMsg(node[i], m))

HandleViewChange(i) ==
    /\ Worker(i)
    /\ \E m \in Messages : \E order \in Orders(node[i], m) :
        /\ m.type = "viewchange"
        /\ Step(i, HandleViewChangeMsg(node[i], m, order))

(* The timers only decide when this happens, which the model leaves open.  *)
CheckTimeout(i) ==
    LET s  == node[i]
        to == s.toView + 1
        s1 == [s EXCEPT !.leaderFailed = TRUE, !.toView = to, !.notify = TRUE,
                        !.viewChanges = {m \in @ : m.view = to => ~Obsolete(s, m)}]
    IN  /\ Worker(i) /\ s.toView < MaxView
        /\ Step(i, CheckAndChangeView(BroadcastViewChangeReq(s1)))

(* The callback resets m_working if it is sealed.  A client that has       *)
(* executed its block and not yet called generateCommit then gives it up.  *)
OnViewChange(i) ==
    LET s == [node[i] EXCEPT !.notify = FALSE, !.sealed = FALSE] IN
    /\ i \notin Crashed /\ node[i].notify
    /\ \/ Step(i, s)
       \/ s.step = "commit" /\ Step(i, [s EXCEPT !.step = "idle", !.block = NoBlock])

HandleFutureBlock(i) ==
    LET s == node[i] IN
    /\ Worker(i)
    /\ Number[s.future.hash] = s.consensus /\ s.future.view = s.view
    /\ \E ok \in Checks :
        Step(i, [HandlePrepareMsg(s, s.future, FALSE, ok) EXCEPT !.future = NoReq])

CollectGarbage(i) ==
    LET s == node[i]
        Kept(cache) == {m \in cache : Number[m.hash] >= Number[s.highest]}
    IN  /\ Worker(i)
        /\ Step(i, [s EXCEPT !.signs = Kept(@), !.commits = Kept(@)])

-----------------------------------------------------------------------------
(* Actions of the client thread.                                           *)

Client(i, step) == i \notin Crashed /\ node[i].step = step

\* the blocks the client may seal now: a new timestamp gives a new hash
Candidates(s) == {b \in Block \ {Genesis} :
    /\ Parent[b] = s.head /\ Sealer[b] = s.idx
    /\ \A m \in s.sent : m.type = "prepare" => m.hash # b}

IsLeader(s) == ~s.leaderFailed /\ Leader(s) = s.idx

(* rejigSealing up to the end of the first x_working section: shouldSeal   *)
(* says yes and m_working becomes a block.                                 *)
ShouldSeal(i) ==
    LET s == node[i] IN
    /\ Client(i, "idle")
    /\ IsLeader(s) /\ s.consensus # Number[s.committed.hash]
    /\ ~s.sealed
    /\ \E b \in Candidates(s) : Step(i, [s EXCEPT !.step = "seal", !.block = b])

(* shouldSeal says no, for the lock is to be proposed again.               *)
ReHandle(s, ok) ==
    LET req == Msg("prepare", s.committed.hash, s.view, s.idx)
    IN  HandlePrepareMsg(Broadcast(s, req), req, TRUE, ok)

ReHandlePrepareReq(i) ==
    LET s == node[i] IN
    /\ Client(i, "idle")
    /\ IsLeader(s) /\ s.consensus = Number[s.committed.hash]
    /\ s.consensus # Number[s.raw.hash]
    /\ \E ok \in Checks : Step(i, ReHandle(s, ok))

GenerateSeal(i) ==
    LET s   == node[i]
        req == Msg("prepare", s.block, s.view, i)
    IN  /\ Client(i, "seal")
        /\ Step(i, [Broadcast(s, req) EXCEPT
                      !.raw = req, !.sealView = s.view,
                      !.step = IF s.block \in Omitted THEN "empty" ELSE "commit"])

ChangeViewForEmptyBlock(i) ==
    /\ Client(i, "empty")
    /\ Step(i, [node[i] EXCEPT !.leaderFailed = TRUE,
                               !.step = "idle", !.block = NoBlock])

(* The block is executed and sealed, and generateCommit is called.         *)
SignOwnBlock(s) ==
    LET req == Msg("prepare", s.block, s.sealView, s.idx)
    IN  IF s.sealView = s.view
        THEN CheckAndCommit(BroadcastSignReq(AddPrepareReq(s, req), req))
        ELSE s

GenerateCommit(i) ==
    /\ Client(i, "commit")
    /\ Step(i, [SignOwnBlock(node[i]) EXCEPT !.step = "idle", !.block = NoBlock,
                                              !.sealed = TRUE])

(* Execution fails in the client, by the local failures that Checks admits.*)
AbandonSeal(i) ==
    /\ Client(i, "commit") /\ FALSE \in Checks
    /\ Step(i, [node[i] EXCEPT !.step = "idle", !.block = NoBlock, !.sealed = FALSE])

CheckBlockSign(c) == Cardinality(c.signers) >= N - (N - 1) \div 3

\* sealed blocks this node can import: its own, and what others have imported
Available(i) == node[i].queue \cup UNION {node[j].chain : j \in Node}

(* Client::syncBlockQueue: one block is imported, and is the new head when *)
(* its chain is longer.  Several may be imported before the next report.   *)
SyncBlockQueue(i) ==
    LET s == node[i] IN
    /\ Client(i, "idle") \/ Client(i, "report")
    /\ Cardinality(s.chain) < MaxImports
    /\ \E c \in Available(i) :
        /\ c.hash \notin Imported(s) /\ Parent[c.hash] \in Imported(s)
        /\ CheckBlockSign(c)
        /\ Step(i, [s EXCEPT !.chain = @ \cup {c}, !.queue = @ \ {c}, !.step = "report",
                             !.head = IF Number[c.hash] > Number[@] THEN c.hash ELSE @])

DelCache(s, b) ==
    [s EXCEPT !.signs = @ \ Votes(@, b), !.commits = @ \ Votes(@, b),
              !.prepare = IF @.hash = b THEN NoReq ELSE @]

ReportBlock(i) ==
    LET s  == node[i]
        s1 == [s EXCEPT !.highest = s.head]
        s2 == IF Number[s.head] >= s.consensus
              THEN [s1 EXCEPT !.view = 0, !.toView = 0, !.leaderFailed = FALSE,
                              !.consensus = Number[s.head] + 1,
                              !.viewChanges = {m \in @ : ~Obsolete(s1, m)}]
              ELSE s1
    IN  /\ Client(i, "report")
        /\ Step(i, [DelCache(s2, s.head) EXCEPT
                      !.step = "idle", !.sealed = @ /\ Number[s.head] < s.consensus])

(* The process stops and starts again.  It may stop inside a handler,      *)
(* between the broadcast of its sign and the write of the lock; stopping   *)
(* after that write is the same as losing the commit it then sends.        *)
InFlight(i) ==
    LET s == node[i] IN
    {s} \cup {HandlePrepareMsg(s, m, FALSE, TRUE) :
                m \in {x \in Messages : x.type = "prepare" /\ Worker(i)}}
        \cup {SignOwnBlock(t) : t \in {x \in {s} : x.step = "commit"}}

Restart(i) ==
    LET s == node[i] IN
    /\ i \notin Crashed /\ restarts < MaxRestarts
    /\ \E t \in InFlight(i) :
        node' = [node EXCEPT ![i] = InitEnv(i, s.committed, s.chain, s.head,
                    s.sent \cup {m \in t.sent : m.type = "sign"})]
    /\ restarts' = restarts + 1

-----------------------------------------------------------------------------
Next == \E i \in Node :
    \/ HandlePrepare(i) \/ HandleSign(i) \/ HandleCommit(i) \/ HandleViewChange(i)
    \/ CheckTimeout(i) \/ OnViewChange(i) \/ HandleFutureBlock(i) \/ CollectGarbage(i)
    \/ ShouldSeal(i) \/ ReHandlePrepareReq(i) \/ GenerateSeal(i)
    \/ ChangeViewForEmptyBlock(i) \/ GenerateCommit(i) \/ AbandonSeal(i)
    \/ SyncBlockQueue(i) \/ ReportBlock(i) \/ Restart(i)

Spec == Init /\ [][Next]_vars

(* The worker and the client loop forever and take what they find; timers  *)
(* run out.  Nothing is assumed of failures and restarts.                  *)
Fairness == \A i \in Node :
    /\ WF_vars(HandlePrepare(i)) /\ WF_vars(HandleSign(i)) /\ WF_vars(HandleCommit(i))
    /\ WF_vars(HandleViewChange(i)) /\ WF_vars(CheckTimeout(i)) /\ WF_vars(OnViewChange(i))
    /\ WF_vars(HandleFutureBlock(i))
    /\ WF_vars(ShouldSeal(i)) /\ WF_vars(ReHandlePrepareReq(i)) /\ WF_vars(GenerateSeal(i))
    /\ WF_vars(ChangeViewForEmptyBlock(i)) /\ WF_vars(GenerateCommit(i))
    /\ WF_vars(SyncBlockQueue(i)) /\ WF_vars(ReportBlock(i))

FairSpec == Spec /\ Fairness

-----------------------------------------------------------------------------
(* Properties.                                                             *)

\* Every field of every node keeps its type: views stay within the bound,
\* caches hold messages of their own kind.
TypeOK == node \in [Node -> NodeState] /\ restarts \in 0 .. MaxRestarts

Sent(type) == {m \in Messages : m.type = type}

\* What shouldSeal found was still true when generateSeal proposed the block: no
\* view has two blocks proposed for a height, and nobody proposes another block
\* than the one it committed at that height in an earlier view.
Fresh(M) ==
    /\ \A p, q \in M : /\ p.type = "prepare" /\ q.type = "prepare"
                       /\ Number[p.hash] = Number[q.hash] /\ p.view = q.view
                       => p.hash = q.hash
    /\ \A p, c \in M : /\ p.type = "prepare" /\ c.type = "commit" /\ p.idx = c.idx
                       /\ Number[p.hash] = Number[c.hash] /\ c.view < p.view
                       => p.hash = c.hash
FreshProposals == Fresh(Messages)

\* addPrepareReq purges the votes of other views: whatever is cached for the
\* block in m_prepare_cache was cast in the view of m_prepare_cache, although
\* votes are keyed by a signature that does not cover the view.
VotesMatchPrepare == \A i \in Node : LET s == node[i] IN
    \A m \in s.signs \cup s.commits : m.hash = s.prepare.hash => m.view = s.prepare.view

\* checkAndCommit: whoever sends a commit has seen a quorum sign that block in
\* that view, across relays, view changes and restarts.
CommitsArePrepared == \A m \in Sent("commit") :
    Cardinality({i \in Node : Msg("sign", m.hash, m.view, i) \in node[i].sent}) >= Quorum

\* checkAndSave: the sign_list of a block submitted to the BlockQueue, or on a
\* chain, satisfies checkBlockSign and is made of commits of a single view.
SealsAreCertified == \A i \in Node : \A c \in node[i].queue \cup node[i].chain :
    /\ CheckBlockSign(c)
    /\ \E v \in Views : \A k \in c.signers : Msg("commit", c.hash, v, k) \in node[k].sent

\* checkAndCommit locks what it commits: as long as the height is open, the
\* block a node has sent a commit for is the one in m_committed_prepare_cache.
LockCoversCommit == \A i \in Node : \A m \in node[i].sent :
    m.type = "commit" /\ Number[m.hash] = node[i].consensus
        => node[i].committed.hash = m.hash

\* ... and it does so as long as proposals are fresh.
LockHolds == FreshProposals => LockCoversCommit

\* Nodes never save different blocks of the same height, as long as proposals
\* are fresh: over view changes, restarts and late or repeated votes.
Agreement == FreshProposals =>
    \A i, j \in Node : \A c \in node[i].queue \cup node[i].chain,
                         d \in node[j].queue \cup node[j].chain :
        Number[c.hash] = Number[d.hash] => c.hash = d.hash

\* Where empty blocks are omitted they only change the view: none is ever saved,
\* although their prepare goes through m_raw_prepare_cache like any other.
NoEmptyBlocks == OmitEmptyBlock =>
    \A i \in Node : \A c \in node[i].queue \cup node[i].chain : c.hash \notin Empty

\* checkAndChangeView: a node is in a view only after quorum() - 1 others asked
\* for that view.
ViewIsJustified == \A i \in Node : node[i].view > 0 =>
    Cardinality({j \in Node \ {i} : \E m \in node[j].sent :
        m.type = "viewchange" /\ m.view = node[i].view}) >= Quorum - 1

\* Between two blocks and without a restart neither the view nor the wanted
\* view goes back, whatever order the view change requests arrive in.
ViewsGrow == [][restarts' = restarts =>
    \A i \in Node : node'[i].highest = node[i].highest =>
        /\ node'[i].view >= node[i].view
        /\ node'[i].toView >= node[i].toView]_vars

\* Every node that runs eventually has the blocks of every height.
Progress == \A i \in Node \ Crashed :
    <>(\A b \in Block : Number[node[i].head] >= Number[b])

-----------------------------------------------------------------------------
(* The ledger the nodes keep together.  A block is decided by a quorum of  *)
(* commits of one view, before anyone saves it; what a node has is its     *)
(* chain, which a restart leaves alone.                                    *)

DecidedIn(b, v) == Cardinality({i \in Node : Msg("commit", b, v, i) \in node[i].sent}) >= Quorum
Decided == {b \in Block : \E v \in Views : DecidedIn(b, v)}

L == INSTANCE Ledger WITH
        fresh   <- FreshProposals,
        decided <- Decided,
        copy    <- [i \in Node |-> Imported(node[i])]

\* The engine implements the ledger: over view changes, late votes and restarts a
\* decision is never taken back, no height is decided twice while proposals are
\* fresh, and checkBlockSign lets a node import nothing that is not decided.
LedgerSpec == L!Spec

-----------------------------------------------------------------------------
(* The inductive invariant behind the safety properties, as a predicate of *)
(* one node and the messages in the network.                               *)

\* votes are cached once per block and author, and all of them were cast
CacheInv(cache, M) ==
    /\ cache \subseteq M
    /\ \A x, y \in cache : x.hash = y.hash /\ x.idx = y.idx => x = y

\* what a node remembers was sent, and what it sent carries its name
OriginInv(s, M) ==
    /\ s.sent \subseteq M /\ \A m \in s.sent : m.idx = s.idx
    /\ CacheInv(s.signs, M) /\ CacheInv(s.commits, M)
    /\ {s.raw, s.prepare, s.future} \subseteq M \cup {NoReq}
    /\ s.step = "commit" => Msg("prepare", s.block, s.sealView, s.idx) \in s.sent

\* where the prepare, the raw prepare and the client are
HeightInv(s) ==
    /\ s.view <= s.toView
    /\ s.consensus <= Number[s.head] + 1
    /\ s.step # "report" => s.consensus = Number[s.head] + 1
    /\ Number[s.raw.hash] <= s.consensus /\ Number[s.prepare.hash] <= s.consensus
    /\ Number[s.raw.hash] = s.consensus => s.raw.view = s.view
    /\ Number[s.prepare.hash] = s.consensus =>
            s.prepare.view = s.view /\ Number[s.raw.hash] = s.consensus
    /\ s.step \in {"seal", "empty", "commit"} =>
            s.block \in Block /\ Number[s.block] = s.consensus
    /\ s.step = "commit" =>
            s.sealView <= s.view /\ (s.sealView = s.view => Number[s.raw.hash] = s.consensus)

VoteInv(s) == \A m \in s.signs \cup s.commits :
    m.hash = s.prepare.hash => m.view = s.prepare.view

Prepared(M, b, v) == Cardinality({i \in Node : Msg("sign", b, v, i) \in M}) >= Quorum
Certified(M, c) ==
    /\ CheckBlockSign(c)
    /\ \E v \in Views : \A k \in c.signers : Msg("commit", c.hash, v, k) \in M

CertInv(s, M) ==
    /\ \A m \in s.sent : m.type = "commit" =>
            /\ Prepared(M, m.hash, m.view)
            /\ \E p \in M : p.type = "prepare" /\ p.hash = m.hash /\ p.view = m.view
    /\ \A c \in s.queue \cup s.chain : Certified(M, c)

\* the commits of a node: none beyond the open height, none at the open height
\* while the prepare is an older one
CommitInv(s) == \A m \in s.sent : m.type = "commit" =>
    /\ Number[m.hash] <= s.consensus
    /\ Number[m.hash] = s.consensus =>
           s.prepare = NoReq \/ Number[s.prepare.hash] = s.consensus

\* with fresh proposals: the lock covers the commits of the open height, the
\* prepare agrees with every commit of its height, and a client that is sealing
\* has committed nothing at that height in a later view
LockInv(s) == \A m \in s.sent : m.type = "commit" =>
    /\ Number[m.hash] = s.consensus => s.committed.hash = m.hash
    /\ Number[m.hash] = Number[s.prepare.hash] => m.hash = s.prepare.hash
    /\ s.step \in {"seal", "empty", "commit"} /\ Number[m.hash] = s.consensus
           => m.view <= s.view
    /\ \A x \in s.sent : x.type = "commit" /\ Number[x.hash] = Number[m.hash]
           => x.hash = m.hash

NodeInv(s, M) ==
    /\ s \in NodeState
    /\ OriginInv(s, M) /\ HeightInv(s) /\ VoteInv(s)
    /\ CertInv(s, M) /\ CommitInv(s) /\ (Fresh(M) => LockInv(s))

\* The inductive invariant.
IndInv == \A i \in Node : node[i].idx = i /\ NodeInv(node[i], Messages)
=============================================================================

------------------------- MODULE PBFT_ledger_proofs -------------------------
(***************************************************************************)
(* PBFT implements Ledger, saves no empty block where these are omitted,   *)
(* and enters a view only when enough nodes ask for it: for every number   *)
(* of nodes, every tree of blocks and every bound.  The invariant of       *)
(* PBFT_proofs says what a step keeps; here it is shown what a step        *)
(* changes.                                                                *)
(***************************************************************************)
EXTENDS PBFT_proofs

\* the fields of a node
Fields == {"idx", "view", "toView", "leaderFailed", "highest", "consensus", "raw", "prepare",
           "committed", "future", "signs", "commits", "viewChanges", "notify", "step", "block",
           "sealView", "sealed", "queue", "chain", "head", "sent"}
IsNode(s) == s = [f \in Fields |-> s[f]]

\* nothing a node signs, commits or saves is a block that is omitted
FullInv(s) ==
    /\ s.prepare.hash \notin Omitted
    /\ s.step = "commit" => s.block \notin Omitted
    /\ \A m \in s.sent : m.type = "commit" => m.hash \notin Omitted
    /\ \A c \in s.queue \cup s.chain : c.hash \notin Omitted

\* the requests for views are those of others, one per node and view, and enough
\* others have asked for the view of the node; the view it wants is not behind, and
\* its height is the one above its highest block
Asked(M, v, i) == {j \in Node \ {i} : \E m \in M : m.type = "viewchange" /\ m.view = v /\ m.idx = j}
ViewInv(s, M) ==
    /\ \A m \in s.viewChanges : m \in M /\ m.type = "viewchange" /\ m.idx \in Node \ {s.idx}
                               /\ m.view \in Nat
    /\ \A x, y \in s.viewChanges : x.view = y.view /\ x.idx = y.idx => x = y
    /\ s.view > 0 => Cardinality(Asked(M, s.view, s.idx)) >= Quorum - 1
    /\ s.view \in Nat /\ s.toView \in Nat /\ s.view <= s.toView
    /\ s.consensus = Number[s.highest] + 1

-----------------------------------------------------------------------------
(* What the functions of the handlers change.                              *)

\* the wanted view and the height stay
Level(s, t) == t.toView = s.toView /\ t.highest = s.highest /\ t.consensus = s.consensus

\* at one height the view and the wanted view do not go back
Forward(s, t) == t.highest = s.highest => t.view >= s.view /\ t.toView >= s.toView

\* what s becomes leaves the chain and the view alone
Calm(s, t) ==
    /\ IsNode(t) /\ t.chain = s.chain /\ t.idx = s.idx
    /\ t.view = s.view /\ t.viewChanges = s.viewChanges /\ Level(s, t) /\ FullInv(t)

\* ... and sends at most one commit
OneCommit(s, t) == \E m : \A x \in t.sent \ s.sent : x.type = "commit" => x = m
NoCommit(s, t)  == \A x \in t.sent \ s.sent : x.type # "commit"

\* addPrepareReq and broadcastSignReq
LEMMA SignCalm ==
    ASSUME NEW s, IsNode(s), FullInv(s), NEW req, req.hash \notin Omitted
    PROVE  LET t == BroadcastSignReq(AddPrepareReq(s, req), req)
           IN  Calm(s, t) /\ NoCommit(s, t)
<1> DEFINE t == BroadcastSignReq(AddPrepareReq(s, req), req)
           m == Msg("sign", req.hash, req.view, s.idx)
<1>1. /\ t.prepare = req /\ t.step = s.step /\ t.block = s.block /\ t.sent = s.sent \cup {m}
      /\ t.queue = s.queue /\ t.chain = s.chain /\ t.view = s.view
      /\ t.viewChanges = s.viewChanges /\ Level(s, t) /\ IsNode(t) /\ t.idx = s.idx
  BY DEF BroadcastSignReq, AddPrepareReq, Broadcast, IsNode, Fields, Level
<1>2. m.type = "sign"
  BY DEF Msg
<1> HIDE DEF t, m
<1>3. FullInv(t)
  BY <1>1, <1>2 DEF FullInv
<1> QED BY <1>1, <1>2, <1>3 DEF Calm, Level, NoCommit, t

\* checkAndSave
LEMMA SaveCalm ==
    ASSUME NEW s, IsNode(s), FullInv(s)
    PROVE  Calm(s, CheckAndSave(s)) /\ CheckAndSave(s).sent = s.sent
<1> DEFINE c == [hash |-> s.prepare.hash, signers |-> {m.idx : m \in Votes(s.commits, s.prepare.hash)}]
           t == [s EXCEPT !.queue = @ \cup {c}]
<1>1. c.hash = s.prepare.hash
  OBVIOUS
<1>2. CheckAndSave(s) \in {s, t}
  BY DEF CheckAndSave
<1> HIDE DEF c
<1>3. /\ t.prepare = s.prepare /\ t.step = s.step /\ t.block = s.block /\ t.sent = s.sent
      /\ t.queue = s.queue \cup {c} /\ t.chain = s.chain /\ t.view = s.view
      /\ t.viewChanges = s.viewChanges /\ Level(s, t) /\ IsNode(t) /\ t.idx = s.idx
  BY DEF IsNode, Fields, Level
<1> HIDE DEF t
<1>4. FullInv(t)
  BY <1>1, <1>3 DEF FullInv
<1> QED BY <1>2, <1>3, <1>4 DEF Calm, Level

\* checkAndCommit
LEMMA CommitCalm ==
    ASSUME NEW s, IsNode(s), FullInv(s)
    PROVE  Calm(s, CheckAndCommit(s)) /\ OneCommit(s, CheckAndCommit(s))
<1> DEFINE m == Msg("commit", s.prepare.hash, s.prepare.view, s.idx)
           t == BroadcastCommitReq([s EXCEPT !.committed = s.raw], s.prepare)
<1>1. m.hash = s.prepare.hash
  BY DEF Msg
<1>2. /\ t.prepare = s.prepare /\ t.step = s.step /\ t.block = s.block /\ t.sent = s.sent \cup {m}
      /\ t.queue = s.queue /\ t.chain = s.chain /\ t.view = s.view
      /\ t.viewChanges = s.viewChanges /\ Level(s, t) /\ IsNode(t) /\ t.idx = s.idx
  BY DEF BroadcastCommitReq, Broadcast, IsNode, Fields, Level
<1>3. CheckAndCommit(s) \in {s, CheckAndSave(t)}
  BY DEF CheckAndCommit
<1> HIDE DEF t, m
<1>4. FullInv(t)
  BY <1>1, <1>2 DEF FullInv
<1>5. Calm(t, CheckAndSave(t)) /\ CheckAndSave(t).sent = t.sent
  BY <1>2, <1>4, SaveCalm
<1>6. Calm(s, CheckAndSave(t)) /\ OneCommit(s, CheckAndSave(t))
  BY <1>2, <1>5 DEF Calm, Level, OneCommit
<1>7. Calm(s, s) /\ OneCommit(s, s)
  BY DEF Calm, Level, OneCommit
<1> QED BY <1>3, <1>6, <1>7

\* ... after addPrepareReq and broadcastSignReq
LEMMA SignAndCommitCalm ==
    ASSUME NEW s, IsNode(s), FullInv(s), NEW req, req.hash \notin Omitted
    PROVE  LET t == CheckAndCommit(BroadcastSignReq(AddPrepareReq(s, req), req))
           IN  Calm(s, t) /\ OneCommit(s, t)
<1> DEFINE u == BroadcastSignReq(AddPrepareReq(s, req), req)
<1>1. Calm(s, u) /\ NoCommit(s, u)
  BY SignCalm
<1> HIDE DEF u
<1>2. Calm(u, CheckAndCommit(u)) /\ OneCommit(u, CheckAndCommit(u))
  BY <1>1, CommitCalm DEF Calm, Level
<1>3. OneCommit(s, CheckAndCommit(u))
  BY <1>1, <1>2 DEF OneCommit, NoCommit
<1> QED BY <1>1, <1>2, <1>3 DEF Calm, Level, u

\* handlePrepareMsg
LEMMA PrepareCalm ==
    ASSUME NEW s, IsNode(s), FullInv(s), NEW req, NEW self, NEW ok
    PROVE  LET t == HandlePrepareMsg(s, req, self, ok)
           IN  Calm(s, t) /\ OneCommit(s, t)
<1> DEFINE fu == [s EXCEPT !.future = req]
           s1 == [s EXCEPT !.raw = req]
           u  == CheckAndCommit(BroadcastSignReq(AddPrepareReq(s1, req), req))
<1>1. /\ fu.prepare = s.prepare /\ fu.step = s.step /\ fu.block = s.block /\ fu.sent = s.sent
      /\ fu.queue = s.queue /\ fu.chain = s.chain /\ fu.view = s.view
      /\ fu.viewChanges = s.viewChanges /\ Level(s, fu) /\ IsNode(fu) /\ fu.idx = s.idx
  BY DEF IsNode, Fields, Level
<1>2. /\ s1.prepare = s.prepare /\ s1.step = s.step /\ s1.block = s.block /\ s1.sent = s.sent
      /\ s1.queue = s.queue /\ s1.chain = s.chain /\ s1.view = s.view
      /\ s1.viewChanges = s.viewChanges /\ Level(s, s1) /\ IsNode(s1) /\ s1.idx = s.idx
  BY DEF IsNode, Fields, Level
<1>3. RecvFutureBlock(s, req) \in {s, fu}
  BY DEF RecvFutureBlock
<1>4. \/ HandlePrepareMsg(s, req, self, ok) \in {s, fu, s1}
      \/ HandlePrepareMsg(s, req, self, ok) = u /\ req.hash \notin Omitted
  BY <1>3, Zenon DEF HandlePrepareMsg, AcceptPrepare
<1> HIDE DEF fu, s1
<1>5. Calm(s, s) /\ OneCommit(s, s)
  BY DEF Calm, Level, OneCommit
<1>6. Calm(s, fu) /\ OneCommit(s, fu)
  BY <1>1 DEF Calm, Level, FullInv, OneCommit
<1>7. Calm(s, s1) /\ OneCommit(s, s1)
  BY <1>2 DEF Calm, Level, FullInv, OneCommit
<1>8. ASSUME req.hash \notin Omitted PROVE Calm(s, u) /\ OneCommit(s, u)
  <2>1. Calm(s1, u) /\ OneCommit(s1, u)
    BY <1>2, <1>7, <1>8, SignAndCommitCalm DEF Calm, Level
  <2> HIDE DEF u
  <2> QED BY <1>2, <2>1 DEF Calm, Level, OneCommit
<1> HIDE DEF u
<1> QED BY <1>4, <1>5, <1>6, <1>7, <1>8

\* handleSignMsg and handleCommitMsg
LEMMA VoteCalm ==
    ASSUME NEW s, IsNode(s), FullInv(s), NEW m
    PROVE  /\ Calm(s, HandleSignMsg(s, m)) /\ OneCommit(s, HandleSignMsg(s, m))
           /\ Calm(s, HandleCommitMsg(s, m)) /\ OneCommit(s, HandleCommitMsg(s, m))
<1> DEFINE a == [s EXCEPT !.signs = AddVote(@, m)]
           b == [s EXCEPT !.commits = AddVote(@, m)]
<1>1. /\ a.prepare = s.prepare /\ a.step = s.step /\ a.block = s.block /\ a.sent = s.sent
      /\ a.queue = s.queue /\ a.chain = s.chain /\ a.view = s.view
      /\ a.viewChanges = s.viewChanges /\ Level(s, a) /\ IsNode(a) /\ a.idx = s.idx
  BY DEF IsNode, Fields, Level
<1>2. /\ b.prepare = s.prepare /\ b.step = s.step /\ b.block = s.block /\ b.sent = s.sent
      /\ b.queue = s.queue /\ b.chain = s.chain /\ b.view = s.view
      /\ b.viewChanges = s.viewChanges /\ Level(s, b) /\ IsNode(b) /\ b.idx = s.idx
  BY DEF IsNode, Fields, Level
<1>3. HandleSignMsg(s, m) \in {s, a, CheckAndCommit(a)}
  BY Zenon DEF HandleSignMsg
<1>4. HandleCommitMsg(s, m) \in {s, b, CheckAndSave(b)}
  BY Zenon DEF HandleCommitMsg
<1> HIDE DEF a, b
<1>5. FullInv(a) /\ FullInv(b)
  BY <1>1, <1>2 DEF FullInv
<1>6. /\ Calm(a, CheckAndCommit(a)) /\ OneCommit(a, CheckAndCommit(a))
      /\ Calm(b, CheckAndSave(b)) /\ CheckAndSave(b).sent = b.sent
  BY <1>1, <1>2, <1>5, CommitCalm, SaveCalm
<1>7. /\ Calm(s, s) /\ OneCommit(s, s) /\ Calm(s, a) /\ OneCommit(s, a)
      /\ Calm(s, b) /\ OneCommit(s, b)
  BY <1>1, <1>2, <1>5 DEF Calm, Level, OneCommit
<1>8. Calm(s, CheckAndCommit(a)) /\ OneCommit(s, CheckAndCommit(a))
  BY <1>1, <1>6 DEF Calm, Level, OneCommit
<1>9. Calm(s, CheckAndSave(b)) /\ OneCommit(s, CheckAndSave(b))
  BY <1>2, <1>6 DEF Calm, Level, OneCommit
<1> QED BY <1>3, <1>4, <1>7, <1>8, <1>9

-----------------------------------------------------------------------------
(* Views.                                                                  *)

\* A set of messages of different nodes is as large as the set of their authors.
LEMMA OnePerNode ==
    ASSUME NEW V, \A m \in V : m.idx \in Node, \A x, y \in V : x.idx = y.idx => x = y
    PROVE  Cardinality({m.idx : m \in V}) = Cardinality(V)
<1> DEFINE I == {m.idx : m \in V}
           f == [m \in V |-> m.idx]
<1>1. f \in Bijection(V, I)
  <2>1. f \in [V -> I]
    OBVIOUS
  <2>2. \A x, y \in V : f[x] = f[y] => x = y
    OBVIOUS
  <2>3. \A j \in I : \E m \in V : f[m] = j
    OBVIOUS
  <2> QED BY <2>1, <2>2, <2>3, Zenon DEF Bijection, Injection, Surjection, IsInjective
<1>2. IsFiniteSet(I)
  <2>1. I \in SUBSET Node
    OBVIOUS
  <2> QED BY <2>1, NodesFinite
<1>3. IsFiniteSet(V)
  BY <1>1, <1>2, FS_Injection DEF Bijection
<1> QED BY <1>1, <1>3, FS_Bijection DEF ExistsBijection

\* More messages justify what fewer did.
LEMMA ViewInvGrows ==
    ASSUME NEW M, NEW M2, M \subseteq M2, NEW s, ViewInv(s, M)
    PROVE  ViewInv(s, M2)
<1>1. CASE s.view > 0
  <2> DEFINE A == Asked(M, s.view, s.idx)
             B == Asked(M2, s.view, s.idx)
  <2>1. A \subseteq B /\ B \in SUBSET Node
    BY DEF Asked
  <2>2. Cardinality(A) <= Cardinality(B) /\ Cardinality(B) \in Nat /\ Cardinality(A) \in Nat
    BY <2>1, NodesFinite, FS_Subset
  <2>3. Cardinality(A) >= Quorum - 1
    BY <1>1 DEF ViewInv
  <2> HIDE DEF A, B
  <2>4. Cardinality(B) >= Quorum - 1
    BY <2>2, <2>3, QuorumBound
  <2> QED BY <2>4 DEF ViewInv, B
<1>2. CASE ~(s.view > 0)
  BY <1>2 DEF ViewInv
<1> QED BY <1>1, <1>2

\* checkAndChangeView, for a node whose requests are in order
LEMMA ChangeViewKeeps ==
    ASSUME NEW M, NEW s, IsNode(s), FullInv(s), ViewInv(s, M), s.idx \in Node
    PROVE  LET t == CheckAndChangeView(s)
           IN  /\ IsNode(t) /\ FullInv(t) /\ ViewInv(t, M) /\ t.idx = s.idx
               /\ t.chain = s.chain /\ t.sent = s.sent
               /\ Level(s, t) /\ t.view \in Nat /\ t.view >= s.view
<1> DEFINE V == {m \in s.viewChanges : m.view = s.toView}
           W == {m \in s.viewChanges : m.view > s.toView}
           t == [s EXCEPT !.leaderFailed = FALSE, !.view = s.toView, !.raw = NoReq, !.prepare = NoReq,
                          !.signs = {}, !.commits = {}, !.viewChanges = W]
<1>1. \/ CheckAndChangeView(s) = s
      \/ CheckAndChangeView(s) = t /\ Cardinality(V) >= Quorum - 1
  BY DEF CheckAndChangeView
<1>2. \A m \in V : m \in s.viewChanges /\ m.view = s.toView
  OBVIOUS
<1>3. W \subseteq s.viewChanges
  OBVIOUS
<1> HIDE DEF V, W
<1>4. /\ t.prepare = NoReq /\ t.step = s.step /\ t.block = s.block /\ t.sent = s.sent
      /\ t.queue = s.queue /\ t.chain = s.chain /\ t.view = s.toView
      /\ t.viewChanges = W /\ Level(s, t) /\ IsNode(t) /\ t.idx = s.idx
  BY DEF IsNode, Fields, Level
<1> HIDE DEF t
<1>5. NoReq.hash \notin Omitted
  <2>1. NoReq.hash = NoBlock
    BY DEF NoReq, Msg
  <2> QED BY <2>1, BlockAssumption DEF Omitted
<1>6. FullInv(t)
  BY <1>4, <1>5 DEF FullInv
<1>7. ASSUME Cardinality(V) >= Quorum - 1 PROVE ViewInv(t, M)
  <2> DEFINE I == {m.idx : m \in V}
             A == Asked(M, s.toView, s.idx)
  <2>1. \A m \in V : m.idx \in Node /\ m.idx \in Node \ {s.idx} /\ m \in M /\ m.type = "viewchange"
    BY <1>2 DEF ViewInv
  <2>2. \A x, y \in V : x.idx = y.idx => x = y
    BY <1>2 DEF ViewInv
  <2>3. Cardinality(I) = Cardinality(V)
    BY <2>1, <2>2, OnePerNode
  <2>4. I \subseteq A /\ A \in SUBSET Node
    BY <1>2, <2>1 DEF Asked
  <2> HIDE DEF I, A
  <2>5. Cardinality(I) <= Cardinality(A) /\ Cardinality(A) \in Nat /\ Cardinality(I) \in Nat
    BY <2>4, NodesFinite, FS_Subset
  <2>6. Cardinality(A) >= Quorum - 1
    BY <1>7, <2>3, <2>5, QuorumBound
  <2> QED BY <1>3, <1>4, <2>6 DEF ViewInv, Level, A
<1>8. s.view \in Nat /\ s.toView \in Nat /\ s.view <= s.toView
  BY DEF ViewInv
<1> QED BY <1>1, <1>4, <1>6, <1>7, <1>8 DEF Level

\* handleViewChangeMsg, for a request of another node
LEMMA ViewChangeKeeps ==
    ASSUME NEW M, NEW s, IsNode(s), FullInv(s), ViewInv(s, M), s.idx \in Node,
           NEW m \in M, m.type = "viewchange", m.idx \in Node, m.view \in Nat, NEW order
    PROVE  LET t == HandleViewChangeMsg(s, m, order)
           IN  /\ IsNode(t) /\ FullInv(t) /\ ViewInv(t, M) /\ t.idx = s.idx
               /\ t.chain = s.chain /\ NoCommit(s, t) /\ Forward(s, t)
<1> DEFINE r  == Msg("viewchange", s.highest, s.toView, s.idx)
           b  == BroadcastViewChangeReq(s)
           s1 == IF m.view + 1 < s.toView THEN b ELSE s
           s2 == [s1 EXCEPT !.viewChanges = @ \cup {m}]
           t  == HandleViewChangeMsg(s, m, order)
           Ok(u) == /\ IsNode(u) /\ FullInv(u) /\ ViewInv(u, M) /\ u.idx = s.idx
                    /\ u.chain = s.chain /\ NoCommit(s, u) /\ Forward(s, u)
<1>1. r.type = "viewchange"
  BY DEF Msg
<1>2. /\ b.prepare = s.prepare /\ b.step = s.step /\ b.block = s.block /\ b.sent = s.sent \cup {r}
      /\ b.queue = s.queue /\ b.chain = s.chain /\ b.view = s.view
      /\ b.viewChanges = s.viewChanges /\ Level(s, b) /\ IsNode(b) /\ b.idx = s.idx
  BY DEF BroadcastViewChangeReq, Broadcast, IsNode, Fields, Level
<1> HIDE DEF r, b
<1>3. FullInv(b) /\ ViewInv(b, M)
  BY <1>1, <1>2 DEF FullInv, ViewInv, Level
<1>4. Ok(s) /\ Ok(s1) /\ s1.view = s.view /\ s1.viewChanges = s.viewChanges /\ Level(s, s1)
  <2>1. s.view \in Nat /\ s.toView \in Nat
    BY DEF ViewInv
  <2> QED BY <1>1, <1>2, <1>3, <2>1 DEF NoCommit, Level, Forward
<1>5. CASE \/ \E x \in s.viewChanges : x.view = m.view /\ x.idx = m.idx
           \/ m.idx = s.idx
  <2>1. t = s
    BY <1>5 DEF HandleViewChangeMsg
  <2> QED BY <1>4, <2>1
<1>6. CASE /\ \A x \in s.viewChanges : ~(x.view = m.view /\ x.idx = m.idx)
           /\ m.idx # s.idx
  <2>1. t \in {s1, CheckAndChangeView(s2), FastViewChange(s2, order)}
    BY <1>6, Zenon DEF HandleViewChangeMsg, b
  <2> HIDE DEF s1, t
  <2>2. /\ s2.prepare = s1.prepare /\ s2.step = s1.step /\ s2.block = s1.block /\ s2.sent = s1.sent
        /\ s2.queue = s1.queue /\ s2.chain = s1.chain /\ s2.view = s1.view
        /\ s2.viewChanges = s.viewChanges \cup {m} /\ Level(s, s2) /\ IsNode(s2) /\ s2.idx = s1.idx
    BY <1>4 DEF IsNode, Fields, Level
  <2> HIDE DEF s2
  <2>3. ViewInv(s2, M)
    BY <1>4, <1>6, <2>2 DEF ViewInv, Level
  <2>4. FullInv(s2) /\ NoCommit(s, s2)
    BY <1>4, <2>2 DEF FullInv, NoCommit
  <2>5. Ok(CheckAndChangeView(s2))
    <3>1. LET u == CheckAndChangeView(s2)
          IN  /\ IsNode(u) /\ FullInv(u) /\ ViewInv(u, M) /\ u.idx = s2.idx
              /\ u.chain = s2.chain /\ u.sent = s2.sent
              /\ Level(s2, u) /\ u.view \in Nat /\ u.view >= s2.view
      BY <1>4, <2>2, <2>3, <2>4, ChangeViewKeeps
    <3>2. s.view \in Nat /\ s.toView \in Nat
      BY DEF ViewInv
    <3> QED BY <1>4, <2>2, <2>4, <3>1, <3>2 DEF NoCommit, Level, Forward
  <2>6. Ok(FastViewChange(s2, order))
    <3> DEFINE w == CHOOSE v \in {x.view : x \in Counted(s2, order)} :
                        \A x \in Counted(s2, order) : v <= x.view
               f == [s2 EXCEPT !.toView = w - 1]
    <3>1. \/ FastViewChange(s2, order) = s2
          \/ FastViewChange(s2, order) = f /\ Cardinality({x.idx : x \in Counted(s2, order)}) > F
      BY Zenon DEF FastViewChange
    <3>4. CASE FastViewChange(s2, order) = s2
      <4>1. s.view \in Nat /\ s.toView \in Nat
        BY DEF ViewInv
      <4> QED BY <1>4, <2>2, <2>3, <2>4, <3>4, <4>1 DEF Forward, Level
    <3>5. CASE FastViewChange(s2, order) = f /\ Cardinality({x.idx : x \in Counted(s2, order)}) > F
      <4>1. w \in Nat /\ w > s.toView
        <5> DEFINE c == Counted(s2, order)
                   S == {x.view : x \in c}
        <5>1. \A x \in c : x.view \in Nat /\ x.view > s.toView
          BY <2>2, <2>3 DEF Counted, Ahead, ViewInv, Level
        <5>2. c # {}
          <6> SUFFICES ASSUME c = {} PROVE FALSE
            OBVIOUS
          <6>1. {x.idx : x \in c} = {}
            OBVIOUS
          <6> HIDE DEF c
          <6>2. Cardinality({x.idx : x \in c}) = 0
            BY <6>1, FS_EmptySet
          <6> QED BY <3>5, <6>2, QuorumBound DEF c
        <5>3. S \in SUBSET Nat /\ S # {}
          BY <5>1, <5>2
        <5>4. \E v \in S : \A u \in S : v <= u
          BY <5>3, LeastElement
        <5>5. \E v \in {x.view : x \in c} : \A x \in c : v <= x.view
          BY <5>4
        <5>6. w \in {x.view : x \in c}
          BY <5>5
        <5> QED BY <5>1, <5>6
      <4> HIDE DEF w
      <4>2. /\ f.prepare = s2.prepare /\ f.step = s2.step /\ f.block = s2.block /\ f.sent = s2.sent
            /\ f.queue = s2.queue /\ f.chain = s2.chain /\ f.view = s2.view
            /\ f.viewChanges = s2.viewChanges /\ IsNode(f) /\ f.idx = s2.idx
            /\ f.toView = w - 1 /\ f.highest = s2.highest /\ f.consensus = s2.consensus
        BY <2>2 DEF IsNode, Fields
      <4> HIDE DEF f
      <4>3. /\ s2.view \in Nat /\ s.toView \in Nat /\ s2.view <= s.toView
            /\ s2.highest = s.highest /\ s2.consensus = s.consensus
        BY <1>4, <2>2, <2>3 DEF ViewInv, Level
      <4>4. f.toView \in Nat /\ f.view \in Nat /\ f.view <= f.toView /\ f.toView >= s.toView
        BY <4>1, <4>2, <4>3
      <4>5. FullInv(f) /\ NoCommit(s, f)
        BY <2>4, <4>2 DEF FullInv, NoCommit
      <4>6. ViewInv(f, M)
        BY <2>3, <4>2, <4>4 DEF ViewInv
      <4>7. Forward(s, f)
        BY <1>4, <2>2, <4>2, <4>4, <4>3 DEF Forward
      <4> QED BY <1>4, <2>2, <3>5, <4>2, <4>5, <4>6, <4>7
    <3> QED BY <3>1, <3>4, <3>5
  <2> HIDE DEF Ok
  <2> QED BY <1>4, <2>1, <2>5, <2>6 DEF Ok, t
<1> QED BY <1>5, <1>6

-----------------------------------------------------------------------------
(* The actions.                                                            *)

SaveInv == \A i \in Node : FullInv(node[i]) /\ ViewInv(node[i], Messages)

\* what s becomes keeps its chain and sends at most one commit
Quiet(s, t, M) ==
    /\ IsNode(t) /\ t.idx = s.idx /\ FullInv(t) /\ ViewInv(t, M)
    /\ t.chain = s.chain /\ OneCommit(s, t)

\* ... and goes forward
Onward(s, t, M) == Quiet(s, t, M) /\ Forward(s, t)

QuietStep(i) == \E t :
    /\ Quiet(node[i], t, Messages) /\ (restarts' = restarts => Forward(node[i], t))
    /\ node' = [node EXCEPT ![i] = t]

\* The record of a node.
LEMMA NodeIs ==
    ASSUME Inv, NEW i \in Node
    PROVE  IsNode(node[i]) /\ node[i].idx = i /\ node[i] \in NodeState
<1>1. node[i] \in NodeState /\ node[i].idx = i
  BY DEF Inv, TypeOK, IndInv
<1>2. ASSUME NEW s \in NodeState PROVE IsNode(s)
  BY DEF NodeState, IsNode, Fields, Level
<1> QED BY <1>1, <1>2

\* Two steps forward, one of them at its height.
LEMMA ForwardThrough ==
    ASSUME NEW M, NEW s, ViewInv(s, M), NEW u, ViewInv(u, M), NEW t, ViewInv(t, M),
           Forward(s, u), Forward(u, t), u.highest = s.highest \/ t.highest = u.highest
    PROVE  Forward(s, t)
<1>1. s.view \in Nat /\ s.toView \in Nat /\ u.view \in Nat /\ u.toView \in Nat
      /\ t.view \in Nat /\ t.toView \in Nat
  BY DEF ViewInv
<1> QED BY <1>1 DEF Forward

\* What is calm is quiet.
LEMMA CalmQuiet ==
    ASSUME NEW M, NEW s, ViewInv(s, M), NEW t, Calm(s, t), OneCommit(s, t)
    PROVE  Onward(s, t, M)
BY DEF Calm, Level, Onward, Forward, Quiet, ViewInv

\* A record that differs in other fields only is quiet.
LEMMA SameQuiet ==
    ASSUME NEW M, NEW s, FullInv(s), ViewInv(s, M), NEW t, IsNode(t), t.idx = s.idx,
           t.prepare = s.prepare, t.step = "commit" => s.step = "commit" /\ t.block = s.block,
           t.queue = s.queue, t.chain = s.chain, t.view = s.view,
           t.viewChanges \subseteq s.viewChanges, Level(s, t), NoCommit(s, t), s.sent \subseteq t.sent
    PROVE  Onward(s, t, M)
<1>1. FullInv(t)
  BY DEF FullInv, NoCommit
<1>2. ViewInv(t, M) /\ s.view \in Nat /\ s.toView \in Nat
  BY DEF ViewInv, Level
<1> QED BY <1>1, <1>2 DEF Onward, Forward, Quiet, OneCommit, NoCommit, Level

\* The handlers of messages.
LEMMA MessagesQuiet ==
    ASSUME Inv, SaveInv, NEW i \in Node,
           HandlePrepare(i) \/ HandleSign(i) \/ HandleCommit(i) \/ HandleViewChange(i)
    PROVE  QuietStep(i)
<1> DEFINE s == node[i]
<1>1. IsNode(s) /\ s.idx = i /\ FullInv(s) /\ ViewInv(s, Messages)
  BY NodeIs DEF SaveInv
<1>2. CASE HandlePrepare(i)
  <2>1. PICK m, ok : Step(i, HandlePrepareMsg(s, m, FALSE, ok))
    BY <1>2 DEF HandlePrepare
  <2>2. Onward(s, HandlePrepareMsg(s, m, FALSE, ok), Messages)
    BY <1>1, PrepareCalm, CalmQuiet
  <2> QED BY <2>1, <2>2 DEF Step, QuietStep, Onward
<1>3. CASE HandleSign(i)
  <2>1. PICK m : Step(i, HandleSignMsg(s, m))
    BY <1>3 DEF HandleSign
  <2>2. Onward(s, HandleSignMsg(s, m), Messages)
    BY <1>1, VoteCalm, CalmQuiet
  <2> QED BY <2>1, <2>2 DEF Step, QuietStep, Onward
<1>4. CASE HandleCommit(i)
  <2>1. PICK m : Step(i, HandleCommitMsg(s, m))
    BY <1>4 DEF HandleCommit
  <2>2. Onward(s, HandleCommitMsg(s, m), Messages)
    BY <1>1, VoteCalm, CalmQuiet
  <2> QED BY <2>1, <2>2 DEF Step, QuietStep, Onward
<1>5. CASE HandleViewChange(i)
  <2>1. PICK m \in Messages : \E order \in Orders(s, m) :
          m.type = "viewchange" /\ Step(i, HandleViewChangeMsg(s, m, order))
    BY <1>5 DEF HandleViewChange
  <2>5. PICK order \in Orders(s, m) :
          m.type = "viewchange" /\ Step(i, HandleViewChangeMsg(s, m, order))
    BY <2>1
  <2> DEFINE t == HandleViewChangeMsg(s, m, order)
  <2>2. m.idx \in Node /\ m.view \in Nat
    BY <2>5, SentByAuthor, MessageTypes DEF MsgOf, Views
  <2>3. /\ IsNode(t) /\ FullInv(t) /\ ViewInv(t, Messages) /\ t.idx = s.idx
        /\ t.chain = s.chain /\ NoCommit(s, t) /\ Forward(s, t)
    BY <1>1, <2>2, <2>5, ViewChangeKeeps
  <2> HIDE DEF t
  <2>4. Onward(s, t, Messages)
    BY <2>3 DEF Onward, Quiet, OneCommit, NoCommit
  <2> QED BY <2>4, <2>5 DEF Step, QuietStep, Onward, t
<1> QED BY <1>2, <1>3, <1>4, <1>5

\* The other actions of the worker.
LEMMA WorkerQuiet ==
    ASSUME Inv, SaveInv, NEW i \in Node,
           CheckTimeout(i) \/ OnViewChange(i) \/ HandleFutureBlock(i) \/ CollectGarbage(i)
    PROVE  QuietStep(i)
<1> DEFINE s == node[i]
<1>1. IsNode(s) /\ s.idx = i /\ FullInv(s) /\ ViewInv(s, Messages)
  BY NodeIs DEF SaveInv
<1>2. CASE CheckTimeout(i)
  <2> DEFINE to == s.toView + 1
             vc == {m \in s.viewChanges : m.view = to => ~Obsolete(s, m)}
             s1 == [s EXCEPT !.leaderFailed = TRUE, !.toView = to, !.notify = TRUE, !.viewChanges = vc]
             r  == Msg("viewchange", s1.highest, s1.toView, s1.idx)
             u  == BroadcastViewChangeReq(s1)
             t  == CheckAndChangeView(u)
  <2>1. Step(i, t)
    BY <1>2 DEF CheckTimeout
  <2>2. vc \subseteq s.viewChanges /\ r.type = "viewchange"
    BY DEF Msg
  <2> HIDE DEF s, vc, to
  <2>3. u = [s1 EXCEPT !.sent = @ \cup {r}]
    BY DEF BroadcastViewChangeReq, Broadcast
  <2> HIDE DEF r
  <2>4. /\ u.prepare = s.prepare /\ u.step = s.step /\ u.block = s.block /\ u.sent = s.sent \cup {r}
        /\ u.queue = s.queue /\ u.chain = s.chain /\ u.view = s.view
        /\ u.viewChanges = vc /\ IsNode(u) /\ u.idx = s.idx
        /\ u.toView = to /\ u.highest = s.highest /\ u.consensus = s.consensus
    BY <1>1, <2>3 DEF IsNode, Fields
  <2> HIDE DEF u, s1
  <2>5. Onward(s, u, Messages)
    <3>1. OneCommit(s, u) /\ FullInv(u)
      BY <1>1, <2>2, <2>4 DEF OneCommit, FullInv
    <3>2. /\ s.view \in Nat /\ s.toView \in Nat /\ to \in Nat /\ to >= s.toView
          /\ s.view <= s.toView /\ s.view <= to
      BY <1>1 DEF ViewInv, to
    <3>3. ViewInv(u, Messages)
      BY <1>1, <2>2, <2>4, <3>2 DEF ViewInv
    <3> QED BY <2>4, <3>1, <3>2, <3>3 DEF Onward, Forward, Quiet
  <2>6. /\ IsNode(t) /\ FullInv(t) /\ ViewInv(t, Messages) /\ t.idx = u.idx
        /\ t.chain = u.chain /\ t.sent = u.sent
        /\ Level(u, t) /\ t.view \in Nat /\ t.view >= u.view
    BY <1>1, <2>4, <2>5, ChangeViewKeeps DEF Onward, Quiet
  <2> HIDE DEF t
  <2>7. Onward(s, t, Messages)
    <3>1. Forward(s, t)
      BY <2>4, <2>5, <2>6 DEF Onward, Forward, Level
    <3> QED BY <2>4, <2>5, <2>6, <3>1 DEF Onward, Quiet, OneCommit
  <2> QED BY <2>1, <2>7 DEF Step, QuietStep, Onward, s
<1>3. CASE OnViewChange(i)
  <2> DEFINE t == [s EXCEPT !.notify = FALSE, !.sealed = FALSE]
             u == [t EXCEPT !.step = "idle", !.block = NoBlock]
  <2>1. Step(i, t) \/ Step(i, u)
    BY <1>3 DEF OnViewChange
  <2> HIDE DEF s
  <2>2. /\ t.prepare = s.prepare /\ t.step = s.step /\ t.block = s.block /\ t.sent = s.sent
        /\ t.queue = s.queue /\ t.chain = s.chain /\ t.view = s.view
        /\ t.viewChanges = s.viewChanges /\ Level(s, t) /\ IsNode(t) /\ t.idx = s.idx
    BY <1>1 DEF IsNode, Fields, Level
  <2> HIDE DEF t
  <2>3. /\ u.prepare = s.prepare /\ u.step = "idle" /\ u.sent = s.sent
        /\ u.queue = s.queue /\ u.chain = s.chain /\ u.view = s.view
        /\ u.viewChanges = s.viewChanges /\ Level(s, u) /\ IsNode(u) /\ u.idx = s.idx
    BY <1>1, <2>2 DEF IsNode, Fields, Level
  <2> HIDE DEF u
  <2>4. Onward(s, t, Messages)
    BY <1>1, <2>2, SameQuiet DEF NoCommit
  <2>5. Onward(s, u, Messages)
    BY <1>1, <2>3, SameQuiet DEF NoCommit
  <2> QED BY <2>1, <2>4, <2>5 DEF Step, QuietStep, Onward, s
<1>4. CASE HandleFutureBlock(i)
  <2>1. PICK ok : Step(i, [HandlePrepareMsg(s, s.future, FALSE, ok) EXCEPT !.future = NoReq])
    BY <1>4 DEF HandleFutureBlock
  <2> DEFINE u == HandlePrepareMsg(s, s.future, FALSE, ok)
             t == [u EXCEPT !.future = NoReq]
  <2>2. Onward(s, u, Messages)
    BY <1>1, PrepareCalm, CalmQuiet
  <2> HIDE DEF s, u
  <2>3. /\ t.prepare = u.prepare /\ t.step = u.step /\ t.block = u.block /\ t.sent = u.sent
        /\ t.queue = u.queue /\ t.chain = u.chain /\ t.view = u.view
        /\ t.viewChanges = u.viewChanges /\ Level(u, t) /\ IsNode(t) /\ t.idx = u.idx
    BY <2>2 DEF Onward, Forward, Quiet, IsNode, Fields, Level
  <2> HIDE DEF t
  <2>4. Onward(u, t, Messages)
    BY <2>2, <2>3, SameQuiet DEF NoCommit, Onward, Forward, Quiet
  <2>5. Onward(s, t, Messages)
    <3>1. Forward(s, t)
      BY <1>1, <2>2, <2>3, <2>4, ForwardThrough DEF Onward, Quiet, Level
    <3> QED BY <2>2, <2>3, <2>4, <3>1 DEF Onward, Quiet, OneCommit
  <2> QED BY <2>1, <2>5 DEF Step, QuietStep, Onward, s, t, u
<1>5. CASE CollectGarbage(i)
  <2> DEFINE a == {m \in s.signs : Number[m.hash] >= Number[s.highest]}
             b == {m \in s.commits : Number[m.hash] >= Number[s.highest]}
             t == [s EXCEPT !.signs = a, !.commits = b]
  <2>1. Step(i, t)
    BY <1>5 DEF CollectGarbage
  <2> HIDE DEF s, a, b
  <2>2. /\ t.prepare = s.prepare /\ t.step = s.step /\ t.block = s.block /\ t.sent = s.sent
        /\ t.queue = s.queue /\ t.chain = s.chain /\ t.view = s.view
        /\ t.viewChanges = s.viewChanges /\ Level(s, t) /\ IsNode(t) /\ t.idx = s.idx
    BY <1>1 DEF IsNode, Fields, Level
  <2> HIDE DEF t
  <2>3. Onward(s, t, Messages)
    BY <1>1, <2>2, SameQuiet DEF NoCommit
  <2> QED BY <2>1, <2>3 DEF Step, QuietStep, Onward, s
<1> QED BY <1>2, <1>3, <1>4, <1>5

\* The actions of the client, and a restart.
LEMMA SealQuiet ==
    ASSUME Inv, SaveInv, NEW i \in Node,
           \/ ShouldSeal(i) \/ ReHandlePrepareReq(i) \/ GenerateSeal(i)
           \/ ChangeViewForEmptyBlock(i) \/ GenerateCommit(i) \/ AbandonSeal(i)
    PROVE  QuietStep(i)
<1> DEFINE s == node[i]
<1>1. IsNode(s) /\ s.idx = i /\ FullInv(s) /\ ViewInv(s, Messages)
  BY NodeIs DEF SaveInv
<1>2. CASE ShouldSeal(i)
  <2>1. PICK b : Step(i, [s EXCEPT !.step = "seal", !.block = b])
    BY <1>2 DEF ShouldSeal
  <2> DEFINE t == [s EXCEPT !.step = "seal", !.block = b]
  <2> HIDE DEF s
  <2>2. /\ t.prepare = s.prepare /\ t.step = "seal" /\ t.sent = s.sent
        /\ t.queue = s.queue /\ t.chain = s.chain /\ t.view = s.view
        /\ t.viewChanges = s.viewChanges /\ Level(s, t) /\ IsNode(t) /\ t.idx = s.idx
    BY <1>1 DEF IsNode, Fields, Level
  <2> HIDE DEF t
  <2>3. Onward(s, t, Messages)
    BY <1>1, <2>2, SameQuiet DEF NoCommit
  <2> QED BY <2>1, <2>3 DEF Step, QuietStep, Onward, s, t
<1>3. CASE ReHandlePrepareReq(i)
  <2>1. PICK ok : Step(i, ReHandle(s, ok))
    BY <1>3 DEF ReHandlePrepareReq
  <2> DEFINE r == Msg("prepare", s.committed.hash, s.view, s.idx)
             u == Broadcast(s, r)
             t == HandlePrepareMsg(u, r, TRUE, ok)
  <2>2. ReHandle(s, ok) = t /\ r.type = "prepare"
    BY DEF ReHandle, Msg
  <2> HIDE DEF s, r
  <2>3. /\ u.prepare = s.prepare /\ u.step = s.step /\ u.block = s.block /\ u.sent = s.sent \cup {r}
        /\ u.queue = s.queue /\ u.chain = s.chain /\ u.view = s.view
        /\ u.viewChanges = s.viewChanges /\ Level(s, u) /\ IsNode(u) /\ u.idx = s.idx
    BY <1>1 DEF Broadcast, IsNode, Fields, Level
  <2> HIDE DEF u
  <2>4. NoCommit(s, u) /\ Onward(s, u, Messages)
    BY <1>1, <2>2, <2>3, SameQuiet DEF NoCommit
  <2>5. Onward(u, t, Messages)
    BY <2>3, <2>4, PrepareCalm, CalmQuiet DEF Onward, Forward, Quiet
  <2> HIDE DEF t
  <2>6. Onward(s, t, Messages)
    <3>1. Forward(s, t)
      BY <1>1, <2>3, <2>4, <2>5, ForwardThrough DEF Onward, Quiet, Level
    <3> QED BY <2>3, <2>4, <2>5, <3>1 DEF Onward, Quiet, OneCommit, NoCommit
  <2> QED BY <2>1, <2>2, <2>6 DEF Step, QuietStep, Onward, s
<1>4. CASE GenerateSeal(i)
  <2> DEFINE r  == Msg("prepare", s.block, s.view, i)
             st == IF s.block \in Omitted THEN "empty" ELSE "commit"
             t  == [Broadcast(s, r) EXCEPT !.raw = r, !.sealView = s.view, !.step = st]
  <2>1. Step(i, t)
    BY <1>4 DEF GenerateSeal
  <2>2. r.type = "prepare" /\ (st = "commit" => s.block \notin Omitted)
    BY DEF Msg
  <2> HIDE DEF s, r, st
  <2>3. /\ t.prepare = s.prepare /\ t.step = st /\ t.block = s.block /\ t.sent = s.sent \cup {r}
        /\ t.queue = s.queue /\ t.chain = s.chain /\ t.view = s.view
        /\ t.viewChanges = s.viewChanges /\ Level(s, t) /\ IsNode(t) /\ t.idx = s.idx
    BY <1>1 DEF Broadcast, IsNode, Fields, Level
  <2> HIDE DEF t
  <2>4. FullInv(t) /\ ViewInv(t, Messages) /\ OneCommit(s, t)
    BY <1>1, <2>2, <2>3 DEF FullInv, ViewInv, OneCommit, Level
  <2>5. Onward(s, t, Messages)
    <3>1. s.view \in Nat /\ s.toView \in Nat
      BY <1>1 DEF ViewInv
    <3> QED BY <2>3, <2>4, <3>1 DEF Onward, Forward, Quiet, Level
  <2> QED BY <2>1, <2>5 DEF Step, QuietStep, Onward, s
<1>5. CASE ChangeViewForEmptyBlock(i)
  <2> DEFINE t == [s EXCEPT !.leaderFailed = TRUE, !.step = "idle", !.block = NoBlock]
  <2>1. Step(i, t)
    BY <1>5 DEF ChangeViewForEmptyBlock
  <2> HIDE DEF s
  <2>2. /\ t.prepare = s.prepare /\ t.step = "idle" /\ t.sent = s.sent
        /\ t.queue = s.queue /\ t.chain = s.chain /\ t.view = s.view
        /\ t.viewChanges = s.viewChanges /\ Level(s, t) /\ IsNode(t) /\ t.idx = s.idx
    BY <1>1 DEF IsNode, Fields, Level
  <2> HIDE DEF t
  <2>3. Onward(s, t, Messages)
    BY <1>1, <2>2, SameQuiet DEF NoCommit
  <2> QED BY <2>1, <2>3 DEF Step, QuietStep, Onward, s
<1>6. CASE GenerateCommit(i)
  <2> DEFINE r == Msg("prepare", s.block, s.sealView, s.idx)
             u == SignOwnBlock(s)
             t == [u EXCEPT !.step = "idle", !.block = NoBlock, !.sealed = TRUE]
  <2>1. Step(i, t) /\ s.step = "commit"
    BY <1>6 DEF GenerateCommit, Client
  <2>2. u \in {s, CheckAndCommit(BroadcastSignReq(AddPrepareReq(s, r), r))} /\ r.hash = s.block
    BY DEF SignOwnBlock, Msg
  <2> HIDE DEF s, r, u
  <2>3. r.hash \notin Omitted
    BY <1>1, <2>1, <2>2 DEF FullInv
  <2>4. Calm(s, s) /\ OneCommit(s, s)
    BY <1>1 DEF Calm, Level, OneCommit
  <2>5. Calm(s, u) /\ OneCommit(s, u)
    BY <1>1, <2>2, <2>3, <2>4, SignAndCommitCalm
  <2>6. Onward(s, u, Messages)
    BY <1>1, <2>5, CalmQuiet
  <2>7. /\ t.prepare = u.prepare /\ t.step = "idle" /\ t.sent = u.sent
        /\ t.queue = u.queue /\ t.chain = u.chain /\ t.view = u.view
        /\ t.viewChanges = u.viewChanges /\ Level(u, t) /\ IsNode(t) /\ t.idx = u.idx
    BY <2>6 DEF Onward, Forward, Quiet, IsNode, Fields, Level
  <2> HIDE DEF t
  <2>8. Onward(u, t, Messages)
    BY <2>6, <2>7, SameQuiet DEF NoCommit, Onward, Forward, Quiet
  <2>9. Onward(s, t, Messages)
    <3>1. Forward(s, t)
      BY <1>1, <2>6, <2>7, <2>8, ForwardThrough DEF Onward, Quiet, Level
    <3> QED BY <2>6, <2>7, <2>8, <3>1 DEF Onward, Quiet, OneCommit
  <2> QED BY <2>1, <2>9 DEF Step, QuietStep, Onward, s
<1>7. CASE AbandonSeal(i)
  <2> DEFINE t == [s EXCEPT !.step = "idle", !.block = NoBlock, !.sealed = FALSE]
  <2>1. Step(i, t)
    BY <1>7 DEF AbandonSeal
  <2> HIDE DEF s
  <2>2. /\ t.prepare = s.prepare /\ t.step = "idle" /\ t.sent = s.sent
        /\ t.queue = s.queue /\ t.chain = s.chain /\ t.view = s.view
        /\ t.viewChanges = s.viewChanges /\ Level(s, t) /\ IsNode(t) /\ t.idx = s.idx
    BY <1>1 DEF IsNode, Fields, Level
  <2> HIDE DEF t
  <2>3. Onward(s, t, Messages)
    BY <1>1, <2>2, SameQuiet DEF NoCommit
  <2> QED BY <2>1, <2>3 DEF Step, QuietStep, Onward, s
<1> QED BY <1>2, <1>3, <1>4, <1>5, <1>6, <1>7

\* reportBlock starts again in view 0 or stays in its view, and forgets requests.
LEMMA ReportQuiet ==
    ASSUME Inv, SaveInv, NEW i \in Node, ReportBlock(i)
    PROVE  QuietStep(i)
<1> DEFINE s  == node[i]
           s1 == [s EXCEPT !.highest = s.head]
           vc == {m \in s.viewChanges : ~Obsolete(s1, m)}
           s2 == [s1 EXCEPT !.view = 0, !.toView = 0, !.leaderFailed = FALSE,
                            !.consensus = Number[s.head] + 1, !.viewChanges = vc]
           s3 == IF Number[s.head] >= s.consensus THEN s2 ELSE s1
           sl == s3.sealed /\ Number[s.head] < s.consensus
           sg == s3.signs \ Votes(s3.signs, s.head)
           cm == s3.commits \ Votes(s3.commits, s.head)
           pr == IF s3.prepare.hash = s.head THEN NoReq ELSE s3.prepare
           t  == [s3 EXCEPT !.signs = sg, !.commits = cm, !.prepare = pr, !.step = "idle", !.sealed = sl]
           Moved(x) == /\ x.highest = s.head
                       /\ \/ /\ Number[s.head] >= s.consensus
                             /\ x.view = 0 /\ x.toView = 0 /\ x.consensus = Number[s.head] + 1
                          \/ /\ ~(Number[s.head] >= s.consensus)
                             /\ x.view = s.view /\ x.toView = s.toView /\ x.consensus = s.consensus
<1>1. IsNode(s) /\ s.idx = i /\ FullInv(s) /\ ViewInv(s, Messages)
  BY NodeIs DEF SaveInv
<1>0. Number[s.head] \in Nat /\ s.consensus \in Int /\ s.consensus <= Number[s.head] + 1
  BY NodeIs, BlockNumbers DEF Inv, IndInv, NodeInv, HeightInv, NodeState
<1>2. Step(i, [DelCache(s3, s.head) EXCEPT !.step = "idle", !.sealed = @ /\ Number[s.head] < s.consensus])
  BY DEF ReportBlock
<1>3. vc \subseteq s.viewChanges
  OBVIOUS
<1> HIDE DEF s, vc
<1>4. /\ s1.prepare = s.prepare /\ s1.sent = s.sent /\ s1.queue = s.queue
      /\ s1.chain = s.chain /\ s1.view = s.view /\ s1.viewChanges = s.viewChanges
      /\ IsNode(s1) /\ s1.idx = s.idx
      /\ s1.toView = s.toView /\ s1.highest = s.head /\ s1.consensus = s.consensus
  BY <1>1 DEF IsNode, Fields
<1> HIDE DEF s1
<1>5. /\ s2.prepare = s.prepare /\ s2.sent = s.sent /\ s2.queue = s.queue
      /\ s2.chain = s.chain /\ s2.view = 0 /\ s2.viewChanges = vc
      /\ IsNode(s2) /\ s2.idx = s.idx
      /\ s2.toView = 0 /\ s2.highest = s.head /\ s2.consensus = Number[s.head] + 1
  BY <1>4 DEF IsNode, Fields
<1> HIDE DEF s2
<1>6. /\ s3.prepare = s.prepare /\ s3.sent = s.sent /\ s3.queue = s.queue
      /\ s3.chain = s.chain /\ s3.view \in {0, s.view} /\ s3.viewChanges \subseteq s.viewChanges
      /\ IsNode(s3) /\ s3.idx = s.idx /\ Moved(s3)
  BY <1>3, <1>4, <1>5
<1> HIDE DEF s3
<1>7. [DelCache(s3, s.head) EXCEPT !.step = "idle", !.sealed = @ /\ Number[s.head] < s.consensus] = t
  BY <1>6 DEF DelCache, IsNode, Fields
<1>8. pr.hash \notin Omitted
  <2>1. NoReq.hash = NoBlock
    BY DEF NoReq, Msg
  <2> QED BY <1>1, <1>6, <2>1, BlockAssumption DEF FullInv, Omitted
<1> HIDE DEF sl, sg, cm, pr
<1>9. /\ t.prepare = pr /\ t.step = "idle" /\ t.sent = s.sent /\ t.queue = s.queue
      /\ t.chain = s.chain /\ t.view \in {0, s.view} /\ t.viewChanges \subseteq s.viewChanges
      /\ IsNode(t) /\ t.idx = s.idx /\ Moved(t)
  BY <1>6 DEF IsNode, Fields
<1> HIDE DEF t
<1>10. FullInv(t) /\ ViewInv(t, Messages) /\ OneCommit(s, t)
  <2>1. FullInv(t) /\ OneCommit(s, t)
    BY <1>1, <1>8, <1>9 DEF FullInv, OneCommit
  <2>2. /\ t.view \in Nat /\ t.toView \in Nat /\ t.view <= t.toView
        /\ t.consensus = Number[t.highest] + 1
    BY <1>0, <1>1, <1>9 DEF ViewInv
  <2>3. ViewInv(t, Messages)
    BY <1>1, <1>9, <2>2 DEF ViewInv
  <2> QED BY <2>1, <2>3
<1>11. Onward(s, t, Messages)
  <2>1. s.view \in Nat /\ s.toView \in Nat /\ s.consensus = Number[s.highest] + 1
    BY <1>1 DEF ViewInv
  <2>2. Forward(s, t)
    BY <1>0, <1>9, <2>1 DEF Forward
  <2> QED BY <1>9, <1>10, <2>2 DEF Onward, Quiet
<1> QED BY <1>2, <1>7, <1>11 DEF Step, QuietStep, Onward, s

\* A restart keeps the chain and what has been sent.
LEMMA RestartQuiet ==
    ASSUME Inv, SaveInv, NEW i \in Node, Restart(i)
    PROVE  QuietStep(i)
<1> DEFINE s == node[i]
<1>1. IsNode(s) /\ s.idx = i /\ FullInv(s) /\ ViewInv(s, Messages)
  BY NodeIs DEF SaveInv
<1>2. PICK x : node' = [node EXCEPT ![i] = InitEnv(i, s.committed, s.chain, s.head,
                    s.sent \cup {m \in x.sent : m.type = "sign"})]
  BY DEF Restart
<1> DEFINE sg == {m \in x.sent : m.type = "sign"}
           t  == InitEnv(i, s.committed, s.chain, s.head, s.sent \cup sg)
<1>3. \A m \in sg : m.type = "sign"
  OBVIOUS
<1> HIDE DEF s, sg
<1>4. /\ t.prepare = NoReq /\ t.step = "idle" /\ t.sent = s.sent \cup sg /\ t.queue = {}
      /\ t.chain = s.chain /\ t.view = 0 /\ t.viewChanges = {} /\ t.idx = s.idx
      /\ t.toView = 0 /\ t.consensus = Number[t.highest] + 1
  BY <1>1 DEF InitEnv
<1>5. IsNode(t)
  BY DEF InitEnv, IsNode, Fields
<1> HIDE DEF t
<1>6. NoReq.hash \notin Omitted
  <2>1. NoReq.hash = NoBlock
    BY DEF NoReq, Msg
  <2> QED BY <2>1, BlockAssumption DEF Omitted
<1>7. FullInv(t) /\ ViewInv(t, Messages) /\ OneCommit(s, t)
  BY <1>1, <1>3, <1>4, <1>6 DEF FullInv, ViewInv, OneCommit
<1>8. Quiet(s, t, Messages)
  BY <1>4, <1>5, <1>7 DEF Quiet
<1>9. restarts' # restarts
  BY DEF Restart, Inv, TypeOK
<1> QED BY <1>2, <1>8, <1>9 DEF QuietStep, s, t, sg

\* syncBlockQueue imports a block that is certified, that the node does not have and
\* whose parent it has.
TakeStep(i, c) ==
    /\ c \in SealedBlock /\ Certified(Messages, c)
    /\ c.hash \notin Imported(node[i]) /\ Parent[c.hash] \in Imported(node[i])
    /\ \E t : /\ node' = [node EXCEPT ![i] = t] /\ t.idx = i /\ t.chain = node[i].chain \cup {c}
              /\ t.sent = node[i].sent /\ FullInv(t) /\ ViewInv(t, Messages)
              /\ Forward(node[i], t)

LEMMA SyncTakes ==
    ASSUME Inv, SaveInv, NEW i \in Node, SyncBlockQueue(i)
    PROVE  \E c : TakeStep(i, c)
<1> DEFINE s == node[i]
<1>1. IsNode(s) /\ s.idx = i /\ FullInv(s) /\ ViewInv(s, Messages)
  BY NodeIs DEF SaveInv
<1>2. PICK c \in Available(i) :
        /\ c.hash \notin Imported(s) /\ Parent[c.hash] \in Imported(s)
        /\ Step(i, [s EXCEPT !.chain = @ \cup {c}, !.queue = @ \ {c}, !.step = "report",
                             !.head = IF Number[c.hash] > Number[@] THEN c.hash ELSE @])
  BY DEF SyncBlockQueue
<1>3. PICK j \in Node : c \in node[j].queue \cup node[j].chain
  BY DEF Available
<1>4. Certified(Messages, c) /\ c \in SealedBlock /\ c.hash \notin Omitted
  BY <1>3, SavedAreCertified DEF SaveInv, FullInv
<1> DEFINE hd == IF Number[c.hash] > Number[s.head] THEN c.hash ELSE s.head
           t  == [s EXCEPT !.chain = s.chain \cup {c}, !.queue = s.queue \ {c},
                           !.step = "report", !.head = hd]
<1>5. node' = [node EXCEPT ![i] = t]
  BY <1>2 DEF Step
<1> HIDE DEF s, hd
<1>6. /\ t.prepare = s.prepare /\ t.step = "report" /\ t.sent = s.sent /\ t.queue = s.queue \ {c}
      /\ t.chain = s.chain \cup {c} /\ t.view = s.view /\ t.viewChanges = s.viewChanges
      /\ t.idx = s.idx /\ Level(s, t)
  BY <1>1 DEF IsNode, Fields, Level
<1> HIDE DEF t
<1>7. FullInv(t) /\ ViewInv(t, Messages) /\ Forward(s, t)
  BY <1>1, <1>4, <1>6 DEF FullInv, ViewInv, Forward, Level
<1> QED BY <1>1, <1>2, <1>4, <1>5, <1>6, <1>7 DEF TakeStep, s

\* Every step is one or the other.
LEMMA StepKinds ==
    ASSUME Inv, SaveInv, Next
    PROVE  \E i \in Node : StepGood(i) /\ (QuietStep(i) \/ \E c : TakeStep(i, c))
<1>1. PICK i \in Node :
        \/ HandlePrepare(i) \/ HandleSign(i) \/ HandleCommit(i) \/ HandleViewChange(i)
        \/ CheckTimeout(i) \/ OnViewChange(i) \/ HandleFutureBlock(i) \/ CollectGarbage(i)
        \/ ShouldSeal(i) \/ ReHandlePrepareReq(i) \/ GenerateSeal(i)
        \/ ChangeViewForEmptyBlock(i) \/ GenerateCommit(i) \/ AbandonSeal(i)
        \/ SyncBlockQueue(i) \/ ReportBlock(i) \/ Restart(i)
  BY DEF Next
<1>2. StepGood(i)
  BY <1>1, ActionsGood
<1>3. QuietStep(i) \/ \E c : TakeStep(i, c)
  BY <1>1, MessagesQuiet, WorkerQuiet, SealQuiet, ReportQuiet, RestartQuiet, SyncTakes
<1> QED BY <1>2, <1>3

\* Only the node that takes the step changes, and nothing sent is taken back.
LEMMA StepFrame ==
    ASSUME Inv, NEW i \in Node, StepGood(i)
    PROVE  /\ \A j \in Node \ {i} : node'[j] = node[j]
           /\ node[i].sent \subseteq node'[i].sent
           /\ Messages \subseteq Messages'
           /\ \A t : node' = [node EXCEPT ![i] = t] => node'[i] = t
<1>1. PICK t : Good(node[i], t, Messages) /\ node' = [node EXCEPT ![i] = t]
  BY DEF StepGood
<1>2. node \in [Node -> NodeState]
  BY DEF Inv, TypeOK
<1>3. node'[i] = t /\ \A j \in Node \ {i} : node'[j] = node[j]
  BY <1>1, <1>2
<1>4. node[i].sent \subseteq t.sent
  BY <1>1 DEF Good
<1>5. Messages \subseteq Messages'
  BY <1>3, <1>4 DEF Messages
<1> QED BY <1>2, <1>3, <1>4, <1>5

LEMMA SaveInvStep ==
    ASSUME Inv, SaveInv, Next
    PROVE  SaveInv'
<1>1. PICK i \in Node : StepGood(i) /\ (QuietStep(i) \/ \E c : TakeStep(i, c))
  BY StepKinds
<1>2. Messages \subseteq Messages' /\ \A j \in Node \ {i} : node'[j] = node[j]
  BY <1>1, StepFrame
<1>3. FullInv(node'[i]) /\ ViewInv(node'[i], Messages)
  BY <1>1, StepFrame DEF QuietStep, Quiet, TakeStep
<1>4. ASSUME NEW j \in Node PROVE FullInv(node'[j]) /\ ViewInv(node'[j], Messages')
  <2>1. FullInv(node'[j]) /\ ViewInv(node'[j], Messages)
    BY <1>2, <1>3 DEF SaveInv
  <2> QED BY <1>2, <2>1, ViewInvGrows
<1> QED BY <1>4 DEF SaveInv

\* A step without a restart takes no node back at its height.
LEMMA ForwardStep ==
    ASSUME Inv, SaveInv, Next, restarts' = restarts, NEW j \in Node
    PROVE  Forward(node[j], node'[j])
<1>1. PICK i \in Node : StepGood(i) /\ (QuietStep(i) \/ \E c : TakeStep(i, c))
  BY StepKinds
<1>2. Forward(node[i], node'[i])
  BY <1>1, StepFrame DEF QuietStep, TakeStep
<1>3. j # i => node'[j] = node[j]
  BY <1>1, StepFrame
<1>4. Forward(node[j], node[j])
  BY DEF SaveInv, ViewInv, Forward
<1> QED BY <1>2, <1>3, <1>4

-----------------------------------------------------------------------------
(* The theorems.                                                           *)

\* Both invariants hold of every behaviour.
THEOREM SaveInvariance == Spec => [](Inv /\ SaveInv)
<1>1. Init => SaveInv
  <2> SUFFICES ASSUME Init, NEW i \in Node PROVE FullInv(node[i]) /\ ViewInv(node[i], Messages)
    BY DEF SaveInv
  <2>1. /\ node[i].prepare = NoReq /\ node[i].step = "idle" /\ node[i].sent = {}
        /\ node[i].queue = {} /\ node[i].chain = {} /\ node[i].view = 0
        /\ node[i].viewChanges = {} /\ node[i].toView = 0
        /\ node[i].consensus = Number[node[i].highest] + 1
    BY DEF Init, InitEnv
  <2>2. NoReq.hash = NoBlock
    BY DEF NoReq, Msg
  <2> QED BY <2>1, <2>2, BlockAssumption DEF FullInv, ViewInv, Omitted
<1>2. Inv /\ SaveInv /\ [Next]_vars => SaveInv'
  <2> SUFFICES ASSUME Inv, SaveInv, [Next]_vars PROVE SaveInv'
    OBVIOUS
  <2>1. CASE UNCHANGED vars
    BY <2>1 DEF vars, SaveInv, Messages
  <2> QED BY <2>1, SaveInvStep
<1> QED BY <1>1, <1>2, Invariance, PTL DEF Spec

\* With omitEmptyBlock set no empty block is ever saved, whatever leaders seal.
THEOREM NoEmptySaved == Spec => []NoEmptyBlocks
<1>1. SaveInv => NoEmptyBlocks
  BY DEF SaveInv, FullInv, NoEmptyBlocks, Omitted
<1> QED BY <1>1, SaveInvariance, PTL

\* Between two blocks and without a restart the view and the wanted view of a
\* node do not go back, in whatever order the requests are met.
THEOREM ViewsOnlyGrow == Spec => ViewsGrow
<1> DEFINE A == restarts' = restarts =>
                  \A i \in Node : node'[i].highest = node[i].highest =>
                      /\ node'[i].view >= node[i].view
                      /\ node'[i].toView >= node[i].toView
<1>1. Inv /\ SaveInv /\ [Next]_vars => [A]_vars
  <2> SUFFICES ASSUME Inv, SaveInv, Next PROVE A
    OBVIOUS
  <2> QED BY ForwardStep DEF Forward
<1>2. ViewsGrow <=> [][A]_vars
  BY DEF ViewsGrow
<1> QED BY <1>1, <1>2, SaveInvariance, PTL DEF Spec

\* A node is in a view only after quorum() - 1 others asked for that view.
THEOREM ViewsJustified == Spec => []ViewIsJustified
<1>1. ASSUME Inv, SaveInv PROVE ViewIsJustified
  <2> SUFFICES ASSUME NEW i \in Node, node[i].view > 0
               PROVE  Cardinality({j \in Node \ {i} : \E m \in node[j].sent :
                          m.type = "viewchange" /\ m.view = node[i].view}) >= Quorum - 1
    BY DEF ViewIsJustified
  <2>1. Cardinality(Asked(Messages, node[i].view, i)) >= Quorum - 1
    BY <1>1, NodeIs DEF SaveInv, ViewInv
  <2>2. \A j \in Node : (\E m \in Messages : m.type = "viewchange" /\ m.view = node[i].view /\ m.idx = j)
                       <=> (\E m \in node[j].sent : m.type = "viewchange" /\ m.view = node[i].view)
    <3>1. ASSUME NEW j \in Node, NEW m \in node[j].sent PROVE m \in Messages /\ m.idx = j
      BY <1>1 DEF Messages, Inv, IndInv, NodeInv, OriginInv
    <3> QED BY <1>1, <3>1, SentByAuthor
  <2>3. Asked(Messages, node[i].view, i) =
          {j \in Node \ {i} : \E m \in node[j].sent : m.type = "viewchange" /\ m.view = node[i].view}
    BY <2>2 DEF Asked
  <2> QED BY <2>1, <2>3
<1> QED BY <1>1, SaveInvariance, PTL

\* While proposals are fresh one block of a height is decided: the two quorums of
\* commits share a node, and its lock lets it commit one block.
LEMMA OneDecision ==
    ASSUME Inv, FreshProposals, NEW b \in Decided, NEW d \in Decided, Number[b] = Number[d]
    PROVE  b = d
<1>1. PICK v \in Views : DecidedIn(b, v)
  BY DEF Decided
<1>2. PICK w \in Views : DecidedIn(d, w)
  BY DEF Decided
<1> DEFINE A == {i \in Node : Msg("commit", b, v, i) \in node[i].sent}
           B == {i \in Node : Msg("commit", d, w, i) \in node[i].sent}
<1>3. A \in SUBSET Node /\ B \in SUBSET Node
  OBVIOUS
<1>4. Cardinality(A) >= Quorum /\ Cardinality(B) >= Quorum
  BY <1>1, <1>2 DEF DecidedIn
<1>5. PICK k \in Node : k \in A /\ k \in B
  BY <1>3, <1>4, QuorumsMeet
<1>6. LockInv(node[k])
  BY DEF Inv, IndInv, NodeInv, FreshProposals
<1> QED BY <1>5, <1>6 DEF LockInv, Msg

\* ... in the next state as in every other.
OnePerHeight == Inv /\ FreshProposals => \A x, y \in Decided : Number[x] = Number[y] => x = y

LEMMA OneDecisionNext == OnePerHeight'
<1>1. OnePerHeight
  BY OneDecision DEF OnePerHeight
<1> QED BY <1>1, PTL

\* A decision stands.
LEMMA DecidedGrows ==
    ASSUME Inv, NEW i \in Node, StepGood(i)
    PROVE  Decided \subseteq Decided'
<1> SUFFICES ASSUME NEW b \in Block, NEW v \in Views, DecidedIn(b, v) PROVE DecidedIn(b, v)'
  BY DEF Decided
<1> DEFINE A == {j \in Node : Msg("commit", b, v, j) \in node[j].sent}
           B == {j \in Node : Msg("commit", b, v, j) \in node'[j].sent}
<1>1. \A j \in Node : node[j].sent \subseteq node'[j].sent
  BY StepFrame
<1>2. A \subseteq B /\ B \in SUBSET Node
  BY <1>1
<1>3. Cardinality(A) <= Cardinality(B) /\ Cardinality(B) \in Nat /\ Cardinality(A) \in Nat
  BY <1>2, NodesFinite, FS_Subset
<1>4. Cardinality(A) >= Quorum
  BY DEF DecidedIn
<1> HIDE DEF A, B
<1>5. Cardinality(B) >= Quorum
  BY <1>3, <1>4, QuorumBound
<1> QED BY <1>5 DEF DecidedIn, B

\* A step that sends at most one commit decides at most one block, and not one
\* that is omitted.
LEMMA NewDecision ==
    ASSUME Inv, SaveInv', NEW i \in Node, StepGood(i), OneCommit(node[i], node'[i]),
           NEW b \in Decided' \ Decided
    PROVE  b \notin Omitted /\ \A d \in Decided' \ Decided : d = b
<1>1. ASSUME NEW d \in Decided' \ Decided
      PROVE  \E v : Msg("commit", d, v, i) \in node'[i].sent \ node[i].sent
  <2>1. PICK v \in Views : DecidedIn(d, v)'
    BY DEF Decided
  <2>2. ~DecidedIn(d, v) /\ d \in Block
    BY DEF Decided
  <2> DEFINE A == {j \in Node : Msg("commit", d, v, j) \in node[j].sent}
             B == {j \in Node : Msg("commit", d, v, j) \in node'[j].sent}
  <2>3. A # B
    BY <2>1, <2>2 DEF DecidedIn
  <2>4. A \subseteq B
    BY StepFrame
  <2>5. PICK j \in Node : j \in B /\ j \notin A
    BY <2>3, <2>4
  <2>6. j = i
    BY <2>5, StepFrame
  <2> QED BY <2>5, <2>6
<1>2. PICK m : \A x \in node'[i].sent \ node[i].sent : x.type = "commit" => x = m
  BY DEF OneCommit
<1>3. ASSUME NEW d \in Decided' \ Decided
      PROVE  d = m.hash /\ m \in node'[i].sent /\ m.type = "commit"
  <2>1. PICK v : Msg("commit", d, v, i) \in node'[i].sent \ node[i].sent
    BY <1>1
  <2>2. Msg("commit", d, v, i).type = "commit" /\ Msg("commit", d, v, i).hash = d
    BY DEF Msg
  <2> QED BY <1>2, <2>1, <2>2
<1>4. b \notin Omitted
  BY <1>3 DEF SaveInv, FullInv
<1> QED BY <1>3, <1>4

\* What is certified is decided.
LEMMA CertifiedIsDecided ==
    ASSUME Inv, NEW c \in SealedBlock, Certified(Messages, c)
    PROVE  c.hash \in Decided
<1>1. c.signers \in SUBSET Node /\ c.hash \in Block
  BY DEF SealedBlock
<1>2. PICK v \in Views : \A k \in c.signers : Msg("commit", c.hash, v, k) \in node[k].sent
  BY <1>1, CertifiedBySenders
<1> DEFINE A == {j \in Node : Msg("commit", c.hash, v, j) \in node[j].sent}
<1>3. c.signers \subseteq A /\ A \in SUBSET Node
  BY <1>1, <1>2
<1>4. Cardinality(c.signers) <= Cardinality(A) /\ Cardinality(A) \in Nat /\ Cardinality(c.signers) \in Nat
  BY <1>1, <1>3, NodesFinite, FS_Subset
<1>5. Cardinality(c.signers) >= Quorum
  BY DEF Certified, CheckBlockSign, Quorum, F
<1> HIDE DEF A
<1>6. Cardinality(A) >= Quorum
  BY <1>4, <1>5, QuorumBound
<1> QED BY <1>1, <1>6 DEF Decided, DecidedIn, A

Copies == [j \in Node |-> Imported(node[j])]

\* A step that leaves the chains alone is a decision, a stale proposal or nothing.
LEMMA QuietIsLedger ==
    ASSUME Inv, Inv', SaveInv', NEW i \in Node, StepGood(i), QuietStep(i)
    PROVE  L!Next \/ UNCHANGED <<FreshProposals, Decided, Copies>>
<1>1. OneCommit(node[i], node'[i]) /\ node'[i].chain = node[i].chain
  BY StepFrame DEF QuietStep, Quiet
<1>2. Copies' = Copies
  <2>1. \A j \in Node : node'[j].chain = node[j].chain
    BY <1>1, StepFrame
  <2>2. \A j \in Node : Imported(node[j])' = Imported(node[j])
    BY <2>1 DEF Imported
  <2> QED BY <2>2 DEF Copies
<1>3. FreshProposals' => FreshProposals
  BY StepFrame DEF FreshProposals, Fresh
<1>4. CASE Decided' = Decided
  <2>1. CASE FreshProposals /\ ~FreshProposals'
    <3>1. L!Stale
      BY <1>2, <1>4, <2>1 DEF L!Stale, Copies
    <3> QED BY <3>1 DEF L!Next
  <2>2. CASE FreshProposals <=> FreshProposals'
    <3>1. FreshProposals' = FreshProposals
      BY <2>2 DEF FreshProposals, Fresh
    <3> QED BY <1>2, <1>4, <3>1
  <2> QED BY <1>3, <2>1, <2>2
<1>5. CASE Decided' # Decided
  <2>1. Decided \subseteq Decided'
    BY DecidedGrows
  <2>2. PICK b \in Decided' : b \notin Decided
    BY <1>5, <2>1
  <2>3. b \notin Omitted /\ \A d \in Decided' \ Decided : d = b
    BY <1>1, <2>2, NewDecision
  <2>4. Decided' = Decided \cup {b}
    BY <2>1, <2>2, <2>3
  <2>5. ASSUME FreshProposals', NEW d \in Decided PROVE Number[d] # Number[b]
    <3> SUFFICES ASSUME Number[d] = Number[b] PROVE FALSE
      OBVIOUS
    <3> QED BY <2>1, <2>2, <2>5, OneDecisionNext DEF OnePerHeight
  <2>6. b \in Block \ Decided
    BY <2>2 DEF Decided
  <2>7. L!Decide(b)
    BY <1>2, <1>3, <2>3, <2>4, <2>5 DEF L!Decide, Copies
  <2> QED BY <2>6, <2>7 DEF L!Next
<1> QED BY <1>4, <1>5

\* Importing a block is taking a decided one.
LEMMA TakeIsLedger ==
    ASSUME Inv, NEW i \in Node, StepGood(i), NEW c, TakeStep(i, c)
    PROVE  L!Next
<1>1. /\ node'[i].chain = node[i].chain \cup {c} /\ node'[i].sent = node[i].sent
      /\ \A j \in Node \ {i} : node'[j] = node[j]
  BY StepFrame DEF TakeStep
<1>2. \A j \in Node : node'[j].sent = node[j].sent
  BY <1>1
<1>3. Decided' = Decided /\ FreshProposals' = FreshProposals
  <2>1. \A b \in Block : \A v \in Views : DecidedIn(b, v)' <=> DecidedIn(b, v)
    <3> SUFFICES ASSUME NEW b \in Block, NEW v \in Views PROVE DecidedIn(b, v)' <=> DecidedIn(b, v)
      OBVIOUS
    <3>1. {j \in Node : Msg("commit", b, v, j) \in node[j].sent}
            = {j \in Node : Msg("commit", b, v, j) \in node'[j].sent}
      BY <1>2
    <3> QED BY <3>1 DEF DecidedIn
  <2>2. Messages' = Messages
    BY <1>2 DEF Messages
  <2> QED BY <2>1, <2>2 DEF Decided, FreshProposals
<1>4. c.hash \in Decided
  BY CertifiedIsDecided DEF TakeStep
<1>5. Copies' = [Copies EXCEPT ![i] = Copies[i] \cup {c.hash}]
  <2>1. Imported(node[i])' = Imported(node[i]) \cup {c.hash}
    BY <1>1 DEF Imported
  <2>2. \A j \in Node \ {i} : Imported(node[j])' = Imported(node[j])
    BY <1>1 DEF Imported
  <2> QED BY <2>1, <2>2 DEF Copies
<1>6. L!Take(i, c.hash)
  <2>1. Copies[i] = Imported(node[i])
    BY DEF Copies
  <2>2. c.hash \notin Copies[i] /\ Parent[c.hash] \in Copies[i]
    BY <2>1 DEF TakeStep
  <2> QED BY <1>3, <1>5, <2>2 DEF L!Take, Copies
<1> QED BY <1>4, <1>6 DEF L!Next

\* The engine implements the ledger.
THEOREM Refinement == Spec => LedgerSpec
<1>1. Init => L!Init
  <2> SUFFICES ASSUME Init PROVE L!Init
    OBVIOUS
  <2>1. \A i \in Node : node[i].sent = {} /\ node[i].chain = {}
    BY DEF Init, InitEnv
  <2>2. FreshProposals = TRUE
    BY <2>1 DEF FreshProposals, Fresh, Messages
  <2>3. Decided = {}
    <3> SUFFICES ASSUME NEW b \in Block, NEW v \in Views, DecidedIn(b, v) PROVE FALSE
      BY DEF Decided
    <3>1. {i \in Node : Msg("commit", b, v, i) \in node[i].sent} = {}
      BY <2>1
    <3>2. Cardinality({}) >= Quorum
      BY <3>1 DEF DecidedIn
    <3> QED BY <3>2, FS_EmptySet, QuorumBound
  <2>4. \A i \in Node : Imported(node[i]) = {Genesis}
    BY <2>1 DEF Imported
  <2> QED BY <2>2, <2>3, <2>4 DEF L!Init
<1>2. (Inv /\ SaveInv) /\ (Inv /\ SaveInv)' /\ [Next]_vars => [L!Next]_(L!ledger)
  <2> SUFFICES ASSUME Inv, SaveInv, Inv', SaveInv', [Next]_vars PROVE [L!Next]_(L!ledger)
    OBVIOUS
  <2>1. CASE UNCHANGED vars
    <3>1. UNCHANGED node
      BY <2>1 DEF vars
    <3>2. UNCHANGED <<FreshProposals, Decided, Copies>>
      BY <3>1 DEF FreshProposals, Messages, Decided, DecidedIn, Copies
    <3> QED BY <3>2 DEF L!ledger, Copies
  <2>2. CASE Next
    <3>1. PICK i \in Node : StepGood(i) /\ (QuietStep(i) \/ \E c : TakeStep(i, c))
      BY <2>2, StepKinds
    <3>2. L!Next \/ UNCHANGED <<FreshProposals, Decided, Copies>>
      BY <3>1, QuietIsLedger, TakeIsLedger
    <3> QED BY <3>2 DEF L!ledger, Copies
  <2> QED BY <2>1, <2>2
<1> QED BY <1>1, <1>2, SaveInvariance, PTL DEF Spec, LedgerSpec, L!Spec
=============================================================================

----------------------------- MODULE PBFT_proofs -----------------------------
(***************************************************************************)
(* Proofs about PBFT, for every number of nodes, every tree of blocks and  *)
(* every bound.  NodeInv is shown to be kept by each function the handlers *)
(* are made of, then by each action; the properties follow from it.        *)
(***************************************************************************)
EXTENDS PBFT, Iterations, FiniteSetTheorems

USE NodeAssumption, BoundAssumption, BlockAssumption

-----------------------------------------------------------------------------
(* Quorums and counting.                                                   *)

\* quorum() is at least one, and two quorums are more than all the nodes.
LEMMA QuorumBound == Quorum \in Nat /\ Quorum > 0 /\ F \in Nat /\ Quorum + Quorum > N
BY DEF Quorum, F

\* Sets of nodes are finite.
LEMMA NodesFinite ==
    /\ IsFiniteSet(Node) /\ Cardinality(Node) = N
    /\ \A S \in SUBSET Node : IsFiniteSet(S) /\ Cardinality(S) \in Nat
<1>1. IsFiniteSet(Node) /\ Cardinality(Node) = N
  BY FS_Interval DEF Node
<1>2. ASSUME NEW S \in SUBSET Node PROVE IsFiniteSet(S) /\ Cardinality(S) \in Nat
  BY <1>1, FS_Subset, FS_CardinalityType
<1> QED BY <1>1, <1>2

\* Two quorums have a node in common.
LEMMA QuorumsMeet ==
    ASSUME NEW A \in SUBSET Node, NEW B \in SUBSET Node,
           Cardinality(A) >= Quorum, Cardinality(B) >= Quorum
    PROVE  A \cap B # {}
<1> SUFFICES ASSUME A \cap B = {} PROVE FALSE
  OBVIOUS
<1>1. Cardinality(A \cup B) = Cardinality(A) + Cardinality(B) - Cardinality(A \cap B)
  BY NodesFinite, FS_Union
<1>2. Cardinality(A \cap B) = 0
  BY FS_EmptySet
<1>3. A \cup B \in SUBSET Node /\ Cardinality(A \cup B) <= N
  BY NodesFinite, FS_Subset
<1> QED BY <1>1, <1>2, <1>3, QuorumBound, NodesFinite

\* The votes cached for a block stem from as many different nodes: the cache
\* holds one per node.
LEMMA VotesCount ==
    ASSUME NEW type, NEW cache \in SUBSET MsgOf(type), NEW M, CacheInv(cache, M), NEW b
    PROVE  Cardinality({m.idx : m \in Votes(cache, b)}) = Cardinality(Votes(cache, b))
<1> DEFINE V == Votes(cache, b)
           I == {m.idx : m \in V}
           f == [m \in V |-> m.idx]
<1>1. f \in Bijection(V, I)
  <2>1. f \in [V -> I]
    OBVIOUS
  <2>2. \A x, y \in V : f[x] = f[y] => x = y
    BY DEF Votes, CacheInv
  <2>3. \A i \in I : \E x \in V : f[x] = i
    OBVIOUS
  <2> QED BY <2>1, <2>2, <2>3 DEF Bijection, Injection, Surjection, IsInjective
<1>2. I \in SUBSET Node
  BY DEF Votes, MsgOf
<1>3. IsFiniteSet(I)
  BY <1>2, NodesFinite
<1>4. IsFiniteSet(V)
  BY <1>1, <1>3, FS_Injection DEF Bijection
<1> QED BY <1>1, <1>4, FS_Bijection DEF ExistsBijection
-----------------------------------------------------------------------------
(* One node at a time.                                                     *)

\* s becomes t: the author is kept, nothing sent is taken back, and t satisfies
\* the invariant once the network has what t sent.
Good(s, t, M) == t.idx = s.idx /\ s.sent \subseteq t.sent /\ NodeInv(t, M \cup t.sent)

\* Blocks have natural numbers, the empty hash has none.
LEMMA BlockNumbers == Number[NoBlock] = -1 /\ \A b \in Block : Number[b] \in Nat
OBVIOUS

\* More messages in the network prepare what fewer did.
LEMMA PreparedGrows ==
    ASSUME NEW M, NEW M2, M \subseteq M2, NEW b, NEW v, Prepared(M, b, v)
    PROVE  Prepared(M2, b, v)
<1> DEFINE A == {i \in Node : Msg("sign", b, v, i) \in M}
           B == {i \in Node : Msg("sign", b, v, i) \in M2}
<1>1. A \subseteq B /\ B \in SUBSET Node
  OBVIOUS
<1>2. Cardinality(A) <= Cardinality(B) /\ Cardinality(B) \in Nat /\ Cardinality(A) \in Nat
  BY <1>1, NodesFinite, FS_Subset
<1> HIDE DEF A, B
<1>3. Cardinality(A) >= Quorum
  BY DEF A, Prepared
<1>4. Cardinality(B) >= Quorum
  BY <1>2, <1>3, QuorumBound
<1> QED BY <1>4 DEF B, Prepared

\* The invariant of a node survives whatever the others send.
LEMMA NodeInvGrows ==
    ASSUME NEW M, NEW M2, M \subseteq M2, NEW s, NodeInv(s, M)
    PROVE  NodeInv(s, M2)
<1>1. OriginInv(s, M2)
  BY DEF NodeInv, OriginInv, CacheInv
<1>2. CertInv(s, M2)
  BY PreparedGrows DEF NodeInv, CertInv, Certified
<1>3. Fresh(M2) => LockInv(s)
  BY DEF NodeInv, Fresh
<1> QED BY <1>1, <1>2, <1>3 DEF NodeInv

\* Steps that keep the invariant can be put one after the other.
LEMMA GoodTrans ==
    ASSUME NEW s, NEW t, NEW u, NEW M, Good(s, t, M), Good(t, u, M \cup t.sent)
    PROVE  Good(s, u, M)
<1>1. (M \cup t.sent) \cup u.sent = M \cup u.sent
  BY DEF Good
<1> QED BY <1>1 DEF Good

\* A step that sends nothing keeps the invariant if it does so for the messages
\* that are there.
LEMMA GoodSilent ==
    ASSUME NEW s, NEW t, NEW M, NodeInv(s, M), NodeInv(t, M), t.idx = s.idx, t.sent = s.sent
    PROVE  Good(s, t, M)
<1>1. M \cup t.sent = M
  BY DEF NodeInv, OriginInv
<1> QED BY <1>1 DEF Good

\* Broadcasting a prepare or a view change request keeps the invariant.
LEMMA BroadcastGood ==
    ASSUME NEW M, NEW s, NodeInv(s, M),
           NEW m \in MsgOf("prepare") \cup MsgOf("viewchange"), m.idx = s.idx
    PROVE  Good(s, Broadcast(s, m), M)
<1> DEFINE t == Broadcast(s, m)
           M2 == M \cup t.sent
<1>1. NodeInv(s, M2)
  BY NodeInvGrows
<1>2. /\ t \in NodeState /\ t.idx = s.idx /\ t.sent = s.sent \cup {m}
      /\ m.type # "commit" /\ t = [s EXCEPT !.sent = t.sent]
  BY DEF NodeInv, NodeState, Broadcast, Message, MsgOf
<1> HIDE DEF t
<1>3. OriginInv(t, M2)
  BY <1>1, <1>2 DEF NodeInv, OriginInv, NodeState
<1>4. HeightInv(t) /\ VoteInv(t)
  BY <1>1, <1>2 DEF NodeInv, HeightInv, VoteInv, NodeState
<1>5. CertInv(t, M2)
  BY <1>1, <1>2 DEF NodeInv, CertInv, NodeState
<1>6. CommitInv(t)
  BY <1>1, <1>2 DEF NodeInv, CommitInv, NodeState
<1>7. Fresh(M2) => LockInv(t)
  BY <1>1, <1>2 DEF NodeInv, LockInv, NodeState
<1>8. NodeInv(t, M2)
  BY <1>2, <1>3, <1>4, <1>5, <1>6, <1>7 DEF NodeInv
<1> QED BY <1>2, <1>8 DEF Good, t

\* addRawPrepare: a prepare of the open height and the current view.
LEMMA RawGood ==
    ASSUME NEW M, NEW s, NodeInv(s, M), NEW req \in M, req \in MsgOf("prepare"),
           Number[req.hash] = s.consensus, req.view = s.view
    PROVE  Good(s, [s EXCEPT !.raw = req], M)
<1> DEFINE t == [s EXCEPT !.raw = req]
<1>1. t \in NodeState /\ t.idx = s.idx /\ t.sent = s.sent
  BY DEF NodeInv, NodeState
<1>2. OriginInv(t, M) /\ HeightInv(t) /\ VoteInv(t) /\ CertInv(t, M)
  BY DEF NodeInv, NodeState, OriginInv, HeightInv, VoteInv, CertInv
<1>3. CommitInv(t) /\ (Fresh(M) => LockInv(t))
  BY DEF NodeInv, NodeState, CommitInv, LockInv
<1> QED BY <1>1, <1>2, <1>3, GoodSilent DEF NodeInv

\* A vote of another node enters a cache of votes.
LEMMA AddVoteCache ==
    ASSUME NEW M, NEW cache, CacheInv(cache, M), NEW m \in M
    PROVE  CacheInv(AddVote(cache, m), M)
BY DEF CacheInv, AddVote

\* Votes are dropped from a cache.
LEMMA SmallerCache ==
    ASSUME NEW M, NEW cache, CacheInv(cache, M), NEW less \in SUBSET cache
    PROVE  CacheInv(less, M)
BY DEF CacheInv

\* addPrepareReq and broadcastSignReq, for a proposal of the open height and the
\* current view that agrees with what the node has committed at that height.
LEMMA SignGood ==
    ASSUME NEW M, NEW s, NodeInv(s, M), NEW req \in M, req \in MsgOf("prepare"),
           Number[req.hash] = s.consensus, req.view = s.view,
           Number[s.raw.hash] = s.consensus,
           Fresh(M) => \A m \in s.sent : m.type = "commit" /\ Number[m.hash] = s.consensus
                                           => m.hash = req.hash
    PROVE  Good(s, BroadcastSignReq(AddPrepareReq(s, req), req), M)
<1> DEFINE m  == Msg("sign", req.hash, req.view, s.idx)
           t  == BroadcastSignReq(AddPrepareReq(s, req), req)
           M2 == M \cup t.sent
<1>1. NodeInv(s, M2) /\ s \in NodeState
  BY NodeInvGrows DEF NodeInv
<1>2. m \in MsgOf("sign") /\ m.type = "sign" /\ m.idx = s.idx
  BY <1>1 DEF Msg, MsgOf, NodeState
<1>3. t = [s EXCEPT !.prepare = req, !.sent = s.sent \cup {m},
                    !.signs = AddVote(DropOtherViews(s.signs, req), m),
                    !.commits = DropOtherViews(s.commits, req)]
  BY <1>1 DEF AddPrepareReq, BroadcastSignReq, Broadcast, NodeState
<1>4. /\ DropOtherViews(s.signs, req) \subseteq s.signs
      /\ DropOtherViews(s.commits, req) \subseteq s.commits
      /\ t.signs \subseteq s.signs \cup {m}
      /\ s.signs \subseteq MsgOf("sign") /\ s.commits \subseteq MsgOf("commit")
  BY <1>1, <1>3 DEF DropOtherViews, AddVote, NodeState
<1>5. t \in NodeState
  <2> DEFINE sg == AddVote(DropOtherViews(s.signs, req), m)
             cm == DropOtherViews(s.commits, req)
             sn == s.sent \cup {m}
  <2>1. sg \in SUBSET MsgOf("sign") /\ cm \in SUBSET MsgOf("commit") /\ sn \in SUBSET Message
    BY <1>1, <1>2, <1>4 DEF NodeState, Message, AddVote
  <2> HIDE DEF sg, cm, sn, m, t
  <2>2. t = [s EXCEPT !.prepare = req, !.sent = sn, !.signs = sg, !.commits = cm]
    BY <1>3 DEF sg, cm, sn
  <2> QED BY <1>1, <2>1, <2>2 DEF NodeState
<1>6. m \in M2 /\ t.idx = s.idx /\ s.sent \subseteq t.sent
  BY <1>1, <1>3 DEF NodeState
<1>7. OriginInv(t, M2)
  <2>1. CacheInv(t.signs, M2)
    <3>1. CacheInv(DropOtherViews(s.signs, req), M2)
      BY <1>1, <1>4, SmallerCache DEF NodeInv, OriginInv
    <3> QED BY <1>1, <1>3, <1>6, <3>1, AddVoteCache DEF NodeState
  <2>2. CacheInv(t.commits, M2)
    BY <1>1, <1>3, <1>4, SmallerCache DEF NodeInv, OriginInv, NodeState
  <2> HIDE DEF m, t
  <2>3. /\ t.raw = s.raw /\ t.prepare = req /\ t.future = s.future /\ t.step = s.step
        /\ t.block = s.block /\ t.sealView = s.sealView /\ t.sent = s.sent \cup {m}
    BY <1>1, <1>3 DEF NodeState
  <2> QED BY <1>1, <1>2, <1>6, <2>1, <2>2, <2>3 DEF NodeInv, OriginInv
<1> HIDE DEF m
<1>8. HeightInv(t)
  BY <1>1, <1>3 DEF NodeInv, HeightInv, NodeState
<1>9. VoteInv(t)
  <2>1. m.hash = req.hash /\ m.view = req.view
    BY DEF m, Msg
  <2>2. /\ t.prepare = req /\ t.commits = DropOtherViews(s.commits, req)
        /\ t.signs = AddVote(DropOtherViews(s.signs, req), m)
    BY <1>1, <1>3 DEF NodeState
  <2> HIDE DEF t
  <2> QED BY <2>1, <2>2 DEF VoteInv, AddVote, DropOtherViews
<1>10. CertInv(t, M2)
  <2>1. t.sent = s.sent \cup {m} /\ t.queue = s.queue /\ t.chain = s.chain
    BY <1>1, <1>3 DEF NodeState
  <2> HIDE DEF t, M2
  <2> QED BY <1>1, <1>2, <2>1 DEF NodeInv, CertInv
<1>11. CommitInv(t)
  BY <1>1, <1>2, <1>3 DEF NodeInv, CommitInv, NodeState
<1>12. Fresh(M2) => LockInv(t)
  BY <1>1, <1>2, <1>3 DEF NodeInv, LockInv, NodeState, Fresh
<1>13. NodeInv(t, M2)
  BY <1>5, <1>7, <1>8, <1>9, <1>10, <1>11, <1>12 DEF NodeInv
<1> QED BY <1>6, <1>13 DEF Good

\* checkAndSave: what it submits carries a quorum of commits of one view.
LEMMA CheckAndSaveGood ==
    ASSUME NEW M, NEW s, NodeInv(s, M)
    PROVE  Good(s, CheckAndSave(s), M)
<1> DEFINE b == s.prepare.hash
           V == Votes(s.commits, b)
           c == [hash |-> b, signers |-> {m.idx : m \in V}]
           t == [s EXCEPT !.queue = @ \cup {c}]
<1>0. s \in NodeState
  BY DEF NodeInv
<1>1. CASE CheckAndSave(s) = s
  BY <1>1, GoodSilent
<1>2. CASE CheckAndSave(s) # s
  <2>1. /\ CheckAndSave(s) = t /\ Cardinality(V) = Quorum
        /\ Number[b] > Number[s.highest]
    BY <1>2 DEF CheckAndSave
  <2>2. b \in Block /\ s.prepare.view \in Views
    BY <1>0, <2>1, BlockNumbers DEF NodeState, MsgOf, NoReq, Msg
  <2>3. V \subseteq s.commits /\ \A m \in V : m.idx \in Node /\ m = Msg("commit", b, s.prepare.view, m.idx)
    BY <1>0 DEF Votes, NodeInv, VoteInv, NodeState, MsgOf, Msg
  <2>4. Cardinality(c.signers) = Quorum
    BY <1>0, <2>1, VotesCount DEF NodeInv, OriginInv, NodeState
  <2>5. Certified(M, c)
    <3>1. CheckBlockSign(c)
      BY <2>4, QuorumBound DEF CheckBlockSign, Quorum, F
    <3>2. \A k \in c.signers : Msg("commit", c.hash, s.prepare.view, k) \in M
      BY <2>3 DEF NodeInv, OriginInv, CacheInv
    <3> QED BY <2>2, <3>1, <3>2 DEF Certified
  <2>6. c \in SealedBlock
    BY <2>2, <2>3 DEF SealedBlock
  <2> HIDE DEF c
  <2>7. t \in NodeState /\ t.idx = s.idx /\ t.sent = s.sent
    BY <1>0, <2>6 DEF NodeState
  <2>8. OriginInv(t, M) /\ HeightInv(t) /\ VoteInv(t)
    BY <1>0 DEF NodeInv, NodeState, OriginInv, HeightInv, VoteInv
  <2>9. CertInv(t, M)
    BY <1>0, <2>5 DEF NodeInv, NodeState, CertInv
  <2>10. CommitInv(t) /\ (Fresh(M) => LockInv(t))
    BY <1>0 DEF NodeInv, NodeState, CommitInv, LockInv
  <2> QED BY <2>1, <2>7, <2>8, <2>9, <2>10, GoodSilent DEF NodeInv
<1> QED BY <1>1, <1>2

\* checkAndCommit up to checkAndSave: with a quorum of signs the raw prepare
\* becomes the lock and the commit goes out.
LEMMA CommitGood ==
    ASSUME NEW M, NEW s, NodeInv(s, M), s.prepare.view = s.view,
           Cardinality(Votes(s.signs, s.prepare.hash)) = Quorum
    PROVE  Good(s, BroadcastCommitReq([s EXCEPT !.committed = s.raw], s.prepare), M)
<1> DEFINE b  == s.prepare.hash
           m  == Msg("commit", b, s.view, s.idx)
           t  == BroadcastCommitReq([s EXCEPT !.committed = s.raw], s.prepare)
           cs == AddVote(s.commits, m)
           sn == s.sent \cup {m}
           M2 == M \cup t.sent
<1>1. NodeInv(s, M2) /\ s \in NodeState
  BY NodeInvGrows DEF NodeInv
<1>2. s.prepare \in MsgOf("prepare") /\ s.prepare \in M
  BY <1>1 DEF NodeInv, OriginInv, NodeState, NoReq, Msg, Views
<1>3. /\ m \in MsgOf("commit") /\ m.type = "commit" /\ m.idx = s.idx
      /\ m.hash = b /\ m.view = s.view /\ b \in Block /\ Number[b] \in Nat
  BY <1>1, <1>2, BlockNumbers DEF Msg, MsgOf, NodeState
<1>4. t = [s EXCEPT !.committed = s.raw, !.sent = sn, !.commits = cs]
  BY <1>1 DEF BroadcastCommitReq, Broadcast, NodeState
<1>5. cs \in SUBSET MsgOf("commit") /\ sn \in SUBSET Message
  BY <1>1, <1>3 DEF NodeState, AddVote, Message
<1>6. Prepared(M, b, s.view)
  <2> DEFINE S == {x.idx : x \in Votes(s.signs, b)}
             P == {i \in Node : Msg("sign", b, s.view, i) \in M}
  <2>1. Cardinality(S) = Quorum
    BY <1>1, VotesCount DEF NodeInv, OriginInv, NodeState
  <2>2. \A x \in Votes(s.signs, b) : x.idx \in Node /\ x \in M /\ x = Msg("sign", b, s.view, x.idx)
    BY <1>1 DEF Votes, NodeInv, VoteInv, OriginInv, CacheInv, NodeState, MsgOf, Msg
  <2>3. S \subseteq P /\ P \in SUBSET Node
    BY <2>2
  <2>4. Cardinality(S) <= Cardinality(P) /\ Cardinality(P) \in Nat
    BY <2>3, NodesFinite, FS_Subset
  <2> HIDE DEF S, P
  <2>5. Cardinality(P) >= Quorum
    BY <2>1, <2>4, QuorumBound
  <2> QED BY <2>5 DEF P, Prepared
<1> HIDE DEF t, m, cs, sn
<1>7. /\ t \in NodeState /\ t.idx = s.idx /\ s.sent \subseteq t.sent
      /\ t.sent = s.sent \cup {m} /\ m \in M2 /\ t.sent \subseteq M2
  BY <1>1, <1>4, <1>5 DEF NodeState, sn
<1>8. /\ t.signs = s.signs /\ t.commits = cs /\ t.raw = s.raw /\ t.prepare = s.prepare
      /\ t.future = s.future /\ t.step = s.step /\ t.block = s.block /\ t.view = s.view
      /\ t.sealView = s.sealView /\ t.queue = s.queue /\ t.chain = s.chain
      /\ t.consensus = s.consensus /\ t.committed = s.raw
  BY <1>1, <1>4 DEF NodeState
<1>9. OriginInv(t, M2)
  <2>1. CacheInv(cs, M2)
    BY <1>1, <1>7, AddVoteCache DEF NodeInv, OriginInv, cs
  <2> QED BY <1>1, <1>3, <1>7, <1>8, <2>1 DEF NodeInv, OriginInv
<1>10. HeightInv(t)
  BY <1>1, <1>4 DEF NodeInv, HeightInv, NodeState
<1>11. VoteInv(t)
  BY <1>1, <1>3, <1>8 DEF NodeInv, VoteInv, AddVote, cs
<1> HIDE DEF M2
<1>12. CertInv(t, M2)
  <2>1. Prepared(M2, m.hash, m.view) /\ s.prepare \in M2
    BY <1>2, <1>3, <1>6, PreparedGrows DEF M2
  <2>2. s.prepare.type = "prepare" /\ s.prepare.hash = m.hash /\ s.prepare.view = m.view
    BY <1>2, <1>3 DEF MsgOf
  <2> QED BY <1>1, <1>7, <1>8, <2>1, <2>2 DEF NodeInv, CertInv
<1>13. CommitInv(t)
  BY <1>1, <1>3, <1>7, <1>8 DEF NodeInv, CommitInv, HeightInv
<1>14. ASSUME Fresh(M2) PROVE LockInv(t)
  <2>1. LockInv(s) /\ CommitInv(s) /\ HeightInv(s)
    BY <1>1, <1>14 DEF NodeInv
  <2>2. Number[b] = s.consensus => s.raw.hash = b
    <3>1. ASSUME Number[b] = s.consensus PROVE s.raw \in M2 /\ s.raw \in MsgOf("prepare")
                                               /\ s.raw.view = s.view /\ Number[s.raw.hash] = Number[b]
      BY <1>1, <1>3, <3>1, <2>1, BlockNumbers DEF HeightInv, NodeInv, OriginInv, NodeState, NoReq, Msg
    <3>2. s.prepare \in M2
      BY <1>2 DEF M2
    <3> QED BY <1>2, <1>14, <3>1, <3>2 DEF Fresh, MsgOf
  <2>3. s.prepare # NoReq
    BY <1>2, <1>3 DEF NoReq, Msg
  <2>4. \A x \in s.sent : x.type = "commit" /\ Number[x.hash] = s.consensus => s.raw.hash = x.hash
    BY <2>1, <2>2, <2>3 DEF LockInv, CommitInv
  <2>5. \A x \in t.sent : x.type = "commit" => x \in s.sent \/ x = m
    BY <1>7
  <2>6. s.view \in Int
    BY <1>1 DEF NodeState, Views
  <2> QED BY <1>3, <1>7, <1>8, <2>1, <2>2, <2>4, <2>6 DEF LockInv
<1>15. NodeInv(t, M2)
  BY <1>7, <1>9, <1>10, <1>11, <1>12, <1>13, <1>14 DEF NodeInv
<1> QED BY <1>7, <1>15 DEF Good, M2, t

\* checkAndCommit.
LEMMA CheckAndCommitGood ==
    ASSUME NEW M, NEW s, NodeInv(s, M)
    PROVE  Good(s, CheckAndCommit(s), M)
<1> DEFINE t == BroadcastCommitReq([s EXCEPT !.committed = s.raw], s.prepare)
<1>1. CASE Cardinality(Votes(s.signs, s.prepare.hash)) = Quorum /\ s.prepare.view = s.view
  <2>1. Good(s, t, M)
    BY <1>1, CommitGood
  <2>2. Good(t, CheckAndSave(t), M \cup t.sent)
    BY <2>1, CheckAndSaveGood DEF Good
  <2>3. CheckAndCommit(s) = CheckAndSave(t)
    BY <1>1 DEF CheckAndCommit
  <2> HIDE DEF t
  <2> QED BY <2>1, <2>2, <2>3, GoodTrans
<1>2. CASE ~(Cardinality(Votes(s.signs, s.prepare.hash)) = Quorum /\ s.prepare.view = s.view)
  <2>1. CheckAndCommit(s) = s
    BY <1>2 DEF CheckAndCommit
  <2> QED BY <2>1, GoodSilent
<1> QED BY <1>1, <1>2

\* checkAndCommit does not move the client.
LEMMA CheckAndCommitStep ==
    ASSUME NEW M, NEW s, NodeInv(s, M)
    PROVE  CheckAndCommit(s).step = s.step
<1> DEFINE t == BroadcastCommitReq([s EXCEPT !.committed = s.raw], s.prepare)
<1>1. CASE CheckAndCommit(s) = s
  BY <1>1
<1>2. CASE CheckAndCommit(s) # s
  <2>1. CheckAndCommit(s) = CheckAndSave(t) /\ Good(s, t, M)
    BY <1>2, CommitGood DEF CheckAndCommit
  <2>2. t.step = s.step
    BY DEF BroadcastCommitReq, Broadcast, NodeInv, NodeState
  <2>3. t \in NodeState
    BY <2>1 DEF Good, NodeInv
  <2> HIDE DEF t
  <2>4. CheckAndSave(t).step = t.step
    BY <2>3 DEF CheckAndSave, NodeState
  <2> QED BY <2>1, <2>2, <2>4
<1> QED BY <1>1, <1>2

\* generateCommit and the end of handlePrepareMsg: a proposal is signed, and
\* committed and saved if it is the last vote that was missing.
LEMMA SignAndCommitGood ==
    ASSUME NEW M, NEW s, NodeInv(s, M), NEW req \in M, req \in MsgOf("prepare"),
           Number[req.hash] = s.consensus, req.view = s.view,
           Number[s.raw.hash] = s.consensus,
           Fresh(M) => \A m \in s.sent : m.type = "commit" /\ Number[m.hash] = s.consensus
                                           => m.hash = req.hash
    PROVE  /\ Good(s, CheckAndCommit(BroadcastSignReq(AddPrepareReq(s, req), req)), M)
           /\ CheckAndCommit(BroadcastSignReq(AddPrepareReq(s, req), req)).step = s.step
<1> DEFINE t == BroadcastSignReq(AddPrepareReq(s, req), req)
<1>1. Good(s, t, M)
  BY SignGood
<1>2. t.step = s.step
  BY DEF BroadcastSignReq, AddPrepareReq, Broadcast, NodeInv, NodeState
<1> HIDE DEF t
<1>3. Good(t, CheckAndCommit(t), M \cup t.sent) /\ CheckAndCommit(t).step = t.step
  BY <1>1, CheckAndCommitGood, CheckAndCommitStep DEF Good
<1>4. Good(s, CheckAndCommit(t), M)
  BY <1>1, <1>3, GoodTrans
<1> QED BY <1>2, <1>3, <1>4 DEF t

\* handlePrepareMsg, for a prepare of another node or the node's own lock.
LEMMA HandlePrepareGood ==
    ASSUME NEW M, NEW s, NodeInv(s, M), NEW req \in M, req \in MsgOf("prepare"),
           NEW self, NEW ok
    PROVE  Good(s, HandlePrepareMsg(s, req, self, ok), M)
<1> DEFINE s1 == [s EXCEPT !.raw = req]
           t  == CheckAndCommit(BroadcastSignReq(AddPrepareReq(s1, req), req))
<1>0. s \in NodeState /\ Number[req.hash] \in Nat /\ req.view \in Int /\ s.consensus \in Int /\ s.view \in Int
  BY BlockNumbers DEF NodeInv, NodeState, MsgOf, Views
<1>1. CASE DiscardPrepare(s, req, self)
  BY <1>1, GoodSilent DEF HandlePrepareMsg
<1>2. CASE ~DiscardPrepare(s, req, self) /\ (Number[req.hash] > s.consensus \/ req.view > s.view)
  <2> DEFINE u == [s EXCEPT !.future = req]
  <2>1. HandlePrepareMsg(s, req, self, ok) \in {s, u}
    BY <1>2 DEF HandlePrepareMsg, RecvFutureBlock
  <2>2. u \in NodeState /\ u.idx = s.idx /\ u.sent = s.sent
    BY <1>0 DEF NodeState
  <2>3. OriginInv(u, M) /\ HeightInv(u) /\ VoteInv(u) /\ CertInv(u, M)
    BY <1>0 DEF NodeInv, NodeState, OriginInv, HeightInv, VoteInv, CertInv
  <2>4. CommitInv(u) /\ (Fresh(M) => LockInv(u))
    BY <1>0 DEF NodeInv, NodeState, CommitInv, LockInv
  <2>5. Good(s, u, M) /\ Good(s, s, M)
    BY <2>2, <2>3, <2>4, GoodSilent DEF NodeInv
  <2> QED BY <2>1, <2>5
<1>3. CASE ~DiscardPrepare(s, req, self) /\ ~(Number[req.hash] > s.consensus \/ req.view > s.view)
  <2>1. Number[req.hash] = s.consensus /\ req.view = s.view
    BY <1>0, <1>3 DEF DiscardPrepare
  <2>2. Good(s, s1, M)
    BY <2>1, RawGood
  <2>3. /\ s1.raw = req /\ s1.consensus = s.consensus /\ s1.view = s.view
        /\ s1.sent = s.sent /\ s1.committed = s.committed
    BY <1>0 DEF NodeState
  <2>4. M \cup s1.sent = M /\ NodeInv(s1, M)
    <3>1. M \cup s1.sent = M
      BY <2>3 DEF NodeInv, OriginInv
    <3> QED BY <2>2, <3>1 DEF Good
  <2>5. HandlePrepareMsg(s, req, self, ok) = IF AcceptPrepare(s1, req, ok) THEN t ELSE s1
    BY <1>3 DEF HandlePrepareMsg
  <2>6. CASE AcceptPrepare(s1, req, ok)
    <3> HIDE DEF s1
    <3>1. Fresh(M) => \A m \in s1.sent : m.type = "commit" /\ Number[m.hash] = s1.consensus
                                           => m.hash = req.hash
      BY <2>1, <2>3, <2>4, <2>6 DEF NodeInv, LockInv, AcceptPrepare
    <3>2. Good(s1, t, M)
      BY <2>1, <2>3, <2>4, <3>1, SignAndCommitGood
    <3> QED BY <2>2, <2>4, <2>5, <2>6, <3>2, GoodTrans
  <2>7. CASE ~AcceptPrepare(s1, req, ok)
    BY <2>2, <2>5, <2>7
  <2> QED BY <2>6, <2>7
<1> QED BY <1>1, <1>2, <1>3

\* A vote enters m_sign_cache or m_commit_cache, if it is not for the current
\* prepare in another view.
LEMMA VoteGood ==
    ASSUME NEW M, NEW s, NodeInv(s, M), NEW m \in M,
           m.hash = s.prepare.hash => m.view = s.prepare.view
    PROVE  /\ m \in MsgOf("sign") => Good(s, [s EXCEPT !.signs = AddVote(@, m)], M)
           /\ m \in MsgOf("commit") => Good(s, [s EXCEPT !.commits = AddVote(@, m)], M)
<1>0. s \in NodeState /\ CacheInv(s.signs, M) /\ CacheInv(s.commits, M)
  BY DEF NodeInv, OriginInv
<1>1. ASSUME m \in MsgOf("sign") PROVE Good(s, [s EXCEPT !.signs = AddVote(@, m)], M)
  <2> DEFINE c == AddVote(s.signs, m)
             t == [s EXCEPT !.signs = c]
  <2>1. CacheInv(c, M) /\ c \in SUBSET MsgOf("sign") /\ c \subseteq s.signs \cup {m}
    BY <1>0, <1>1, AddVoteCache DEF AddVote, NodeState
  <2> HIDE DEF c
  <2>2. t \in NodeState /\ t.idx = s.idx /\ t.sent = s.sent
    BY <1>0, <2>1 DEF NodeState
  <2>3. OriginInv(t, M) /\ HeightInv(t) /\ VoteInv(t) /\ CertInv(t, M)
    BY <1>0, <2>1 DEF NodeInv, NodeState, OriginInv, HeightInv, VoteInv, CertInv
  <2>4. CommitInv(t) /\ (Fresh(M) => LockInv(t))
    BY <1>0 DEF NodeInv, NodeState, CommitInv, LockInv
  <2> QED BY <2>2, <2>3, <2>4, GoodSilent DEF NodeInv, c
<1>2. ASSUME m \in MsgOf("commit") PROVE Good(s, [s EXCEPT !.commits = AddVote(@, m)], M)
  <2> DEFINE c == AddVote(s.commits, m)
             t == [s EXCEPT !.commits = c]
  <2>1. CacheInv(c, M) /\ c \in SUBSET MsgOf("commit") /\ c \subseteq s.commits \cup {m}
    BY <1>0, <1>2, AddVoteCache DEF AddVote, NodeState
  <2> HIDE DEF c
  <2>2. t \in NodeState /\ t.idx = s.idx /\ t.sent = s.sent
    BY <1>0, <2>1 DEF NodeState
  <2>3. OriginInv(t, M) /\ HeightInv(t) /\ VoteInv(t) /\ CertInv(t, M)
    BY <1>0, <2>1 DEF NodeInv, NodeState, OriginInv, HeightInv, VoteInv, CertInv
  <2>4. CommitInv(t) /\ (Fresh(M) => LockInv(t))
    BY <1>0 DEF NodeInv, NodeState, CommitInv, LockInv
  <2> QED BY <2>2, <2>3, <2>4, GoodSilent DEF NodeInv, c
<1> QED BY <1>1, <1>2

\* handleSignMsg and handleCommitMsg.
LEMMA HandleVoteGood ==
    ASSUME NEW M, NEW s, NodeInv(s, M), NEW m \in M
    PROVE  /\ m \in MsgOf("sign") => Good(s, HandleSignMsg(s, m), M)
           /\ m \in MsgOf("commit") => Good(s, HandleCommitMsg(s, m), M)
<1> DEFINE s1 == [s EXCEPT !.signs = AddVote(@, m)]
           s2 == [s EXCEPT !.commits = AddVote(@, m)]
<1>1. Good(s, s, M)
  BY GoodSilent
<1>2. ASSUME m \in MsgOf("sign") PROVE Good(s, HandleSignMsg(s, m), M)
  <2>1. CASE HandleSignMsg(s, m) = s
    BY <1>1, <2>1
  <2>2. CASE HandleSignMsg(s, m) # s
    <3>1. HandleSignMsg(s, m) \in {s1, CheckAndCommit(s1)}
          /\ (m.hash = s.prepare.hash => m.view = s.prepare.view)
      BY <2>2 DEF HandleSignMsg
    <3>2. Good(s, s1, M)
      BY <1>2, <3>1, VoteGood
    <3> HIDE DEF s1
    <3>3. Good(s1, CheckAndCommit(s1), M \cup s1.sent)
      BY <3>2, CheckAndCommitGood DEF Good
    <3>4. Good(s, CheckAndCommit(s1), M)
      BY <3>2, <3>3, GoodTrans
    <3> QED BY <3>1, <3>2, <3>4
  <2> QED BY <2>1, <2>2
<1>3. ASSUME m \in MsgOf("commit") PROVE Good(s, HandleCommitMsg(s, m), M)
  <2>1. CASE HandleCommitMsg(s, m) = s
    BY <1>1, <2>1
  <2>2. CASE HandleCommitMsg(s, m) # s
    <3>1. HandleCommitMsg(s, m) \in {s2, CheckAndSave(s2)}
          /\ (m.hash = s.prepare.hash => m.view = s.prepare.view)
      BY <2>2 DEF HandleCommitMsg
    <3>2. Good(s, s2, M)
      BY <1>3, <3>1, VoteGood
    <3> HIDE DEF s2
    <3>3. Good(s2, CheckAndSave(s2), M \cup s2.sent)
      BY <3>2, CheckAndSaveGood DEF Good
    <3>4. Good(s, CheckAndSave(s2), M)
      BY <3>2, <3>3, GoodTrans
    <3> QED BY <3>1, <3>2, <3>4
  <2> QED BY <2>1, <2>2
<1> QED BY <1>2, <1>3

\* Only the wanted view, the requests for view changes and flags change.
LEMMA QuietGood ==
    ASSUME NEW M, NEW s, NodeInv(s, M), NEW t \in NodeState,
           t.idx = s.idx, t.view = s.view, t.view <= t.toView, t.consensus = s.consensus,
           t.raw = s.raw, t.prepare = s.prepare, t.committed = s.committed,
           t.future = s.future, t.signs = s.signs, t.commits = s.commits, t.step = s.step,
           t.block = s.block, t.sealView = s.sealView, t.queue = s.queue,
           t.chain = s.chain, t.head = s.head, t.sent = s.sent
    PROVE  Good(s, t, M)
<1>1. OriginInv(t, M) /\ HeightInv(t)
  BY DEF NodeInv, OriginInv, HeightInv
<1>2. VoteInv(t) /\ CertInv(t, M)
  BY DEF NodeInv, VoteInv, CertInv
<1>3. CommitInv(t) /\ (Fresh(M) => LockInv(t))
  BY DEF NodeInv, CommitInv, LockInv
<1> QED BY <1>1, <1>2, <1>3, GoodSilent DEF NodeInv

\* broadcastViewChangeReq.
LEMMA BroadcastViewChangeGood ==
    ASSUME NEW M, NEW s, NodeInv(s, M)
    PROVE  Good(s, BroadcastViewChangeReq(s), M)
<1> DEFINE m == Msg("viewchange", s.highest, s.toView, s.idx)
<1>1. m \in MsgOf("viewchange") /\ m.idx = s.idx
  BY DEF Msg, MsgOf, NodeInv, NodeState
<1> HIDE DEF m
<1> QED BY <1>1, BroadcastGood DEF BroadcastViewChangeReq, m

\* checkAndChangeView, when the wanted view is a later one.
LEMMA ChangeViewGood ==
    ASSUME NEW M, NEW s, NodeInv(s, M), s.toView > s.view
    PROVE  Good(s, CheckAndChangeView(s), M)
<1> DEFINE vc == {m \in s.viewChanges : m.view > s.toView}
           t  == [s EXCEPT !.leaderFailed = FALSE, !.view = s.toView,
                           !.raw = NoReq, !.prepare = NoReq,
                           !.signs = {}, !.commits = {}, !.viewChanges = vc]
<1>0. s \in NodeState
  BY DEF NodeInv
<1>1. CheckAndChangeView(s) \in {s, t}
  BY DEF CheckAndChangeView
<1>2. vc \in SUBSET MsgOf("viewchange")
  BY <1>0 DEF NodeState
<1> HIDE DEF vc
<1>3. t \in NodeState /\ t.idx = s.idx /\ t.sent = s.sent
  BY <1>0, <1>2 DEF NodeState
<1>4. OriginInv(t, M)
  BY <1>0 DEF NodeInv, NodeState, OriginInv, CacheInv
<1>5. NoReq.hash = NoBlock /\ Number[NoReq.hash] = -1
  BY BlockNumbers DEF NoReq, Msg
<1>6. s.view \in Int /\ s.toView \in Int /\ s.sealView \in Int /\ s.consensus \in Nat
  BY <1>0 DEF NodeState, Views
<1>7. HeightInv(t)
  BY <1>0, <1>5, <1>6 DEF NodeInv, NodeState, HeightInv
<1>8. VoteInv(t) /\ CertInv(t, M)
  BY <1>0 DEF NodeInv, NodeState, VoteInv, CertInv
<1>9. CommitInv(t)
  BY <1>0 DEF NodeInv, NodeState, CommitInv
<1>10. \A m \in s.sent : m.type = "commit" => Number[m.hash] \in Nat /\ m.view \in Int
  BY <1>0, BlockNumbers DEF NodeState, Message, MsgOf, Views
<1>11. Fresh(M) => LockInv(t)
  BY <1>0, <1>5, <1>6, <1>10 DEF NodeInv, NodeState, LockInv
<1>12. Good(s, t, M)
  BY <1>3, <1>4, <1>7, <1>8, <1>9, <1>11, GoodSilent DEF NodeInv
<1>13. Good(s, s, M)
  BY GoodSilent
<1> HIDE DEF t
<1> QED BY <1>1, <1>12, <1>13

\* The fast view change of handleViewChangeMsg moves the wanted view forward.
LEMMA FastViewChangeGood ==
    ASSUME NEW M, NEW s, NodeInv(s, M), NEW order
    PROVE  Good(s, FastViewChange(s, order), M)
<1> DEFINE c    == Counted(s, order)
           VS   == {m.view : m \in c}
           minV == CHOOSE v \in {m.view : m \in c} : \A m \in c : v <= m.view
           t    == [s EXCEPT !.toView = minV - 1]
<1>0. s \in NodeState
  BY DEF NodeInv
<1>1. CASE FastViewChange(s, order) = s
  BY <1>1, GoodSilent
<1>2. CASE FastViewChange(s, order) # s
  <2>1. FastViewChange(s, order) = t /\ Cardinality({m.idx : m \in c}) > F
    BY <1>2 DEF FastViewChange
  <2>2. c # {}
    <3> SUFFICES ASSUME c = {} PROVE FALSE
      OBVIOUS
    <3>1. {m.idx : m \in c} = {}
      OBVIOUS
    <3> HIDE DEF c
    <3>2. Cardinality({m.idx : m \in c}) = 0
      BY <3>1, FS_EmptySet
    <3> QED BY <2>1, <3>2, QuorumBound
  <2>3. \A m \in c : m.view \in Views /\ m.view > s.toView
    BY <1>0 DEF Counted, Ahead, NodeState, MsgOf
  <2>4. VS # {} /\ VS \in SUBSET Nat
    BY <2>2, <2>3 DEF Views
  <2>5. \E v \in VS : \A w \in VS : v <= w
    BY <2>4, LeastElement
  <2>6. \E v \in {m.view : m \in c} : \A m \in c : v <= m.view
    BY <2>5
  <2>7. minV \in {m.view : m \in c}
    BY <2>6
  <2>8. minV \in Views /\ minV > s.toView
    BY <2>3, <2>7
  <2> HIDE DEF minV
  <2>9. minV - 1 \in Views /\ minV - 1 >= s.toView /\ s.toView \in Nat /\ s.view \in Nat
    BY <1>0, <2>8 DEF Views, NodeState
  <2>10. s.view <= s.toView
    BY DEF NodeInv, HeightInv
  <2>11. s.view <= minV - 1
    BY <2>8, <2>9, <2>10 DEF Views
  <2>12. t \in NodeState
    BY <1>0, <2>9 DEF NodeState
  <2>13. Good(s, t, M)
    BY <1>0, <2>11, <2>12, QuietGood DEF NodeState
  <2> QED BY <2>1, <2>13 DEF minV
<1> QED BY <1>1, <1>2

\* handleViewChangeMsg.
LEMMA HandleViewChangeGood ==
    ASSUME NEW M, NEW s, NodeInv(s, M), NEW m \in MsgOf("viewchange"), NEW order
    PROVE  Good(s, HandleViewChangeMsg(s, m, order), M)
<1> DEFINE s1 == IF m.view + 1 < s.toView THEN BroadcastViewChangeReq(s) ELSE s
           s2 == [s1 EXCEPT !.viewChanges = @ \cup {m}]
           r  == HandleViewChangeMsg(s, m, order)
<1>0. Good(s, s, M)
  BY GoodSilent
<1>1. Good(s, s1, M)
  BY <1>0, BroadcastViewChangeGood
<1>2. s1.view = s.view /\ s1.toView = s.toView
  BY DEF BroadcastViewChangeReq, Broadcast, NodeInv, NodeState
<1>3. \/ r = s \/ r = s1
      \/ ~DiscardViewChange(s, m) /\ m.view = s.toView /\ r = CheckAndChangeView(s2)
      \/ r = FastViewChange(s2, order)
  BY DEF HandleViewChangeMsg
<1> HIDE DEF s1, r
<1>4. Good(s1, s2, M \cup s1.sent)
  <2>1. s1 \in NodeState /\ s1.view <= s1.toView
    BY <1>1 DEF Good, NodeInv, HeightInv
  <2>2. s2 \in NodeState
    BY <2>1 DEF NodeState
  <2> QED BY <1>1, <2>1, <2>2, QuietGood DEF NodeState, Good
<1>5. s2.view = s.view /\ s2.toView = s.toView
  BY <1>1, <1>2 DEF Good, NodeInv, NodeState
<1> HIDE DEF s2
<1>6. Good(s, s2, M)
  BY <1>1, <1>4, GoodTrans
<1>7. CASE ~DiscardViewChange(s, m) /\ m.view = s.toView /\ r = CheckAndChangeView(s2)
  <2>1. s2.toView > s2.view
    BY <1>5, <1>7 DEF DiscardViewChange, NodeInv, NodeState, Views
  <2>2. Good(s2, r, M \cup s2.sent)
    BY <1>6, <1>7, <2>1, ChangeViewGood DEF Good
  <2> QED BY <1>6, <2>2, GoodTrans DEF r
<1>8. CASE r = FastViewChange(s2, order)
  <2>1. Good(s2, r, M \cup s2.sent)
    BY <1>6, <1>8, FastViewChangeGood DEF Good
  <2> QED BY <1>6, <2>1, GoodTrans DEF r
<1> QED BY <1>0, <1>1, <1>3, <1>7, <1>8 DEF r

-----------------------------------------------------------------------------
(* The actions.                                                            *)

Inv == TypeOK /\ IndInv

\* node i takes a step that keeps the invariant
StepGood(i) == \E t : Good(node[i], t, Messages) /\ node' = [node EXCEPT ![i] = t]

\* What is in the network has the form of its type.
LEMMA MessageTypes ==
    ASSUME Inv, NEW m \in Messages
    PROVE  /\ m \in Message
           /\ m.type = "prepare" => m \in MsgOf("prepare")
           /\ m.type = "sign" => m \in MsgOf("sign")
           /\ m.type = "commit" => m \in MsgOf("commit")
           /\ m.type = "viewchange" => m \in MsgOf("viewchange")
<1>1. PICK i \in Node : m \in node[i].sent
  BY DEF Messages
<1>2. node[i] \in NodeState
  BY DEF Inv, TypeOK
<1>3. m \in Message
  BY <1>1, <1>2 DEF NodeState
<1> QED BY <1>3 DEF Message, MsgOf

\* Prepares, signs and commits from the network.
LEMMA MessageActions ==
    ASSUME Inv, NEW i \in Node,
           HandlePrepare(i) \/ HandleSign(i) \/ HandleCommit(i) \/ HandleViewChange(i)
    PROVE  StepGood(i)
<1>0. NodeInv(node[i], Messages)
  BY DEF Inv, IndInv
<1>1. CASE HandlePrepare(i)
  <2>1. PICK m \in Messages, ok \in Checks :
          m.type = "prepare" /\ Step(i, HandlePrepareMsg(node[i], m, FALSE, ok))
    BY <1>1 DEF HandlePrepare
  <2>2. m \in MsgOf("prepare")
    BY <2>1, MessageTypes
  <2>3. Good(node[i], HandlePrepareMsg(node[i], m, FALSE, ok), Messages)
    BY <1>0, <2>2, HandlePrepareGood
  <2> QED BY <2>1, <2>3 DEF Step, StepGood
<1>2. CASE HandleSign(i)
  <2>1. PICK m \in Messages : m.type = "sign" /\ Step(i, HandleSignMsg(node[i], m))
    BY <1>2 DEF HandleSign
  <2>2. m \in MsgOf("sign")
    BY <2>1, MessageTypes
  <2>3. Good(node[i], HandleSignMsg(node[i], m), Messages)
    BY <1>0, <2>2, HandleVoteGood
  <2> QED BY <2>1, <2>3 DEF Step, StepGood
<1>3. CASE HandleCommit(i)
  <2>1. PICK m \in Messages : m.type = "commit" /\ Step(i, HandleCommitMsg(node[i], m))
    BY <1>3 DEF HandleCommit
  <2>2. m \in MsgOf("commit")
    BY <2>1, MessageTypes
  <2>3. Good(node[i], HandleCommitMsg(node[i], m), Messages)
    BY <1>0, <2>2, HandleVoteGood
  <2> QED BY <2>1, <2>3 DEF Step, StepGood
<1>4. CASE HandleViewChange(i)
  <2>1. PICK m \in Messages : \E order \in Orders(node[i], m) :
          m.type = "viewchange" /\ Step(i, HandleViewChangeMsg(node[i], m, order))
    BY <1>4 DEF HandleViewChange
  <2>2. PICK order \in Orders(node[i], m) :
          m.type = "viewchange" /\ Step(i, HandleViewChangeMsg(node[i], m, order))
    BY <2>1
  <2>3. m \in MsgOf("viewchange")
    BY <2>2, MessageTypes
  <2>4. Good(node[i], HandleViewChangeMsg(node[i], m, order), Messages)
    BY <1>0, <2>3, HandleViewChangeGood
  <2> QED BY <2>2, <2>4 DEF Step, StepGood
<1> QED BY <1>1, <1>2, <1>3, <1>4

\* checkTimeout.
LEMMA TimeoutAction ==
    ASSUME Inv, NEW i \in Node, CheckTimeout(i)
    PROVE  StepGood(i)
<1> DEFINE s  == node[i]
           M  == Messages
           to == s.toView + 1
           vc == {m \in s.viewChanges : m.view = to => ~Obsolete(s, m)}
           s1 == [s EXCEPT !.leaderFailed = TRUE, !.toView = to, !.notify = TRUE,
                           !.viewChanges = vc]
           s2 == BroadcastViewChangeReq(s1)
           t  == CheckAndChangeView(s2)
<1>0. NodeInv(s, M) /\ s \in NodeState /\ s.view <= s.toView
  BY DEF Inv, IndInv, NodeInv, HeightInv
<1>1. s.toView < MaxView /\ Step(i, t)
  BY DEF CheckTimeout
<1>2. to \in Views /\ to > s.view /\ vc \in SUBSET MsgOf("viewchange")
  BY <1>0, <1>1 DEF NodeState, Views
<1> HIDE DEF s, M, to, vc
<1>3. s1 \in NodeState /\ s1.view = s.view /\ s1.toView = to
  BY <1>0, <1>2 DEF NodeState
<1>4. s1.view <= s1.toView
  BY <1>0, <1>2, <1>3 DEF NodeState, Views
<1>5. Good(s, s1, M)
  BY <1>0, <1>3, <1>4, QuietGood DEF NodeState
<1> HIDE DEF s1
<1>6. Good(s1, s2, M \cup s1.sent)
  BY <1>5, BroadcastViewChangeGood DEF Good
<1>7. s2.toView > s2.view
  BY <1>2, <1>3 DEF BroadcastViewChangeReq, Broadcast, NodeState
<1> HIDE DEF s2
<1>8. Good(s, s2, M)
  BY <1>5, <1>6, GoodTrans
<1>9. Good(s2, t, M \cup s2.sent)
  BY <1>7, <1>8, ChangeViewGood DEF Good
<1>10. Good(s, t, M)
  BY <1>8, <1>9, GoodTrans
<1> QED BY <1>1, <1>10 DEF Step, StepGood, s, M

\* The other actions of the worker thread.
LEMMA WorkerActions ==
    ASSUME Inv, NEW i \in Node,
           OnViewChange(i) \/ HandleFutureBlock(i) \/ CollectGarbage(i)
    PROVE  StepGood(i)
<1> DEFINE s == node[i]
           M == Messages
<1>0. NodeInv(s, M) /\ s \in NodeState /\ s.view <= s.toView
  BY DEF Inv, IndInv, NodeInv, HeightInv
<1>1. CASE OnViewChange(i)
  <2> DEFINE t == [s EXCEPT !.notify = FALSE, !.sealed = FALSE]
             u == [t EXCEPT !.step = "idle", !.block = NoBlock]
  <2>1. Step(i, t) \/ (t.step = "commit" /\ Step(i, u))
    BY <1>1 DEF OnViewChange
  <2> HIDE DEF s, M
  <2>2. t \in NodeState
    BY <1>0 DEF NodeState
  <2>3. Good(s, t, M)
    BY <1>0, <2>2, QuietGood DEF NodeState
  <2>4. M \cup t.sent = M
    BY <1>0 DEF NodeInv, OriginInv, NodeState
  <2>5. NodeInv(t, M)
    BY <2>3, <2>4 DEF Good
  <2> HIDE DEF t
  <2>6. ASSUME t.step = "commit" PROVE Good(t, u, M)
    <3>1. u \in NodeState /\ u.idx = t.idx /\ u.sent = t.sent
      BY <2>2 DEF NodeState, Steps
    <3>2. OriginInv(u, M) /\ HeightInv(u)
      BY <2>2, <2>5, <2>6 DEF NodeInv, OriginInv, HeightInv, NodeState
    <3>3. VoteInv(u) /\ CertInv(u, M)
      BY <2>2, <2>5 DEF NodeInv, VoteInv, CertInv, NodeState
    <3>4. CommitInv(u) /\ (Fresh(M) => LockInv(u))
      BY <2>2, <2>5 DEF NodeInv, CommitInv, LockInv, NodeState
    <3> QED BY <2>5, <3>1, <3>2, <3>3, <3>4, GoodSilent DEF NodeInv
  <2>7. t.step = "commit" => Good(s, u, M)
    BY <2>3, <2>4, <2>6, GoodTrans
  <2> QED BY <2>1, <2>3, <2>7 DEF Step, StepGood, s, M
<1>2. CASE HandleFutureBlock(i)
  <2>1. PICK ok \in Checks :
          Step(i, [HandlePrepareMsg(s, s.future, FALSE, ok) EXCEPT !.future = NoReq])
    BY <1>2 DEF HandleFutureBlock
  <2>2. s.future \in MsgOf("prepare") /\ s.future \in M
    BY <1>0, <1>2, BlockNumbers DEF HandleFutureBlock, NodeInv, OriginInv, NodeState, NoReq, Msg
  <2> DEFINE t == HandlePrepareMsg(s, s.future, FALSE, ok)
             u == [t EXCEPT !.future = NoReq]
             M2 == M \cup t.sent
  <2>3. Good(s, t, M)
    BY <1>0, <2>2, HandlePrepareGood
  <2> HIDE DEF s, M, t
  <2>4. NodeInv(t, M2) /\ t \in NodeState
    BY <2>3 DEF Good, NodeInv
  <2> HIDE DEF M2
  <2>5. u \in NodeState /\ u.idx = t.idx /\ u.sent = t.sent
    BY <2>4 DEF NodeState
  <2>6. OriginInv(u, M2) /\ HeightInv(u)
    BY <2>4 DEF NodeInv, OriginInv, HeightInv, NodeState
  <2>7. VoteInv(u) /\ CertInv(u, M2)
    BY <2>4 DEF NodeInv, VoteInv, CertInv, NodeState
  <2>8. CommitInv(u) /\ (Fresh(M2) => LockInv(u))
    BY <2>4 DEF NodeInv, CommitInv, LockInv, NodeState
  <2>9. Good(t, u, M2)
    BY <2>4, <2>5, <2>6, <2>7, <2>8, GoodSilent DEF NodeInv
  <2>10. Good(s, u, M)
    BY <2>3, <2>9, GoodTrans DEF M2
  <2> QED BY <2>1, <2>10 DEF Step, StepGood, s, M, t
<1>3. CASE CollectGarbage(i)
  <2> DEFINE sg == {m \in s.signs : Number[m.hash] >= Number[s.highest]}
             cm == {m \in s.commits : Number[m.hash] >= Number[s.highest]}
             t  == [s EXCEPT !.signs = sg, !.commits = cm]
  <2>1. Step(i, t)
    BY <1>3 DEF CollectGarbage
  <2>2. sg \subseteq s.signs /\ cm \subseteq s.commits
    OBVIOUS
  <2> HIDE DEF sg, cm, s, M
  <2>3. CacheInv(sg, M) /\ CacheInv(cm, M)
    BY <1>0, <2>2, SmallerCache DEF NodeInv, OriginInv
  <2>4. t \in NodeState /\ t.idx = s.idx /\ t.sent = s.sent
    BY <1>0, <2>2 DEF NodeState
  <2>5. OriginInv(t, M) /\ HeightInv(t)
    BY <1>0, <2>3 DEF NodeInv, OriginInv, HeightInv, NodeState
  <2>6. VoteInv(t) /\ CertInv(t, M)
    BY <1>0, <2>2 DEF NodeInv, VoteInv, CertInv, NodeState
  <2>7. CommitInv(t) /\ (Fresh(M) => LockInv(t))
    BY <1>0 DEF NodeInv, CommitInv, LockInv, NodeState
  <2>8. Good(s, t, M)
    BY <1>0, <2>4, <2>5, <2>6, <2>7, GoodSilent DEF NodeInv
  <2> QED BY <2>1, <2>8 DEF Step, StepGood, s, M
<1> QED BY <1>1, <1>2, <1>3

\* shouldSeal finds no lock at the open height, so the node has committed nothing
\* there, and the block it starts is one of that height.
LEMMA ShouldSealAction ==
    ASSUME Inv, NEW i \in Node, ShouldSeal(i)
    PROVE  StepGood(i)
<1> DEFINE s == node[i]
           M == Messages
<1>0. NodeInv(s, M) /\ s \in NodeState
  BY DEF Inv, IndInv, NodeInv
<1>1. s.step = "idle" /\ s.consensus # Number[s.committed.hash]
  BY DEF ShouldSeal, Client
<1>2. PICK b \in Candidates(s) : Step(i, [s EXCEPT !.step = "seal", !.block = b])
  BY DEF ShouldSeal
<1> DEFINE t == [s EXCEPT !.step = "seal", !.block = b]
<1> HIDE DEF s, M
<1>3. b \in Block /\ Number[b] = s.consensus
  BY <1>0, <1>1 DEF Candidates, NodeInv, HeightInv
<1>4. t \in NodeState /\ t.idx = s.idx /\ t.sent = s.sent
  BY <1>0, <1>3 DEF NodeState, Steps
<1>5. OriginInv(t, M) /\ HeightInv(t)
  BY <1>0, <1>1, <1>3 DEF NodeInv, OriginInv, HeightInv, NodeState
<1>6. VoteInv(t) /\ CertInv(t, M)
  BY <1>0 DEF NodeInv, VoteInv, CertInv, NodeState
<1>7. CommitInv(t) /\ (Fresh(M) => LockInv(t))
  BY <1>0, <1>1 DEF NodeInv, CommitInv, LockInv, NodeState
<1>8. Good(s, t, M)
  BY <1>0, <1>4, <1>5, <1>6, <1>7, GoodSilent DEF NodeInv
<1> QED BY <1>2, <1>8 DEF Step, StepGood, s, M

\* reHandlePrepareReq proposes the lock in the current view.
LEMMA ReHandleAction ==
    ASSUME Inv, NEW i \in Node, ReHandlePrepareReq(i)
    PROVE  StepGood(i)
<1> DEFINE s   == node[i]
           M   == Messages
           req == Msg("prepare", s.committed.hash, s.view, s.idx)
           s1  == Broadcast(s, req)
<1>0. NodeInv(s, M) /\ s \in NodeState
  BY DEF Inv, IndInv, NodeInv
<1>1. PICK ok \in Checks : Step(i, ReHandle(s, ok))
  BY DEF ReHandlePrepareReq
<1>2. s.consensus = Number[s.committed.hash]
  BY DEF ReHandlePrepareReq
<1> DEFINE t == HandlePrepareMsg(s1, req, TRUE, ok)
<1>3. ReHandle(s, ok) = t
  BY DEF ReHandle
<1> HIDE DEF s, M
<1>4. s.committed.hash \in Block
  BY <1>0, <1>2, BlockNumbers DEF NodeState, MsgOf, NoReq, Msg
<1>5. req \in MsgOf("prepare") /\ req.idx = s.idx
  BY <1>0, <1>4 DEF MsgOf, Msg, NodeState
<1> HIDE DEF req
<1>6. Good(s, s1, M)
  BY <1>0, <1>5, BroadcastGood
<1>7. req \in M \cup s1.sent
  BY <1>0 DEF Broadcast, NodeState
<1> HIDE DEF s1
<1>8. Good(s1, t, M \cup s1.sent)
  BY <1>5, <1>6, <1>7, HandlePrepareGood DEF Good
<1>9. Good(s, t, M)
  BY <1>6, <1>8, GoodTrans
<1> QED BY <1>1, <1>3, <1>9 DEF Step, StepGood, s, M

\* generateSeal proposes the block of the client, in whatever view it finds.
LEMMA GenerateSealAction ==
    ASSUME Inv, NEW i \in Node, GenerateSeal(i)
    PROVE  StepGood(i)
<1> DEFINE s   == node[i]
           M   == Messages
           req == Msg("prepare", s.block, s.view, i)
           s1  == Broadcast(s, req)
           st  == IF s.block \in Omitted THEN "empty" ELSE "commit"
           t   == [s1 EXCEPT !.raw = req, !.sealView = s.view, !.step = st]
           M2  == M \cup s1.sent
<1>0. NodeInv(s, M) /\ s \in NodeState /\ s.idx = i /\ s.step = "seal"
  BY DEF Inv, IndInv, NodeInv, GenerateSeal, Client
<1>1. Step(i, t)
  BY DEF GenerateSeal
<1> HIDE DEF s, M
<1>2. s.block \in Block /\ Number[s.block] = s.consensus
  BY <1>0 DEF NodeInv, HeightInv
<1>3. /\ req \in MsgOf("prepare") /\ req.idx = s.idx /\ req.hash = s.block /\ req.view = s.view
      /\ st \in {"empty", "commit"} /\ req = Msg("prepare", s.block, s.view, s.idx)
  BY <1>0, <1>2 DEF MsgOf, Msg, NodeState
<1> HIDE DEF req, st
<1>4. Good(s, s1, M)
  BY <1>0, <1>3, BroadcastGood
<1>5. /\ s1 \in NodeState /\ NodeInv(s1, M2) /\ req \in s1.sent /\ s1.idx = s.idx
      /\ s1.block = s.block /\ s1.view = s.view /\ s1.consensus = s.consensus /\ s1.step = "seal"
  BY <1>0, <1>4 DEF Broadcast, NodeState, Good, NodeInv
<1> HIDE DEF s1, M2
<1>6. t \in NodeState /\ t.idx = s1.idx /\ t.sent = s1.sent
  BY <1>3, <1>5 DEF NodeState, Steps
<1>7. /\ t.raw = req /\ t.step = st /\ t.sealView = s1.view /\ t.block = s1.block
      /\ t.view = s1.view /\ t.toView = s1.toView /\ t.consensus = s1.consensus
      /\ t.head = s1.head /\ t.prepare = s1.prepare /\ t.future = s1.future
      /\ t.signs = s1.signs /\ t.commits = s1.commits /\ t.queue = s1.queue
      /\ t.chain = s1.chain /\ t.committed = s1.committed /\ t.view \in Nat
  BY <1>5 DEF NodeState, Views
<1> HIDE DEF t
<1>8. OriginInv(t, M2)
  BY <1>3, <1>5, <1>6, <1>7 DEF NodeInv, OriginInv
<1>9. HeightInv(t)
  BY <1>2, <1>3, <1>5, <1>6, <1>7 DEF NodeInv, HeightInv
<1>10. VoteInv(t) /\ CertInv(t, M2)
  BY <1>5, <1>6, <1>7 DEF NodeInv, VoteInv, CertInv
<1>11. CommitInv(t) /\ (Fresh(M2) => LockInv(t))
  BY <1>3, <1>5, <1>6, <1>7 DEF NodeInv, CommitInv, LockInv
<1>12. Good(s1, t, M2)
  BY <1>5, <1>6, <1>8, <1>9, <1>10, <1>11, GoodSilent DEF NodeInv
<1>13. Good(s, t, M)
  BY <1>4, <1>12, GoodTrans DEF M2
<1> QED BY <1>1, <1>13 DEF Step, StepGood, s, M, t

\* generateCommit signs the own proposal if the view is still the same.  What was
\* committed at its height in that view or before is the same block, for proposals
\* are fresh.
LEMMA SignOwnGood ==
    ASSUME NEW M, NEW s, NodeInv(s, M), s.step = "commit"
    PROVE  Good(s, SignOwnBlock(s), M) /\ SignOwnBlock(s).step = "commit"
<1> DEFINE req == Msg("prepare", s.block, s.sealView, s.idx)
<1>0. s \in NodeState
  BY DEF NodeInv
<1>1. CASE s.sealView # s.view
  BY <1>1, GoodSilent DEF SignOwnBlock
<1>2. CASE s.sealView = s.view
  <2>1. req \in M /\ req \in s.sent
    BY DEF NodeInv, OriginInv
  <2>2. /\ s.block \in Block /\ Number[s.block] = s.consensus
        /\ Number[s.raw.hash] = s.consensus
    BY <1>2 DEF NodeInv, HeightInv
  <2>3. /\ req \in MsgOf("prepare") /\ req.idx = s.idx /\ req.hash = s.block
        /\ req.view = s.view /\ req.type = "prepare"
    BY <1>0, <1>2, <2>2 DEF MsgOf, Msg, NodeState
  <2> HIDE DEF req
  <2>4. ASSUME Fresh(M), NEW m \in s.sent, m.type = "commit", Number[m.hash] = s.consensus
        PROVE  m.hash = req.hash
    <3>1. m.view <= s.view /\ m.view \in Int /\ s.view \in Int
      BY <1>0, <2>4 DEF NodeInv, LockInv, NodeState, Message, MsgOf, Views
    <3>2. m \in M /\ m.idx = s.idx
      BY DEF NodeInv, OriginInv
    <3>3. CASE m.view < s.view
      BY <2>1, <2>2, <2>3, <2>4, <3>2, <3>3 DEF Fresh
    <3>4. CASE m.view = s.view
      <4>1. PICK p \in M : p.type = "prepare" /\ p.hash = m.hash /\ p.view = m.view
        BY <2>4 DEF NodeInv, CertInv
      <4> QED BY <2>1, <2>2, <2>3, <2>4, <3>4, <4>1 DEF Fresh
    <3> QED BY <3>1, <3>3, <3>4
  <2>5. /\ Good(s, CheckAndCommit(BroadcastSignReq(AddPrepareReq(s, req), req)), M)
        /\ CheckAndCommit(BroadcastSignReq(AddPrepareReq(s, req), req)).step = s.step
    BY <2>1, <2>2, <2>3, <2>4, SignAndCommitGood
  <2> QED BY <1>2, <2>5 DEF SignOwnBlock, req
<1> QED BY <1>1, <1>2

\* The client gives its block up or is done with it.
LEMMA ClientDoneGood ==
    ASSUME NEW M, NEW s, NodeInv(s, M), s.step # "report", NEW t \in NodeState,
           t.step = "idle", t.idx = s.idx, t.view = s.view, t.toView = s.toView,
           t.consensus = s.consensus, t.raw = s.raw, t.prepare = s.prepare,
           t.committed = s.committed, t.future = s.future, t.signs = s.signs,
           t.commits = s.commits, t.queue = s.queue, t.chain = s.chain,
           t.head = s.head, t.sent = s.sent
    PROVE  Good(s, t, M)
<1>1. OriginInv(t, M) /\ HeightInv(t)
  BY DEF NodeInv, OriginInv, HeightInv
<1>2. VoteInv(t) /\ CertInv(t, M)
  BY DEF NodeInv, VoteInv, CertInv
<1>3. CommitInv(t) /\ (Fresh(M) => LockInv(t))
  BY DEF NodeInv, CommitInv, LockInv
<1> QED BY <1>1, <1>2, <1>3, GoodSilent DEF NodeInv

\* The last steps of rejigSealing.
LEMMA SealDoneActions ==
    ASSUME Inv, NEW i \in Node,
           ChangeViewForEmptyBlock(i) \/ GenerateCommit(i) \/ AbandonSeal(i)
    PROVE  StepGood(i)
<1> DEFINE s == node[i]
           M == Messages
<1>0. NodeInv(s, M) /\ s \in NodeState
  BY DEF Inv, IndInv, NodeInv
<1>1. CASE ChangeViewForEmptyBlock(i)
  <2> DEFINE t == [s EXCEPT !.leaderFailed = TRUE, !.step = "idle", !.block = NoBlock]
  <2>1. s.step = "empty" /\ Step(i, t)
    BY <1>1 DEF ChangeViewForEmptyBlock, Client
  <2> HIDE DEF s, M
  <2>2. t \in NodeState
    BY <1>0 DEF NodeState, Steps
  <2>3. Good(s, t, M)
    BY <1>0, <2>1, <2>2, ClientDoneGood DEF NodeState
  <2> QED BY <2>1, <2>3 DEF Step, StepGood, s, M
<1>2. CASE GenerateCommit(i)
  <2> DEFINE u == SignOwnBlock(s)
             t == [u EXCEPT !.step = "idle", !.block = NoBlock, !.sealed = TRUE]
  <2>1. s.step = "commit" /\ Step(i, t)
    BY <1>2 DEF GenerateCommit, Client
  <2> HIDE DEF s, M
  <2>2. Good(s, u, M) /\ u.step = "commit"
    BY <1>0, <2>1, SignOwnGood
  <2> HIDE DEF u
  <2>3. NodeInv(u, M \cup u.sent) /\ u \in NodeState
    BY <2>2 DEF Good, NodeInv
  <2>4. t \in NodeState
    BY <2>3 DEF NodeState, Steps
  <2>5. Good(u, t, M \cup u.sent)
    BY <2>2, <2>3, <2>4, ClientDoneGood DEF NodeState
  <2> HIDE DEF t
  <2>6. Good(s, t, M)
    BY <2>2, <2>5, GoodTrans
  <2> QED BY <2>1, <2>6 DEF Step, StepGood, s, M
<1>3. CASE AbandonSeal(i)
  <2> DEFINE t == [s EXCEPT !.step = "idle", !.block = NoBlock, !.sealed = FALSE]
  <2>1. s.step = "commit" /\ Step(i, t)
    BY <1>3 DEF AbandonSeal, Client
  <2> HIDE DEF s, M
  <2>2. t \in NodeState
    BY <1>0 DEF NodeState, Steps
  <2>3. Good(s, t, M)
    BY <1>0, <2>1, <2>2, ClientDoneGood DEF NodeState
  <2> QED BY <2>1, <2>3 DEF Step, StepGood, s, M
<1> QED BY <1>1, <1>2, <1>3

\* syncBlockQueue imports a certified block, its own or one of another chain.
LEMMA SyncAction ==
    ASSUME Inv, NEW i \in Node, SyncBlockQueue(i)
    PROVE  StepGood(i)
<1> DEFINE s == node[i]
           M == Messages
<1>0. NodeInv(s, M) /\ s \in NodeState /\ s.step \in {"idle", "report"}
  BY DEF Inv, IndInv, NodeInv, SyncBlockQueue, Client
<1>1. PICK c \in Available(i) :
        Step(i, [s EXCEPT !.chain = @ \cup {c}, !.queue = @ \ {c}, !.step = "report",
                          !.head = IF Number[c.hash] > Number[@] THEN c.hash ELSE @])
  BY DEF SyncBlockQueue
<1> DEFINE hd == IF Number[c.hash] > Number[s.head] THEN c.hash ELSE s.head
           t  == [s EXCEPT !.chain = s.chain \cup {c}, !.queue = s.queue \ {c},
                           !.step = "report", !.head = hd]
<1>2. Step(i, t)
  BY <1>1
<1>3. Certified(M, c) /\ c \in SealedBlock
  <2>1. PICK j \in Node : c \in node[j].queue \cup node[j].chain
    BY DEF Available
  <2>2. NodeInv(node[j], M) /\ node[j] \in NodeState
    BY DEF Inv, IndInv, NodeInv
  <2>3. c \in SealedBlock
    BY <2>1, <2>2 DEF NodeState
  <2> QED BY <2>1, <2>2, <2>3 DEF NodeInv, CertInv
<1> HIDE DEF s, M
<1>4. hd \in Block /\ Number[hd] >= Number[s.head] /\ Number[hd] \in Nat /\ Number[s.head] \in Nat
  <2>1. c.hash \in Block /\ s.head \in Block
    BY <1>0, <1>3 DEF SealedBlock, NodeState
  <2> QED BY <2>1, BlockNumbers
<1> HIDE DEF hd
<1>5. t \in NodeState /\ t.idx = s.idx /\ t.sent = s.sent
  BY <1>0, <1>3, <1>4 DEF NodeState, Steps
<1>6. OriginInv(t, M)
  BY <1>0 DEF NodeInv, OriginInv, NodeState
<1>7. HeightInv(t)
  <2>1. s.consensus <= Number[hd] + 1
    BY <1>0, <1>4 DEF NodeInv, HeightInv, NodeState
  <2> QED BY <1>0, <2>1 DEF NodeInv, HeightInv, NodeState
<1>8. VoteInv(t) /\ CertInv(t, M)
  BY <1>0, <1>3 DEF NodeInv, VoteInv, CertInv, NodeState
<1>9. CommitInv(t) /\ (Fresh(M) => LockInv(t))
  BY <1>0 DEF NodeInv, CommitInv, LockInv, NodeState
<1>10. Good(s, t, M)
  BY <1>0, <1>5, <1>6, <1>7, <1>8, <1>9, GoodSilent DEF NodeInv
<1> QED BY <1>2, <1>10 DEF Step, StepGood, s, M

\* reportBlock: either the height stays open, or a higher one is opened at which
\* nothing has been committed.
LEMMA ReportAction ==
    ASSUME Inv, NEW i \in Node, ReportBlock(i)
    PROVE  StepGood(i)
<1> DEFINE s  == node[i]
           M  == Messages
           s1 == [s EXCEPT !.highest = s.head]
           vc == {m \in s.viewChanges : ~Obsolete(s1, m)}
           sg == s.signs \ Votes(s.signs, s.head)
           cm == s.commits \ Votes(s.commits, s.head)
           pr == IF s.prepare.hash = s.head THEN NoReq ELSE s.prepare
           sl == s.sealed /\ Number[s.head] < s.consensus
           t  == [s EXCEPT !.highest = s.head, !.signs = sg, !.commits = cm, !.prepare = pr,
                           !.step = "idle", !.sealed = sl]
           n  == Number[s.head] + 1
           u  == [t EXCEPT !.view = 0, !.toView = 0, !.leaderFailed = FALSE,
                           !.consensus = n, !.viewChanges = vc]
<1>0. NodeInv(s, M) /\ s \in NodeState /\ s.step = "report"
  BY DEF Inv, IndInv, NodeInv, ReportBlock, Client
<1>1. Step(i, IF Number[s.head] >= s.consensus THEN u ELSE t)
  <2> DEFINE s2 == [s1 EXCEPT !.view = 0, !.toView = 0, !.leaderFailed = FALSE,
                              !.consensus = Number[s.head] + 1, !.viewChanges = vc]
             done(x) == [DelCache(x, s.head) EXCEPT !.step = "idle",
                                                    !.sealed = @ /\ Number[s.head] < s.consensus]
  <2>1. Step(i, done(IF Number[s.head] >= s.consensus THEN s2 ELSE s1))
    BY DEF ReportBlock
  <2>2. done(s1) = t
    BY <1>0 DEF DelCache, NodeState
  <2>3. done(s2) = u
    <3>1. s2 = [s EXCEPT !.highest = s.head, !.view = 0, !.toView = 0, !.leaderFailed = FALSE,
                         !.consensus = n, !.viewChanges = vc]
      BY <1>0 DEF NodeState
    <3>2. /\ s2.signs = s.signs /\ s2.commits = s.commits /\ s2.prepare = s.prepare
          /\ s2.sealed = s.sealed
      BY <1>0, <3>1 DEF NodeState
    <3> HIDE DEF s, vc, n, s2
    <3>3. done(s2) = [[s2 EXCEPT !.signs = sg, !.commits = cm, !.prepare = pr]
                          EXCEPT !.step = "idle", !.sealed = @ /\ Number[s.head] < s.consensus]
      BY <3>2 DEF DelCache
    <3>4. [s2 EXCEPT !.signs = sg, !.commits = cm, !.prepare = pr].sealed = s.sealed
      BY <1>0, <3>1 DEF NodeState
    <3>5. done(s2) = [[s2 EXCEPT !.signs = sg, !.commits = cm, !.prepare = pr]
                          EXCEPT !.step = "idle", !.sealed = sl]
      BY <3>3, <3>4
    <3> HIDE DEF sg, cm, pr, sl, done
    <3>6. u = [[s2 EXCEPT !.signs = sg, !.commits = cm, !.prepare = pr]
                          EXCEPT !.step = "idle", !.sealed = sl]
      BY <1>0, <3>1 DEF NodeState
    <3> QED BY <3>5, <3>6
  <2> HIDE DEF done, s1, s2, t, u
  <2> QED BY <2>1, <2>2, <2>3
<1>2. /\ sg \subseteq s.signs /\ cm \subseteq s.commits /\ vc \in SUBSET MsgOf("viewchange")
      /\ pr \in {NoReq, s.prepare} /\ sl \in BOOLEAN
  BY <1>0 DEF NodeState
<1>3. s.head \in Block /\ Number[s.head] \in Nat /\ s.consensus \in Nat
      /\ s.consensus <= Number[s.head] + 1
  BY <1>0, BlockNumbers DEF NodeState, NodeInv, HeightInv
<1> HIDE DEF s, M, vc, sg, cm, pr, sl
<1>4. CacheInv(sg, M) /\ CacheInv(cm, M)
  BY <1>0, <1>2, SmallerCache DEF NodeInv, OriginInv
<1>5. NoReq.hash = NoBlock /\ Number[NoReq.hash] = -1 /\ NoBlock \notin Block
  BY BlockNumbers DEF NoReq, Msg
<1>6. \A m \in sg \cup cm : m.hash # NoBlock
  BY <1>0, <1>2 DEF NodeState, MsgOf
<1>7. \A m \in s.sent : m.type = "commit" => Number[m.hash] \in Nat /\ Number[m.hash] <= s.consensus
  BY <1>0, BlockNumbers DEF NodeState, Message, MsgOf, NodeInv, CommitInv
<1>8. t \in NodeState /\ u \in NodeState
  <2>1. t \in NodeState
    BY <1>0, <1>2, <1>3 DEF NodeState, Steps
  <2> DEFINE z == 0
  <2>2. z \in Views
    BY DEF Views
  <2>3. n \in Nat /\ vc \in SUBSET MsgOf("viewchange")
    BY <1>2, <1>3
  <2> HIDE DEF t, n, z
  <2>4. [t EXCEPT !.view = z, !.toView = z, !.leaderFailed = FALSE, !.consensus = n,
                  !.viewChanges = vc] \in NodeState
    BY <2>1, <2>2, <2>3 DEF NodeState
  <2>5. u \in NodeState
    BY <2>4 DEF z
  <2> QED BY <2>1, <2>5
<1>9. CASE ~(Number[s.head] >= s.consensus)
  <2>1. s.consensus = Number[s.head] + 1
    BY <1>3, <1>9
  <2>2. OriginInv(t, M)
    BY <1>0, <1>2, <1>4 DEF NodeInv, OriginInv, NodeState
  <2>3. HeightInv(t)
    BY <1>0, <1>2, <1>5, <2>1 DEF NodeInv, HeightInv, NodeState
  <2>4. VoteInv(t)
    BY <1>0, <1>2, <1>5, <1>6 DEF NodeInv, VoteInv, NodeState
  <2>5. CertInv(t, M)
    BY <1>0 DEF NodeInv, CertInv, NodeState
  <2>6. CommitInv(t)
    BY <1>0, <1>2 DEF NodeInv, CommitInv, NodeState
  <2>7. Fresh(M) => LockInv(t)
    BY <1>0, <1>2, <1>5, <1>7 DEF NodeInv, LockInv, NodeState
  <2>8. t.idx = s.idx /\ t.sent = s.sent
    BY <1>0 DEF NodeState
  <2>9. Good(s, t, M)
    BY <1>0, <1>8, <2>2, <2>3, <2>4, <2>5, <2>6, <2>7, <2>8, GoodSilent DEF NodeInv
  <2> QED BY <1>1, <1>9, <2>9 DEF Step, StepGood, s, M
<1>10. CASE Number[s.head] >= s.consensus
  <2>1. /\ u.idx = s.idx /\ u.sent = s.sent /\ u.signs = sg /\ u.commits = cm
        /\ u.raw = s.raw /\ u.prepare = pr /\ u.future = s.future /\ u.step = "idle"
        /\ u.view = 0 /\ u.toView = 0 /\ u.consensus = Number[s.head] + 1
        /\ u.head = s.head /\ u.queue = s.queue /\ u.chain = s.chain
    BY <1>0 DEF NodeState
  <2> HIDE DEF u, t
  <2>2. OriginInv(u, M)
    BY <1>0, <1>2, <1>4, <2>1 DEF NodeInv, OriginInv
  <2>3. HeightInv(u)
    <3>1. Number[s.raw.hash] \in Int /\ Number[s.prepare.hash] \in Int
      BY <1>0, <1>5, BlockNumbers DEF NodeState, MsgOf
    <3>2. Number[s.raw.hash] <= s.consensus /\ Number[s.prepare.hash] <= s.consensus
      BY <1>0 DEF NodeInv, HeightInv
    <3>3. Number[u.raw.hash] < u.consensus /\ Number[u.prepare.hash] < u.consensus
      BY <1>2, <1>3, <1>5, <1>10, <2>1, <3>1, <3>2
    <3> QED BY <1>2, <1>3, <1>5, <2>1, <3>1, <3>3 DEF HeightInv
  <2>4. VoteInv(u)
    BY <1>0, <1>2, <1>5, <1>6, <2>1 DEF NodeInv, VoteInv
  <2>5. CertInv(u, M)
    BY <1>0, <2>1 DEF NodeInv, CertInv
  <2>6. CommitInv(u)
    BY <1>3, <1>7, <1>10, <2>1 DEF CommitInv
  <2>7. Fresh(M) => LockInv(u)
    <3>1. \A m \in u.sent : m.type = "commit" => Number[m.hash] # u.consensus
      BY <1>3, <1>7, <1>10, <2>1
    <3> QED BY <1>0, <1>2, <1>5, <1>7, <2>1, <3>1 DEF NodeInv, LockInv
  <2>8. Good(s, u, M)
    BY <1>0, <1>8, <2>1, <2>2, <2>3, <2>4, <2>5, <2>6, <2>7, GoodSilent DEF NodeInv
  <2> QED BY <1>1, <1>10, <2>8 DEF Step, StepGood, s, M
<1> QED BY <1>9, <1>10

\* A restart keeps the lock and the chain; the signs of the handler it interrupts
\* may be out already.
LEMMA RestartAction ==
    ASSUME Inv, NEW i \in Node, Restart(i)
    PROVE  StepGood(i)
<1> DEFINE s == node[i]
           M == Messages
<1>0. NodeInv(s, M) /\ s \in NodeState /\ s.idx = i
  BY DEF Inv, IndInv, NodeInv
<1>1. PICK x \in InFlight(i) :
        node' = [node EXCEPT ![i] = InitEnv(i, s.committed, s.chain, s.head,
                    s.sent \cup {m \in x.sent : m.type = "sign"})]
  BY DEF Restart
<1>2. Good(s, x, M)
  <2>1. CASE x = s
    BY <1>0, <2>1, GoodSilent
  <2>2. ASSUME NEW m \in Messages, m.type = "prepare", x = HandlePrepareMsg(s, m, FALSE, TRUE)
        PROVE  Good(s, x, M)
    BY <1>0, <2>2, MessageTypes, HandlePrepareGood
  <2>3. CASE s.step = "commit" /\ x = SignOwnBlock(s)
    BY <1>0, <2>3, SignOwnGood
  <2> QED BY <2>1, <2>2, <2>3 DEF InFlight
<1> DEFINE sg == {m \in x.sent : m.type = "sign"}
           sn == s.sent \cup sg
           t  == InitEnv(i, s.committed, s.chain, s.head, sn)
           M2 == M \cup t.sent
<1> HIDE DEF s, M
<1>3. \A m \in sg : m \in Message /\ m.idx = s.idx /\ m.type # "commit"
  BY <1>2 DEF Good, NodeInv, NodeState, OriginInv
<1> HIDE DEF sg
<1>4. s.head \in Block /\ Number[s.head] \in Nat /\ s.consensus \in Nat
      /\ s.consensus <= Number[s.head] + 1
  BY <1>0, BlockNumbers DEF NodeState, NodeInv, HeightInv
<1>5. sn \in SUBSET Message
  BY <1>0, <1>3 DEF NodeState
<1>6. t \in NodeState
  BY <1>0, <1>4, <1>5 DEF NodeState, InitEnv, Views, Steps
<1>7. /\ t.idx = s.idx /\ t.sent = s.sent \cup sg /\ t.view = 0 /\ t.toView = 0
      /\ t.consensus = Number[s.head] + 1 /\ t.raw = NoReq /\ t.prepare = NoReq
      /\ t.committed = s.committed /\ t.future = NoReq /\ t.signs = {} /\ t.commits = {}
      /\ t.step = "idle" /\ t.queue = {} /\ t.chain = s.chain /\ t.head = s.head
  BY <1>0 DEF InitEnv
<1>8. NodeInv(s, M2)
  BY <1>0, NodeInvGrows
<1> HIDE DEF t
<1>9. NoReq.hash = NoBlock /\ Number[NoReq.hash] = -1
  BY BlockNumbers DEF NoReq, Msg
<1>10. OriginInv(t, M2)
  BY <1>3, <1>7, <1>8 DEF NodeInv, OriginInv, CacheInv
<1> HIDE DEF M2
<1>11. HeightInv(t)
  BY <1>4, <1>7, <1>9 DEF HeightInv
<1>12. VoteInv(t) /\ CertInv(t, M2)
  BY <1>3, <1>7, <1>8 DEF NodeInv, VoteInv, CertInv
<1>13. \A m \in s.sent : m.type = "commit" => Number[m.hash] \in Nat /\ Number[m.hash] <= s.consensus
  BY <1>0, BlockNumbers DEF NodeState, Message, MsgOf, NodeInv, CommitInv
<1>14. CommitInv(t)
  BY <1>3, <1>4, <1>7, <1>13 DEF CommitInv
<1>15. ASSUME Fresh(M2) PROVE LockInv(t)
  <2>1. LockInv(s)
    BY <1>8, <1>15 DEF NodeInv
  <2>2. \A m \in s.sent : m.type = "commit" /\ Number[m.hash] = t.consensus
          => Number[m.hash] = s.consensus
    BY <1>4, <1>7, <1>13
  <2> QED BY <1>3, <1>7, <1>9, <1>13, <2>1, <2>2 DEF LockInv
<1>16. Good(s, t, M)
  BY <1>6, <1>7, <1>10, <1>11, <1>12, <1>14, <1>15 DEF Good, NodeInv, M2
<1> QED BY <1>1, <1>16 DEF StepGood, s, M, t, sg

-----------------------------------------------------------------------------
(* The theorems.                                                           *)

\* A step of one node that keeps its invariant keeps everybody's.
LEMMA StepInv ==
    ASSUME Inv, NEW i \in Node, StepGood(i)
    PROVE  (node \in [Node -> NodeState] /\ IndInv)'
<1>1. PICK t : Good(node[i], t, Messages) /\ node' = [node EXCEPT ![i] = t]
  BY DEF StepGood
<1>2. node \in [Node -> NodeState] /\ t \in NodeState
  BY <1>1 DEF Inv, TypeOK, Good, NodeInv
<1>3. node' \in [Node -> NodeState] /\ node'[i] = t /\ \A j \in Node \ {i} : node'[j] = node[j]
  BY <1>1, <1>2
<1>4. Messages' = Messages \cup t.sent
  <2>1. node[i].sent \subseteq t.sent
    BY <1>1 DEF Good
  <2> QED BY <1>3, <2>1 DEF Messages
<1>5. ASSUME NEW j \in Node PROVE node'[j].idx = j /\ NodeInv(node'[j], Messages')
  <2>1. CASE j = i
    BY <1>1, <1>3, <1>4, <2>1 DEF Good, Inv, IndInv
  <2>2. CASE j # i
    <3>1. node[j].idx = j /\ NodeInv(node[j], Messages)
      BY DEF Inv, IndInv
    <3>2. NodeInv(node[j], Messages')
      BY <1>4, <3>1, NodeInvGrows
    <3> QED BY <1>3, <2>2, <3>1, <3>2
  <2> QED BY <2>1, <2>2
<1> QED BY <1>3, <1>5 DEF IndInv

\* Every action of a node is such a step.
LEMMA ActionsGood ==
    ASSUME Inv, NEW i \in Node,
           \/ HandlePrepare(i) \/ HandleSign(i) \/ HandleCommit(i) \/ HandleViewChange(i)
           \/ CheckTimeout(i) \/ OnViewChange(i) \/ HandleFutureBlock(i) \/ CollectGarbage(i)
           \/ ShouldSeal(i) \/ ReHandlePrepareReq(i) \/ GenerateSeal(i)
           \/ ChangeViewForEmptyBlock(i) \/ GenerateCommit(i) \/ AbandonSeal(i)
           \/ SyncBlockQueue(i) \/ ReportBlock(i) \/ Restart(i)
    PROVE  StepGood(i)
BY MessageActions, TimeoutAction, WorkerActions, ShouldSealAction, ReHandleAction,
   GenerateSealAction, SealDoneActions, SyncAction, ReportAction, RestartAction

\* Only Restart counts restarts, up to the bound.
LEMMA RestartsType ==
    ASSUME Inv, Next
    PROVE  restarts' \in 0 .. MaxRestarts
<1>1. restarts \in 0 .. MaxRestarts
  BY DEF Inv, TypeOK
<1>2. UNCHANGED restarts \/ (restarts < MaxRestarts /\ restarts' = restarts + 1)
  BY DEF Next, Step, HandlePrepare, HandleSign, HandleCommit, HandleViewChange, CheckTimeout,
         OnViewChange, HandleFutureBlock, CollectGarbage, ShouldSeal, ReHandlePrepareReq,
         GenerateSeal, ChangeViewForEmptyBlock, GenerateCommit, AbandonSeal, SyncBlockQueue,
         ReportBlock, Restart
<1> QED BY <1>1, <1>2

\* After initEnv on an empty chain the invariant holds.
LEMMA InitInv == Init => Inv
<1> SUFFICES ASSUME Init PROVE Inv
  OBVIOUS
<1> DEFINE s(i) == InitEnv(i, NoReq, {}, Genesis, {})
<1>1. node = [i \in Node |-> s(i)] /\ restarts = 0
  BY DEF Init
<1>2. ASSUME NEW i \in Node
      PROVE  /\ s(i) \in NodeState /\ s(i).idx = i /\ s(i).sent = {} /\ s(i).view = 0
             /\ s(i).toView = 0 /\ s(i).consensus = 1 /\ s(i).raw = NoReq
             /\ s(i).prepare = NoReq /\ s(i).future = NoReq /\ s(i).signs = {}
             /\ s(i).commits = {} /\ s(i).step = "idle" /\ s(i).queue = {}
             /\ s(i).chain = {} /\ s(i).head = Genesis
  BY DEF InitEnv, NodeState, Views, Steps
<1> HIDE DEF s
<1>3. Messages = {}
  BY <1>1, <1>2 DEF Messages
<1>4. NoReq.hash = NoBlock /\ Number[NoReq.hash] = -1 /\ Number[Genesis] = 0
  BY BlockNumbers DEF NoReq, Msg
<1>5. ASSUME NEW i \in Node PROVE NodeInv(s(i), {})
  <2>1. OriginInv(s(i), {}) /\ VoteInv(s(i)) /\ CertInv(s(i), {})
    BY <1>2 DEF OriginInv, CacheInv, VoteInv, CertInv
  <2>2. HeightInv(s(i))
    BY <1>2, <1>4 DEF HeightInv
  <2>3. CommitInv(s(i)) /\ LockInv(s(i))
    BY <1>2 DEF CommitInv, LockInv
  <2> QED BY <1>2, <2>1, <2>2, <2>3 DEF NodeInv
<1>6. TypeOK
  BY <1>1, <1>2 DEF TypeOK
<1>7. IndInv
  BY <1>1, <1>2, <1>3, <1>5 DEF IndInv
<1> QED BY <1>6, <1>7 DEF Inv

\* The inductive invariant holds of every behaviour.
THEOREM Invariance == Spec => []Inv
<1>1. Init => Inv
  BY InitInv
<1>2. Inv /\ [Next]_vars => Inv'
  <2> SUFFICES ASSUME Inv, [Next]_vars PROVE Inv'
    OBVIOUS
  <2>1. CASE UNCHANGED vars
    BY <2>1 DEF vars, Inv, TypeOK, IndInv, Messages
  <2>2. CASE Next
    <3>1. PICK i \in Node :
            \/ HandlePrepare(i) \/ HandleSign(i) \/ HandleCommit(i) \/ HandleViewChange(i)
            \/ CheckTimeout(i) \/ OnViewChange(i) \/ HandleFutureBlock(i) \/ CollectGarbage(i)
            \/ ShouldSeal(i) \/ ReHandlePrepareReq(i) \/ GenerateSeal(i)
            \/ ChangeViewForEmptyBlock(i) \/ GenerateCommit(i) \/ AbandonSeal(i)
            \/ SyncBlockQueue(i) \/ ReportBlock(i) \/ Restart(i)
      BY <2>2 DEF Next
    <3>2. StepGood(i)
      BY <3>1, ActionsGood
    <3>3. (node \in [Node -> NodeState] /\ IndInv)'
      BY <3>2, StepInv
    <3>4. restarts' \in 0 .. MaxRestarts
      BY <2>2, RestartsType
    <3> QED BY <3>3, <3>4 DEF Inv, TypeOK
  <2> QED BY <2>1, <2>2
<1> QED BY <1>1, <1>2, PTL DEF Spec

\* Every field of every node keeps its type.
THEOREM TypeCorrect == Spec => []TypeOK
<1>1. Inv => TypeOK
  BY DEF Inv
<1> QED BY <1>1, Invariance, PTL

\* addPrepareReq purges what it must: the votes cached for the current prepare
\* were cast in its view.
THEOREM VotesMatch == Spec => []VotesMatchPrepare
<1>1. Inv => VotesMatchPrepare
  BY DEF Inv, IndInv, NodeInv, VoteInv, VotesMatchPrepare
<1> QED BY <1>1, Invariance, PTL

\* checkAndCommit locks what it commits, as long as proposals are fresh: over view
\* changes and restarts the block a node has committed at the open height is its lock.
THEOREM LockSafety == Spec => []LockHolds
<1>1. Inv => LockHolds
  BY DEF Inv, IndInv, NodeInv, LockInv, LockHolds, LockCoversCommit, FreshProposals
<1> QED BY <1>1, Invariance, PTL

\* A message of the network was sent by its author.
LEMMA SentByAuthor ==
    ASSUME Inv, NEW m \in Messages
    PROVE  m.idx \in Node /\ m \in node[m.idx].sent
<1>1. PICK j \in Node : m \in node[j].sent
  BY DEF Messages
<1>2. m.idx = j
  BY <1>1 DEF Inv, IndInv, NodeInv, OriginInv
<1> QED BY <1>1, <1>2

\* Whoever sends a commit has seen a quorum sign that block in that view.
THEOREM CommitsPrepared == Spec => []CommitsArePrepared
<1>1. ASSUME Inv, NEW m \in Sent("commit")
      PROVE  Cardinality({i \in Node : Msg("sign", m.hash, m.view, i) \in node[i].sent}) >= Quorum
  <2>1. m \in Messages /\ m.type = "commit"
    BY DEF Sent
  <2>2. Prepared(Messages, m.hash, m.view)
    <3>1. m.idx \in Node /\ m \in node[m.idx].sent
      BY <1>1, <2>1, SentByAuthor
    <3> QED BY <1>1, <2>1, <3>1 DEF Inv, IndInv, NodeInv, CertInv
  <2>3. \A i \in Node : Msg("sign", m.hash, m.view, i) \in Messages
                          <=> Msg("sign", m.hash, m.view, i) \in node[i].sent
    <3> SUFFICES ASSUME NEW i \in Node, Msg("sign", m.hash, m.view, i) \in Messages
                 PROVE  Msg("sign", m.hash, m.view, i) \in node[i].sent
      BY DEF Messages
    <3>1. Msg("sign", m.hash, m.view, i).idx = i
      BY DEF Msg
    <3> QED BY <1>1, <3>1, SentByAuthor
  <2>4. {i \in Node : Msg("sign", m.hash, m.view, i) \in Messages}
          = {i \in Node : Msg("sign", m.hash, m.view, i) \in node[i].sent}
    BY <2>3
  <2> QED BY <2>2, <2>4 DEF Prepared
<1>2. Inv => CommitsArePrepared
  BY <1>1 DEF CommitsArePrepared
<1> QED BY <1>2, Invariance, PTL

\* A certified block has a quorum of authors of commits of one view.
LEMMA CertifiedBySenders ==
    ASSUME Inv, NEW c, Certified(Messages, c), c.signers \subseteq Node
    PROVE  \E v \in Views : \A k \in c.signers : Msg("commit", c.hash, v, k) \in node[k].sent
<1>1. PICK v \in Views : \A k \in c.signers : Msg("commit", c.hash, v, k) \in Messages
  BY DEF Certified
<1>2. ASSUME NEW k \in c.signers PROVE Msg("commit", c.hash, v, k) \in node[k].sent
  <2>1. Msg("commit", c.hash, v, k).idx = k
    BY DEF Msg
  <2> QED BY <1>1, <2>1, SentByAuthor
<1> QED BY <1>2

\* What is submitted or imported is certified.
LEMMA SavedAreCertified ==
    ASSUME Inv, NEW i \in Node, NEW c \in node[i].queue \cup node[i].chain
    PROVE  Certified(Messages, c) /\ c \in SealedBlock
<1>1. NodeInv(node[i], Messages) /\ node[i] \in NodeState
  BY DEF Inv, IndInv, NodeInv
<1>2. c \in SealedBlock
  BY <1>1 DEF NodeState
<1> QED BY <1>1, <1>2 DEF NodeInv, CertInv

\* The sign_list of every saved block satisfies checkBlockSign and is made of commits
\* of one view.
THEOREM SealsCertified == Spec => []SealsAreCertified
<1>1. ASSUME Inv, NEW i \in Node, NEW c \in node[i].queue \cup node[i].chain
      PROVE  /\ CheckBlockSign(c)
             /\ \E v \in Views : \A k \in c.signers : Msg("commit", c.hash, v, k) \in node[k].sent
  <2>1. Certified(Messages, c) /\ c.signers \subseteq Node
    BY <1>1, SavedAreCertified DEF SealedBlock
  <2> QED BY <1>1, <2>1, CertifiedBySenders DEF Certified
<1>2. Inv => SealsAreCertified
  BY <1>1 DEF SealsAreCertified
<1> QED BY <1>2, Invariance, PTL

\* Nodes never save different blocks of the same height, as long as proposals are
\* fresh: two quorums of commits share a node, and its lock lets it commit one block.
THEOREM AgreementHolds == Spec => []Agreement
<1>1. ASSUME Inv, FreshProposals,
             NEW i \in Node, NEW c \in node[i].queue \cup node[i].chain,
             NEW j \in Node, NEW d \in node[j].queue \cup node[j].chain,
             Number[c.hash] = Number[d.hash]
      PROVE  c.hash = d.hash
  <2>1. /\ Certified(Messages, c) /\ c.signers \in SUBSET Node
        /\ Certified(Messages, d) /\ d.signers \in SUBSET Node
    BY <1>1, SavedAreCertified DEF SealedBlock
  <2>2. Cardinality(c.signers) >= Quorum /\ Cardinality(d.signers) >= Quorum
    BY <2>1 DEF Certified, CheckBlockSign, Quorum, F
  <2>3. PICK k \in Node : k \in c.signers /\ k \in d.signers
    BY <2>1, <2>2, QuorumsMeet
  <2>4. PICK v \in Views : Msg("commit", c.hash, v, k) \in node[k].sent
    BY <1>1, <2>1, <2>3, CertifiedBySenders
  <2>5. PICK w \in Views : Msg("commit", d.hash, w, k) \in node[k].sent
    BY <1>1, <2>1, <2>3, CertifiedBySenders
  <2>6. LockInv(node[k])
    BY <1>1 DEF Inv, IndInv, NodeInv, FreshProposals
  <2> QED BY <1>1, <2>4, <2>5, <2>6 DEF LockInv, Msg
<1>2. Inv => Agreement
  BY <1>1 DEF Agreement
<1> QED BY <1>2, Invariance, PTL
=============================================================================

------------------------ MODULE BlockChainSync_proofs ------------------------
(***************************************************************************)
(* What the download of blocks keeps, for any number of peers and chains   *)
(* of any length.                                                          *)
(***************************************************************************)
EXTENDS BlockChainSync, Iterations, FiniteSetTheorems, SequenceTheorems

-----------------------------------------------------------------------------
(* Blocks are paths.                                                       *)

\* The first n blocks of a path.
LEMMA PrefixFacts ==
    ASSUME NEW b \in Block, NEW n \in 0..Len(b)
    PROVE  /\ SubSeq(b, 1, n) \in Block /\ Len(SubSeq(b, 1, n)) = n
           /\ \A i \in 1..n : SubSeq(b, 1, n)[i] = b[i]
<1>1. Len(b) \in Nat /\ \A i \in 1..Len(b) : b[i] \in Label
  BY DEF Block
<1>2. SubSeq(b, 1, n) = [i \in 1..n |-> b[i]]
  BY <1>1 DEF Block
<1>3. \A i \in 1..n : b[i] \in Label
  BY <1>1
<1>4. SubSeq(b, 1, n) \in [1..n -> Label]
  BY <1>2, <1>3
<1>5. SubSeq(b, 1, n) \in Seq(Label) /\ Len(SubSeq(b, 1, n)) = n
  BY <1>1, <1>2, <1>4
<1> QED BY <1>2, <1>5 DEF Block

\* Two paths of the same blocks are the same.
LEMMA SamePath ==
    ASSUME NEW b \in Block, NEW c \in Block, Len(b) = Len(c), \A i \in 1..Len(b) : b[i] = c[i]
    PROVE  b = c
BY SeqEqual DEF Block

\* A prefix of a prefix.
LEMMA PrefixOfPrefix ==
    ASSUME NEW b \in Block, NEW n \in 0..Len(b), NEW m \in 0..n
    PROVE  SubSeq(SubSeq(b, 1, n), 1, m) = SubSeq(b, 1, m)
<1> DEFINE c == SubSeq(b, 1, n)
<1>0. Len(b) \in Nat /\ m \in 0..Len(b)
  BY DEF Block
<1>1. c \in Block /\ Len(c) = n /\ \A i \in 1..n : c[i] = b[i]
  BY PrefixFacts
<1> HIDE DEF c
<1>2. /\ SubSeq(c, 1, m) \in Block /\ Len(SubSeq(c, 1, m)) = m
      /\ \A i \in 1..m : SubSeq(c, 1, m)[i] = c[i]
  BY <1>1, PrefixFacts
<1>3. /\ SubSeq(b, 1, m) \in Block /\ Len(SubSeq(b, 1, m)) = m
      /\ \A i \in 1..m : SubSeq(b, 1, m)[i] = b[i]
  BY <1>0, PrefixFacts
<1>4. \A i \in 1..m : SubSeq(c, 1, m)[i] = SubSeq(b, 1, m)[i]
  BY <1>0, <1>1, <1>2, <1>3
<1>5. SubSeq(c, 1, m) = SubSeq(b, 1, m)
  BY <1>2, <1>3, <1>4, SamePath
<1> QED BY <1>5 DEF c

\* The path of a block holds its ancestors, and is one path for all of them.
LEMMA PathFacts ==
    ASSUME NEW b \in Block
    PROVE  /\ Len(b) \in Nat /\ b \in Path(b) /\ <<>> \in Path(b) /\ <<>> \in Block /\ Len(<<>>) = 0
           /\ \A c \in Path(b) : /\ c \in Block /\ Len(c) \in 0..Len(b) /\ Path(c) \subseteq Path(b)
                                 /\ c = SubSeq(b, 1, Len(c)) /\ (Len(c) = Len(b) => c = b)
           /\ \A c, d \in Path(b) : c \in Path(d) \/ d \in Path(c)
           /\ \A n \in 0..Len(b) : SubSeq(b, 1, n) \in Path(b)
<1>1. Len(b) \in Nat /\ <<>> \in Block /\ Len(<<>>) = 0
  BY DEF Block
<1>2. SubSeq(b, 1, Len(b)) = b
  <2>1. Len(b) \in 0..Len(b)
    BY <1>1
  <2>2. SubSeq(b, 1, Len(b)) \in Block /\ Len(SubSeq(b, 1, Len(b))) = Len(b)
        /\ \A i \in 1..Len(b) : SubSeq(b, 1, Len(b))[i] = b[i]
    BY <2>1, PrefixFacts
  <2> QED BY ONLY <2>2, b \in Block, SamePath
<1>3. b \in Path(b)
  <2>1. Len(b) \in 0..Len(b)
    BY <1>1
  <2>2. SubSeq(b, 1, Len(b)) \in Path(b)
    BY <2>1 DEF Path
  <2> QED BY <2>2, <1>2
<1>4. <<>> \in Path(b)
  <2>1. 0 \in 0..Len(b) /\ SubSeq(b, 1, 0) \in Block /\ Len(SubSeq(b, 1, 0)) = 0
    BY <1>1, PrefixFacts
  <2>2. SubSeq(b, 1, 0) = <<>>
    BY <2>1, <1>1, SamePath
  <2> QED BY <2>1, <2>2 DEF Path
<1>5. \A n \in 0..Len(b) : SubSeq(b, 1, n) \in Path(b)
  BY DEF Path
<1>6. ASSUME NEW c \in Path(b)
      PROVE  c \in Block /\ Len(c) \in 0..Len(b) /\ c = SubSeq(b, 1, Len(c)) /\ (Len(c) = Len(b) => c = b)
  <2>1. PICK n \in 0..Len(b) : c = SubSeq(b, 1, n)
    BY <1>6 DEF Path
  <2>2. c \in Block /\ Len(c) = n
    BY <2>1, PrefixFacts
  <2> QED BY <2>1, <2>2, <1>2
<1>7. ASSUME NEW d \in Path(b), NEW m \in 0..Len(d) PROVE SubSeq(b, 1, m) = SubSeq(d, 1, m)
  <2>1. Len(d) \in 0..Len(b) /\ d = SubSeq(b, 1, Len(d))
    BY <1>6
  <2> QED BY <2>1, PrefixOfPrefix
<1>8. ASSUME NEW c \in Path(b), NEW d \in Path(b), Len(c) <= Len(d) PROVE c \in Path(d)
  <2>1. Len(c) \in 0..Len(d) /\ c = SubSeq(b, 1, Len(c))
    BY <1>1, <1>6, <1>8
  <2>2. c = SubSeq(d, 1, Len(c))
    BY <2>1, <1>7
  <2> QED BY <2>1, <2>2 DEF Path
<1>9. ASSUME NEW c \in Path(b) PROVE Path(c) \subseteq Path(b)
  <2>1. ASSUME NEW e \in Path(c) PROVE e \in Path(b)
    <3>1. PICK m \in 0..Len(c) : e = SubSeq(c, 1, m)
      BY <2>1 DEF Path
    <3>2. m \in 0..Len(b) /\ e = SubSeq(b, 1, m)
      BY <3>1, <1>1, <1>6, <1>7
    <3> QED BY <3>2 DEF Path
  <2> QED BY <2>1
<1>10. ASSUME NEW c \in Path(b), NEW d \in Path(b) PROVE c \in Path(d) \/ d \in Path(c)
  <2>1. Len(c) \in Nat /\ Len(d) \in Nat
    BY <1>1, <1>6
  <2>2. Len(c) <= Len(d) \/ Len(d) <= Len(c)
    BY <2>1
  <2> QED BY <2>2, <1>8
<1> QED BY <1>1, <1>3, <1>4, <1>5, <1>6, <1>9, <1>10

\* The blocks that are not the genesis.
Fresh == Block \ {<<>>}

\* A block follows its parent.
LEMMA ParentFacts ==
    ASSUME NEW b \in Fresh
    PROVE  /\ b \in Block /\ Len(b) \in Nat \ {0} /\ Parent(b) \in Block /\ Len(Parent(b)) = Len(b) - 1
           /\ Parent(b) \in Path(b) /\ Path(b) = Path(Parent(b)) \cup {b}
<1>1. b \in Block /\ Len(b) \in Nat /\ Len(b) # 0
  BY DEF Fresh, Block
<1>2. Len(b) - 1 \in 0..Len(b)
  BY <1>1
<1>3. Parent(b) \in Block /\ Len(Parent(b)) = Len(b) - 1 /\ Parent(b) \in Path(b)
  BY <1>1, <1>2, PrefixFacts DEF Parent, Path
<1>4. Path(Parent(b)) \subseteq Path(b) /\ b \in Path(b)
  BY <1>1, <1>3, PathFacts
<1>5. ASSUME NEW c \in Path(b), c # b PROVE c \in Path(Parent(b))
  <2>1. Len(c) \in 0..Len(b) /\ Len(c) # Len(b) /\ c \in Block
    BY <1>1, <1>5, PathFacts
  <2>2. c \in Path(Parent(b)) \/ Parent(b) \in Path(c)
    BY <1>1, <1>3, PathFacts
  <2>3. ASSUME Parent(b) \in Path(c) PROVE c = Parent(b)
    <3>1. Len(Parent(b)) \in 0..Len(c) /\ (Len(Parent(b)) = Len(c) => Parent(b) = c)
      BY <2>1, <2>3, PathFacts
    <3> QED BY <3>1, <2>1, <1>1, <1>3
  <2>4. Parent(b) \in Path(Parent(b))
    BY <1>3, PathFacts
  <2> QED BY <2>2, <2>3, <2>4
<1> QED BY <1>1, <1>3, <1>4, <1>5

\* On one path a number tells the block.
LEMMA SameNumber ==
    ASSUME NEW b \in Block, NEW c \in Block, b \in Path(c) \/ c \in Path(b), Len(b) = Len(c)
    PROVE  b = c
BY PathFacts

-----------------------------------------------------------------------------
(* Maps from numbers to headers or bodies.                                 *)

Numbered ==
    {f \in UNION {[D -> Fresh] : D \in SUBSET Nat} :
        IsFiniteSet(DOMAIN f) /\ \A n \in DOMAIN f : Len(f[n]) = n}

\* The least element of a set of numbers.
LEMMA LeastFacts ==
    ASSUME NEW S \in SUBSET Nat, S # {}
    PROVE  Least(S) \in S /\ \A m \in S : Least(S) <= m
<1>1. \E n \in S : \A m \in S : n <= m
  BY LeastElement
<1> QED BY <1>1 DEF Least

\* The maps hold blocks under their numbers, none at 0.
LEMMA NumberedFacts ==
    ASSUME NEW f \in Numbered
    PROVE  /\ DOMAIN f \in SUBSET Nat /\ 0 \notin DOMAIN f /\ IsFiniteSet(DOMAIN f)
           /\ f = [n \in DOMAIN f |-> f[n]]
           /\ \A n \in DOMAIN f : f[n] \in Fresh /\ f[n] \in Block /\ Len(f[n]) = n
<1>1. PICK D \in SUBSET Nat : f \in [D -> Fresh]
  BY DEF Numbered
<1>2. DOMAIN f = D /\ f = [n \in DOMAIN f |-> f[n]] /\ \A n \in DOMAIN f : f[n] \in Fresh
  BY <1>1
<1>3. IsFiniteSet(DOMAIN f) /\ \A n \in DOMAIN f : Len(f[n]) = n
  BY DEF Numbered
<1>4. \A n \in DOMAIN f : f[n] \in Block /\ Len(f[n]) # 0
  BY <1>2, ParentFacts
<1> QED BY <1>1, <1>2, <1>3, <1>4

\* ... and are all maps that do.
LEMMA IsNumbered ==
    ASSUME NEW D \in SUBSET Nat, IsFiniteSet(D), NEW f \in [D -> Fresh], \A n \in D : Len(f[n]) = n
    PROVE  f \in Numbered
BY DEF Numbered

\* The empty map.
LEMMA EmptyFacts ==
    Empty \in Numbered /\ DOMAIN Empty = {} /\ \A f \in Numbered : f = Empty <=> DOMAIN f = {}
<1>1. DOMAIN Empty = {} /\ Empty \in [{} -> Fresh]
  BY DEF Empty
<1>2. Empty \in Numbered
  <2> HIDE DEF Empty
  <2> QED BY <1>1, FS_EmptySet, IsNumbered
<1>3. ASSUME NEW f \in Numbered, DOMAIN f = {} PROVE f = Empty
  <2>1. f = [n \in DOMAIN f |-> f[n]]
    BY NumberedFacts
  <2>2. f = [n \in {} |-> f[n]]
    BY <2>1, <1>3
  <2> QED BY <2>2 DEF Empty
<1> QED BY <1>1, <1>2, <1>3

\* Removing numbers.
LEMMA WithoutFacts ==
    ASSUME NEW f \in Numbered, NEW S
    PROVE  /\ Without(f, S) \in Numbered /\ DOMAIN Without(f, S) = DOMAIN f \ S
           /\ \A n \in DOMAIN f \ S : Without(f, S)[n] = f[n]
<1> DEFINE g == Without(f, S)
<1>1. DOMAIN g = DOMAIN f \ S /\ g = [n \in DOMAIN f \ S |-> f[n]]
  BY DEF Without
<1>2. /\ DOMAIN f \in SUBSET Nat /\ IsFiniteSet(DOMAIN f)
      /\ \A n \in DOMAIN f : f[n] \in Fresh /\ Len(f[n]) = n
  BY NumberedFacts
<1> HIDE DEF g
<1>3. IsFiniteSet(DOMAIN f \ S)
  BY <1>2, FS_Difference
<1>4. g \in [DOMAIN f \ S -> Fresh] /\ \A n \in DOMAIN f \ S : Len(g[n]) = n /\ g[n] = f[n]
  BY <1>1, <1>2
<1>5. g \in Numbered
  BY <1>2, <1>3, <1>4, IsNumbered
<1> QED BY <1>1, <1>4, <1>5 DEF g

\* mergeInto: a block under its number.
Added(f, n, b) == [m \in DOMAIN f \cup {n} |-> IF m = n THEN b ELSE f[m]]

\* The map with a block more.
LEMMA AddedFacts ==
    ASSUME NEW f \in Numbered, NEW b \in Fresh
    PROVE  LET g == Added(f, Len(b), b)
           IN  /\ g \in Numbered /\ DOMAIN g = DOMAIN f \cup {Len(b)}
               /\ g[Len(b)] = b /\ \A m \in DOMAIN f : m # Len(b) => g[m] = f[m]
<1> DEFINE n == Len(b)
           g == Added(f, n, b)
           D == DOMAIN f \cup {n}
<1>1. DOMAIN g = D /\ g = [m \in D |-> IF m = n THEN b ELSE f[m]]
  BY DEF Added
<1>2. /\ DOMAIN f \in SUBSET Nat /\ IsFiniteSet(DOMAIN f)
      /\ \A m \in DOMAIN f : f[m] \in Fresh /\ Len(f[m]) = m
  BY NumberedFacts
<1>3. n \in Nat
  BY ParentFacts
<1>4. D \in SUBSET Nat /\ IsFiniteSet(D)
  BY <1>2, <1>3, FS_AddElement
<1>5. ASSUME NEW m \in D PROVE g[m] \in Fresh /\ Len(g[m]) = m /\ (m = n => g[m] = b) /\ (m # n => g[m] = f[m])
  <2> HIDE DEF g
  <2> QED BY <1>1, <1>2, <1>5
<1> HIDE DEF g, D
<1>6. g \in [D -> Fresh]
  BY <1>1, <1>5
<1>7. g \in Numbered
  BY <1>4, <1>5, <1>6, IsNumbered
<1>8. D = DOMAIN f \cup {n}
  BY DEF D
<1>9. g[n] = b /\ \A m \in DOMAIN f : m # n => g[m] = f[m]
  BY <1>5, <1>8
<1> QED BY <1>1, <1>7, <1>8, <1>9 DEF g

\* A finite set of numbers that reaches down to its start is an interval.
LEMMA RunIsInterval ==
    ASSUME NEW S \in SUBSET Nat, IsFiniteSet(S), NEW a \in Nat, \A m \in S : a <= m /\ a..m \subseteq S
    PROVE  Cardinality(S) \in Nat /\ S = a .. a + Cardinality(S) - 1
<1> DEFINE c == Cardinality(S)
           Out == {m \in Nat : a <= m /\ m \notin S}
<1>1. c \in Nat
  BY FS_CardinalityType
<1>2. Out # {}
  <2> SUFFICES ASSUME Out = {} PROVE FALSE
    OBVIOUS
  <2>1. a .. (a + c) \subseteq S
    BY <1>1
  <2>2. Cardinality(a .. (a + c)) = c + 1
    BY <1>1, FS_Interval
  <2>3. Cardinality(a .. (a + c)) <= c
    BY <2>1, FS_Subset
  <2> QED BY <2>2, <2>3, <1>1
<1>3. PICK e \in Out : \A m \in Out : e <= m
  <2>1. Out \in SUBSET Nat
    OBVIOUS
  <2> HIDE DEF Out
  <2> QED BY <2>1, <1>2, LeastElement
<1>4. S = a .. (e - 1)
  <2>1. ASSUME NEW m \in S PROVE m \in a .. (e - 1)
    <3>1. ~(e <= m)
      <4> SUFFICES ASSUME e <= m PROVE FALSE
        OBVIOUS
      <4>1. e \in a..m
        BY <1>3
      <4> QED BY <4>1, <1>3
    <3> QED BY <3>1, <1>3
  <2>2. ASSUME NEW m \in a .. (e - 1) PROVE m \in S
    BY <1>3
  <2> QED BY <2>1, <2>2
<1>5. c = e - a
  <2>1. e \in Nat /\ a <= e
    BY <1>3
  <2>2. Cardinality(a .. (e - 1)) = IF a > e - 1 THEN 0 ELSE e - 1 - a + 1
    BY <2>1, FS_Interval
  <2> QED BY <2>1, <2>2, <1>4
<1> QED BY <1>1, <1>3, <1>4, <1>5

-----------------------------------------------------------------------------
(* The state the handlers work on.                                         *)

HeaderRequest == [hash : Block \cup {NoBlock}] \cup [start : Nat, count : Nat]
BodyRequest   == [bodies : SUBSET Block]

SyncStates ==
    [ state : {"Idle", "NotSynced", "Blocks", "Waiting"}, headers : Numbered, bodies : Numbered,
      dlHeaders : SUBSET Nat, dlBodies : SUBSET Nat, ids : SUBSET Block, syncTD : Nat,
      headerPeers : [Peer -> SUBSET Nat], bodyPeers : [Peer -> SUBSET Nat],
      common : BOOLEAN, last : Nat, lastHash : Block \cup {NoBlock} ]

\* a peer is asked only while it is connected
PeerStates ==
    {x \in [ up : BOOLEAN, enabled : BOOLEAN, asking : {"Nothing", "BlockHeaders", "BlockBodies"},
             request : {NoRequest} \cup HeaderRequest \cup BodyRequest, height : Nat,
             latest : Block \cup {NoBlock}, td : Nat, unknowns : Nat ] :
        /\ x.enabled \/ x.asking # "Nothing" => x.up
        /\ x.asking = "BlockHeaders" => x.request \in HeaderRequest
        /\ x.asking = "BlockBodies" => x.request \in BodyRequest}

QueueStates ==
    [ ready : SUBSET Fresh, pipe : SUBSET Fresh, draining : SUBSET Fresh, unknown : SUBSET Fresh,
      bad : SUBSET Fresh, difficulty : Int ]

Worlds == [s : SyncStates, p : [Peer -> PeerStates], q : QueueStates]

\* NoOrphans, of a world; and but for the numbers noted for peer p
Tracked(w) ==
    /\ \A n \in w.s.dlHeaders : \E o \in Peer : n \in w.s.headerPeers[o] /\ w.p[o].asking # "Nothing"
    /\ \A n \in w.s.dlBodies : \E o \in Peer : n \in w.s.bodyPeers[o] /\ w.p[o].asking # "Nothing"

TrackedBut(w, p) ==
    /\ \A n \in w.s.dlHeaders : \/ n \in w.s.headerPeers[p]
                                \/ \E o \in Peer : n \in w.s.headerPeers[o] /\ w.p[o].asking # "Nothing"
    /\ \A n \in w.s.dlBodies : \/ n \in w.s.bodyPeers[p]
                               \/ \E o \in Peer : n \in w.s.bodyPeers[o] /\ w.p[o].asking # "Nothing"

\* BodiesMatch, of the downloads
Fit(s) ==
    /\ \A n \in DOMAIN s.bodies : n \in DOMAIN s.headers /\ s.headers[n] = s.bodies[n]
    /\ \A n \in DOMAIN s.headers \ DOMAIN s.bodies : s.headers[n] \in s.ids

\* Only the block in the hand of the client thread is being drained.
Drained(q) == q.draining \subseteq {hand} \ {NoBlock}

Sane(w) == w \in Worlds /\ Tracked(w) /\ Fit(w.s) /\ Drained(w.q)

\* What the requests leave alone: the headers and bodies, the queue and who is
\* connected.  Only the search for the common block moves the last block, down.
Asks(w, v) ==
    /\ v.q = w.q /\ v.s.headers = w.s.headers /\ v.s.bodies = w.s.bodies /\ v.s.ids = w.s.ids
    /\ \A o \in Peer : v.p[o].up = w.p[o].up
    /\ v.s.last <= w.s.last
    /\ w.s.common => v.s.common /\ v.s.last = w.s.last
    /\ v.s.common /\ ~w.s.common => v.s.last = 0

\* The members have their types.
LEMMA WorldFacts ==
    ASSUME NEW w \in Worlds
    PROVE  /\ w.s \in SyncStates /\ w.q \in QueueStates /\ w.p \in [Peer -> PeerStates]
           /\ w.s.headers \in Numbered /\ w.s.bodies \in Numbered /\ w.s.ids \in SUBSET Block
           /\ w.s.dlHeaders \in SUBSET Nat /\ w.s.dlBodies \in SUBSET Nat
           /\ w.s.headerPeers \in [Peer -> SUBSET Nat] /\ w.s.bodyPeers \in [Peer -> SUBSET Nat]
           /\ w.s.common \in BOOLEAN /\ w.s.last \in Nat
           /\ w.q.ready \in SUBSET Fresh /\ w.q.pipe \in SUBSET Fresh /\ w.q.draining \in SUBSET Fresh
           /\ w.q.unknown \in SUBSET Fresh /\ w.q.bad \in SUBSET Fresh
           /\ \A o \in Peer : /\ w.p[o] \in PeerStates /\ w.p[o].height \in Nat /\ w.p[o].td \in Nat
                              /\ w.p[o].latest \in Block \cup {NoBlock}
<1>1. w.s \in SyncStates /\ w.q \in QueueStates /\ w.p \in [Peer -> PeerStates]
  BY DEF Worlds
<1>2. \A o \in Peer : /\ w.p[o] \in PeerStates /\ w.p[o].height \in Nat /\ w.p[o].td \in Nat
                      /\ w.p[o].latest \in Block \cup {NoBlock}
  BY <1>1 DEF PeerStates
<1> QED BY <1>1, <1>2 DEF SyncStates, QueueStates

\* Asking is reflexive and transitive.
LEMMA AsksSame ==
    ASSUME NEW w \in Worlds
    PROVE  Asks(w, w)
BY WorldFacts DEF Asks

\* ... and what two requests leave alone is left alone.
LEMMA AsksTwice ==
    ASSUME NEW u \in Worlds, NEW v \in Worlds, NEW w \in Worlds, Asks(u, v), Asks(v, w)
    PROVE  Asks(u, w)
<1>1. u.s.last \in Nat /\ v.s.last \in Nat /\ w.s.last \in Nat
  BY WorldFacts
<1> QED BY <1>1 DEF Asks

\* Requests keep bodies and headers together.
LEMMA AsksFit ==
    ASSUME NEW w, NEW v, Asks(w, v), Fit(w.s)
    PROVE  Fit(v.s)
BY DEF Asks, Fit

-----------------------------------------------------------------------------
(* The requests.                                                           *)

\* clearPeerDownload takes away the numbers noted for the peer.
LEMMA ClearFacts ==
    ASSUME NEW w \in Worlds, NEW p \in Peer, NEW v, v = ClearPeerDownload(w, p)
    PROVE  /\ v \in Worlds /\ Asks(w, v) /\ v.p = w.p /\ v.s.state = w.s.state
           /\ v.s.common = w.s.common /\ v.s.last = w.s.last
           /\ TrackedBut(w, p) => Tracked(v)
<1> DEFINE s == [w.s EXCEPT !.dlHeaders = @ \ w.s.headerPeers[p], !.headerPeers[p] = {},
                            !.dlBodies = @ \ w.s.bodyPeers[p], !.bodyPeers[p] = {}]
<1>1. v = [w EXCEPT !.s = s]
  BY DEF ClearPeerDownload, Worlds
<1>2. s \in SyncStates
  BY WorldFacts DEF SyncStates
<1>3. /\ s.headers = w.s.headers /\ s.bodies = w.s.bodies /\ s.ids = w.s.ids /\ s.state = w.s.state
      /\ s.common = w.s.common /\ s.last = w.s.last
      /\ s.dlHeaders = w.s.dlHeaders \ w.s.headerPeers[p] /\ s.dlBodies = w.s.dlBodies \ w.s.bodyPeers[p]
      /\ s.headerPeers = [w.s.headerPeers EXCEPT ![p] = {}]
      /\ s.bodyPeers = [w.s.bodyPeers EXCEPT ![p] = {}]
  BY WorldFacts DEF SyncStates
<1> HIDE DEF s
<1>4. v \in Worlds /\ v.s = s /\ v.p = w.p /\ v.q = w.q
  BY <1>1, <1>2 DEF Worlds
<1>5. Asks(w, v)
  BY <1>3, <1>4, WorldFacts DEF Asks
<1>6. ASSUME TrackedBut(w, p) PROVE Tracked(v)
  <2>1. w.s.headerPeers \in [Peer -> SUBSET Nat] /\ w.s.bodyPeers \in [Peer -> SUBSET Nat]
    BY WorldFacts
  <2>2. ASSUME NEW n \in v.s.dlHeaders
        PROVE  \E o \in Peer : n \in v.s.headerPeers[o] /\ v.p[o].asking # "Nothing"
    <3>1. n \in w.s.dlHeaders /\ n \notin w.s.headerPeers[p]
      BY <1>3, <1>4, <2>2
    <3>2. PICK o \in Peer : n \in w.s.headerPeers[o] /\ w.p[o].asking # "Nothing"
      BY <1>6, <3>1 DEF TrackedBut
    <3>3. v.s.headerPeers[o] = w.s.headerPeers[o]
      BY <1>3, <1>4, <2>1, <3>1, <3>2
    <3> QED BY <3>2, <3>3, <1>4
  <2>3. ASSUME NEW n \in v.s.dlBodies
        PROVE  \E o \in Peer : n \in v.s.bodyPeers[o] /\ v.p[o].asking # "Nothing"
    <3>1. n \in w.s.dlBodies /\ n \notin w.s.bodyPeers[p]
      BY <1>3, <1>4, <2>3
    <3>2. PICK o \in Peer : n \in w.s.bodyPeers[o] /\ w.p[o].asking # "Nothing"
      BY <1>6, <3>1 DEF TrackedBut
    <3>3. v.s.bodyPeers[o] = w.s.bodyPeers[o]
      BY <1>3, <1>4, <2>1, <3>1, <3>2
    <3> QED BY <3>2, <3>3, <1>4
  <2> QED BY <2>2, <2>3 DEF Tracked
<1> QED BY <1>3, <1>4, <1>5, <1>6

\* A peer that is not asked anything is asked for headers.
LEMMA AskHeadersFacts ==
    ASSUME NEW w \in Worlds, NEW p \in Peer, w.p[p].up, w.p[p].asking = "Nothing", Tracked(w),
           NEW mine \in SUBSET Nat, NEW numbers \in SUBSET mine, NEW request \in HeaderRequest,
           NEW v, v = AskHeaders(w, p, numbers, mine, request)
    PROVE  /\ v \in Worlds /\ Tracked(v) /\ Asks(w, v)
           /\ v.s.common = w.s.common /\ v.s.last = w.s.last
<1> DEFINE s == [w.s EXCEPT !.dlHeaders = @ \cup numbers, !.headerPeers[p] = mine]
           x == [w.p[p] EXCEPT !.asking = "BlockHeaders", !.request = request]
<1>1. v = [w EXCEPT !.s = s, !.p = [w.p EXCEPT ![p] = x]]
  BY DEF AskHeaders
<1>2. s \in SyncStates
  BY WorldFacts DEF SyncStates
<1>3. /\ s.headers = w.s.headers /\ s.bodies = w.s.bodies /\ s.ids = w.s.ids
      /\ s.common = w.s.common /\ s.last = w.s.last
      /\ s.dlHeaders = w.s.dlHeaders \cup numbers /\ s.dlBodies = w.s.dlBodies
      /\ s.headerPeers = [w.s.headerPeers EXCEPT ![p] = mine] /\ s.bodyPeers = w.s.bodyPeers
  BY WorldFacts DEF SyncStates
<1>4. x \in PeerStates /\ x.asking = "BlockHeaders" /\ x.up = w.p[p].up
  <2>1. w.p[p] \in PeerStates
    BY WorldFacts
  <2> QED BY <2>1 DEF PeerStates
<1> HIDE DEF s, x
<1>5. v \in Worlds /\ v.s = s /\ v.q = w.q /\ v.p = [w.p EXCEPT ![p] = x]
  BY <1>1, <1>2, <1>4 DEF Worlds
<1>6. \A o \in Peer : v.p[o] = IF o = p THEN x ELSE w.p[o]
  BY <1>5, WorldFacts
<1>7. Asks(w, v)
  <2>1. \A o \in Peer : v.p[o].up = w.p[o].up
    BY <1>3, <1>4, <1>5, <1>6
  <2>2. w.s.last \in Nat
    BY WorldFacts
  <2> QED BY <1>3, <1>4, <1>5, <1>6, <2>1, <2>2 DEF Asks
<1>8. Tracked(v)
  <2>1. w.s.headerPeers \in [Peer -> SUBSET Nat]
    BY WorldFacts
  <2>2. ASSUME NEW n \in v.s.dlHeaders
        PROVE  \E o \in Peer : n \in v.s.headerPeers[o] /\ v.p[o].asking # "Nothing"
    <3>1. CASE n \in numbers
      <4>1. n \in v.s.headerPeers[p]
        BY <3>1, <2>1, <1>3, <1>5
      <4>2. v.p[p].asking # "Nothing"
        BY <1>4, <1>6
      <4> QED BY <4>1, <4>2
    <3>2. CASE n \in w.s.dlHeaders
      <4>1. PICK o \in Peer : n \in w.s.headerPeers[o] /\ w.p[o].asking # "Nothing"
        BY <3>2 DEF Tracked
      <4>2. o # p
        BY <4>1
      <4>3. v.s.headerPeers[o] = w.s.headerPeers[o] /\ v.p[o] = w.p[o]
        BY <4>2, <2>1, <1>3, <1>5, <1>6
      <4> QED BY <4>1, <4>3
    <3> QED BY <2>2, <3>1, <3>2, <1>3, <1>5
  <2>3. ASSUME NEW n \in v.s.dlBodies
        PROVE  \E o \in Peer : n \in v.s.bodyPeers[o] /\ v.p[o].asking # "Nothing"
    <3>1. PICK o \in Peer : n \in w.s.bodyPeers[o] /\ w.p[o].asking # "Nothing"
      BY <2>3, <1>3, <1>5 DEF Tracked
    <3>2. o # p
      BY <3>1
    <3> QED BY <3>1, <3>2, <1>3, <1>5, <1>6
  <2> QED BY <2>2, <2>3 DEF Tracked
<1> QED BY <1>3, <1>5, <1>7, <1>8

\* ... or for bodies.
LEMMA RequestBodiesFacts ==
    ASSUME NEW w \in Worlds, NEW p \in Peer, w.p[p].up, w.p[p].asking = "Nothing", Tracked(w),
           NEW needed \in SUBSET DOMAIN w.s.headers, NEW v, v = RequestBodies(w, p, needed)
    PROVE  /\ v \in Worlds /\ Tracked(v) /\ Asks(w, v)
           /\ v.s.common = w.s.common /\ v.s.last = w.s.last
<1> DEFINE r == [bodies |-> {w.s.headers[n] : n \in needed}]
           s == [w.s EXCEPT !.dlBodies = @ \cup needed, !.bodyPeers[p] = needed]
           x == [w.p[p] EXCEPT !.asking = "BlockBodies", !.request = r]
<1>1. v = [w EXCEPT !.s = s, !.p = [w.p EXCEPT ![p] = x]]
  BY DEF RequestBodies
<1>2. needed \in SUBSET Nat /\ r \in BodyRequest
  <2>1. w.s.headers \in Numbered
    BY WorldFacts
  <2>2. DOMAIN w.s.headers \in SUBSET Nat /\ \A n \in DOMAIN w.s.headers : w.s.headers[n] \in Block
    BY <2>1, NumberedFacts
  <2> QED BY <2>2 DEF BodyRequest
<1> HIDE DEF r
<1>3. s \in SyncStates
  BY <1>2, WorldFacts DEF SyncStates
<1>4. /\ s.headers = w.s.headers /\ s.bodies = w.s.bodies /\ s.ids = w.s.ids
      /\ s.common = w.s.common /\ s.last = w.s.last
      /\ s.dlHeaders = w.s.dlHeaders /\ s.dlBodies = w.s.dlBodies \cup needed
      /\ s.headerPeers = w.s.headerPeers /\ s.bodyPeers = [w.s.bodyPeers EXCEPT ![p] = needed]
  BY WorldFacts DEF SyncStates
<1>5. x \in PeerStates /\ x.asking = "BlockBodies" /\ x.up = w.p[p].up
  <2>1. w.p[p] \in PeerStates
    BY WorldFacts
  <2> QED BY <1>2, <2>1 DEF PeerStates
<1> HIDE DEF s, x
<1>6. v \in Worlds /\ v.s = s /\ v.q = w.q /\ v.p = [w.p EXCEPT ![p] = x]
  BY <1>1, <1>3, <1>5 DEF Worlds
<1>7. \A o \in Peer : v.p[o] = IF o = p THEN x ELSE w.p[o]
  BY <1>6, WorldFacts
<1>8. Asks(w, v)
  <2>1. \A o \in Peer : v.p[o].up = w.p[o].up
    BY <1>4, <1>5, <1>6, <1>7
  <2>2. w.s.last \in Nat
    BY WorldFacts
  <2> QED BY <1>4, <1>5, <1>6, <1>7, <2>1, <2>2 DEF Asks
<1>9. Tracked(v)
  <2>1. w.s.bodyPeers \in [Peer -> SUBSET Nat]
    BY WorldFacts
  <2>2. ASSUME NEW n \in v.s.dlBodies
        PROVE  \E o \in Peer : n \in v.s.bodyPeers[o] /\ v.p[o].asking # "Nothing"
    <3>1. CASE n \in needed
      <4>1. n \in v.s.bodyPeers[p]
        BY <3>1, <2>1, <1>4, <1>6
      <4>2. v.p[p].asking # "Nothing"
        BY <1>5, <1>7
      <4> QED BY <4>1, <4>2
    <3>2. CASE n \in w.s.dlBodies
      <4>1. PICK o \in Peer : n \in w.s.bodyPeers[o] /\ w.p[o].asking # "Nothing"
        BY <3>2 DEF Tracked
      <4>2. o # p
        BY <4>1
      <4>3. v.s.bodyPeers[o] = w.s.bodyPeers[o] /\ v.p[o] = w.p[o]
        BY <4>2, <2>1, <1>4, <1>6, <1>7
      <4> QED BY <4>1, <4>3
    <3> QED BY <2>2, <3>1, <3>2, <1>4, <1>6
  <2>3. ASSUME NEW n \in v.s.dlHeaders
        PROVE  \E o \in Peer : n \in v.s.headerPeers[o] /\ v.p[o].asking # "Nothing"
    <3>1. PICK o \in Peer : n \in w.s.headerPeers[o] /\ w.p[o].asking # "Nothing"
      BY <2>3, <1>4, <1>6 DEF Tracked
    <3>2. o # p
      BY <3>1
    <3> QED BY <3>1, <3>2, <1>4, <1>6, <1>7
  <2> QED BY <2>2, <2>3 DEF Tracked
<1> QED BY <1>4, <1>6, <1>8, <1>9

\* The bodies that are needed belong to headers.
LEMMA NeededFacts ==
    ASSUME NEW w, NEW p
    PROVE  NeededBodies(w, p) \in SUBSET DOMAIN w.s.headers
BY DEF NeededBodies, Run

\* A run of a map is finite.
LEMMA RunFacts ==
    ASSUME NEW f \in Numbered, NEW n
    PROVE  /\ Run(f, n) \in SUBSET DOMAIN f /\ IsFiniteSet(Run(f, n)) /\ Cardinality(Run(f, n)) \in Nat
           /\ Run(f, n) \in SUBSET Nat
<1>1. Run(f, n) \in SUBSET DOMAIN f
  BY DEF Run
<1>2. IsFiniteSet(DOMAIN f) /\ DOMAIN f \in SUBSET Nat
  BY NumberedFacts
<1>3. IsFiniteSet(Run(f, n))
  BY <1>1, <1>2, FS_Subset
<1>4. Cardinality(Run(f, n)) \in Nat
  BY <1>3, FS_CardinalityType
<1> QED BY <1>1, <1>2, <1>3, <1>4

\* A gap is a finite set of numbers.
LEMMA GapFacts ==
    ASSUME NEW w \in Worlds, NEW p \in Peer
    PROVE  GapHeaders(w, p) \in SUBSET Nat /\ IsFiniteSet(GapHeaders(w, p))
<1> DEFINE H     == DOMAIN w.s.headers
           from  == IF H # {} /\ w.s.last + 1 >= Least(H)
                    THEN Least(H) + Cardinality(Run(w.s.headers, Least(H))) ELSE w.s.last + 1
           free  == {n \in from..w.p[p].height : n \notin H \cup w.s.dlHeaders /\ \E m \in H : n < m}
           start == Least(free)
           near  == {n \in from..start : n..start \cap H = {}}
           gap   == Least(near)
           above == {m \in H : start < m}
           window == {n \in gap..Least(above) - 1 :
                         (n - gap) \div MaxRequestHeaders = (start - gap) \div MaxRequestHeaders}
<1>1. GapHeaders(w, p) = IF free = {} THEN {} ELSE {n \in window : start <= n}
  BY DEF GapHeaders
<1>2. /\ w.s.headers \in Numbered /\ H \in SUBSET Nat /\ w.s.last \in Nat /\ w.p[p].height \in Nat
      /\ Cardinality(Run(w.s.headers, Least(H))) \in Nat
  BY WorldFacts, NumberedFacts, RunFacts
<1>3. from \in Nat
  <2>1. H # {} => Least(H) \in Nat
    BY <1>2, LeastFacts
  <2> DEFINE c == Cardinality(Run(w.s.headers, Least(H)))
  <2>2. c \in Nat /\ w.s.last + 1 \in Nat
    BY <1>2
  <2> HIDE DEF H, c
  <2>3. H # {} => Least(H) + c \in Nat
    BY <2>1, <2>2
  <2>4. from = IF H # {} /\ w.s.last + 1 >= Least(H) THEN Least(H) + c ELSE w.s.last + 1
    BY DEF c
  <2> HIDE DEF from
  <2> QED BY <2>2, <2>3, <2>4
<1> HIDE DEF H, from
<1>4. CASE free = {}
  BY <1>1, <1>4, FS_EmptySet
<1>5. CASE free # {}
  <2>1. free \in SUBSET Nat
    BY <1>2, <1>3
  <2>2. start \in free
    BY <2>1, <1>5, LeastFacts
  <2>3. start \in Nat /\ start \in from..start /\ start \notin H /\ \E m \in H : start < m
    BY <2>1, <2>2, <1>3
  <2> HIDE DEF free, start
  <2>4. near \in SUBSET Nat /\ start \in near
    BY <2>3, <1>3
  <2>5. gap \in Nat
    <3> HIDE DEF near
    <3> QED BY <2>4, LeastFacts
  <2>6. above \in SUBSET Nat /\ above # {}
    BY <2>3, <1>2
  <2>7. Least(above) \in Nat
    <3> HIDE DEF above
    <3> QED BY <2>6, LeastFacts
  <2> HIDE DEF gap, above
  <2>8. window \subseteq gap..(Least(above) - 1) /\ gap..(Least(above) - 1) \subseteq Nat
    BY <2>5, <2>7
  <2>9. IsFiniteSet(gap..(Least(above) - 1))
    BY <2>5, <2>7, FS_Interval
  <2> HIDE DEF window
  <2>10. GapHeaders(w, p) \subseteq window
    BY <1>1, <1>5
  <2> QED BY <2>8, <2>9, <2>10, FS_Subset
<1> QED BY <1>4, <1>5

\* A request is sent to a peer, or nothing happens.
Requested(w, r) == r.w \in Worlds /\ Tracked(r.w) /\ Asks(w, r.w) /\ r.asked \in BOOLEAN

\* Bodies of headers, or headers of a gap, are asked for.
LEMMA AskAboveFacts ==
    ASSUME NEW w \in Worlds, NEW p \in Peer, w.p[p].up, w.p[p].asking = "Nothing", Tracked(w),
           NEW r, r = AskAbove(w, p)
    PROVE  Requested(w, r) /\ r.w.s.common = w.s.common /\ r.w.s.last = w.s.last
<1> DEFINE needed == NeededBodies(w, p)
           gap    == GapHeaders(w, p)
           request == [start |-> Least(gap), count |-> Cardinality(gap)]
<1>1. CASE needed # {}
  <2>1. r = [w |-> RequestBodies(w, p, needed), asked |-> TRUE]
    BY <1>1 DEF AskAbove
  <2>2. needed \in SUBSET DOMAIN w.s.headers
    BY NeededFacts
  <2> HIDE DEF needed
  <2> QED BY <2>1, <2>2, RequestBodiesFacts DEF Requested
<1>2. CASE needed = {} /\ gap # {}
  <2>1. r = [w |-> AskHeaders(w, p, gap, gap, request), asked |-> TRUE]
    BY <1>2 DEF AskAbove, AskGap
  <2>2. gap \in SUBSET Nat /\ IsFiniteSet(gap)
    BY GapFacts
  <2> HIDE DEF gap
  <2>3. Least(gap) \in Nat
    BY <2>2, <1>2, LeastFacts
  <2>4. Cardinality(gap) \in Nat
    BY <2>2, FS_CardinalityType
  <2>5. request \in HeaderRequest
    BY <2>3, <2>4 DEF HeaderRequest
  <2>6. gap \in SUBSET gap
    OBVIOUS
  <2> HIDE DEF request
  <2> QED BY <2>1, <2>2, <2>5, <2>6, AskHeadersFacts DEF Requested
<1>3. CASE needed = {} /\ gap = {}
  <2>1. r = [w |-> w, asked |-> FALSE]
    BY <1>3 DEF AskAbove
  <2> QED BY <2>1, AsksSame DEF Requested
<1> QED BY <1>1, <1>2, <1>3

\* The common block is searched below the headers.
LEMMA AskBelowFacts ==
    ASSUME NEW w \in Worlds, NEW p \in Peer, w.p[p].up, w.p[p].asking = "Nothing", Tracked(w),
           ~w.s.common, head \in Block, NEW r, r = AskBelow(w, p)
    PROVE  Requested(w, r)
<1> DEFINE S     == {w.s.last} \cup {n - 1 : n \in DOMAIN w.s.headers}
           start == Least(S)
           s     == [w.s EXCEPT !.last = start, !.lastHash = NumberHash(start)]
           back  == [w EXCEPT !.s = s]
           zero  == [w EXCEPT !.s = [s EXCEPT !.common = TRUE]]
<1>1. start \in Nat /\ start <= w.s.last
  <2>1. /\ w.s.last \in Nat /\ DOMAIN w.s.headers \in SUBSET Nat /\ 0 \notin DOMAIN w.s.headers
    BY WorldFacts, NumberedFacts
  <2>2. S \in SUBSET Nat /\ w.s.last \in S
    BY <2>1
  <2> HIDE DEF S
  <2> QED BY <2>2, LeastFacts
<1>2. [w EXCEPT !.s.last = start, !.s.lastHash = NumberHash(start)] = back
  <2> HIDE DEF start
  <2> QED BY DEF Worlds
<1>3. r = IF start = 0 THEN AskAbove([back EXCEPT !.s.common = TRUE], p)
          ELSE [w |-> AskHeaders(back, p, {start}, {start}, [start |-> start, count |-> 1]), asked |-> TRUE]
  <2> DEFINE b == [w EXCEPT !.s.last = start, !.s.lastHash = NumberHash(start)]
  <2>1. r = IF start = 0 THEN AskAbove([b EXCEPT !.s.common = TRUE], p)
            ELSE [w |-> AskHeaders(b, p, {start}, {start}, [start |-> start, count |-> 1]), asked |-> TRUE]
    BY DEF AskBelow
  <2>2. b = back
    BY <1>2
  <2> HIDE DEF b, back
  <2> QED BY <2>1, <2>2
<1>4. NumberHash(start) \in Block \cup {NoBlock}
  <2> HIDE DEF start
  <2>1. Len(head) \in Nat
    BY PathFacts
  <2>2. start <= Len(head) => SubSeq(head, 1, start) \in Block
    BY <2>1, <1>1, PrefixFacts
  <2> QED BY <2>2 DEF NumberHash, Prefix
<1> HIDE DEF start
<1>5. /\ s \in SyncStates /\ [s EXCEPT !.common = TRUE] \in SyncStates
      /\ s.last = start /\ s.common = w.s.common
      /\ s.headers = w.s.headers /\ s.bodies = w.s.bodies /\ s.ids = w.s.ids
      /\ s.dlHeaders = w.s.dlHeaders /\ s.dlBodies = w.s.dlBodies
      /\ s.headerPeers = w.s.headerPeers /\ s.bodyPeers = w.s.bodyPeers
  BY <1>1, <1>4, WorldFacts DEF SyncStates
<1>6. /\ [s EXCEPT !.common = TRUE].last = start /\ [s EXCEPT !.common = TRUE].common
      /\ [s EXCEPT !.common = TRUE].headers = w.s.headers /\ [s EXCEPT !.common = TRUE].bodies = w.s.bodies
      /\ [s EXCEPT !.common = TRUE].ids = w.s.ids
      /\ [s EXCEPT !.common = TRUE].dlHeaders = w.s.dlHeaders
      /\ [s EXCEPT !.common = TRUE].dlBodies = w.s.dlBodies
      /\ [s EXCEPT !.common = TRUE].headerPeers = w.s.headerPeers
      /\ [s EXCEPT !.common = TRUE].bodyPeers = w.s.bodyPeers
  BY <1>1, <1>4, WorldFacts DEF SyncStates
<1> HIDE DEF s
<1>7. /\ back \in Worlds /\ back.s = s /\ back.p = w.p /\ back.q = w.q
      /\ zero \in Worlds /\ zero.s = [s EXCEPT !.common = TRUE] /\ zero.p = w.p /\ zero.q = w.q
      /\ [back EXCEPT !.s.common = TRUE] = zero
  BY <1>5 DEF Worlds
<1> HIDE DEF back, zero
<1>8. Tracked(back) /\ Tracked(zero)
  BY <1>5, <1>6, <1>7 DEF Tracked
<1>9. Asks(w, back) /\ (start = 0 => Asks(w, zero))
  BY <1>1, <1>5, <1>6, <1>7, WorldFacts DEF Asks
<1>10. CASE start = 0
  <2>1. r = AskAbove(zero, p)
    BY <1>3, <1>7, <1>10
  <2>2. Requested(zero, r)
    BY <2>1, <1>7, <1>8, AskAboveFacts
  <2> QED BY <2>2, <1>7, <1>9, <1>10, AsksTwice DEF Requested
<1>11. CASE start # 0
  <2> DEFINE request == [start |-> start, count |-> 1]
             a == AskHeaders(back, p, {start}, {start}, request)
  <2>1. request \in HeaderRequest /\ {start} \in SUBSET Nat /\ {start} \in SUBSET {start}
    BY <1>1 DEF HeaderRequest
  <2> HIDE DEF request
  <2>2. a \in Worlds /\ Tracked(a) /\ Asks(back, a)
    BY <2>1, <1>7, <1>8, AskHeadersFacts
  <2>3. r = [w |-> a, asked |-> TRUE]
    BY <1>3, <1>11 DEF request
  <2> HIDE DEF a
  <2>4. Asks(w, a)
    BY <2>2, <1>7, <1>9, AsksTwice
  <2> QED BY <2>2, <2>3, <2>4 DEF Requested
<1> QED BY <1>10, <1>11

\* requestBlocks asks a peer that is free, above or below the common block.
LEMMA RequestBlocksFacts ==
    ASSUME NEW w \in Worlds, NEW p \in Peer, w.p[p].up, w.p[p].asking = "Nothing", Tracked(w),
           head \in Block, NEW r, r = RequestBlocks(w, p)
    PROVE  Requested(w, r)
<1> DEFINE v == ClearPeerDownload(w, p)
           u == [v EXCEPT !.s = [v.s EXCEPT !.state = "Waiting"]]
<1>1. TrackedBut(w, p)
  BY DEF Tracked, TrackedBut
<1>2. v \in Worlds /\ Asks(w, v) /\ v.p = w.p /\ Tracked(v)
  BY <1>1, ClearFacts
<1>3. r = IF KnownFull(v.q) THEN [w |-> [v EXCEPT !.s.state = "Waiting"], asked |-> FALSE]
          ELSE IF v.s.common THEN AskAbove(v, p) ELSE AskBelow(v, p)
  BY DEF RequestBlocks
<1> HIDE DEF v
<1>4. CASE KnownFull(v.q)
  <2>1. [v EXCEPT !.s.state = "Waiting"] = u
    BY <1>2 DEF Worlds
  <2>2. [v.s EXCEPT !.state = "Waiting"] \in SyncStates
    BY <1>2, WorldFacts DEF SyncStates
  <2>3. u \in Worlds /\ u.p = v.p /\ u.q = v.q /\ u.s = [v.s EXCEPT !.state = "Waiting"]
    BY <1>2, <2>2 DEF Worlds
  <2>4. /\ u.s.headers = v.s.headers /\ u.s.bodies = v.s.bodies /\ u.s.ids = v.s.ids
        /\ u.s.common = v.s.common /\ u.s.last = v.s.last
        /\ u.s.dlHeaders = v.s.dlHeaders /\ u.s.dlBodies = v.s.dlBodies
        /\ u.s.headerPeers = v.s.headerPeers /\ u.s.bodyPeers = v.s.bodyPeers
    BY <2>3, <1>2, WorldFacts DEF SyncStates
  <2> HIDE DEF u
  <2>5. Tracked(u)
    BY <1>2, <2>3, <2>4 DEF Tracked
  <2>6. Asks(v, u)
    BY <1>2, <2>3, <2>4, WorldFacts DEF Asks
  <2>7. Asks(w, u)
    BY <1>2, <2>3, <2>6, AsksTwice
  <2>8. r = [w |-> u, asked |-> FALSE]
    BY <1>3, <1>4, <2>1
  <2> QED BY <2>3, <2>5, <2>7, <2>8 DEF Requested
<1>5. CASE ~KnownFull(v.q) /\ v.s.common
  <2>1. Requested(v, r)
    BY <1>2, <1>3, <1>5, AskAboveFacts
  <2> QED BY <2>1, <1>2, AsksTwice DEF Requested
<1>6. CASE ~KnownFull(v.q) /\ ~v.s.common
  <2>1. Requested(v, r)
    BY <1>2, <1>3, <1>6, AskBelowFacts
  <2> QED BY <2>1, <1>2, AsksTwice DEF Requested
<1> QED BY <1>4, <1>5, <1>6

\* syncPeer asks a connected peer, and only if it is free.
LEMMA SyncPeerFacts ==
    ASSUME NEW w \in Worlds, NEW p \in Peer, w.p[p].up, Tracked(w), head \in Block,
           NEW force, NEW r, r = SyncPeer(w, p, force)
    PROVE  Requested(w, r)
<1>1. CASE r = [w |-> w, asked |-> FALSE]
  BY <1>1, AsksSame DEF Requested
<1>2. CASE w.p[p].asking = "Nothing" /\ r = RequestBlocks(w, p)
  BY <1>2, RequestBlocksFacts
<1> DEFINE mine == w.s.headerPeers[p] \cup {w.p[p].height}
           a == AskHeaders(w, p, {w.p[p].height}, mine, [hash |-> w.p[p].latest])
           t == [a EXCEPT !.s.syncTD = w.p[p].td,
                          !.s.state = IF @ \in {"Idle", "NotSynced"} THEN "Blocks" ELSE @]
<1>3. CASE w.p[p].asking = "Nothing" /\ r = [w |-> t, asked |-> TRUE]
  <2>1. /\ w.p[p].td \in Nat /\ {w.p[p].height} \in SUBSET mine /\ mine \in SUBSET Nat
        /\ [hash |-> w.p[p].latest] \in HeaderRequest
    BY WorldFacts DEF HeaderRequest
  <2> HIDE DEF mine
  <2>2. a \in Worlds /\ Tracked(a) /\ Asks(w, a)
    BY <1>3, <2>1, AskHeadersFacts
  <2> HIDE DEF a
  <2> DEFINE s == [a.s EXCEPT !.syncTD = w.p[p].td,
                              !.state = IF a.s.state \in {"Idle", "NotSynced"} THEN "Blocks" ELSE a.s.state]
  <2>3. s \in SyncStates
    BY <2>1, <2>2, WorldFacts DEF SyncStates
  <2>4. /\ s.headers = a.s.headers /\ s.bodies = a.s.bodies /\ s.ids = a.s.ids
        /\ s.common = a.s.common /\ s.last = a.s.last
        /\ s.dlHeaders = a.s.dlHeaders /\ s.dlBodies = a.s.dlBodies
        /\ s.headerPeers = a.s.headerPeers /\ s.bodyPeers = a.s.bodyPeers
    BY <2>2, WorldFacts DEF SyncStates
  <2>5. t = [a EXCEPT !.s = s]
    <3>1. a.s \in SyncStates
      BY <2>2, WorldFacts
    <3>2. [a.s EXCEPT !.syncTD = w.p[p].td].state = a.s.state
      BY <3>1 DEF SyncStates
    <3> QED BY <2>2, <3>2 DEF Worlds
  <2> HIDE DEF s
  <2>6. t \in Worlds /\ t.s = s /\ t.p = a.p /\ t.q = a.q
    BY <2>2, <2>3, <2>5 DEF Worlds
  <2> HIDE DEF t
  <2>7. Tracked(t)
    BY <2>2, <2>4, <2>6 DEF Tracked
  <2>8. Asks(a, t)
    BY <2>2, <2>4, <2>6, WorldFacts DEF Asks
  <2>9. Asks(w, t)
    BY <2>2, <2>6, <2>8, AsksTwice
  <2> QED BY <1>3, <2>6, <2>7, <2>9 DEF Requested
<1> HIDE DEF t
<1>4. \/ r = [w |-> w, asked |-> FALSE]
      \/ w.p[p].asking = "Nothing" /\ r = [w |-> t, asked |-> TRUE]
      \/ w.p[p].asking = "Nothing" /\ r = RequestBlocks(w, p)
  BY DEF SyncPeer, t
<1> QED BY <1>1, <1>2, <1>3, <1>4

\* continueSync asks the peers one after the other.
LEMMA ContinueSyncFacts ==
    ASSUME NEW w \in Worlds, Tracked(w), head \in Block, NEW order \in Orders,
           NEW r, r = ContinueSync(w, order)
    PROVE  Requested(w, r)
<1> DEFINE n == Cardinality(Peer)
           T == {x \in [w : Worlds, asked : BOOLEAN] : Requested(w, x)}
           F == [k \in 1..n |-> [x \in T |-> ContinueOne(x, order[k])]]
           a == [w |-> w, asked |-> FALSE]
<1>1. n \in Nat /\ \A k \in 1..n : order[k] \in Peer
  BY BlockChainSyncAssumption, FS_CardinalityType DEF Orders
<1>2. a \in T
  BY AsksSame DEF Requested
<1>3. ASSUME NEW k \in 1..n, NEW x \in T PROVE ContinueOne(x, order[k]) \in T
  <2> DEFINE p == order[k]
             t == SyncPeer(x.w, p, FALSE)
             y == [w |-> t.w, asked |-> x.asked \/ t.asked]
  <2>1. p \in Peer /\ x.w \in Worlds /\ Tracked(x.w) /\ Asks(w, x.w) /\ x.asked \in BOOLEAN
    BY <1>1, <1>3 DEF Requested
  <2> HIDE DEF p
  <2>2. CASE x.w.p[p].up
    <3>1. Requested(x.w, t)
      BY <2>1, <2>2, SyncPeerFacts
    <3> HIDE DEF t
    <3>2. t.w \in Worlds /\ Tracked(t.w) /\ Asks(w, t.w) /\ t.asked \in BOOLEAN
      BY <2>1, <3>1, AsksTwice DEF Requested
    <3>3. y \in T
      BY <2>1, <3>2 DEF Requested
    <3> QED BY <3>3, <2>2 DEF ContinueOne, t, p
  <2>3. CASE ~x.w.p[p].up
    BY <1>3, <2>3 DEF ContinueOne, p
  <2> QED BY <2>2, <2>3
<1> HIDE DEF n, T, a
<1>4. F \in [1..n -> [T -> T]]
  BY <1>3
<1>5. PICK g \in [0..n -> T] : g[0] = a /\ \A k \in 1..n : g[k] = F[k][g[k - 1]]
  <2> HIDE DEF F
  <2> QED BY ONLY <1>1, <1>2, <1>4, Iteration
<1>6. ASSUME NEW k \in 1..n PROVE g[k] = ContinueOne(g[k - 1], order[k])
  <2>1. g[k - 1] \in T
    BY <1>1, <1>5
  <2> QED BY <2>1, <1>5
<1>7. g = [k \in 0..n |-> IF k = 0 THEN a ELSE ContinueOne(g[k - 1], order[k])]
  <2> HIDE DEF F
  <2> QED BY <1>1, <1>5, <1>6
<1> DEFINE f == Continues(w, order)
<1>8. f = [k \in 0..n |-> IF k = 0 THEN a ELSE ContinueOne(f[k - 1], order[k])]
  BY <1>7, Zenon DEF Continues, n, a
<1> HIDE DEF f
<1>9. f[0] = a /\ \A k \in 1..n : f[k] = ContinueOne(f[k - 1], order[k])
  BY <1>1, <1>8
<1>10. \A k \in 0..n : f[k] \in T
  BY <1>1, <1>2, <1>3, <1>9, StaysIn
<1>11. f[n] \in T
  BY <1>1, <1>10
<1>12. r = f[n]
  BY DEF ContinueSync, f, n
<1> QED BY <1>11, <1>12 DEF T

-----------------------------------------------------------------------------
(* The downloads start over, or are given up.                              *)

\* What holds of the node's blocks: they are whole chains that can be enacted.
Base ==
    /\ known \subseteq Block /\ head \in known
    /\ \A b \in known : Path(b) \subseteq known /\ Path(b) \cap Bad = {}

\* The node has the genesis.
LEMMA BaseFacts ==
    ASSUME Base
    PROVE  head \in Block /\ Len(head) \in Nat /\ <<>> \in known
BY PathFacts DEF Base

\* resetSync and completeSync empty the downloads and keep the last block.
LEMMA ResetFacts ==
    ASSUME NEW s \in SyncStates, NEW t, t = ResetSync(s) \/ t = CompleteSync(s)
    PROVE  /\ t \in SyncStates /\ t.headers = Empty /\ t.bodies = Empty
           /\ t.dlHeaders = {} /\ t.dlBodies = {} /\ t.common = s.common /\ t.last = s.last
<1>1. /\ ResetSync(s) \in SyncStates /\ ResetSync(s).headers = Empty /\ ResetSync(s).bodies = Empty
      /\ ResetSync(s).dlHeaders = {} /\ ResetSync(s).dlBodies = {}
      /\ ResetSync(s).common = s.common /\ ResetSync(s).last = s.last
  <2>1. Empty \in Numbered
    BY EmptyFacts
  <2> HIDE DEF Empty
  <2> QED BY <2>1 DEF ResetSync, SyncStates
<1>2. ASSUME NEW u \in SyncStates, NEW x, x = [u EXCEPT !.state = "Idle"]
      PROVE  /\ x \in SyncStates /\ x.headers = u.headers /\ x.bodies = u.bodies
             /\ x.dlHeaders = u.dlHeaders /\ x.dlBodies = u.dlBodies
             /\ x.common = u.common /\ x.last = u.last
  BY <1>2 DEF SyncStates
<1>3. CompleteSync(s) = [ResetSync(s) EXCEPT !.state = "Idle"]
  BY DEF CompleteSync
<1> QED BY <1>1, <1>2, <1>3

\* Empty downloads are in order.
LEMMA EmptySane ==
    ASSUME NEW w \in Worlds, w.s.headers = Empty, w.s.bodies = Empty, w.s.dlHeaders = {}, w.s.dlBodies = {},
           Drained(w.q)
    PROVE  Sane(w)
<1>1. DOMAIN Empty = {}
  BY EmptyFacts
<1> HIDE DEF Empty
<1> QED BY <1>1 DEF Sane, Tracked, Fit

\* restartSync empties the downloads and the block queue, but for the bad blocks.
LEMMA RestartFacts ==
    ASSUME NEW w \in Worlds, Base, NEW v, v = RestartSync(w)
    PROVE  /\ v \in Worlds /\ Sane(v) /\ v.p = w.p /\ v.s.headers = Empty /\ v.s.last = Len(head) /\ ~v.s.common
           /\ v.q.ready = {} /\ v.q.pipe = {} /\ v.q.draining = {} /\ v.q.unknown = {} /\ v.q.bad = w.q.bad
<1> DEFINE r == ResetSync(w.s)
           s == [r EXCEPT !.common = FALSE, !.last = Len(head), !.lastHash = head]
           q == [w.q EXCEPT !.ready = {}, !.pipe = {}, !.draining = {}, !.unknown = {}, !.difficulty = 0]
<1>1. v = [w EXCEPT !.s = s, !.q = q]
  BY DEF RestartSync
<1>2. r \in SyncStates /\ r.headers = Empty /\ r.bodies = Empty /\ r.dlHeaders = {} /\ r.dlBodies = {}
  BY WorldFacts, ResetFacts
<1>3. q \in QueueStates /\ q.ready = {} /\ q.pipe = {} /\ q.draining = {} /\ q.unknown = {} /\ q.bad = w.q.bad
  <2>1. w.q \in QueueStates
    BY WorldFacts
  <2>2. ASSUME NEW x \in QueueStates, NEW e \in SUBSET Fresh, NEW z \in Int
        PROVE  [x EXCEPT !.ready = e, !.pipe = e, !.draining = e, !.unknown = e, !.difficulty = z] \in QueueStates
    BY <2>2 DEF QueueStates
  <2>3. {} \in SUBSET Fresh /\ 0 \in Int
    OBVIOUS
  <2>4. \A e \in SUBSET Fresh, z \in Int :
           [w.q EXCEPT !.ready = e, !.pipe = e, !.draining = e, !.unknown = e, !.difficulty = z] \in QueueStates
    BY <2>1, <2>2
  <2>5. q.ready = {} /\ q.pipe = {} /\ q.draining = {} /\ q.unknown = {} /\ q.bad = w.q.bad
    BY <2>1 DEF QueueStates
  <2> QED BY <2>3, <2>4, <2>5
<1> HIDE DEF r, q
<1>4. /\ s \in SyncStates /\ s.headers = Empty /\ s.bodies = Empty /\ s.dlHeaders = {} /\ s.dlBodies = {}
      /\ s.last = Len(head) /\ ~s.common
  BY <1>2, BaseFacts DEF SyncStates
<1> HIDE DEF s
<1>5. v \in Worlds /\ v.s = s /\ v.q = q /\ v.p = w.p
  BY <1>1, <1>3, <1>4 DEF Worlds
<1>6. Drained(v.q)
  BY <1>3, <1>5 DEF Drained
<1>7. Sane(v)
  BY <1>4, <1>5, <1>6, EmptySane
<1> QED BY <1>3, <1>4, <1>5, <1>7

-----------------------------------------------------------------------------
(* The block queue.                                                        *)

\* The answer to an import, and the queue after it.
LEMMA ImportFacts ==
    ASSUME NEW q \in QueueStates, NEW b \in Block, <<>> \in known,
           NEW r, r = ImportResult(q, b), NEW t, t = Imported(q, b)
    PROVE  /\ r \in {"AlreadyKnown", "AlreadyInChain", "BadChain", "Success", "UnknownParent"}
           /\ t \in QueueStates /\ t.draining = q.draining /\ q.bad \subseteq t.bad
           /\ r \in {"AlreadyKnown", "AlreadyInChain"} => t = q /\ (QueueHas(q, b) \/ b \in known)
           /\ r \notin {"AlreadyKnown", "AlreadyInChain"} => b \in Fresh /\ ~QueueHas(q, b) /\ b \notin known
           /\ r = "BadChain" => Parent(b) \in q.bad
           /\ r = "Success" => Parent(b) \in q.ready \cup q.draining \cup known
           /\ r = "UnknownParent" => Parent(b) \notin q.ready \cup q.draining \cup known \cup q.bad
           /\ q.unknown = {} /\ r = "Success" =>
                 /\ t.ready = q.ready \cup {b} /\ t.pipe = q.pipe \cup {b}
                 /\ t.bad = q.bad /\ t.unknown = {}
<1> DEFINE f == Following(b, q.unknown)
<1>1. /\ r \in {"AlreadyKnown", "AlreadyInChain", "BadChain", "Success", "UnknownParent"}
      /\ r \in {"AlreadyKnown", "AlreadyInChain"} => QueueHas(q, b) \/ b \in known
      /\ r \notin {"AlreadyKnown", "AlreadyInChain"} => ~QueueHas(q, b) /\ b \notin known
      /\ r = "BadChain" => Parent(b) \in q.bad
      /\ r = "Success" => Parent(b) \in q.ready \cup q.draining \cup known
      /\ r = "UnknownParent" => Parent(b) \notin q.ready \cup q.draining \cup known \cup q.bad
  BY DEF ImportResult
<1>2. r \notin {"AlreadyKnown", "AlreadyInChain"} => b \in Fresh
  BY <1>1 DEF Fresh
<1>3. f \subseteq q.unknown
  BY DEF Following
<1>4. t = IF r = "Success"
          THEN [q EXCEPT !.ready = @ \cup {b} \cup f, !.pipe = @ \cup {b} \cup f, !.unknown = @ \ f,
                         !.difficulty = @ + 1]
          ELSE IF r = "BadChain" THEN [q EXCEPT !.bad = @ \cup {b} \cup f, !.unknown = @ \ f]
          ELSE IF r = "UnknownParent" THEN [q EXCEPT !.unknown = @ \cup {b}, !.difficulty = @ + 1]
          ELSE q
  BY DEF Imported
<1> HIDE DEF f
<1>5. CASE r = "Success"
  <2>1. t = [q EXCEPT !.ready = @ \cup {b} \cup f, !.pipe = @ \cup {b} \cup f, !.unknown = @ \ f,
                      !.difficulty = @ + 1]
    BY <1>4, <1>5
  <2>2. t = [ready |-> q.ready \cup {b} \cup f, pipe |-> q.pipe \cup {b} \cup f, draining |-> q.draining,
             unknown |-> q.unknown \ f, bad |-> q.bad, difficulty |-> q.difficulty + 1]
    BY <2>1 DEF QueueStates
  <2>3. /\ q.ready \cup {b} \cup f \in SUBSET Fresh /\ q.pipe \cup {b} \cup f \in SUBSET Fresh
        /\ q.unknown \ f \in SUBSET Fresh /\ q.difficulty + 1 \in Int
        /\ q.draining \in SUBSET Fresh /\ q.bad \in SUBSET Fresh
    BY <1>2, <1>3, <1>5 DEF QueueStates
  <2>4. t \in QueueStates
    BY <2>2, <2>3 DEF QueueStates
  <2>5. /\ t.ready = q.ready \cup {b} \cup f /\ t.pipe = q.pipe \cup {b} \cup f
        /\ t.bad = q.bad /\ t.unknown = q.unknown \ f /\ t.draining = q.draining
    BY <2>2
  <2> QED BY <2>4, <2>5, <1>1, <1>2, <1>3, <1>5
<1>6. CASE r = "BadChain"
  <2>1. t = [q EXCEPT !.bad = @ \cup {b} \cup f, !.unknown = @ \ f]
    BY <1>4, <1>6
  <2>2. t \in QueueStates /\ t.draining = q.draining /\ t.bad = q.bad \cup {b} \cup f
    BY <2>1, <1>2, <1>3, <1>6 DEF QueueStates
  <2> QED BY <2>2, <1>1, <1>2, <1>6
<1>7. CASE r = "UnknownParent"
  <2>1. t = [q EXCEPT !.unknown = @ \cup {b}, !.difficulty = @ + 1]
    BY <1>4, <1>7
  <2>2. t = [ready |-> q.ready, pipe |-> q.pipe, draining |-> q.draining, unknown |-> q.unknown \cup {b},
             bad |-> q.bad, difficulty |-> q.difficulty + 1]
    BY <2>1 DEF QueueStates
  <2>3. /\ q.unknown \cup {b} \in SUBSET Fresh /\ q.difficulty + 1 \in Int /\ q.ready \in SUBSET Fresh
        /\ q.pipe \in SUBSET Fresh /\ q.draining \in SUBSET Fresh /\ q.bad \in SUBSET Fresh
    BY <1>2, <1>7 DEF QueueStates
  <2>4. t \in QueueStates /\ t.draining = q.draining /\ t.bad = q.bad
    BY <2>2, <2>3 DEF QueueStates
  <2> QED BY <2>4, <1>1, <1>2, <1>7
<1>8. CASE r \in {"AlreadyKnown", "AlreadyInChain"}
  BY <1>1, <1>4, <1>8
<1> QED BY <1>1, <1>5, <1>6, <1>7, <1>8

-----------------------------------------------------------------------------
(* One chain.  While the node's blocks and those of the peers are of one   *)
(* chain and no block was found bad, the downloads and the block queue     *)
(* hold blocks of that chain only.                                         *)

Chain == known \cup UNION {Path(Served[p]) : p \in Peer}

Clean(q) == OneChain /\ q.bad = {}

\* haveBlock, as a set
Had(q) == known \cup q.ready \cup q.draining

\* The client thread holds a block that follows one of the database, whatever
\* became of the queue it was taken from.
HandLinear == hand = NoBlock \/ (hand \in Chain /\ Parent(hand) \in known)

\* The queue holds whole chains above the node's, each block still on its way.
QueueLinear(q) ==
    /\ q.ready \cup q.draining \subseteq Chain /\ q.unknown = {} /\ q.bad = {} /\ q.pipe = q.ready
    /\ \A b \in q.ready \cup q.draining : Path(b) \subseteq Had(q)
    /\ HandLinear

\* The last block has been imported, at least into the queue.
LastLinear(q, n) == \E b \in Had(q) : Len(b) = n

\* Every header is above the last block and is not of a block of the database.
\* It may be of a block that the queue has got in between, from a peer or from
\* the consensus, but the queue has nothing above it.
HeadersLinear(s, q) ==
    \A n \in DOMAIN s.headers :
        /\ s.headers[n] \in Chain /\ s.headers[n] \notin known /\ n > s.last
        /\ \A c \in Had(q) : Len(c) <= n

Linear(w) == QueueLinear(w.q) /\ LastLinear(w.q, w.s.last) /\ HeadersLinear(w.s, w.q)

Ordered(w) == Sane(w) /\ (Clean(w.q) => Linear(w))

\* The blocks of the chain are those of one path.
LEMMA ChainFacts ==
    ASSUME Base, OneChain
    PROVE  /\ Chain \subseteq Block /\ known \subseteq Chain
           /\ \A p \in Peer : Path(Served[p]) \subseteq Chain
           /\ \A b \in Chain : Path(b) \subseteq Chain /\ Len(b) \in Nat
           /\ \A b, c \in Chain : Len(b) <= Len(c) => b \in Path(c)
           /\ \A b, c \in Chain : Len(b) = Len(c) => b = c
<1> DEFINE Ends == known \cup {Served[p] : p \in Peer}
<1>1. Ends \subseteq Block /\ \A b, c \in Ends : b \in Path(c) \/ c \in Path(b)
  BY BlockChainSyncAssumption DEF Base, OneChain
<1>2. \A b \in Chain : \E e \in Ends : b \in Path(e)
  <2>1. \A b \in known : b \in Path(b)
    BY PathFacts DEF Base
  <2> QED BY <2>1 DEF Chain
<1>3. ASSUME NEW e \in Ends PROVE Path(e) \subseteq Chain
  BY <1>3 DEF Chain, Base
<1> HIDE DEF Ends
<1>4. ASSUME NEW b \in Chain PROVE b \in Block /\ Len(b) \in Nat /\ Path(b) \subseteq Chain
  <2>1. PICK e \in Ends : b \in Path(e)
    BY <1>2
  <2>2. b \in Block /\ Path(b) \subseteq Path(e)
    BY <1>1, <2>1, PathFacts
  <2>3. Len(b) \in Nat
    BY <2>2, PathFacts
  <2> QED BY <2>1, <2>2, <2>3, <1>3
<1>5. ASSUME NEW b \in Chain, NEW c \in Chain PROVE b \in Path(c) \/ c \in Path(b)
  <2>1. PICK d \in Ends, e \in Ends : b \in Path(d) /\ c \in Path(e)
    BY <1>2
  <2>2. CASE d \in Path(e)
    <3>1. b \in Path(e)
      BY <2>1, <2>2, <1>1, PathFacts
    <3> QED BY <3>1, <2>1, <1>1, PathFacts
  <2>3. CASE e \in Path(d)
    <3>1. c \in Path(d)
      BY <2>1, <2>3, <1>1, PathFacts
    <3> QED BY <3>1, <2>1, <1>1, PathFacts
  <2> QED BY <2>2, <2>3, <1>1
<1>6. ASSUME NEW b \in Chain, NEW c \in Chain, Len(b) <= Len(c) PROVE b \in Path(c)
  <2>1. CASE c \in Path(b)
    <3>1. Len(c) \in 0..Len(b) /\ (Len(c) = Len(b) => c = b) /\ b \in Path(b)
      BY <2>1, <1>4, PathFacts
    <3>2. Len(c) = Len(b)
      BY <3>1, <1>4, <1>6
    <3> QED BY <3>1, <3>2
  <2> QED BY <2>1, <1>5
<1>7. ASSUME NEW b \in Chain, NEW c \in Chain, Len(b) = Len(c) PROVE b = c
  BY <1>4, <1>5, <1>7, SameNumber
<1>8. known \subseteq Chain /\ \A p \in Peer : Path(Served[p]) \subseteq Chain
  BY DEF Chain
<1> QED BY <1>4, <1>6, <1>7, <1>8

\* What the queue has reaches down to the genesis, and everything at or below
\* the last block is had.
LEMMA HadFacts ==
    ASSUME Base, OneChain, NEW q, QueueLinear(q)
    PROVE  /\ Had(q) \subseteq Chain /\ known \subseteq Had(q)
           /\ \A b \in Had(q) : Path(b) \subseteq Had(q)
           /\ \A n \in Nat, b \in Chain : LastLinear(q, n) /\ Len(b) <= n => b \in Had(q)
           /\ \A b \in Had(q), c \in Chain : c \notin Had(q) => Len(b) < Len(c)
<1>1. Had(q) \subseteq Chain /\ known \subseteq Had(q)
  BY ChainFacts DEF QueueLinear, Had
<1>2. \A b \in Had(q) : Path(b) \subseteq Had(q)
  BY DEF QueueLinear, Had, Base
<1>3. ASSUME NEW n \in Nat, NEW b \in Chain, LastLinear(q, n), Len(b) <= n PROVE b \in Had(q)
  <2>1. PICK c \in Had(q) : Len(c) = n
    BY <1>3 DEF LastLinear
  <2>2. b \in Path(c)
    BY <1>1, <1>3, <2>1, ChainFacts
  <2> QED BY <2>1, <2>2, <1>2
<1>4. ASSUME NEW b \in Had(q), NEW c \in Chain, c \notin Had(q) PROVE Len(b) < Len(c)
  <2>1. b \in Chain /\ Len(b) \in Nat /\ Len(c) \in Nat
    BY <1>1, ChainFacts
  <2>2. ~(Len(c) <= Len(b))
    BY <2>1, <1>2, <1>4, ChainFacts
  <2> QED BY <2>1, <2>2
<1> QED BY <1>1, <1>2, <1>3, <1>4

\* A block of the chain goes to the queue: its parent decides.
LEMMA ImportLinear ==
    ASSUME Base, OneChain, NEW q \in QueueStates, QueueLinear(q), NEW b \in Chain,
           NEW r, r = ImportResult(q, b), NEW t, t = Imported(q, b)
    PROVE  /\ r # "BadChain"
           /\ r = "Success" => QueueLinear(t) /\ Had(t) = Had(q) \cup {b}
           /\ r \in {"AlreadyKnown", "AlreadyInChain"} => t = q /\ b \in Had(q)
           /\ r = "UnknownParent" => b \in Fresh /\ Parent(b) \notin Had(q)
<1>1. b \in Block /\ <<>> \in known /\ q.unknown = {} /\ q.bad = {}
  BY BaseFacts, ChainFacts DEF QueueLinear
<1>2. /\ r \notin {"AlreadyKnown", "AlreadyInChain"} => b \in Fresh
      /\ t.draining = q.draining
      /\ r = "BadChain" => Parent(b) \in q.bad
      /\ r = "Success" => Parent(b) \in q.ready \cup q.draining \cup known
      /\ r = "UnknownParent" => Parent(b) \notin q.ready \cup q.draining \cup known \cup q.bad
      /\ r = "Success" => /\ t.ready = q.ready \cup {b} /\ t.pipe = q.pipe \cup {b}
                          /\ t.bad = q.bad /\ t.unknown = {}
  BY <1>1, ImportFacts
<1>3. CASE r = "Success"
  <2>1. /\ b \in Fresh /\ Parent(b) \in Had(q) /\ t.draining = q.draining
        /\ t.ready = q.ready \cup {b} /\ t.pipe = q.pipe \cup {b} /\ t.bad = {} /\ t.unknown = {}
    BY <1>3, <1>1, <1>2 DEF Had
  <2>2. Had(t) = Had(q) \cup {b}
    BY <2>1 DEF Had
  <2>3. Path(b) \subseteq Had(t)
    BY <2>1, <2>2, HadFacts, ParentFacts
  <2>4. \A c \in t.ready \cup t.draining : Path(c) \subseteq Had(t)
    BY <2>1, <2>2, <2>3 DEF QueueLinear
  <2>5. t.ready \cup t.draining \subseteq Chain /\ t.pipe = t.ready
    BY <2>1 DEF QueueLinear
  <2>6. QueueLinear(t)
    BY <2>1, <2>4, <2>5 DEF QueueLinear
  <2> QED BY <1>3, <2>2, <2>6
<1>4. r # "BadChain"
  BY <1>1, <1>2
<1>5. CASE r \in {"AlreadyKnown", "AlreadyInChain"}
  BY <1>1, <1>5, ImportFacts DEF QueueHas, Had
<1>6. CASE r = "UnknownParent"
  BY <1>6, <1>2 DEF Had
<1> QED BY <1>3, <1>4, <1>5, <1>6

\* Requests keep the order.
LEMMA AsksLinear ==
    ASSUME Base, OneChain, NEW w \in Worlds, NEW v \in Worlds, Asks(w, v), Linear(w)
    PROVE  Linear(v)
<1>1. Linear(w) /\ w.s.last \in Nat /\ v.s.last \in Nat /\ v.q = w.q /\ v.s.last <= w.s.last
  BY WorldFacts DEF Asks
<1>2. QueueLinear(v.q)
  BY <1>1 DEF Linear
<1>3. LastLinear(v.q, v.s.last)
  <2>1. PICK b \in Had(w.q) : Len(b) = w.s.last
    BY <1>1 DEF Linear, LastLinear
  <2>2. b \in Block /\ Path(b) \subseteq Had(w.q)
    BY <1>1, <2>1, HadFacts, ChainFacts DEF Linear
  <2> DEFINE c == SubSeq(b, 1, v.s.last)
  <2>3. v.s.last \in 0..Len(b)
    BY <1>1, <2>1
  <2>4. c \in Path(b) /\ Len(c) = v.s.last
    BY <2>2, <2>3, PathFacts, PrefixFacts
  <2> QED BY <2>2, <2>4, <1>1 DEF LastLinear
<1>4. HeadersLinear(v.s, v.q)
  <2>1. v.s.headers = w.s.headers /\ DOMAIN v.s.headers \in SUBSET Nat
    BY WorldFacts, NumberedFacts DEF Asks
  <2>2. ASSUME NEW n \in DOMAIN v.s.headers PROVE n > v.s.last
    <3>1. n \in Nat /\ n > w.s.last
      BY <1>1, <2>1, <2>2 DEF Linear, HeadersLinear
    <3> QED BY <1>1, <3>1
  <2> QED BY <2>1, <2>2, <1>1 DEF Linear, HeadersLinear
<1> QED BY <1>2, <1>3, <1>4 DEF Linear

\* A request leaves an ordered world.
LEMMA RequestedOrdered ==
    ASSUME Base, NEW w, Ordered(w), NEW r, Requested(w, r)
    PROVE  Ordered(r.w)
<1> DEFINE v == r.w
<1>1. w \in Worlds /\ v \in Worlds /\ Tracked(v) /\ Fit(w.s) /\ Drained(w.q) /\ Asks(w, v)
  BY DEF Ordered, Sane, Requested
<1> HIDE DEF v
<1>2. Fit(v.s) /\ v.q = w.q
  BY <1>1, AsksFit DEF Asks
<1>3. Clean(v.q) => Linear(v)
  BY <1>1, <1>2, AsksLinear DEF Ordered, Clean
<1>4. Ordered(v)
  BY <1>1, <1>2, <1>3 DEF Ordered, Sane
<1> QED BY <1>4 DEF v

\* Without headers there is no order to break.
LEMMA EmptyLinear ==
    ASSUME NEW w, w.s.headers = Empty, QueueLinear(w.q), LastLinear(w.q, w.s.last)
    PROVE  Linear(w)
<1>1. DOMAIN w.s.headers = {}
  BY EmptyFacts
<1> QED BY <1>1 DEF Linear, HeadersLinear

\* restartSync brings the order back.
LEMMA RestartOrdered ==
    ASSUME Base, NEW w \in Worlds, Clean(w.q) => QueueLinear(w.q), NEW v, v = RestartSync(w)
    PROVE  Ordered(v) /\ v.p = w.p
<1>1. /\ Sane(v) /\ v.p = w.p /\ v.s.headers = Empty /\ v.s.last = Len(head)
      /\ v.q.ready = {} /\ v.q.pipe = {} /\ v.q.draining = {} /\ v.q.unknown = {} /\ v.q.bad = w.q.bad
  BY RestartFacts
<1>2. ASSUME Clean(v.q) PROVE Linear(v)
  <2>1. Had(v.q) = known
    BY <1>1 DEF Had
  <2>2. QueueLinear(v.q)
    <3>1. QueueLinear(w.q)
      BY <1>1, <1>2 DEF Clean
    <3> QED BY <1>1, <3>1, <2>1 DEF QueueLinear
  <2>3. LastLinear(v.q, v.s.last)
    BY <1>1, <2>1 DEF LastLinear, Base
  <2> QED BY <1>1, <2>2, <2>3, EmptyLinear
<1> QED BY <1>1, <1>2 DEF Ordered

-----------------------------------------------------------------------------
(* collectBlocks.                                                          *)

\* collectBlocks forgets no bad block, and until it stops it only moves the last
\* block on and marks numbers as done.
Collecting(w, c) ==
    /\ c \in [w : Worlds, stop : BOOLEAN] /\ Sane(c.w) /\ w.q.bad \subseteq c.w.q.bad
    /\ ~c.stop => /\ c.w.s.headers = w.s.headers /\ c.w.s.bodies = w.s.bodies
                  /\ c.w.s.ids = w.s.ids /\ c.w.s.common = w.s.common

\* After blocks up to number n were collected, from a world w whose blocks were
\* lower than number a.
Collected(w, c, a, n) ==
    /\ ~c.stop /\ QueueLinear(c.w.q) /\ LastLinear(c.w.q, c.w.s.last) /\ c.w.s.last <= n
    /\ LastLinear(c.w.q, n)
    /\ \A b \in Had(c.w.q) \ Had(w.q) : \E m \in a..n : b = w.s.headers[m]

\* A world with another queue.
LEMMA WithQueue ==
    ASSUME NEW w \in Worlds, NEW q \in QueueStates, NEW v, v = [w EXCEPT !.q = q]
    PROVE  v \in Worlds /\ v.s = w.s /\ v.p = w.p /\ v.q = q
BY DEF Worlds

\* ... or other downloads.
LEMMA WithSync ==
    ASSUME NEW w \in Worlds, NEW s \in SyncStates, NEW v, v = [w EXCEPT !.s = s]
    PROVE  v \in Worlds /\ v.s = s /\ v.p = w.p /\ v.q = w.q
BY DEF Worlds

\* Fewer notes are still tracked.
LEMMA FewerTracked ==
    ASSUME NEW w, NEW v, v.p = w.p, v.s.dlHeaders \subseteq w.s.dlHeaders, v.s.dlBodies \subseteq w.s.dlBodies,
           v.s.headerPeers = w.s.headerPeers, v.s.bodyPeers = w.s.bodyPeers, Tracked(w)
    PROVE  Tracked(v)
BY DEF Tracked

\* One block is collected.
LEMMA CollectOneFacts ==
    ASSUME Base, NEW c \in [w : Worlds, stop : BOOLEAN], Sane(c.w), ~c.stop,
           NEW n \in DOMAIN c.w.s.headers, NEW d, d = CollectOne(c, n)
    PROVE  /\ Collecting(c.w, d)
           /\ OneChain /\ QueueLinear(c.w.q) /\ LastLinear(c.w.q, c.w.s.last)
              /\ c.w.s.headers[n] \in Chain /\ LastLinear(c.w.q, n - 1) =>
                 /\ ~d.stop /\ QueueLinear(d.w.q) /\ LastLinear(d.w.q, d.w.s.last)
                 /\ d.w.s.last \in {c.w.s.last, n} /\ LastLinear(d.w.q, n)
                 /\ Had(d.w.q) \subseteq Had(c.w.q) \cup {c.w.s.headers[n]}
<1> DEFINE b == c.w.s.headers[n]
           r == ImportResult(c.w.q, b)
           t == Imported(c.w.q, b)
           v == [c.w EXCEPT !.q = t]
           s == [c.w.s EXCEPT !.dlHeaders = @ \ {n}, !.dlBodies = @ \ {n},
                              !.last = IF n > c.w.s.last THEN n ELSE c.w.s.last,
                              !.lastHash = IF n > c.w.s.last THEN b ELSE c.w.s.lastHash]
<1>1. c.w \in Worlds /\ c.w.q \in QueueStates /\ c.w.s \in SyncStates /\ c.w.s.last \in Nat
  BY WorldFacts
<1>2. n \in Nat /\ b \in Fresh /\ b \in Block /\ Len(b) = n /\ <<>> \in known
  BY <1>1, WorldFacts, NumberedFacts, BaseFacts
<1>3. /\ r \in {"AlreadyKnown", "AlreadyInChain", "BadChain", "Success", "UnknownParent"}
      /\ t \in QueueStates /\ t.draining = c.w.q.draining /\ c.w.q.bad \subseteq t.bad
  BY <1>1, <1>2, ImportFacts
<1>4. /\ r = "Success" => d = [c EXCEPT !.w = [v EXCEPT !.s.dlHeaders = @ \ {n}, !.s.dlBodies = @ \ {n},
                                          !.s.last = IF n > @ THEN n ELSE @,
                                          !.s.lastHash = IF n > c.w.s.last THEN b ELSE @]]
      /\ r = "BadChain" => d = [w |-> RestartSync(v), stop |-> TRUE]
      /\ r = "UnknownParent" =>
           d = [w |-> IF n > c.w.s.last THEN [v EXCEPT !.s = [ResetSync(v.s) EXCEPT !.common = FALSE]] ELSE v,
                stop |-> TRUE]
      /\ r \in {"AlreadyKnown", "AlreadyInChain"} => d = c
  BY DEF CollectOne
<1> HIDE DEF b, r, t
<1>5. v \in Worlds /\ v.s = c.w.s /\ v.p = c.w.p /\ v.q = t
  BY <1>1, <1>3, WithQueue
<1>6. Sane(v) /\ Drained(t)
  BY <1>3, <1>5 DEF Sane, Tracked, Drained
<1>7. CASE r = "Success"
  <2>1. /\ s \in SyncStates /\ s.headers = c.w.s.headers /\ s.bodies = c.w.s.bodies /\ s.ids = c.w.s.ids
        /\ s.common = c.w.s.common /\ s.last = (IF n > c.w.s.last THEN n ELSE c.w.s.last)
        /\ s.dlHeaders \subseteq c.w.s.dlHeaders /\ s.dlBodies \subseteq c.w.s.dlBodies
        /\ s.headerPeers = c.w.s.headerPeers /\ s.bodyPeers = c.w.s.bodyPeers
    BY <1>1, <1>2 DEF SyncStates
  <2>2. [v EXCEPT !.s.dlHeaders = @ \ {n}, !.s.dlBodies = @ \ {n},
                  !.s.last = IF n > @ THEN n ELSE @,
                  !.s.lastHash = IF n > c.w.s.last THEN b ELSE @] = [v EXCEPT !.s = s]
    BY <1>1, <1>5 DEF Worlds, SyncStates
  <2>3. d = [c EXCEPT !.w = [v EXCEPT !.s = s]]
    BY <1>4, <1>7, <2>2
  <2> HIDE DEF s, v
  <2> DEFINE x == [v EXCEPT !.s = s]
  <2>4. x \in Worlds /\ x.s = s /\ x.p = c.w.p /\ x.q = t
    BY <1>5, <2>1, WithSync
  <2> HIDE DEF x
  <2>5. d \in [w : Worlds, stop : BOOLEAN] /\ d.w = x /\ d.stop = c.stop
    BY <2>3, <2>4 DEF x
  <2>6. Tracked(x)
    BY <2>1, <2>4, FewerTracked DEF Sane
  <2>7. Fit(x.s)
    BY <2>1, <2>4 DEF Sane, Fit
  <2>8. Collecting(c.w, d)
    BY <1>3, <1>6, <2>1, <2>4, <2>5, <2>6, <2>7 DEF Collecting, Sane
  <2>9. ASSUME OneChain, QueueLinear(c.w.q), LastLinear(c.w.q, c.w.s.last), b \in Chain
        PROVE  /\ QueueLinear(d.w.q) /\ LastLinear(d.w.q, d.w.s.last)
               /\ d.w.s.last \in {c.w.s.last, n} /\ LastLinear(d.w.q, n)
               /\ Had(d.w.q) \subseteq Had(c.w.q) \cup {b}
    <3>1. QueueLinear(t) /\ Had(t) = Had(c.w.q) \cup {b}
      BY <1>1, <1>7, <2>9, ImportLinear DEF r, t
    <3>2. LastLinear(t, c.w.s.last) /\ LastLinear(t, n)
      BY <1>2, <2>9, <3>1 DEF LastLinear
    <3> QED BY <2>1, <2>4, <2>5, <3>1, <3>2
  <2> QED BY <2>5, <2>8, <2>9 DEF b
<1>8. CASE r = "BadChain"
  <2>1. d.w = RestartSync(v) /\ d.stop = TRUE /\ d = [w |-> d.w, stop |-> TRUE]
    BY <1>4, <1>8
  <2> HIDE DEF v
  <2>2. Sane(d.w) /\ d.w.q.bad = t.bad
    BY <1>5, <2>1, RestartFacts
  <2>3. Collecting(c.w, d)
    BY <1>3, <2>1, <2>2 DEF Collecting, Sane
  <2>4. ASSUME OneChain, QueueLinear(c.w.q), b \in Chain PROVE FALSE
    BY <1>1, <1>8, <2>4, ImportLinear DEF r
  <2> QED BY <2>3, <2>4 DEF b
<1>9. CASE r = "UnknownParent"
  <2> DEFINE z == [ResetSync(v.s) EXCEPT !.common = FALSE]
             x == [v EXCEPT !.s = z]
  <2>1. d.w = (IF n > c.w.s.last THEN x ELSE v) /\ d.stop = TRUE /\ d = [w |-> d.w, stop |-> TRUE]
    BY <1>4, <1>9
  <2> DEFINE y == ResetSync(v.s)
  <2>2. y \in SyncStates /\ y.headers = Empty /\ y.bodies = Empty /\ y.dlHeaders = {} /\ y.dlBodies = {}
    BY <1>5, WorldFacts, ResetFacts
  <2> HIDE DEF y, v
  <2>3. z \in SyncStates /\ z.headers = Empty /\ z.bodies = Empty /\ z.dlHeaders = {} /\ z.dlBodies = {}
    <3>1. z = [y EXCEPT !.common = FALSE]
      BY DEF y
    <3> HIDE DEF z
    <3> QED BY <2>2, <3>1 DEF SyncStates
  <2> HIDE DEF z
  <2>4. x \in Worlds /\ x.s = z /\ x.q = t
    BY <1>5, <2>3, WithSync
  <2>5. Sane(x)
    BY <1>6, <2>3, <2>4, EmptySane
  <2> HIDE DEF x
  <2>6. Sane(d.w) /\ d.w.q = t
    BY <1>5, <1>6, <2>1, <2>4, <2>5
  <2>7. Collecting(c.w, d)
    BY <1>3, <2>1, <2>6 DEF Collecting, Sane
  <2>8. ASSUME OneChain, QueueLinear(c.w.q), b \in Chain, LastLinear(c.w.q, n - 1) PROVE FALSE
    <3>1. Parent(b) \notin Had(c.w.q)
      BY <1>1, <1>9, <2>8, ImportLinear DEF r
    <3>2. Parent(b) \in Chain /\ Len(Parent(b)) = n - 1 /\ n - 1 \in Nat
      BY <1>2, <2>8, ParentFacts, ChainFacts
    <3>3. Parent(b) \in Had(c.w.q)
      BY <2>8, <3>2, HadFacts
    <3> QED BY <3>1, <3>3
  <2> QED BY <2>7, <2>8 DEF b
<1>10. CASE r \in {"AlreadyKnown", "AlreadyInChain"}
  <2>1. d = c
    BY <1>4, <1>10
  <2>2. Collecting(c.w, d)
    BY <2>1 DEF Collecting
  <2>3. ASSUME OneChain, QueueLinear(c.w.q), b \in Chain PROVE LastLinear(c.w.q, n)
    <3>1. b \in Had(c.w.q)
      BY <1>1, <1>10, <2>3, ImportLinear DEF r
    <3> QED BY <1>2, <3>1 DEF LastLinear
  <2> QED BY <2>1, <2>2, <2>3 DEF b
<1> QED BY <1>3, <1>7, <1>8, <1>9, <1>10

\* Collects is the iteration it is defined as.
LEMMA CollectsFacts ==
    ASSUME Base, NEW w, Sane(w), NEW a \in Nat, NEW n \in Nat, a .. a + n - 1 \subseteq DOMAIN w.s.headers
    PROVE  LET f == Collects(w, a, n)
           IN  /\ \A k \in 0..n : Collecting(w, f[k])
               /\ f[0] = [w |-> w, stop |-> FALSE]
               /\ \A k \in 1..n : f[k] = CollectOne(f[k - 1], a + k - 1)
<1> DEFINE T == {c \in [w : Worlds, stop : BOOLEAN] : Collecting(w, c)}
           F == [k \in 1..n |-> [c \in T |-> CollectOne(c, a + k - 1)]]
           z == [w |-> w, stop |-> FALSE]
           f == Collects(w, a, n)
<1>1. z \in T
  BY DEF Collecting, Sane
<1>2. ASSUME NEW k \in 1..n, NEW c \in T PROVE CollectOne(c, a + k - 1) \in T
  <2> DEFINE d == CollectOne(c, a + k - 1)
  <2>1. c \in [w : Worlds, stop : BOOLEAN] /\ Collecting(w, c) /\ Sane(c.w)
    BY <1>2 DEF Collecting
  <2>2. CASE c.stop
    BY <1>2, <2>2 DEF CollectOne
  <2>3. CASE ~c.stop
    <3>1. a + k - 1 \in DOMAIN c.w.s.headers
      <4>1. a + k - 1 \in a .. a + n - 1
        OBVIOUS
      <4> QED BY <2>1, <2>3, <4>1 DEF Collecting
    <3>2. Collecting(c.w, d)
      BY <2>1, <2>3, <3>1, CollectOneFacts
    <3>3. Collecting(w, d) /\ d \in [w : Worlds, stop : BOOLEAN]
      <4> HIDE DEF d
      <4> QED BY <2>1, <2>3, <3>2 DEF Collecting
    <3> QED BY <3>3
  <2> QED BY <2>2, <2>3
<1> HIDE DEF T, z
<1>3. F \in [1..n -> [T -> T]]
  BY <1>2
<1>4. PICK g \in [0..n -> T] : g[0] = z /\ \A k \in 1..n : g[k] = F[k][g[k - 1]]
  <2> HIDE DEF F
  <2> QED BY ONLY <1>1, <1>3, n \in Nat, Iteration
<1>5. ASSUME NEW k \in 1..n PROVE g[k] = CollectOne(g[k - 1], a + k - 1)
  <2>1. g[k - 1] \in T
    BY <1>4
  <2> QED BY <2>1, <1>4
<1>6. g = [k \in 0..n |-> IF k = 0 THEN z ELSE CollectOne(g[k - 1], a + k - 1)]
  <2> HIDE DEF F
  <2> QED BY <1>4, <1>5
<1>7. f = [k \in 0..n |-> IF k = 0 THEN z ELSE CollectOne(f[k - 1], a + k - 1)]
  BY <1>6, Zenon DEF Collects, z
<1> HIDE DEF f
<1>8. f[0] = z /\ \A k \in 1..n : f[k] = CollectOne(f[k - 1], a + k - 1)
  BY <1>7
<1>9. \A k \in 0..n : f[k] \in T
  BY <1>1, <1>2, <1>8, StaysIn
<1>10. \A k \in 0..n : Collecting(w, f[k])
  BY <1>9 DEF T
<1> QED BY <1>8, <1>10 DEF f, z

\* The blocks collected are on the chain, one after the other.
LEMMA CollectsLinear ==
    ASSUME Base, OneChain, NEW w, Sane(w), Linear(w), NEW n \in Nat,
           w.s.last + 1 .. w.s.last + n \subseteq DOMAIN w.s.headers
    PROVE  Collected(w, Collects(w, w.s.last + 1, n)[n], w.s.last + 1, w.s.last + n)
<1> DEFINE a == w.s.last + 1
           f == Collects(w, a, n)
           G == {k \in 0..n : Collected(w, f[k], a, w.s.last + k)}
<1>1. w \in Worlds /\ w.s.last \in Nat /\ a \in Nat /\ a .. a + n - 1 \subseteq DOMAIN w.s.headers
  BY WorldFacts DEF Sane
<1>2. /\ \A k \in 0..n : Collecting(w, f[k])
      /\ f[0] = [w |-> w, stop |-> FALSE]
      /\ \A k \in 1..n : f[k] = CollectOne(f[k - 1], a + k - 1)
  BY <1>1, CollectsFacts
<1> HIDE DEF f
<1>3. 0 \in G
  <2>1. f[0].w = w /\ f[0].stop = FALSE
    BY <1>2
  <2> QED BY <1>1, <2>1 DEF Collected, Linear
<1>4. ASSUME NEW k \in 1..n, k - 1 \in G PROVE k \in G
  <2> DEFINE c == f[k - 1]
             d == f[k]
             m == w.s.last + k
  <2>1. /\ k - 1 \in 0..n /\ k \in 0..n /\ Collecting(w, c) /\ d = CollectOne(c, m)
        /\ Collected(w, c, a, m - 1) /\ m \in Nat /\ m \in DOMAIN w.s.headers /\ m - 1 \in Nat /\ a <= m
    <3>1. k - 1 \in 0..n /\ k \in 0..n /\ a + k - 1 = m /\ w.s.last + (k - 1) = m - 1
      BY <1>1
    <3>2. m \in a .. w.s.last + n /\ m \in Nat /\ m - 1 \in Nat
      BY <1>1
    <3> QED BY <1>1, <1>2, <1>4, <3>1, <3>2
  <2> HIDE DEF c, d, m
  <2>2. ~c.stop
    BY <2>1 DEF Collected
  <2>3. k \in G
    <3> DEFINE b == w.s.headers[m]
    <3>1. c \in [w : Worlds, stop : BOOLEAN] /\ Sane(c.w) /\ c.w.s.headers = w.s.headers /\ c.w.s.last \in Nat
      BY <2>1, <2>2, WorldFacts DEF Collecting
    <3>2. b \in Chain
      BY <2>1 DEF Linear, HeadersLinear
    <3>3. /\ QueueLinear(c.w.q) /\ LastLinear(c.w.q, c.w.s.last) /\ c.w.s.last <= m - 1
          /\ LastLinear(c.w.q, m - 1)
          /\ \A e \in Had(c.w.q) \ Had(w.q) : \E j \in a .. m - 1 : e = w.s.headers[j]
      BY <2>1 DEF Collected
    <3>4. /\ ~d.stop /\ QueueLinear(d.w.q) /\ LastLinear(d.w.q, d.w.s.last)
          /\ d.w.s.last \in {c.w.s.last, m} /\ LastLinear(d.w.q, m)
          /\ Had(d.w.q) \subseteq Had(c.w.q) \cup {b}
      BY <2>1, <2>2, <3>1, <3>2, <3>3, CollectOneFacts
    <3>5. d.w.s.last <= m
      BY <2>1, <3>1, <3>3, <3>4
    <3>6. ASSUME NEW e \in Had(d.w.q) \ Had(w.q) PROVE \E j \in a .. m : e = w.s.headers[j]
      <4>1. CASE e = b
        <5>1. m \in a .. m
          BY <1>1, <2>1
        <5> QED BY <4>1, <5>1
      <4>2. CASE e # b
        <5>1. PICK j \in a .. m - 1 : e = w.s.headers[j]
          BY <3>3, <3>4, <3>6, <4>2
        <5>2. j \in a .. m
          BY <1>1, <2>1
        <5> QED BY <5>1, <5>2
      <4> QED BY <4>1, <4>2
    <3>7. Collected(w, d, a, m)
      BY <3>4, <3>5, <3>6 DEF Collected
    <3> QED BY <2>1, <3>7 DEF d, m
  <2> QED BY <2>3
<1>5. \A k \in 0..n : k \in G
  <2> HIDE DEF G
  <2> QED BY <1>3, <1>4, UpTo
<1>6. Collected(w, f[n], a, w.s.last + n)
  BY <1>5
<1> QED BY <1>6 DEF f

\* The blocks ready to be collected are the numbers of an interval.
LEMMA ReadyFacts ==
    ASSUME NEW f \in Numbered, NEW g \in Numbered, NEW a \in Nat
    PROVE  LET R == Run(f, a) \cap Run(g, a)
           IN  R \in SUBSET DOMAIN f /\ Cardinality(R) \in Nat /\ R = a .. a + Cardinality(R) - 1
<1> DEFINE R == Run(f, a) \cap Run(g, a)
<1>1. R \in SUBSET Nat /\ IsFiniteSet(R) /\ R \in SUBSET DOMAIN f
  <2>1. Run(f, a) \in SUBSET DOMAIN f /\ IsFiniteSet(Run(f, a)) /\ Run(f, a) \in SUBSET Nat
    BY RunFacts
  <2> QED BY <2>1, FS_Subset
<1>2. ASSUME NEW m \in R PROVE a <= m /\ a..m \subseteq R
  <2>1. a <= m /\ a..m \subseteq DOMAIN f /\ a..m \subseteq DOMAIN g
    BY <1>2 DEF Run
  <2>2. ASSUME NEW j \in a..m PROVE j \in R
    <3>1. a <= j /\ a..j \subseteq a..m
      BY <1>1, <2>2
    <3> QED BY <2>1, <2>2, <3>1 DEF Run
  <2> QED BY <2>1, <2>2
<1> HIDE DEF R
<1>3. R \in SUBSET DOMAIN f /\ Cardinality(R) \in Nat /\ R = a .. a + Cardinality(R) - 1
  BY <1>1, <1>2, RunIsInterval
<1> QED BY <1>3 DEF R

\* Headers and bodies of some numbers are removed together.
LEMMA WithoutFit ==
    ASSUME NEW s \in SyncStates, Fit(s), NEW R, NEW t,
           t.headers = Without(s.headers, R), t.bodies = Without(s.bodies, R),
           \A n \in DOMAIN s.headers \ R : s.headers[n] \in s.ids => s.headers[n] \in t.ids
    PROVE  Fit(t)
<1>1. s.headers \in Numbered /\ s.bodies \in Numbered
  BY DEF SyncStates
<1>2. DOMAIN t.headers = DOMAIN s.headers \ R /\ \A n \in DOMAIN s.headers \ R : t.headers[n] = s.headers[n]
  <2> DEFINE f == Without(s.headers, R)
  <2>1. DOMAIN f = DOMAIN s.headers \ R /\ \A n \in DOMAIN s.headers \ R : f[n] = s.headers[n]
    BY <1>1, WithoutFacts
  <2> HIDE DEF f
  <2>2. t.headers = f
    BY DEF f
  <2> QED BY <2>1, <2>2
<1>3. DOMAIN t.bodies = DOMAIN s.bodies \ R /\ \A n \in DOMAIN s.bodies \ R : t.bodies[n] = s.bodies[n]
  <2> DEFINE f == Without(s.bodies, R)
  <2>1. DOMAIN f = DOMAIN s.bodies \ R /\ \A n \in DOMAIN s.bodies \ R : f[n] = s.bodies[n]
    BY <1>1, WithoutFacts
  <2> HIDE DEF f
  <2>2. t.bodies = f
    BY DEF f
  <2> QED BY <2>1, <2>2
<1> QED BY <1>2, <1>3 DEF Fit

\* completeSync keeps the order of the queue.
LEMMA CompleteOrdered ==
    ASSUME NEW w \in Worlds, NEW s \in SyncStates, NEW v, v = [w EXCEPT !.s = CompleteSync(s)],
           Drained(w.q), Clean(w.q) => QueueLinear(w.q) /\ LastLinear(w.q, s.last)
    PROVE  Ordered(v) /\ v.p = w.p
<1> DEFINE t == CompleteSync(s)
<1>1. t \in SyncStates /\ t.headers = Empty /\ t.bodies = Empty /\ t.dlHeaders = {} /\ t.dlBodies = {}
      /\ t.last = s.last
  BY ResetFacts
<1> HIDE DEF t
<1>2. v = [w EXCEPT !.s = t]
  BY DEF t
<1>3. v \in Worlds /\ v.s = t /\ v.p = w.p /\ v.q = w.q
  BY ONLY w \in Worlds, <1>1, <1>2, WithSync
<1>4. Sane(v)
  BY <1>1, <1>3, EmptySane
<1>5. Clean(v.q) => Linear(v)
  BY <1>1, <1>3, EmptyLinear
<1> QED BY <1>3, <1>4, <1>5 DEF Ordered

\* collectBlocks keeps the order.
LEMMA CollectBlocksFacts ==
    ASSUME Base, NEW w, Ordered(w), NEW v, v = CollectBlocks(w)
    PROVE  Ordered(v)
<1> DEFINE s     == w.s
           start == Least(DOMAIN s.headers)
           ready == Run(s.headers, start) \cap Run(s.bodies, start)
           n     == Cardinality(ready)
           c     == Collects(w, start, n)[n]
           left  == [c.w.s EXCEPT !.headers = Without(@, ready), !.bodies = Without(@, ready)]
           none  == \/ ~s.common \/ s.headers = Empty \/ s.bodies = Empty
                    \/ start # Least(DOMAIN s.bodies) \/ start # s.last + 1
<1>1. w \in Worlds /\ Sane(w) /\ s \in SyncStates /\ s.headers \in Numbered /\ s.bodies \in Numbered /\ s.last \in Nat
  BY WorldFacts DEF Ordered, Sane
<1>2. \/ v = [w EXCEPT !.s = CompleteSync(s)]
      \/ v = w
      \/ /\ ~none
         /\ v = IF c.stop THEN c.w
                ELSE IF Cardinality(c.w.q.unknown) > MaxUnknown THEN RestartSync(c.w)
                ELSE [c.w EXCEPT !.s = IF left.headers = Empty THEN CompleteSync(left) ELSE left]
  BY DEF CollectBlocks
<1>3. CASE v = [w EXCEPT !.s = CompleteSync(s)]
  <2>1. Clean(w.q) => QueueLinear(w.q) /\ LastLinear(w.q, s.last)
    BY DEF Ordered, Linear
  <2>2. Drained(w.q)
    BY <1>1 DEF Sane
  <2> QED BY <1>1, <1>3, <2>1, <2>2, CompleteOrdered
<1>4. CASE v = w
  BY <1>4
<1>5. CASE /\ ~none
           /\ v = IF c.stop THEN c.w
                  ELSE IF Cardinality(c.w.q.unknown) > MaxUnknown THEN RestartSync(c.w)
                  ELSE [c.w EXCEPT !.s = IF left.headers = Empty THEN CompleteSync(left) ELSE left]
  <2>1. /\ s.common /\ start = s.last + 1 /\ start \in Nat
        /\ \A m \in DOMAIN s.headers : start <= m
    <3>1. s.common /\ start = s.last + 1 /\ s.headers # Empty
      BY <1>5
    <3>2. DOMAIN s.headers \in SUBSET Nat /\ DOMAIN s.headers # {}
      BY <3>1, <1>1, NumberedFacts, EmptyFacts
    <3>3. \A m \in DOMAIN s.headers : start <= m
      BY <3>2, LeastFacts
    <3> QED BY <1>1, <3>1, <3>3
  <2> HIDE DEF start
  <2>2. ready \in SUBSET DOMAIN s.headers /\ n \in Nat /\ ready = start .. start + n - 1
    BY <1>1, <2>1, ReadyFacts, Zenon
  <2> HIDE DEF n, ready
  <2>3. Collecting(w, c)
    <3>1. start .. start + n - 1 \subseteq DOMAIN w.s.headers
      BY <2>2
    <3>2. \A k \in 0..n : Collecting(w, Collects(w, start, n)[k])
      BY <1>1, <2>1, <2>2, <3>1, CollectsFacts
    <3> QED BY <2>2, <3>2
  <2>4. Clean(w.q) => Collected(w, c, start, s.last + n)
    <3>1. ASSUME Clean(w.q) PROVE Collected(w, Collects(w, s.last + 1, n)[n], s.last + 1, s.last + n)
      <4>1. s.last + 1 .. s.last + n \subseteq DOMAIN w.s.headers
        BY <1>1, <2>1, <2>2
      <4>2. OneChain /\ Linear(w)
        BY <3>1 DEF Ordered, Clean
      <4> QED BY <1>1, <2>2, <3>1, <4>1, <4>2, CollectsLinear
    <3> QED BY <2>1, <3>1
  <2> HIDE DEF c
  <2>5. c.w \in Worlds /\ Sane(c.w) /\ c.w.s \in SyncStates /\ c.stop \in BOOLEAN /\ c.w.s.last \in Nat
    BY <2>3, WorldFacts DEF Collecting
  <2>11. Clean(c.w.q) => OneChain /\ Linear(w) /\ Collected(w, c, start, s.last + n)
    <3>1. Clean(c.w.q) => Clean(w.q)
      BY <2>3 DEF Collecting, Clean
    <3> QED BY <2>4, <3>1 DEF Ordered, Clean
  <2>6. CASE c.stop
    <3>1. Clean(c.w.q) => Linear(c.w)
      BY <2>11, <2>6 DEF Collected
    <3>2. v = c.w
      BY <1>5, <2>6
    <3> QED BY <2>5, <3>1, <3>2 DEF Ordered
  <2>7. CASE ~c.stop
    <3>1. /\ c.w.s.headers = s.headers /\ c.w.s.bodies = s.bodies /\ c.w.s.ids = s.ids
          /\ c.w.s.common = s.common
      BY <2>3, <2>7 DEF Collecting
    <3>2. Clean(c.w.q) =>
             /\ QueueLinear(c.w.q) /\ LastLinear(c.w.q, c.w.s.last) /\ c.w.s.last <= s.last + n
             /\ \A b \in Had(c.w.q) \ Had(w.q) : \E m \in start .. s.last + n : b = s.headers[m]
      BY <2>11 DEF Collected
    <3>3. CASE Cardinality(c.w.q.unknown) > MaxUnknown
      <4>1. v = RestartSync(c.w)
        BY <1>5, <2>7, <3>3
      <4> QED BY <2>5, <3>2, <4>1, RestartOrdered
    <3>4. /\ left \in SyncStates /\ left.headers = Without(s.headers, ready)
          /\ left.bodies = Without(s.bodies, ready) /\ left.last = c.w.s.last /\ left.common = s.common
          /\ left.ids = s.ids /\ left.dlHeaders = c.w.s.dlHeaders /\ left.dlBodies = c.w.s.dlBodies
          /\ left.headerPeers = c.w.s.headerPeers /\ left.bodyPeers = c.w.s.bodyPeers
      <4>1. Without(s.headers, ready) \in Numbered /\ Without(s.bodies, ready) \in Numbered
        BY <1>1, WithoutFacts
      <4> QED BY <2>5, <3>1, <4>1 DEF SyncStates
    <3>5. DOMAIN left.headers = DOMAIN s.headers \ ready
          /\ \A m \in DOMAIN s.headers \ ready : left.headers[m] = s.headers[m]
      <4> DEFINE f == Without(s.headers, ready)
      <4>1. DOMAIN f = DOMAIN s.headers \ ready /\ \A m \in DOMAIN s.headers \ ready : f[m] = s.headers[m]
        BY <1>1, WithoutFacts
      <4>2. left.headers = f
        BY <3>4
      <4> HIDE DEF f, left
      <4> QED BY <4>1, <4>2
    <3> HIDE DEF left
    <3>6. CASE ~(Cardinality(c.w.q.unknown) > MaxUnknown) /\ left.headers = Empty
      <4>1. v = [c.w EXCEPT !.s = CompleteSync(left)]
        BY <1>5, <2>7, <3>6
      <4>2. Drained(c.w.q)
        BY <2>5 DEF Sane
      <4> QED BY <2>5, <3>2, <3>4, <4>1, <4>2, CompleteOrdered
    <3>7. CASE ~(Cardinality(c.w.q.unknown) > MaxUnknown) /\ left.headers # Empty
      <4>1. v = [c.w EXCEPT !.s = left]
        BY <1>5, <2>7, <3>7
      <4>2. v \in Worlds /\ v.s = left /\ v.p = c.w.p /\ v.q = c.w.q
        BY <2>5, <3>4, <4>1, WithSync
      <4>3. Tracked(v)
        BY <2>5, <3>4, <4>2, FewerTracked DEF Sane
      <4>4. Fit(left)
        <5>1. Fit(s)
          BY <1>1 DEF Sane
        <5>2. \A m \in DOMAIN s.headers \ ready : s.headers[m] \in s.ids => s.headers[m] \in left.ids
          BY <3>4
        <5> QED BY <1>1, <3>4, <5>1, <5>2, WithoutFit
      <4>5. Sane(v)
        BY <2>5, <4>2, <4>3, <4>4 DEF Sane
      <4>6. ASSUME Clean(c.w.q) PROVE HeadersLinear(v.s, v.q)
        <5>1. DOMAIN s.headers \in SUBSET Nat /\ \A m \in DOMAIN s.headers : Len(s.headers[m]) = m
          BY <1>1, NumberedFacts
        <5>2. ASSUME NEW m \in DOMAIN left.headers
              PROVE  m \in DOMAIN s.headers /\ left.headers[m] = s.headers[m] /\ m > s.last + n
          <6>1. m \in DOMAIN s.headers /\ m \notin ready /\ m \in Nat /\ start <= m
            BY <2>1, <3>5, <5>1, <5>2
          <6>2. m > s.last + n
            BY <1>1, <2>1, <2>2, <6>1
          <6> QED BY <3>5, <6>1, <6>2
        <5>3. ASSUME NEW m \in DOMAIN left.headers
              PROVE  left.headers[m] \in Chain /\ left.headers[m] \notin known /\ \A b \in Had(w.q) : Len(b) <= m
          BY <2>11, <4>6, <5>2, <5>3 DEF Linear, HeadersLinear
        <5>4. ASSUME NEW m \in DOMAIN left.headers PROVE m > left.last
          <6>1. m > s.last + n /\ m \in Nat /\ left.last <= s.last + n /\ left.last \in Nat
            BY <2>5, <3>2, <3>4, <4>6, <5>1, <5>2, <5>4
          <6> QED BY <1>1, <2>2, <6>1
        <5>5. ASSUME NEW m \in DOMAIN left.headers, NEW b \in Had(c.w.q) PROVE Len(b) <= m
          <6>1. CASE b \in Had(w.q)
            BY <5>3, <5>5, <6>1
          <6>2. CASE b \notin Had(w.q)
            <7>1. PICK j \in start .. s.last + n : b = s.headers[j]
              BY <3>2, <4>6, <5>5, <6>2
            <7>2. j \in DOMAIN s.headers
              BY <1>1, <2>1, <2>2
            <7>3. Len(b) = j /\ m \in Nat /\ m > s.last + n
              BY <5>1, <5>2, <5>5, <7>1, <7>2
            <7> QED BY <1>1, <2>1, <2>2, <7>3
          <6> QED BY <6>1, <6>2
        <5> QED BY <4>2, <5>3, <5>4, <5>5 DEF HeadersLinear
      <4>7. ASSUME Clean(v.q) PROVE Linear(v)
        BY <3>2, <3>4, <4>2, <4>6, <4>7 DEF Linear
      <4> QED BY <4>5, <4>7 DEF Ordered
    <3> QED BY <3>3, <3>6, <3>7
  <2> QED BY <2>5, <2>6, <2>7
<1> HIDE DEF s, start, ready, n, c, left, none
<1> QED BY <1>2, <1>3, <1>4, <1>5

-----------------------------------------------------------------------------
(* onPeerBlockHeaders and onPeerBlockBodies.                               *)

\* The headers that remain when a header does not fit those above it.
Kept(s, n, follows) ==
    LET run   == Run(s.headers, n + 1)
        later == {m \in DOMAIN s.headers \cup DOMAIN s.bodies : m > n}
    IN  IF s.common /\ ~follows
        THEN [s EXCEPT !.ids = @ \ {s.headers[m] : m \in run},
                       !.dlHeaders = @ \ run, !.dlBodies = @ \ run,
                       !.headers = Without(@, later), !.bodies = Without(@, later)]
        ELSE s

\* Headers and bodies that do not follow a new header go together.
LEMMA KeptFacts ==
    ASSUME NEW s \in SyncStates, Fit(s), NEW n \in Nat, NEW follows, NEW k, k = Kept(s, n, follows)
    PROVE  /\ k \in SyncStates /\ Fit(k) /\ k.common = s.common /\ k.last = s.last
           /\ DOMAIN k.headers \subseteq DOMAIN s.headers
           /\ \A m \in DOMAIN k.headers : k.headers[m] = s.headers[m]
           /\ k.dlHeaders \subseteq s.dlHeaders /\ k.dlBodies \subseteq s.dlBodies
           /\ k.headerPeers = s.headerPeers /\ k.bodyPeers = s.bodyPeers
<1>1. CASE ~(s.common /\ ~follows)
  <2>1. k = s
    BY <1>1 DEF Kept
  <2> QED BY <2>1
<1>2. CASE s.common /\ ~follows
  <2> DEFINE run   == Run(s.headers, n + 1)
             gone  == {s.headers[m] : m \in run}
             later == {m \in DOMAIN s.headers \cup DOMAIN s.bodies : m > n}
             H     == Without(s.headers, later)
             B     == Without(s.bodies, later)
  <2>1. k = [s EXCEPT !.ids = @ \ gone, !.dlHeaders = @ \ run, !.dlBodies = @ \ run, !.headers = H, !.bodies = B]
    BY <1>2 DEF Kept
  <2>2. s.headers \in Numbered /\ s.bodies \in Numbered
    BY DEF SyncStates
  <2>3. H \in Numbered /\ DOMAIN H = DOMAIN s.headers \ later /\ \A m \in DOMAIN s.headers \ later : H[m] = s.headers[m]
    BY <2>2, WithoutFacts
  <2>4. B \in Numbered
    BY <2>2, WithoutFacts
  <2>5. run \subseteq later /\ run \subseteq DOMAIN s.headers
    <3>1. DOMAIN s.headers \in SUBSET Nat
      BY <2>2, NumberedFacts
    <3> QED BY <3>1 DEF Run
  <2>6. \A m \in DOMAIN s.headers \ later : s.headers[m] \in s.ids => s.headers[m] \in s.ids \ gone
    <3>1. ASSUME NEW m \in DOMAIN s.headers \ later, NEW j \in run, s.headers[m] = s.headers[j] PROVE FALSE
      <4>1. Len(s.headers[m]) = m /\ Len(s.headers[j]) = j
        BY <2>2, <2>5, NumberedFacts
      <4> QED BY <2>5, <3>1, <4>1
    <3> QED BY <3>1
  <2> HIDE DEF run, gone, later, H, B
  <2>7. /\ k \in SyncStates /\ k.headers = H /\ k.bodies = B /\ k.common = s.common /\ k.last = s.last
        /\ k.ids = s.ids \ gone /\ k.dlHeaders = s.dlHeaders \ run /\ k.dlBodies = s.dlBodies \ run
        /\ k.headerPeers = s.headerPeers /\ k.bodyPeers = s.bodyPeers
    <3> DEFINE I == s.ids \ gone
               D == s.dlHeaders \ run
               E == s.dlBodies \ run
    <3>1. I \in SUBSET Block /\ D \in SUBSET Nat /\ E \in SUBSET Nat
      BY DEF SyncStates
    <3>2. k = [s EXCEPT !.ids = I, !.dlHeaders = D, !.dlBodies = E, !.headers = H, !.bodies = B]
      BY <2>1
    <3> HIDE DEF I, D, E
    <3>3. /\ k \in SyncStates /\ k.headers = H /\ k.bodies = B /\ k.common = s.common /\ k.last = s.last
          /\ k.ids = I /\ k.dlHeaders = D /\ k.dlBodies = E
          /\ k.headerPeers = s.headerPeers /\ k.bodyPeers = s.bodyPeers
      BY <2>3, <2>4, <3>1, <3>2 DEF SyncStates
    <3> QED BY <3>3 DEF I, D, E
  <2>8. Fit(k)
    <3>1. k.headers = Without(s.headers, later) /\ k.bodies = Without(s.bodies, later)
      BY <2>7 DEF H, B
    <3>2. \A m \in DOMAIN s.headers \ later : s.headers[m] \in s.ids => s.headers[m] \in k.ids
      BY <2>6, <2>7
    <3> QED BY <3>1, <3>2, WithoutFit
  <2> QED BY <2>3, <2>7, <2>8
<1> QED BY <1>1, <1>2

\* One header is taken: it is of a block of the chain that the node does not have.
LEMMA AddHeaderFacts ==
    ASSUME Base, NEW c \in [w : Worlds, stop : BOOLEAN], Ordered(c.w), NEW b \in Block, OneChain => b \in Chain,
           NEW d, d = AddHeader(c, b)
    PROVE  d \in [w : Worlds, stop : BOOLEAN] /\ Ordered(d.w)
<1> DEFINE s    == c.w.s
           n    == Len(b)
           linked == (n - 1 \in DOMAIN s.headers => s.headers[n - 1] = Parent(b))
                     /\ (n = s.last + 1 => s.lastHash = Parent(b))
           follows == n + 1 \in DOMAIN s.headers => Parent(s.headers[n + 1]) = b
           kept == Kept(s, n, follows)
           have == HaveBlock(c.w.q, b)
<1>1. c.w \in Worlds /\ s \in SyncStates /\ Fit(s) /\ Tracked(c.w) /\ Drained(c.w.q) /\ n \in Nat /\ s.last \in Nat
      /\ c = [w |-> c.w, stop |-> c.stop] /\ s.headers \in Numbered
  BY WorldFacts, PathFacts DEF Ordered, Sane
<1>2. /\ c.stop \/ n \in DOMAIN s.headers \/ (n <= s.last /\ s.common) => d = c
      /\ ~(c.stop \/ n \in DOMAIN s.headers \/ (n <= s.last /\ s.common)) =>
            d = IF have
                THEN [c EXCEPT !.w.s = [s EXCEPT !.common = TRUE, !.last = n, !.lastHash = b]]
                ELSE IF s.common /\ ~linked THEN [w |-> RestartSync(c.w), stop |-> TRUE]
                ELSE [c EXCEPT !.w.s = [kept EXCEPT !.headers = Added(@, n, b), !.ids = @ \cup {b}]]
  BY DEF AddHeader, Kept, Added
<1> HIDE DEF linked, follows, kept, have
<1>3. CASE d = c
  BY <1>3
<1>4. CASE have /\ n \notin DOMAIN s.headers /\ d = [c EXCEPT !.w.s = [s EXCEPT !.common = TRUE, !.last = n, !.lastHash = b]]
  <2> DEFINE t == [s EXCEPT !.common = TRUE, !.last = n, !.lastHash = b]
             x == [c.w EXCEPT !.s = t]
  <2>1. /\ t \in SyncStates /\ t.common /\ t.last = n /\ t.headers = s.headers /\ t.bodies = s.bodies
        /\ t.ids = s.ids /\ t.dlHeaders = s.dlHeaders /\ t.dlBodies = s.dlBodies
        /\ t.headerPeers = s.headerPeers /\ t.bodyPeers = s.bodyPeers
    BY <1>1 DEF SyncStates
  <2>2. d = [w |-> x, stop |-> c.stop]
    BY <1>1, <1>4 DEF Worlds
  <2> HIDE DEF t
  <2>3. x \in Worlds /\ x.s = t /\ x.p = c.w.p /\ x.q = c.w.q
    BY <1>1, <2>1, WithSync
  <2> HIDE DEF x
  <2>4. Sane(x)
    BY <1>1, <2>1, <2>3 DEF Sane, Tracked, Fit
  <2>5. ASSUME Clean(x.q) PROVE Linear(x)
    <3>1. Linear(c.w) /\ b \in Had(c.w.q)
      BY <1>4, <2>3, <2>5 DEF Ordered, have, HaveBlock, Had
    <3>2. LastLinear(c.w.q, n)
      BY <3>1 DEF LastLinear
    <3>3. ASSUME NEW m \in DOMAIN s.headers PROVE m > n
      <4>1. m \in Nat /\ n <= m /\ n # m
        BY <1>1, <1>4, <3>1, <3>3, NumberedFacts DEF Linear, HeadersLinear
      <4> QED BY <1>1, <4>1
    <3>4. HeadersLinear(x.s, x.q)
      BY <2>1, <2>3, <3>1, <3>3 DEF Linear, HeadersLinear
    <3> QED BY <2>1, <2>3, <3>1, <3>2, <3>4 DEF Linear
  <2> QED BY <2>2, <2>3, <2>4, <2>5 DEF Ordered
<1>5. CASE d = [w |-> RestartSync(c.w), stop |-> TRUE]
  <2>1. Clean(c.w.q) => QueueLinear(c.w.q)
    BY DEF Ordered, Linear
  <2>2. Ordered(RestartSync(c.w))
    BY <1>1, <2>1, RestartOrdered
  <2> QED BY <1>5, <2>2 DEF Ordered, Sane
<1>6. CASE /\ ~have /\ n \notin DOMAIN s.headers /\ ~(n <= s.last /\ s.common)
           /\ d = [c EXCEPT !.w.s = [kept EXCEPT !.headers = Added(@, n, b), !.ids = @ \cup {b}]]
  <2> DEFINE H == Added(kept.headers, n, b)
             t == [kept EXCEPT !.headers = H, !.ids = @ \cup {b}]
             x == [c.w EXCEPT !.s = t]
  <2>1. /\ kept \in SyncStates /\ Fit(kept) /\ kept.common = s.common /\ kept.last = s.last
        /\ DOMAIN kept.headers \subseteq DOMAIN s.headers
        /\ \A m \in DOMAIN kept.headers : kept.headers[m] = s.headers[m]
        /\ kept.dlHeaders \subseteq s.dlHeaders /\ kept.dlBodies \subseteq s.dlBodies
        /\ kept.headerPeers = s.headerPeers /\ kept.bodyPeers = s.bodyPeers
    BY <1>1, KeptFacts DEF kept
  <2>2. b \in Fresh /\ b \notin Had(c.w.q)
    <3>1. b \notin known /\ b \notin Had(c.w.q)
      BY <1>6 DEF have, HaveBlock, Had
    <3> QED BY <3>1, BaseFacts DEF Fresh
  <2>3. kept.headers \in Numbered
    BY <2>1 DEF SyncStates
  <2>4. /\ H \in Numbered /\ DOMAIN H = DOMAIN kept.headers \cup {n} /\ H[n] = b
        /\ \A m \in DOMAIN kept.headers : m # n => H[m] = kept.headers[m]
    BY <2>2, <2>3, AddedFacts
  <2>5. d = [w |-> x, stop |-> c.stop]
    BY <1>1, <1>6 DEF Worlds
  <2> HIDE DEF H
  <2>6. /\ t \in SyncStates /\ t.headers = H /\ t.bodies = kept.bodies /\ t.ids = kept.ids \cup {b}
        /\ t.common = s.common /\ t.last = s.last
        /\ t.dlHeaders = kept.dlHeaders /\ t.dlBodies = kept.dlBodies
        /\ t.headerPeers = s.headerPeers /\ t.bodyPeers = s.bodyPeers
    BY <2>1, <2>4 DEF SyncStates
  <2> HIDE DEF t
  <2>7. x \in Worlds /\ x.s = t /\ x.p = c.w.p /\ x.q = c.w.q
    BY <1>1, <2>6, WithSync
  <2> HIDE DEF x
  <2>8. Tracked(x)
    BY <1>1, <2>1, <2>6, <2>7, FewerTracked
  <2>9. Fit(t)
    <3>1. n \notin DOMAIN kept.headers /\ n \notin DOMAIN kept.bodies
      BY <1>6, <2>1 DEF Fit
    <3> QED BY <2>1, <2>4, <2>6, <3>1 DEF Fit
  <2>10. Sane(x)
    BY <1>1, <2>7, <2>8, <2>9 DEF Sane
  <2>11. ASSUME Clean(x.q) PROVE Linear(x)
    <3>1. OneChain /\ Linear(c.w) /\ b \in Chain
      BY <2>7, <2>11 DEF Ordered, Clean
    <3>11. \A e \in Had(c.w.q) : Len(e) \in Nat /\ Len(e) < n
      BY <2>2, <3>1, HadFacts, ChainFacts DEF Linear
    <3>12. n > s.last
      <4>1. PICK e \in Had(c.w.q) : Len(e) = s.last
        BY <3>1 DEF Linear, LastLinear
      <4> QED BY <1>1, <3>11, <4>1
    <3>2. ASSUME NEW m \in DOMAIN H
          PROVE  H[m] \in Chain /\ H[m] \notin known /\ m > s.last /\ \A e \in Had(c.w.q) : Len(e) <= m
      <4>1. CASE m = n
        <5>1. \A e \in Had(c.w.q) : Len(e) <= n
          BY <1>1, <3>11
        <5> QED BY <2>2, <2>4, <3>1, <3>12, <4>1, <5>1 DEF Had
      <4>2. CASE m # n
        <5>1. m \in DOMAIN s.headers /\ H[m] = s.headers[m]
          BY <2>1, <2>4, <3>2, <4>2
        <5> QED BY <3>1, <5>1 DEF Linear, HeadersLinear
      <4> QED BY <4>1, <4>2
    <3>3. HeadersLinear(x.s, x.q)
      BY <2>6, <2>7, <3>2 DEF HeadersLinear
    <3> QED BY <2>6, <2>7, <3>1, <3>3 DEF Linear
  <2> QED BY <2>5, <2>7, <2>10, <2>11 DEF Ordered
<1> HIDE DEF s, n
<1> QED BY <1>2, <1>3, <1>4, <1>5, <1>6

\* The headers of an answer are taken one after the other.
LEMMA AddsFacts ==
    ASSUME Base, NEW w, Ordered(w), NEW headers, Len(headers) \in Nat,
           \A k \in 1..Len(headers) : headers[k] \in Block /\ (OneChain => headers[k] \in Chain)
    PROVE  LET c == Adds(w, headers)[Len(headers)] IN c \in [w : Worlds, stop : BOOLEAN] /\ Ordered(c.w)
<1> DEFINE n == Len(headers)
           T == {c \in [w : Worlds, stop : BOOLEAN] : Ordered(c.w)}
           F == [k \in 1..n |-> [c \in T |-> AddHeader(c, headers[k])]]
           z == [w |-> w, stop |-> FALSE]
           f == Adds(w, headers)
<1>1. n \in Nat /\ z \in T
  BY DEF Ordered, Sane
<1>2. ASSUME NEW k \in 1..n, NEW c \in T PROVE AddHeader(c, headers[k]) \in T
  BY <1>2, AddHeaderFacts
<1>3. F \in [1..n -> [T -> T]]
  <2> HIDE DEF n, T
  <2> QED BY <1>2
<1> HIDE DEF n, T, z
<1>4. PICK g \in [0..n -> T] : g[0] = z /\ \A k \in 1..n : g[k] = F[k][g[k - 1]]
  <2> HIDE DEF F
  <2> QED BY ONLY <1>1, <1>3, Iteration
<1>5. ASSUME NEW k \in 1..n PROVE g[k] = AddHeader(g[k - 1], headers[k])
  <2>1. g[k - 1] \in T
    BY <1>1, <1>4
  <2> QED BY <2>1, <1>4
<1>6. g = [k \in 0..n |-> IF k = 0 THEN z ELSE AddHeader(g[k - 1], headers[k])]
  <2> HIDE DEF F
  <2> QED BY <1>1, <1>4, <1>5
<1>7. f = [k \in 0..n |-> IF k = 0 THEN z ELSE AddHeader(f[k - 1], headers[k])]
  BY <1>6, Zenon DEF Adds, z, n
<1> HIDE DEF f
<1>8. f[0] = z /\ \A k \in 1..n : f[k] = AddHeader(f[k - 1], headers[k])
  BY <1>1, <1>7
<1>9. \A k \in 0..n : f[k] \in T
  BY <1>1, <1>2, <1>8, StaysIn
<1>10. f[n] \in T
  BY <1>1, <1>9
<1> QED BY <1>10 DEF f, n, T

\* The order is one of the headers, the last block and the queue.
LEMMA SameLinear ==
    ASSUME NEW w, NEW v, v.q = w.q, v.s.headers = w.s.headers, v.s.last = w.s.last,
           Linear(w)
    PROVE  Linear(v)
BY DEF Linear, HeadersLinear

\* A peer is not asked any more.
LEMMA ClearOrdered ==
    ASSUME NEW w \in Worlds, NEW p \in Peer, TrackedBut(w, p), Fit(w.s), Drained(w.q), Clean(w.q) => Linear(w),
           NEW v, v = ClearPeerDownload(w, p)
    PROVE  Ordered(v)
<1>1. /\ v \in Worlds /\ Asks(w, v) /\ Tracked(v) /\ v.s.common = w.s.common /\ v.s.last = w.s.last
  BY ClearFacts
<1>2. v.q = w.q /\ v.s.headers = w.s.headers
  BY <1>1 DEF Asks
<1>3. Fit(v.s)
  BY <1>1, AsksFit
<1>4. Clean(v.q) => Linear(v)
  BY <1>1, <1>2, SameLinear
<1> QED BY <1>1, <1>2, <1>3, <1>4 DEF Ordered, Sane

\* The peers are asked again.
LEMMA ContinueOrdered ==
    ASSUME Base, NEW w, Ordered(w), NEW order \in Orders, NEW r, r = ContinueSync(w, order)
    PROVE  Ordered(r.w) /\ r.asked \in BOOLEAN
<1>1. w \in Worlds /\ Tracked(w) /\ head \in Block
  BY BaseFacts DEF Ordered, Sane
<1>2. Requested(w, r)
  BY <1>1, ContinueSyncFacts
<1> QED BY <1>2, RequestedOrdered DEF Requested

\* onPeerBlockHeaders keeps the order.
LEMMA OnPeerBlockHeadersFacts ==
    ASSUME Base, NEW w \in Worlds, NEW p \in Peer, TrackedBut(w, p), Fit(w.s), Drained(w.q), Clean(w.q) => Linear(w),
           NEW headers, Len(headers) \in Nat,
           \A k \in 1..Len(headers) : headers[k] \in Block /\ (OneChain => headers[k] \in Chain),
           NEW order \in Orders, NEW v, v = OnPeerBlockHeaders(w, p, headers, order)
    PROVE  Ordered(v)
<1> DEFINE u == ClearPeerDownload(w, p)
           c == Adds(u, headers)[Len(headers)]
           x == CollectBlocks(c.w)
<1>1. Ordered(u)
  BY ClearOrdered
<1>2. v = IF u.s.state # "Blocks" THEN u ELSE IF c.stop THEN c.w ELSE ContinueSync(x, order).w
  BY DEF OnPeerBlockHeaders
<1> HIDE DEF u
<1>3. Ordered(c.w)
  BY <1>1, AddsFacts
<1> HIDE DEF c
<1>4. Ordered(x)
  BY <1>3, CollectBlocksFacts
<1> HIDE DEF x
<1>5. Ordered(ContinueSync(x, order).w)
  BY <1>4, ContinueOrdered
<1> QED BY <1>1, <1>2, <1>3, <1>5

\* The bodies of an answer are put to their headers.
LEMMA AddBodiesFacts ==
    ASSUME NEW w, Ordered(w), NEW bodies, NEW v, v = AddBodies(w, bodies)
    PROVE  Ordered(v)
<1> DEFINE s     == w.s
           taken == {b \in bodies : /\ b \in w.s.ids /\ Len(b) \in DOMAIN w.s.headers \ DOMAIN w.s.bodies
                                    /\ w.s.headers[Len(b)] = b}
           new   == {Len(b) : b \in taken}
           B     == [n \in DOMAIN s.bodies \cup new |-> IF n \in new THEN s.headers[n] ELSE s.bodies[n]]
           t     == [s EXCEPT !.ids = @ \ taken, !.bodies = B]
<1>1. w \in Worlds /\ s \in SyncStates /\ Fit(s) /\ s.headers \in Numbered /\ s.bodies \in Numbered
  BY WorldFacts DEF Ordered, Sane
<1>2. v = [w EXCEPT !.s = t]
  BY <1>1 DEF AddBodies, Worlds, SyncStates
<1>3. /\ new \subseteq DOMAIN s.headers /\ new \cap DOMAIN s.bodies = {}
      /\ \A b \in taken : Len(b) \in new /\ s.headers[Len(b)] = b
  OBVIOUS
<1> HIDE DEF taken, new
<1>4. B \in Numbered
  <2>1. /\ DOMAIN s.headers \in SUBSET Nat /\ IsFiniteSet(DOMAIN s.headers)
        /\ \A n \in DOMAIN s.headers : s.headers[n] \in Fresh /\ Len(s.headers[n]) = n
    BY <1>1, NumberedFacts
  <2>2. DOMAIN s.bodies \subseteq DOMAIN s.headers
        /\ \A n \in DOMAIN s.bodies : s.bodies[n] = s.headers[n]
    BY <1>1 DEF Fit
  <2> DEFINE D == DOMAIN s.bodies \cup new
  <2>3. D \in SUBSET Nat /\ IsFiniteSet(D)
    BY <1>3, <2>1, <2>2, FS_Subset
  <2>4. B \in [D -> Fresh] /\ \A n \in D : Len(B[n]) = n
    BY <1>3, <2>1, <2>2
  <2> HIDE DEF B, D
  <2> QED BY <2>3, <2>4, IsNumbered
<1>5. DOMAIN B = DOMAIN s.bodies \cup new
      /\ \A n \in DOMAIN B : B[n] = IF n \in new THEN s.headers[n] ELSE s.bodies[n]
  OBVIOUS
<1> HIDE DEF B
<1>6. /\ t \in SyncStates /\ t.headers = s.headers /\ t.bodies = B /\ t.ids = s.ids \ taken
      /\ t.common = s.common /\ t.last = s.last /\ t.dlHeaders = s.dlHeaders /\ t.dlBodies = s.dlBodies
      /\ t.headerPeers = s.headerPeers /\ t.bodyPeers = s.bodyPeers
  BY <1>1, <1>4 DEF SyncStates
<1> HIDE DEF t
<1>7. v \in Worlds /\ v.s = t /\ v.p = w.p /\ v.q = w.q
  BY <1>1, <1>2, <1>6, WithSync
<1>8. Fit(t)
  <2>1. \A n \in DOMAIN t.bodies : n \in DOMAIN t.headers /\ t.headers[n] = t.bodies[n]
    BY <1>1, <1>3, <1>5, <1>6 DEF Fit
  <2>2. ASSUME NEW n \in DOMAIN t.headers \ DOMAIN t.bodies PROVE t.headers[n] \in t.ids
    <3>1. n \in DOMAIN s.headers /\ n \notin DOMAIN s.bodies /\ n \notin new
      BY <1>5, <1>6, <2>2
    <3>2. s.headers[n] \in s.ids /\ Len(s.headers[n]) = n
      BY <1>1, <3>1, NumberedFacts DEF Fit
    <3>3. s.headers[n] \notin taken
      BY <1>3, <3>1, <3>2
    <3> QED BY <1>6, <3>2, <3>3
  <2> QED BY <2>1, <2>2 DEF Fit
<1>9. Tracked(v)
  BY <1>6, <1>7, FewerTracked DEF Ordered, Sane
<1>10. Clean(v.q) => Linear(v)
  BY <1>6, <1>7, SameLinear DEF Ordered
<1> QED BY <1>7, <1>8, <1>9, <1>10 DEF Ordered, Sane

\* onPeerBlockBodies keeps the order.
LEMMA OnPeerBlockBodiesFacts ==
    ASSUME Base, NEW w \in Worlds, NEW p \in Peer, TrackedBut(w, p), Fit(w.s), Drained(w.q), Clean(w.q) => Linear(w),
           NEW bodies, NEW order \in Orders, NEW v, v = OnPeerBlockBodies(w, p, bodies, order)
    PROVE  Ordered(v)
<1> DEFINE u == ClearPeerDownload(w, p)
           c == AddBodies(u, bodies)
           x == CollectBlocks(c)
<1>1. Ordered(u)
  BY ClearOrdered
<1>2. v = IF u.s.state # "Blocks" THEN u ELSE ContinueSync(x, order).w
  BY DEF OnPeerBlockBodies
<1> HIDE DEF u
<1>3. Ordered(c)
  BY <1>1, AddBodiesFacts
<1> HIDE DEF c
<1>4. Ordered(x)
  BY <1>3, CollectBlocksFacts
<1> HIDE DEF x
<1>5. Ordered(ContinueSync(x, order).w)
  BY <1>4, ContinueOrdered
<1> QED BY <1>1, <1>2, <1>5

-----------------------------------------------------------------------------
(* What a peer announces.                                                  *)

\* A world in which a peer is described otherwise.
SetPeer(w, p, x) == [w EXCEPT !.p[p] = x]

\* Nothing else of the world changes.
LEMMA WithPeer ==
    ASSUME NEW w \in Worlds, NEW p \in Peer, NEW x \in PeerStates, NEW v, v = SetPeer(w, p, x)
    PROVE  v \in Worlds /\ v.s = w.s /\ v.q = w.q /\ v.p[p] = x /\ \A o \in Peer : o # p => v.p[o] = w.p[o]
<1> DEFINE f == [w.p EXCEPT ![p] = x]
<1>1. w.p \in [Peer -> PeerStates]
  BY DEF Worlds
<1>2. f \in [Peer -> PeerStates] /\ f[p] = x /\ \A o \in Peer : o # p => f[o] = w.p[o]
  BY <1>1
<1>3. v = [w EXCEPT !.p = f]
  BY DEF SetPeer
<1> HIDE DEF f
<1>4. v \in Worlds /\ v.s = w.s /\ v.q = w.q /\ v.p = f
  BY <1>2, <1>3 DEF Worlds
<1> QED BY <1>2, <1>4

\* Only what a peer is asked matters to the order.
LEMMA PeerOrdered ==
    ASSUME NEW w, Ordered(w), NEW v \in Worlds, v.s = w.s, v.q = w.q,
           \A o \in Peer : v.p[o].asking = w.p[o].asking
    PROVE  Ordered(v)
<1>1. Sane(v)
  BY DEF Ordered, Sane, Tracked
<1>2. Clean(v.q) => Linear(v)
  BY SameLinear DEF Ordered
<1> QED BY <1>1, <1>2 DEF Ordered

\* The peer has a block: its height may grow.
LEMMA HeardFacts ==
    ASSUME NEW w, Ordered(w), NEW p \in Peer, NEW b \in Block, NEW v, v = Heard(w, p, b)
    PROVE  /\ Ordered(v) /\ v \in Worlds /\ v.s = w.s /\ v.q = w.q
           /\ \A o \in Peer : v.p[o].asking = w.p[o].asking /\ v.p[o].up = w.p[o].up
<1>1. w \in Worlds /\ w.p[p] \in PeerStates /\ Len(b) \in Nat
  BY WorldFacts, PathFacts DEF Ordered, Sane
<1>2. CASE ~(Len(b) > w.p[p].height)
  BY <1>1, <1>2 DEF Heard
<1>3. CASE Len(b) > w.p[p].height
  <2> DEFINE x == [w.p[p] EXCEPT !.height = Len(b), !.latest = b]
  <2>1. x \in PeerStates /\ x.asking = w.p[p].asking /\ x.up = w.p[p].up
    BY <1>1 DEF PeerStates
  <2>2. v = SetPeer(w, p, x)
    BY <1>3 DEF Heard, SetPeer
  <2> HIDE DEF x
  <2>3. v \in Worlds /\ v.s = w.s /\ v.q = w.q /\ v.p[p] = x /\ \A o \in Peer : o # p => v.p[o] = w.p[o]
    BY <1>1, <2>1, <2>2, WithPeer
  <2>4. \A o \in Peer : v.p[o].asking = w.p[o].asking /\ v.p[o].up = w.p[o].up
    BY <2>1, <2>3
  <2> QED BY <2>3, <2>4, PeerOrdered
<1> QED BY <1>2, <1>3

\* A connected peer is asked, or not.
LEMMA SyncPeerOrdered ==
    ASSUME Base, NEW w, Ordered(w), NEW p \in Peer, w.p[p].up, NEW force
    PROVE  Ordered(SyncPeer(w, p, force).w)
<1>1. w \in Worlds /\ Tracked(w) /\ head \in Block
  BY BaseFacts DEF Ordered, Sane
<1>2. Requested(w, SyncPeer(w, p, force))
  BY <1>1, SyncPeerFacts
<1> QED BY <1>2, RequestedOrdered

\* onPeerNewHashes keeps the order.
LEMMA OnPeerNewHashesFacts ==
    ASSUME Base, NEW w, Ordered(w), NEW p \in Peer, w.p[p].up, NEW b \in Block,
           NEW v, v = OnPeerNewHashes(w, p, b)
    PROVE  Ordered(v)
<1> DEFINE u == Heard(w, p, b)
<1>1. Ordered(u) /\ u.p[p].up
  BY HeardFacts
<1> HIDE DEF u
<1>2. Ordered(SyncPeer(u, p, TRUE).w)
  BY <1>1, SyncPeerOrdered
<1>3. v = w \/ v = u \/ v = SyncPeer(u, p, TRUE).w
  BY DEF OnPeerNewHashes, u
<1> QED BY <1>1, <1>2, <1>3

\* A block that a peer sent is not downloaded any more.
LEMMA TakeBlockFacts ==
    ASSUME NEW s \in SyncStates, Fit(s), NEW b \in Block, NEW t, t = TakeBlock(s, b)
    PROVE  /\ t \in SyncStates /\ Fit(t) /\ t.common = s.common
           /\ t.last = IF Len(b) > s.last THEN Len(b) ELSE s.last
           /\ \/ t.dlHeaders = {} /\ t.dlBodies = {}
              \/ /\ t.dlHeaders \subseteq s.dlHeaders /\ t.dlBodies \subseteq s.dlBodies
                 /\ t.headerPeers = s.headerPeers /\ t.bodyPeers = s.bodyPeers
           /\ DOMAIN t.headers \subseteq DOMAIN s.headers \ {Len(b)}
           /\ \A m \in DOMAIN t.headers : t.headers[m] = s.headers[m]
<1> DEFINE n == Len(b)
           H == Without(s.headers, {n})
           B == Without(s.bodies, {n})
           l == IF n > s.last THEN n ELSE s.last
           k == IF n > s.last THEN b ELSE s.lastHash
           D == s.dlHeaders \ {n}
           E == s.dlBodies \ {n}
           d == [s EXCEPT !.last = l, !.lastHash = k, !.headers = H, !.bodies = B, !.dlHeaders = D, !.dlBodies = E]
<1>1. t = IF d.headers = Empty THEN CompleteSync(d) ELSE d
  BY DEF TakeBlock
<1>2. s.headers \in Numbered /\ s.bodies \in Numbered
  BY DEF SyncStates
<1>3. H \in Numbered /\ DOMAIN H = DOMAIN s.headers \ {n} /\ \A m \in DOMAIN s.headers \ {n} : H[m] = s.headers[m]
  BY <1>2, WithoutFacts
<1>4. B \in Numbered
  BY <1>2, WithoutFacts
<1>5. l \in Nat /\ k \in Block \cup {NoBlock} /\ D \in SUBSET Nat /\ E \in SUBSET Nat
  BY PathFacts DEF SyncStates
<1>6. D \subseteq s.dlHeaders /\ E \subseteq s.dlBodies
  OBVIOUS
<1> HIDE DEF H, B, l, k, D, E
<1>7. /\ d \in SyncStates /\ d.headers = H /\ d.bodies = B /\ d.ids = s.ids
      /\ d.common = s.common /\ d.last = l /\ d.dlHeaders = D /\ d.dlBodies = E
      /\ d.headerPeers = s.headerPeers /\ d.bodyPeers = s.bodyPeers
  BY <1>3, <1>4, <1>5 DEF SyncStates
<1> HIDE DEF d
<1>8. Fit(d)
  <2>1. d.headers = Without(s.headers, {n}) /\ d.bodies = Without(s.bodies, {n})
    BY <1>7 DEF H, B
  <2> QED BY <1>7, <2>1, WithoutFit
<1>9. CASE d.headers = Empty
  <2>1. t = CompleteSync(d)
    BY <1>1, <1>9
  <2>2. /\ t \in SyncStates /\ t.headers = Empty /\ t.bodies = Empty
        /\ t.dlHeaders = {} /\ t.dlBodies = {} /\ t.common = d.common /\ t.last = d.last
    BY <1>7, <2>1, ResetFacts
  <2>3. DOMAIN Empty = {}
    BY EmptyFacts
  <2> HIDE DEF Empty
  <2>4. DOMAIN t.headers = {} /\ DOMAIN t.bodies = {}
    BY <2>2, <2>3
  <2>5. Fit(t)
    BY <2>4 DEF Fit
  <2> QED BY <1>7, <2>2, <2>4, <2>5 DEF l
<1>10. CASE d.headers # Empty
  <2>1. t = d
    BY <1>1, <1>10
  <2> QED BY <1>3, <1>6, <1>7, <1>8, <2>1 DEF l
<1> QED BY <1>9, <1>10

\* A peer that sent a block of an unknown parent.
LEMMA CountUnknownFacts ==
    ASSUME Base, NEW w, Ordered(w), NEW p \in Peer, NEW v, v = CountUnknown(w, p)
    PROVE  Ordered(v) /\ v.p[p].up = w.p[p].up
<1> DEFINE a == [w.p[p] EXCEPT !.unknowns = @ + 1]
           u == SetPeer(w, p, a)
           e == [u.p[p] EXCEPT !.enabled = FALSE]
           x == SetPeer(u, p, e)
<1>1. w \in Worlds /\ w.p[p] \in PeerStates
  BY WorldFacts DEF Ordered, Sane
<1>2. v = IF u.p[p].unknowns <= MaxUnknownNewBlocks THEN u ELSE RestartSync(x)
  BY DEF CountUnknown, SetPeer
<1>3. a \in PeerStates /\ a.up = w.p[p].up /\ a.asking = w.p[p].asking
  BY <1>1 DEF PeerStates
<1> HIDE DEF a
<1>4. u \in Worlds /\ u.s = w.s /\ u.q = w.q /\ u.p[p] = a /\ \A o \in Peer : o # p => u.p[o] = w.p[o]
  BY <1>1, <1>3, WithPeer
<1>5. Ordered(u) /\ u.p[p] = a
  <2>1. \A o \in Peer : u.p[o].asking = w.p[o].asking
    BY <1>3, <1>4
  <2> QED BY <1>4, <2>1, PeerOrdered
<1> HIDE DEF u
<1>6. e \in PeerStates /\ e.up = w.p[p].up
  BY <1>3, <1>5 DEF PeerStates
<1> HIDE DEF e
<1>7. x \in Worlds /\ x.q = w.q /\ x.p[p] = e
  BY <1>4, <1>6, WithPeer
<1> HIDE DEF x
<1>8. Clean(x.q) => QueueLinear(x.q)
  BY <1>7 DEF Ordered, Linear
<1>9. Ordered(RestartSync(x)) /\ RestartSync(x).p = x.p
  BY <1>7, <1>8, RestartOrdered
<1> QED BY <1>2, <1>3, <1>5, <1>6, <1>7, <1>9

\* onPeerNewBlock keeps the order.
LEMMA OnPeerNewBlockFacts ==
    ASSUME Base, NEW w, Ordered(w), NEW p \in Peer, w.p[p].up, NEW b \in Block, OneChain => b \in Chain,
           NEW z, z = OnPeerNewBlock(w, p, b)
    PROVE  Ordered(z)
<1> DEFINE n == Len(b)
           h == Heard(w, p, b)
           v == [h EXCEPT !.p[p].td = IF n > h.p[p].td THEN n ELSE h.p[p].td]
           r == ImportResult(w.q, b)
           q == Imported(w.q, b)
           i == [v EXCEPT !.q = q]
           x == CountUnknown(i, p)
<1>1. \/ z = SyncPeer(v, p, TRUE).w
      \/ n <= w.s.last + 1 /\ r = "Success" /\ z = [i EXCEPT !.s = TakeBlock(w.s, b)]
      \/ n <= w.s.last + 1 /\ r = "UnknownParent" /\ (z = SyncPeer(x, p, TRUE).w \/ z = x)
      \/ z = v
      \/ r = "BadChain" /\ z = [i EXCEPT !.p[p].enabled = FALSE]
  <2>1. w.s.last \in Nat /\ n \in Nat
    BY WorldFacts, PathFacts DEF Ordered, Sane
  <2>2. n > w.s.last + 1 \/ n <= w.s.last + 1
    BY <2>1
  <2>3. r \in {"AlreadyKnown", "AlreadyInChain", "BadChain", "Success", "UnknownParent"}
    BY DEF ImportResult
  <2>4. z = CASE n > w.s.last + 1 -> SyncPeer(v, p, TRUE).w
              [] n <= w.s.last + 1 /\ r = "Success" -> [i EXCEPT !.s = TakeBlock(w.s, b)]
              [] n <= w.s.last + 1 /\ r = "UnknownParent" ->
                    IF n > w.p[p].td THEN SyncPeer(x, p, TRUE).w ELSE x
              [] n <= w.s.last + 1 /\ r \in {"AlreadyKnown", "AlreadyInChain"} -> v
              [] n <= w.s.last + 1 /\ r = "BadChain" -> [i EXCEPT !.p[p].enabled = FALSE]
    BY Zenon DEF OnPeerNewBlock
  <2> HIDE DEF n, h, v, r, q, i, x
  <2>5. CASE n > w.s.last + 1
    BY <2>1, <2>4, <2>5
  <2>6. CASE n <= w.s.last + 1
    <3>1. ~(n > w.s.last + 1)
      BY <2>1, <2>6
    <3> QED BY <2>3, <2>4, <2>6, <3>1
  <2> QED BY <2>2, <2>5, <2>6
<1>2. /\ Ordered(h) /\ h \in Worlds /\ h.s = w.s /\ h.q = w.q
      /\ \A o \in Peer : h.p[o].asking = w.p[o].asking /\ h.p[o].up = w.p[o].up
  BY HeardFacts
<1> HIDE DEF h
<1>3. Ordered(v) /\ v \in Worlds /\ v.s = w.s /\ v.q = w.q /\ v.p[p].up
  <2> DEFINE a == [h.p[p] EXCEPT !.td = IF n > h.p[p].td THEN n ELSE h.p[p].td]
  <2>1. h.p[p] \in PeerStates /\ n \in Nat
    BY <1>2, WorldFacts, PathFacts
  <2>2. a \in PeerStates /\ a.up = h.p[p].up /\ a.asking = h.p[p].asking
    BY <2>1 DEF PeerStates
  <2>3. v = SetPeer(h, p, a)
    BY DEF SetPeer
  <2> HIDE DEF a, v
  <2>4. v \in Worlds /\ v.s = h.s /\ v.q = h.q /\ v.p[p] = a /\ \A o \in Peer : o # p => v.p[o] = h.p[o]
    BY <1>2, <2>2, <2>3, WithPeer
  <2>5. \A o \in Peer : v.p[o].asking = h.p[o].asking
    BY <2>2, <2>4
  <2>6. Ordered(v)
    BY <1>2, <2>4, <2>5, PeerOrdered
  <2> QED BY <1>2, <2>2, <2>4, <2>6
<1> HIDE DEF v
<1>4. w \in Worlds /\ w.q \in QueueStates /\ w.s \in SyncStates /\ Fit(w.s) /\ n \in Nat /\ w.s.last \in Nat
      /\ <<>> \in known /\ w.s.headers \in Numbered
  BY WorldFacts, PathFacts, BaseFacts DEF Ordered, Sane
<1>5. q \in QueueStates /\ q.draining = w.q.draining /\ w.q.bad \subseteq q.bad
      /\ (r = "BadChain" => w.q.bad # {})
  BY <1>4, ImportFacts
<1> HIDE DEF q
<1>6. i \in Worlds /\ i.s = w.s /\ i.p = v.p /\ i.q = q
  BY <1>3, <1>5, WithQueue
<1> HIDE DEF i
<1>7. Sane(i) /\ (Clean(q) => OneChain /\ w.q.bad = {} /\ Linear(w) /\ b \in Chain)
  <2>1. Sane(i)
    BY <1>3, <1>5, <1>6 DEF Ordered, Sane, Tracked, Drained
  <2>2. ASSUME Clean(q) PROVE OneChain /\ w.q.bad = {} /\ Linear(w) /\ b \in Chain
    BY <1>5, <2>2 DEF Ordered, Clean
  <2> QED BY <2>1, <2>2
<1>8. CASE z = SyncPeer(v, p, TRUE).w
  BY <1>3, <1>8, SyncPeerOrdered
<1>9. CASE n <= w.s.last + 1 /\ r = "Success" /\ z = [i EXCEPT !.s = TakeBlock(w.s, b)]
  <2> DEFINE t == TakeBlock(w.s, b)
  <2>1. /\ t \in SyncStates /\ Fit(t) /\ t.common = w.s.common
        /\ t.last = IF Len(b) > w.s.last THEN Len(b) ELSE w.s.last
        /\ \/ t.dlHeaders = {} /\ t.dlBodies = {}
           \/ /\ t.dlHeaders \subseteq w.s.dlHeaders /\ t.dlBodies \subseteq w.s.dlBodies
              /\ t.headerPeers = w.s.headerPeers /\ t.bodyPeers = w.s.bodyPeers
        /\ DOMAIN t.headers \subseteq DOMAIN w.s.headers \ {Len(b)}
        /\ \A m \in DOMAIN t.headers : t.headers[m] = w.s.headers[m]
    BY <1>4, TakeBlockFacts
  <2> HIDE DEF t
  <2>2. z = [i EXCEPT !.s = t]
    BY <1>9 DEF t
  <2>3. z \in Worlds /\ z.s = t /\ z.p = i.p /\ z.q = q
    BY <1>6, <2>1, <2>2, WithSync
  <2>4. Tracked(z)
    <3>1. CASE t.dlHeaders = {} /\ t.dlBodies = {}
      BY <2>3, <3>1 DEF Tracked
    <3>2. CASE /\ t.dlHeaders \subseteq w.s.dlHeaders /\ t.dlBodies \subseteq w.s.dlBodies
               /\ t.headerPeers = w.s.headerPeers /\ t.bodyPeers = w.s.bodyPeers
      BY <1>6, <1>7, <2>3, <3>2, FewerTracked DEF Sane
    <3> QED BY <2>1, <3>1, <3>2
  <2>5. Sane(z)
    BY <1>6, <1>7, <2>1, <2>3, <2>4 DEF Sane
  <2>6. ASSUME Clean(q) PROVE Linear(z)
    <3>1. OneChain /\ Linear(w) /\ b \in Chain
      BY <1>7, <2>6
    <3>2. QueueLinear(q) /\ Had(q) = Had(w.q) \cup {b}
      BY <1>4, <1>9, <3>1, ImportLinear DEF Linear, q
    <3>3. LastLinear(q, t.last)
      BY <2>1, <3>1, <3>2 DEF Linear, LastLinear
    <3>4. ASSUME NEW m \in DOMAIN t.headers
          PROVE  t.headers[m] \in Chain /\ t.headers[m] \notin known /\ m > t.last /\ \A c \in Had(q) : Len(c) <= m
      <4>1. m \in DOMAIN w.s.headers /\ m # n /\ t.headers[m] = w.s.headers[m]
        BY <2>1, <3>4
      <4>2. m \in Nat
        BY <1>4, <4>1, NumberedFacts
      <4>3. /\ w.s.headers[m] \in Chain /\ w.s.headers[m] \notin known /\ m > w.s.last
            /\ \A c \in Had(w.q) : Len(c) <= m
        BY <3>1, <4>1 DEF Linear, HeadersLinear
      <4>4. m > n /\ m > t.last
        BY <1>4, <1>9, <2>1, <4>1, <4>2, <4>3
      <4>5. \A c \in Had(q) : Len(c) <= m
        BY <1>4, <3>2, <4>2, <4>3, <4>4
      <4> QED BY <4>1, <4>3, <4>4, <4>5
    <3>5. HeadersLinear(t, q)
      BY <3>4 DEF HeadersLinear
    <3> QED BY <2>3, <3>2, <3>3, <3>5 DEF Linear
  <2> QED BY <2>3, <2>5, <2>6 DEF Ordered
<1>10. CASE n <= w.s.last + 1 /\ r = "UnknownParent" /\ (z = SyncPeer(x, p, TRUE).w \/ z = x)
  <2>1. ASSUME Clean(q) PROVE FALSE
    <3>1. OneChain /\ Linear(w) /\ b \in Chain
      BY <1>7, <2>1
    <3>2. b \in Fresh /\ Parent(b) \notin Had(w.q)
      BY <1>4, <1>10, <3>1, ImportLinear DEF Linear
    <3>3. Parent(b) \in Chain /\ Len(Parent(b)) <= w.s.last
      <4>1. Parent(b) \in Path(b) /\ Len(Parent(b)) = n - 1
        BY <3>2, ParentFacts
      <4> QED BY <1>4, <1>10, <3>1, <4>1, ChainFacts
    <3> QED BY <1>4, <3>1, <3>2, <3>3, HadFacts DEF Linear
  <2>2. Ordered(i)
    BY <1>6, <1>7, <2>1 DEF Ordered
  <2>3. Ordered(x) /\ x.p[p].up
    BY <1>3, <1>6, <2>2, CountUnknownFacts
  <2> HIDE DEF x
  <2>4. Ordered(SyncPeer(x, p, TRUE).w)
    BY <2>3, SyncPeerOrdered
  <2> QED BY <1>10, <2>3, <2>4
<1>11. CASE z = v
  BY <1>3, <1>11
<1>12. CASE r = "BadChain" /\ z = [i EXCEPT !.p[p].enabled = FALSE]
  <2>1. ~Clean(q)
    BY <1>5, <1>7, <1>12
  <2>2. Ordered(i)
    BY <1>6, <1>7, <2>1 DEF Ordered
  <2> DEFINE e == [i.p[p] EXCEPT !.enabled = FALSE]
  <2>3. i.p[p] \in PeerStates
    BY <1>6, WorldFacts
  <2>4. e \in PeerStates /\ e.asking = i.p[p].asking
    BY <2>3 DEF PeerStates
  <2>5. z = SetPeer(i, p, e)
    BY <1>12 DEF SetPeer
  <2> HIDE DEF e
  <2>6. z \in Worlds /\ z.s = i.s /\ z.q = i.q /\ z.p[p] = e /\ \A o \in Peer : o # p => z.p[o] = i.p[o]
    BY <1>6, <2>4, <2>5, WithPeer
  <2>7. \A o \in Peer : z.p[o].asking = i.p[o].asking
    BY <2>4, <2>6
  <2> QED BY <2>2, <2>6, <2>7, PeerOrdered
<1> HIDE DEF n, r, x
<1> QED BY <1>1, <1>8, <1>9, <1>10, <1>11, <1>12

-----------------------------------------------------------------------------
(* The invariant.                                                          *)

Hands == hand = NoBlock \/ hand \in Fresh

Serves == served \in [Peer -> Block] /\ \A p \in Peer : served[p] \in Path(Served[p])

SyncInv == Base /\ Ordered(World) /\ Hands /\ Serves

\* The members of the world.
LEMMA WorldMembers ==
    World.s = sync /\ World.p = peer /\ World.q = queue
BY DEF World

\* A step leaves an ordered world behind; it may take a block in hand.
LEMMA SyncMoves ==
    ASSUME NEW w \in Worlds, Tracked(w), Fit(w.s), Clean(w.q) => Linear(w), Clean(w.q) => HandLinear',
           w.q.draining \subseteq {hand'} \ {NoBlock}, Sync(w), known' = known, head' = head
    PROVE  Ordered(World)'
<1>1. World' = w
  <2>1. w = [s |-> w.s, p |-> w.p, q |-> w.q]
    BY DEF Worlds
  <2>2. World' = [s |-> sync', p |-> peer', q |-> queue']
    BY DEF World
  <2> QED BY <2>1, <2>2 DEF Sync
<1>2. Sane(World)'
  BY <1>1 DEF Sane, Tracked, Fit, Drained
<1>3. ASSUME Clean(World.q)' PROVE Linear(World)'
  <2>1. Clean(w.q)
    BY <1>1, <1>3 DEF Clean, OneChain
  <2>2. Linear(w) /\ HandLinear'
    BY <2>1
  <2>3. QueueLinear(World.q)'
    BY <1>1, <2>2 DEF Linear, QueueLinear, Had, Chain
  <2> QED BY <1>1, <2>2, <2>3 DEF Linear, LastLinear, HeadersLinear, Had, Chain
<1> QED BY <1>2, <1>3 DEF Ordered

\* ... and so does a handler, which leaves the block in hand alone.
LEMMA SyncStep ==
    ASSUME NEW w, Ordered(w), Sync(w), UNCHANGED local
    PROVE  Ordered(World)'
<1>1. /\ w \in Worlds /\ Tracked(w) /\ Fit(w.s) /\ (Clean(w.q) => Linear(w))
      /\ w.q.draining \subseteq {hand} \ {NoBlock}
  BY DEF Ordered, Sane, Drained
<1>2. known' = known /\ head' = head /\ hand' = hand
  BY DEF local
<1>3. Clean(w.q) => HandLinear'
  BY <1>1, <1>2 DEF Linear, QueueLinear, HandLinear, Chain
<1> QED BY <1>1, <1>2, <1>3, SyncMoves

\* ... and the rest as it was.
LEMMA LocalStep ==
    ASSUME SyncInv, UNCHANGED local
    PROVE  Base' /\ Hands'
<1>1. known' = known /\ head' = head /\ hand' = hand
  BY DEF local
<1> QED BY <1>1 DEF SyncInv, Base, Hands

\* Hence a handler that leaves an ordered world keeps the invariant.
LEMMA HandlerStep ==
    ASSUME SyncInv, NEW w, Ordered(w), Sync(w), UNCHANGED local, UNCHANGED served
    PROVE  SyncInv'
<1>1. Serves'
  BY DEF SyncInv, Serves
<1> QED BY <1>1, SyncStep, LocalStep DEF SyncInv

\* Initially nothing is downloaded.
LEMMA InitInv ==
    ASSUME Init
    PROVE  SyncInv
<1>1. head \in Block /\ \A n \in 0..Len(head) : SubSeq(head, 1, n) \notin Bad
  BY BlockChainSyncAssumption DEF Init
<1>2. Len(head) \in Nat /\ head \in Path(head) /\ \A c \in Path(head) : c \in Block /\ Path(c) \subseteq Path(head)
  BY <1>1, PathFacts
<1>3. Base
  <2>1. Path(head) \cap Bad = {}
    BY <1>1 DEF Path
  <2> QED BY <1>2, <2>1 DEF Init, Base
<1>4. Hands
  BY DEF Init, Hands
<1>5. Serves
  <2>1. ASSUME NEW p \in Peer PROVE Prefix(Served[p], First[p]) \in Path(Served[p])
    <3>1. Served[p] \in Block /\ First[p] \in 0..Len(Served[p])
      BY BlockChainSyncAssumption
    <3>2. SubSeq(Served[p], 1, First[p]) \in Path(Served[p])
      BY <3>1, PathFacts
    <3>3. First[p] <= Len(Served[p])
      BY BlockChainSyncAssumption
    <3> QED BY <3>2, <3>3 DEF Prefix
  <2>2. ASSUME NEW p \in Peer PROVE Prefix(Served[p], First[p]) \in Block
    BY <2>1, BlockChainSyncAssumption, PathFacts
  <2> QED BY <2>1, <2>2 DEF Init, Serves
<1>6. World \in Worlds
  <2>1. Empty \in Numbered
    BY EmptyFacts
  <2> HIDE DEF Empty
  <2>2. sync \in SyncStates
    BY <1>1, <1>2, <2>1 DEF Init, SyncStates
  <2>3. Down \in PeerStates
    BY DEF Down, PeerStates
  <2>4. peer \in [Peer -> PeerStates]
    BY <2>3 DEF Init
  <2>5. queue \in QueueStates
    BY DEF Init, QueueStates
  <2> QED BY <2>2, <2>4, <2>5 DEF Worlds, World
<1>7. /\ World.s.headers = Empty /\ World.s.bodies = Empty /\ World.s.dlHeaders = {} /\ World.s.dlBodies = {}
      /\ World.s.last = Len(head) /\ World.q.draining = {} /\ World.q.ready = {} /\ World.q.pipe = {}
      /\ World.q.bad = {} /\ World.q.unknown = {} /\ hand = NoBlock
  <2> HIDE DEF Empty
  <2> QED BY DEF Init, World
<1>8. Sane(World)
  BY <1>6, <1>7, EmptySane DEF Drained
<1>9. Linear(World)
  <2>1. Had(World.q) = known
    BY <1>7 DEF Had
  <2>2. QueueLinear(World.q)
    BY <1>7 DEF QueueLinear, HandLinear
  <2>3. LastLinear(World.q, World.s.last)
    BY <1>3, <1>7, <2>1 DEF LastLinear, Base
  <2> QED BY <1>7, <2>2, <2>3, EmptyLinear
<1> QED BY <1>3, <1>4, <1>5, <1>8, <1>9 DEF SyncInv, Ordered

\* A peer is asked nothing any more: only its own numbers have lost their peer.
LEMMA Released ==
    ASSUME NEW w \in Worlds, Sane(w), Clean(w.q) => Linear(w), NEW p \in Peer, NEW x \in PeerStates,
           NEW v, v = SetPeer(w, p, x)
    PROVE  /\ v \in Worlds /\ TrackedBut(v, p) /\ Fit(v.s) /\ Drained(v.q) /\ (Clean(v.q) => Linear(v))
<1>1. v \in Worlds /\ v.s = w.s /\ v.q = w.q /\ \A o \in Peer : o # p => v.p[o] = w.p[o]
  BY WithPeer
<1>2. TrackedBut(v, p)
  <2>1. ASSUME NEW n \in v.s.dlHeaders, n \notin v.s.headerPeers[p]
        PROVE  \E o \in Peer : n \in v.s.headerPeers[o] /\ v.p[o].asking # "Nothing"
    <3>1. PICK o \in Peer : n \in w.s.headerPeers[o] /\ w.p[o].asking # "Nothing"
      BY <1>1, <2>1 DEF Sane, Tracked
    <3> QED BY <1>1, <2>1, <3>1
  <2>2. ASSUME NEW n \in v.s.dlBodies, n \notin v.s.bodyPeers[p]
        PROVE  \E o \in Peer : n \in v.s.bodyPeers[o] /\ v.p[o].asking # "Nothing"
    <3>1. PICK o \in Peer : n \in w.s.bodyPeers[o] /\ w.p[o].asking # "Nothing"
      BY <1>1, <2>2 DEF Sane, Tracked
    <3> QED BY <1>1, <2>2, <3>1
  <2> QED BY <2>1, <2>2 DEF TrackedBut
<1>3. Clean(v.q) => Linear(v)
  BY <1>1, SameLinear
<1> QED BY <1>1, <1>2, <1>3 DEF Sane

\* What SyncInv says of a peer and its chain.
LEMMA PeerFacts ==
    ASSUME SyncInv, NEW p \in Peer
    PROVE  /\ World \in Worlds /\ Sane(World) /\ (Clean(World.q) => Linear(World))
           /\ peer[p] \in PeerStates /\ World.p[p] = peer[p]
           /\ served[p] \in Block /\ Len(served[p]) \in Nat
           /\ Path(served[p]) \subseteq Path(Served[p]) /\ Path(Served[p]) \subseteq Chain
           /\ \A c \in Path(served[p]) : c \in Block /\ c \in Chain
<1>1. World \in Worlds /\ Sane(World) /\ (Clean(World.q) => Linear(World))
  BY DEF SyncInv, Ordered, Sane
<1>2. World.p[p] \in PeerStates /\ World.p[p] = peer[p]
  BY <1>1, WorldFacts, WorldMembers
<1>3. served[p] \in Path(Served[p]) /\ served[p] \in Block /\ Served[p] \in Block
  BY BlockChainSyncAssumption DEF SyncInv, Serves
<1>4. Len(served[p]) \in Nat /\ Path(served[p]) \subseteq Path(Served[p]) /\ \A c \in Path(served[p]) : c \in Block
  BY <1>3, PathFacts
<1>5. Path(Served[p]) \subseteq Chain
  BY DEF Chain
<1> QED BY <1>1, <1>2, <1>3, <1>4, <1>5

\* A peer that connects has nothing noted for it, and may be asked.
LEMMA OnPeerStatusInv ==
    ASSUME SyncInv, NEW p \in Peer, OnPeerStatus(p)
    PROVE  SyncInv'
<1> DEFINE x == [Down EXCEPT !.up = TRUE, !.enabled = TRUE, !.height = Len(served[p]),
                             !.latest = served[p], !.td = Len(served[p])]
           w == SetPeer(World, p, x)
           v == SyncPeer(w, p, FALSE).w
<1>1. /\ ~peer[p].up /\ Sync(v) /\ UNCHANGED local /\ UNCHANGED served
  BY DEF OnPeerStatus, SetPeer, remote
<1>2. /\ World \in Worlds /\ Sane(World) /\ peer[p] \in PeerStates /\ World.p[p] = peer[p]
      /\ served[p] \in Block /\ Len(served[p]) \in Nat
  BY PeerFacts
<1>3. x \in PeerStates /\ x.up = TRUE /\ x.asking = "Nothing"
  BY <1>2 DEF Down, PeerStates
<1> HIDE DEF x
<1>4. w \in Worlds /\ w.s = World.s /\ w.q = World.q /\ w.p[p] = x /\ \A o \in Peer : o # p => w.p[o] = World.p[o]
  BY <1>2, <1>3, WithPeer
<1>5. peer[p].asking = "Nothing"
  BY <1>1, <1>2 DEF PeerStates
<1>6. Ordered(w)
  <2>1. \A o \in Peer : w.p[o].asking = World.p[o].asking
    BY <1>2, <1>3, <1>4, <1>5
  <2> QED BY <1>4, <2>1, PeerOrdered DEF SyncInv
<1> HIDE DEF w
<1>7. Ordered(v)
  BY <1>3, <1>4, <1>6, SyncPeerOrdered DEF SyncInv
<1> HIDE DEF v
<1> QED BY <1>1, <1>7, HandlerStep

\* A peer answers with headers of its chain.
LEMMA ChunkFacts ==
    ASSUME NEW b \in Block, NEW start \in Nat, NEW count \in Nat, NEW a, a = Chunk(b, start, count)
    PROVE  Len(a) \in Nat /\ \A k \in 1..Len(a) : a[k] \in Path(b)
<1>1. Len(b) \in Nat
  BY PathFacts
<1>2. CASE start > Len(b)
  <2>1. a = <<>>
    BY <1>2 DEF Chunk
  <2> QED BY <2>1
<1>3. CASE ~(start > Len(b))
  <2> DEFINE n == IF start + count <= Len(b) + 1 THEN count ELSE Len(b) + 1 - start
  <2>1. a = [i \in 1..n |-> Prefix(b, start + i - 1)]
    BY <1>3 DEF Chunk
  <2>2. n \in Nat /\ start + n <= Len(b) + 1
    BY <1>1, <1>3
  <2> HIDE DEF n
  <2>3. ASSUME NEW k \in 1..n PROVE Prefix(b, start + k - 1) \in Path(b)
    <3>1. start + k - 1 \in 0..Len(b) /\ start + k - 1 <= Len(b)
      BY <1>1, <2>2
    <3> QED BY <3>1, PathFacts DEF Prefix
  <2>4. a \in Seq(Path(b)) /\ Len(a) = n
    <3>1. a \in [1..n -> Path(b)]
      BY <2>1, <2>3
    <3> QED BY <2>2, <3>1
  <2> QED BY <2>1, <2>2, <2>3, <2>4
<1> QED BY <1>2, <1>3

\* An answer holds headers of the chain of the peer.
LEMMA AnswerFacts ==
    ASSUME NEW b \in Block, NEW r \in HeaderRequest, NEW a, a = Answer(b, r)
    PROVE  Len(a) \in Nat /\ \A k \in 1..Len(a) : a[k] \in Path(b)
<1>1. CASE r \in [hash : Block \cup {NoBlock}]
  <2>1. "hash" \in DOMAIN r
    BY <1>1
  <2>2. a = IF r.hash \in Path(b) THEN <<r.hash>> ELSE <<>>
    BY <2>1 DEF Answer
  <2>3. CASE r.hash \in Path(b)
    <3>1. a = <<r.hash>>
      BY <2>2, <2>3
    <3> QED BY <2>3, <3>1
  <2>4. CASE r.hash \notin Path(b)
    <3>1. a = <<>>
      BY <2>2, <2>4
    <3> QED BY <3>1
  <2> QED BY <2>3, <2>4
<1>2. CASE r \in [start : Nat, count : Nat]
  <2>1. "hash" \notin DOMAIN r /\ r.start \in Nat /\ r.count \in Nat
    BY <1>2
  <2>2. a = Chunk(b, r.start, r.count)
    BY <2>1 DEF Answer
  <2> QED BY <2>1, <2>2, ChunkFacts
<1> QED BY <1>1, <1>2 DEF HeaderRequest

\* The peer that answers is not asked any more.
LEMMA AnsweredFacts ==
    ASSUME SyncInv, NEW p \in Peer, NEW v, v = Answered(p)
    PROVE  /\ v \in Worlds /\ TrackedBut(v, p) /\ Fit(v.s) /\ Drained(v.q) /\ (Clean(v.q) => Linear(v))
<1> DEFINE x == [peer[p] EXCEPT !.asking = "Nothing", !.request = NoRequest]
<1>1. World \in Worlds /\ Sane(World) /\ (Clean(World.q) => Linear(World)) /\ peer[p] \in PeerStates
  BY PeerFacts
<1>2. x \in PeerStates
  BY <1>1 DEF PeerStates
<1>3. v = SetPeer(World, p, x)
  BY DEF Answered, SetPeer
<1> HIDE DEF x
<1> QED BY <1>1, <1>2, <1>3, Released

\* Headers arrive: they are of the chain of the peer.
LEMMA BlockHeadersInv ==
    ASSUME SyncInv, NEW p \in Peer, BlockHeaders(p)
    PROVE  SyncInv'
<1> DEFINE w == Answered(p)
           a == Answer(served[p], peer[p].request)
<1>1. PICK order \in Orders : Sync(OnPeerBlockHeaders(w, p, a, order))
  BY DEF BlockHeaders
<1>2. peer[p].asking = "BlockHeaders" /\ UNCHANGED local /\ UNCHANGED served
  BY DEF BlockHeaders, remote
<1>3. /\ peer[p] \in PeerStates /\ served[p] \in Block
      /\ \A c \in Path(served[p]) : c \in Block /\ c \in Chain
  BY PeerFacts
<1>4. peer[p].request \in HeaderRequest
  BY <1>2, <1>3 DEF PeerStates
<1>5. Len(a) \in Nat /\ \A k \in 1..Len(a) : a[k] \in Path(served[p])
  BY <1>3, <1>4, AnswerFacts
<1>6. /\ w \in Worlds /\ TrackedBut(w, p) /\ Fit(w.s) /\ Drained(w.q) /\ (Clean(w.q) => Linear(w))
  BY AnsweredFacts
<1> DEFINE v == OnPeerBlockHeaders(w, p, a, order)
<1>7. Sync(v)
  BY <1>1
<1> HIDE DEF w, a
<1>8. Ordered(v)
  BY <1>3, <1>5, <1>6, OnPeerBlockHeadersFacts DEF SyncInv
<1> HIDE DEF v
<1> QED BY <1>2, <1>7, <1>8, HandlerStep

\* Bodies arrive.
LEMMA BlockBodiesInv ==
    ASSUME SyncInv, NEW p \in Peer, BlockBodies(p)
    PROVE  SyncInv'
<1> DEFINE w == Answered(p)
<1>1. PICK order \in Orders, a \in SUBSET (peer[p].request.bodies \cap Path(served[p])) :
        Sync(OnPeerBlockBodies(w, p, a, order))
  BY DEF BlockBodies
<1>2. UNCHANGED local /\ UNCHANGED served
  BY DEF BlockBodies, remote
<1>3. /\ w \in Worlds /\ TrackedBut(w, p) /\ Fit(w.s) /\ Drained(w.q) /\ (Clean(w.q) => Linear(w))
  BY AnsweredFacts
<1> DEFINE v == OnPeerBlockBodies(w, p, a, order)
<1>4. Sync(v)
  BY <1>1
<1> HIDE DEF w
<1>5. Ordered(v)
  BY <1>3, OnPeerBlockBodiesFacts DEF SyncInv
<1> HIDE DEF v
<1> QED BY <1>2, <1>4, <1>5, HandlerStep

\* The chain of a peer grows, and the peer may be asked for the new block.
LEMMA NewBlockHashesInv ==
    ASSUME SyncInv, NEW p \in Peer, NewBlockHashes(p)
    PROVE  SyncInv'
<1> DEFINE b == Prefix(Served[p], Len(served[p]) + 1)
           v == OnPeerNewHashes(World, p, b)
<1>1. /\ Len(served[p]) < Len(Served[p]) /\ served' = [served EXCEPT ![p] = b] /\ UNCHANGED local
      /\ IF peer[p].enabled THEN Sync(OnPeerNewHashes(World, p, served'[p])) ELSE UNCHANGED <<sync, peer, queue>>
  BY DEF NewBlockHashes
<1>2. /\ peer[p] \in PeerStates /\ World.p[p] = peer[p] /\ Len(served[p]) \in Nat /\ Served[p] \in Block
  BY PeerFacts, BlockChainSyncAssumption
<1>3. b \in Path(Served[p]) /\ b \in Block
  <2>1. Len(Served[p]) \in Nat
    BY <1>2, PathFacts
  <2>2. Len(served[p]) + 1 \in 0..Len(Served[p]) /\ Len(served[p]) + 1 <= Len(Served[p])
    BY <1>1, <1>2, <2>1
  <2>3. b \in Path(Served[p])
    BY <1>2, <2>2, PathFacts DEF Prefix
  <2> QED BY <1>2, <2>3, PathFacts
<1> HIDE DEF b
<1>4. served \in [Peer -> Block] /\ \A o \in Peer : served[o] \in Path(Served[o])
  BY DEF SyncInv, Serves
<1>5. Serves' /\ served'[p] = b
  BY <1>1, <1>3, <1>4 DEF Serves
<1>6. CASE peer[p].enabled
  <2>1. World.p[p].up
    BY <1>2, <1>6 DEF PeerStates
  <2>2. Ordered(v)
    BY <1>3, <2>1, OnPeerNewHashesFacts DEF SyncInv
  <2>3. Sync(v)
    BY <1>1, <1>5, <1>6
  <2> HIDE DEF v
  <2>4. Ordered(World)'
    BY <1>1, <2>2, <2>3, SyncStep
  <2> QED BY <1>1, <1>5, <2>4, LocalStep DEF SyncInv
<1>7. CASE ~peer[p].enabled
  <2>1. Sync(World)
    BY <1>1, <1>7, WorldMembers DEF Sync
  <2>2. Ordered(World)'
    BY <1>1, <2>1, SyncStep DEF SyncInv
  <2> QED BY <1>1, <1>5, <2>2, LocalStep DEF SyncInv
<1> QED BY <1>6, <1>7

\* A block of the chain of a peer arrives.
LEMMA NewBlockInv ==
    ASSUME SyncInv, NEW p \in Peer, NewBlock(p)
    PROVE  SyncInv'
<1> DEFINE v == OnPeerNewBlock(World, p, served[p])
<1>1. peer[p].enabled /\ Sync(v) /\ UNCHANGED local /\ UNCHANGED served
  BY DEF NewBlock
<1>2. /\ peer[p] \in PeerStates /\ World.p[p] = peer[p] /\ served[p] \in Block
      /\ \A c \in Path(served[p]) : c \in Chain
  BY PeerFacts
<1>3. World.p[p].up
  BY <1>1, <1>2 DEF PeerStates
<1>4. served[p] \in Chain
  BY <1>2, PathFacts
<1>5. Ordered(v)
  BY <1>2, <1>3, <1>4, OnPeerNewBlockFacts DEF SyncInv
<1> HIDE DEF v
<1> QED BY <1>1, <1>5, HandlerStep

\* A peer is lost: what was noted for it is given up and the others are asked.
LEMMA OnPeerAbortingInv ==
    ASSUME SyncInv, NEW p \in Peer, OnPeerAborting(p)
    PROVE  SyncInv'
<1> DEFINE w == SetPeer(World, p, Down)
           u == ClearPeerDownload(w, p)
<1>1. PICK order \in Orders : Sync(ContinueSync(u, order).w)
  BY DEF OnPeerAborting, SetPeer
<1>2. UNCHANGED local /\ UNCHANGED served
  BY DEF OnPeerAborting, remote
<1>3. Down \in PeerStates
  BY DEF Down, PeerStates
<1>4. World \in Worlds /\ Sane(World) /\ (Clean(World.q) => Linear(World))
  BY PeerFacts
<1>5. /\ w \in Worlds /\ TrackedBut(w, p) /\ Fit(w.s) /\ Drained(w.q) /\ (Clean(w.q) => Linear(w))
  BY <1>3, <1>4, Released
<1> DEFINE v == ContinueSync(u, order).w
<1>6. Sync(v)
  BY <1>1
<1> HIDE DEF w
<1>7. Ordered(u)
  BY <1>5, ClearOrdered
<1> HIDE DEF u
<1>8. Ordered(v)
  BY <1>7, ContinueOrdered DEF SyncInv
<1> HIDE DEF v
<1> QED BY <1>2, <1>6, <1>8, HandlerStep

\* The state of the downloads alone is nothing to the order.
LEMMA StateFacts ==
    ASSUME NEW w \in Worlds, Tracked(w), Fit(w.s), Clean(w.q) => Linear(w),
           NEW st \in {"Idle", "NotSynced", "Blocks", "Waiting"}, NEW v, v = [w EXCEPT !.s.state = st]
    PROVE  v \in Worlds /\ Tracked(v) /\ Fit(v.s) /\ (Clean(v.q) => Linear(v)) /\ v.q = w.q
<1> DEFINE t == [w.s EXCEPT !.state = st]
<1>1. w.s \in SyncStates
  BY WorldFacts
<1>2. /\ t \in SyncStates /\ t.headers = w.s.headers /\ t.bodies = w.s.bodies /\ t.ids = w.s.ids
      /\ t.dlHeaders = w.s.dlHeaders /\ t.dlBodies = w.s.dlBodies /\ t.headerPeers = w.s.headerPeers
      /\ t.bodyPeers = w.s.bodyPeers /\ t.common = w.s.common /\ t.last = w.s.last
  BY <1>1 DEF SyncStates
<1>3. v = [w EXCEPT !.s = t]
  OBVIOUS
<1> HIDE DEF t
<1>4. v \in Worlds /\ v.s = t /\ v.p = w.p /\ v.q = w.q
  BY ONLY w \in Worlds, <1>2, <1>3, WithSync
<1>5. Tracked(v)
  BY <1>2, <1>4, FewerTracked
<1>6. Fit(v.s)
  BY <1>2, <1>4 DEF Fit
<1>7. Clean(v.q) => Linear(v)
  BY <1>2, <1>4, SameLinear
<1> QED BY <1>4, <1>5, <1>6, <1>7

\* The world with block b in hand.
InHand(b) == [World EXCEPT !.q = [queue EXCEPT !.ready = @ \ {b}, !.pipe = @ \ {b}, !.draining = {b}]]

\* A block in hand counts as before.
LEMMA InHandFacts ==
    ASSUME SyncInv, hand = NoBlock, NEW b \in queue.pipe, Path(b) \cap queue.pipe = {b}, NEW w, w = InHand(b)
    PROVE  /\ w \in Worlds /\ Tracked(w) /\ Fit(w.s) /\ (Clean(w.q) => Linear(w)) /\ w.q.draining = {b}
           /\ Clean(w.q) => b \in Chain /\ Parent(b) \in known
           /\ sync.state \in {"Idle", "NotSynced", "Blocks", "Waiting"}
<1> DEFINE q == [queue EXCEPT !.ready = @ \ {b}, !.pipe = @ \ {b}, !.draining = {b}]
<1>1. World \in Worlds /\ Sane(World) /\ World.s = sync /\ World.q = queue
  BY WorldMembers DEF SyncInv, Ordered, Sane
<1>2. queue \in QueueStates /\ sync \in SyncStates /\ queue.draining = {}
  BY <1>1, WorldFacts DEF Sane, Drained
<1>3. /\ q \in QueueStates /\ q.ready = queue.ready \ {b} /\ q.pipe = queue.pipe \ {b} /\ q.draining = {b}
      /\ q.unknown = queue.unknown /\ q.bad = queue.bad /\ b \in Fresh
  BY <1>2 DEF QueueStates
<1>4. w \in Worlds /\ w.s = sync /\ w.p = World.p /\ w.q = q
  <2>1. w = [World EXCEPT !.q = q]
    BY DEF InHand
  <2> HIDE DEF q
  <2> QED BY <1>1, <1>3, <2>1, WithQueue
<1> HIDE DEF q
<1>5. Tracked(w) /\ Fit(w.s)
  BY <1>1, <1>4 DEF Sane, Tracked
<1>6. ASSUME Clean(w.q) PROVE Linear(w) /\ b \in Chain /\ Parent(b) \in known
  <2>1. Linear(World)
    BY <1>1, <1>3, <1>4, <1>6 DEF SyncInv, Ordered, Clean
  <2>2. QueueLinear(queue) /\ LastLinear(queue, sync.last) /\ HeadersLinear(sync, queue)
    BY <1>1, <2>1 DEF Linear
  <2>3. b \in queue.ready /\ queue.pipe = queue.ready /\ b \in Chain
    BY <2>2 DEF QueueLinear
  <2>4. q.ready \cup q.draining = queue.ready \cup queue.draining
    BY <1>2, <1>3, <2>3
  <2>5. Had(q) = Had(queue)
    BY <2>4 DEF Had
  <2>6. QueueLinear(q)
    BY <1>3, <2>3, <2>4, <2>5, <2>2 DEF QueueLinear
  <2>7. LastLinear(q, sync.last) /\ HeadersLinear(sync, q)
    BY <1>3, <2>5, <2>2 DEF LastLinear, HeadersLinear
  <2>8. Parent(b) \in known
    <3>1. Parent(b) \in Path(b) /\ Parent(b) # b
      BY <1>3, ParentFacts
    <3>2. Parent(b) \in Had(queue) /\ Parent(b) \notin queue.ready
      BY <2>3, <2>2, <3>1 DEF QueueLinear
    <3> QED BY <1>2, <3>2 DEF Had
  <2> QED BY <1>4, <2>3, <2>6, <2>7, <2>8 DEF Linear
<1>7. sync.state \in {"Idle", "NotSynced", "Blocks", "Waiting"}
  BY <1>2 DEF SyncStates
<1> QED BY <1>3, <1>4, <1>5, <1>6, <1>7

\* A block is taken in hand, and the peers are asked if there is room again.
LEMMA DrainInv ==
    ASSUME SyncInv, NEW b \in queue.pipe, Drain(b)
    PROVE  SyncInv'
<1> DEFINE w == InHand(b)
           u == [w EXCEPT !.s.state = "Blocks"]
<1>1. /\ Path(b) \cap queue.pipe = {b} /\ hand = NoBlock /\ hand' = b /\ known' = known /\ head' = head /\ UNCHANGED served
      /\ \/ Sync(w)
         \/ \E order \in Orders :
               \/ Sync(ContinueSync(u, order).w)
               \/ Sync([ContinueSync(u, order).w EXCEPT !.s.state = sync.state])
  BY DEF Drain, remote, InHand
<1>2. /\ w \in Worlds /\ Tracked(w) /\ Fit(w.s) /\ (Clean(w.q) => Linear(w)) /\ w.q.draining = {b}
      /\ Clean(w.q) => b \in Chain /\ Parent(b) \in known
      /\ sync.state \in {"Idle", "NotSynced", "Blocks", "Waiting"}
  BY <1>1, InHandFacts
<1> HIDE DEF w
<1>3. u \in Worlds /\ Tracked(u) /\ Fit(u.s) /\ (Clean(u.q) => Linear(u)) /\ u.q = w.q
  BY <1>2, StateFacts
<1> HIDE DEF u
<1>4. ASSUME NEW order \in Orders, NEW v, v = ContinueSync(u, order).w
      PROVE  v \in Worlds /\ Tracked(v) /\ Fit(v.s) /\ (Clean(v.q) => Linear(v)) /\ v.q = w.q
  <2>1. Requested(u, ContinueSync(u, order))
    BY <1>3, ContinueSyncFacts, BaseFacts DEF SyncInv
  <2>2. v \in Worlds /\ Tracked(v) /\ Asks(u, v)
    BY <1>4, <2>1 DEF Requested
  <2>3. Fit(v.s) /\ v.q = w.q
    BY <1>3, <2>2, AsksFit DEF Asks
  <2>4. Clean(v.q) => Linear(v)
    BY <1>3, <2>2, <2>3, AsksLinear DEF SyncInv, Clean
  <2> QED BY <2>2, <2>3, <2>4
<1>5. PICK z \in Worlds : Sync(z) /\ Tracked(z) /\ Fit(z.s) /\ (Clean(z.q) => Linear(z)) /\ z.q = w.q
  <2>1. CASE Sync(w)
    BY <1>2, <2>1
  <2>2. ASSUME NEW order \in Orders, NEW v, v = ContinueSync(u, order).w,
               Sync(v) \/ Sync([v EXCEPT !.s.state = sync.state])
        PROVE  \E z \in Worlds : Sync(z) /\ Tracked(z) /\ Fit(z.s) /\ (Clean(z.q) => Linear(z)) /\ z.q = w.q
    <3>1. v \in Worlds /\ Tracked(v) /\ Fit(v.s) /\ (Clean(v.q) => Linear(v)) /\ v.q = w.q
      BY <1>4, <2>2
    <3> DEFINE x == [v EXCEPT !.s.state = sync.state]
    <3>2. x \in Worlds /\ Tracked(x) /\ Fit(x.s) /\ (Clean(x.q) => Linear(x)) /\ x.q = w.q
      BY <1>2, <3>1, StateFacts
    <3> HIDE DEF x
    <3> QED BY <2>2, <3>1, <3>2 DEF x
  <2> QED BY <1>1, <2>1, <2>2
<1>6. b \in Fresh /\ b # NoBlock
  <2>1. queue \in QueueStates
    BY WorldFacts, WorldMembers DEF SyncInv, Ordered, Sane
  <2> QED BY <2>1, BlockChainSyncAssumption DEF QueueStates, Fresh
<1>7. Ordered(World)'
  <2>1. z.q.draining \subseteq {hand'} \ {NoBlock}
    BY <1>1, <1>2, <1>5, <1>6
  <2>2. Clean(z.q) => HandLinear'
    BY <1>1, <1>2, <1>5 DEF HandLinear, Chain
  <2> QED BY <1>1, <1>5, <2>1, <2>2, SyncMoves
<1>8. Base' /\ Serves'
  BY <1>1 DEF SyncInv, Base, Serves
<1>9. Hands'
  BY <1>1, <1>6 DEF Hands
<1> QED BY <1>7, <1>8, <1>9 DEF SyncInv

\* onBlockImported moves the last block on and takes away the header of the block.
LEMMA OnBlockImportedFacts ==
    ASSUME NEW s \in SyncStates, Fit(s), NEW b \in Block, NEW t, t = OnBlockImported(s, b)
    PROVE  /\ t \in SyncStates /\ Fit(t) /\ t.common = s.common
           /\ Len(b) <= s.last => t = s
           /\ ~(Len(b) <= s.last) => t.last = Len(b) /\ \A m \in DOMAIN t.headers : t.headers[m] # b
           /\ \/ t.dlHeaders = {} /\ t.dlBodies = {}
              \/ /\ t.dlHeaders \subseteq s.dlHeaders /\ t.dlBodies \subseteq s.dlBodies
                 /\ t.headerPeers = s.headerPeers /\ t.bodyPeers = s.bodyPeers
           /\ \A m \in DOMAIN t.headers : m \in DOMAIN s.headers /\ t.headers[m] = s.headers[m]
<1> DEFINE n == Len(b)
           R == IF n \in DOMAIN s.headers /\ s.headers[n] = b THEN {n} ELSE {}
           H == Without(s.headers, R)
           B == Without(s.bodies, R)
           D == s.dlHeaders \ {n}
           E == s.dlBodies \ {n}
           I == s.ids \ {b}
           d == [s EXCEPT !.last = n, !.lastHash = b, !.ids = I, !.headers = H, !.bodies = B,
                          !.dlHeaders = D, !.dlBodies = E]
<1>1. s.headers \in Numbered /\ s.bodies \in Numbered
  BY DEF SyncStates
<1>2. /\ H \in Numbered /\ DOMAIN H = DOMAIN s.headers \ R /\ \A m \in DOMAIN s.headers \ R : H[m] = s.headers[m]
  <2> HIDE DEF R
  <2> QED BY <1>1, WithoutFacts
<1>3. B \in Numbered
  <2> HIDE DEF R
  <2> QED BY <1>1, WithoutFacts
<1>4. \A m \in DOMAIN s.headers \ R : s.headers[m] # b
  BY <1>1, NumberedFacts
<1>5. /\ H = IF n \in DOMAIN s.headers /\ s.headers[n] = b THEN Without(s.headers, {n}) ELSE s.headers
      /\ B = IF n \in DOMAIN s.headers /\ s.headers[n] = b THEN Without(s.bodies, {n}) ELSE s.bodies
  <2>1. ASSUME NEW f \in Numbered PROVE Without(f, {}) = f
    <3>1. f = [m \in DOMAIN f |-> f[m]]
      BY NumberedFacts
    <3> QED BY <3>1 DEF Without
  <2> QED BY <1>1, <2>1
<1>6. t = IF n <= s.last THEN s ELSE IF d.headers = Empty THEN CompleteSync(d) ELSE d
  <2> HIDE DEF H, B, R
  <2> QED BY <1>5 DEF OnBlockImported
<1>7. n \in Nat /\ D \in SUBSET Nat /\ E \in SUBSET Nat /\ I \in SUBSET Block
      /\ D \subseteq s.dlHeaders /\ E \subseteq s.dlBodies
  BY PathFacts DEF SyncStates
<1>8. \A m \in DOMAIN s.headers \ R : s.headers[m] \in s.ids => s.headers[m] \in I
  BY <1>4
<1> HIDE DEF H, B, D, E, I, R
<1>9. /\ d \in SyncStates /\ d.headers = H /\ d.bodies = B /\ d.ids = I
      /\ d.common = s.common /\ d.last = n /\ d.dlHeaders = D /\ d.dlBodies = E
      /\ d.headerPeers = s.headerPeers /\ d.bodyPeers = s.bodyPeers
  BY <1>2, <1>3, <1>7 DEF SyncStates
<1> HIDE DEF d, n
<1>10. Fit(d)
  <2>1. d.headers = Without(s.headers, R) /\ d.bodies = Without(s.bodies, R)
    BY <1>9 DEF H, B
  <2> QED BY <1>8, <1>9, <2>1, WithoutFit
<1>11. CASE n <= s.last
  <2>1. t = s
    BY <1>6, <1>11
  <2> QED BY <1>11, <2>1 DEF n
<1>12. CASE ~(n <= s.last) /\ d.headers = Empty
  <2>1. t = CompleteSync(d)
    BY <1>6, <1>12
  <2>2. /\ t \in SyncStates /\ t.headers = Empty /\ t.bodies = Empty
        /\ t.dlHeaders = {} /\ t.dlBodies = {} /\ t.common = d.common /\ t.last = d.last
    BY <1>9, <2>1, ResetFacts
  <2>3. DOMAIN Empty = {}
    BY EmptyFacts
  <2> HIDE DEF Empty
  <2>4. DOMAIN t.headers = {} /\ DOMAIN t.bodies = {}
    BY <2>2, <2>3
  <2>5. Fit(t)
    BY <2>4 DEF Fit
  <2> QED BY <1>9, <1>12, <2>2, <2>4, <2>5 DEF n
<1>13. CASE ~(n <= s.last) /\ d.headers # Empty
  <2>1. t = d
    BY <1>6, <1>13
  <2>2. \A m \in DOMAIN H : m \in DOMAIN s.headers /\ H[m] = s.headers[m] /\ H[m] # b
    BY <1>2, <1>4
  <2> QED BY <1>7, <1>9, <1>10, <1>13, <2>1, <2>2 DEF n
<1> QED BY <1>11, <1>12, <1>13

-----------------------------------------------------------------------------
(* The client thread and the consensus.                                    *)

\* A block that can be enacted follows a block of the node.
LEMMA EnactedBase ==
    ASSUME Base, NEW b \in Fresh, Parent(b) \in known, b \notin Bad, known' = known \cup {b},
           head' = head \/ head' = b
    PROVE  Base' /\ Path(b) \cap Bad = {}
<1>1. b \in Block /\ Path(b) = Path(Parent(b)) \cup {b}
  BY ParentFacts
<1>2. Path(b) \subseteq known' /\ Path(b) \cap Bad = {}
  BY <1>1 DEF Base
<1>3. \A c \in known' : Path(c) \subseteq known' /\ Path(c) \cap Bad = {}
  BY <1>2 DEF Base
<1>4. known' \subseteq Block /\ head' \in known'
  BY <1>1 DEF Base
<1>5. Base'
  BY <1>3, <1>4 DEF Base
<1> QED BY <1>2, <1>5

\* The notes that are left when a block is imported.
LEMMA ImportedTracked ==
    ASSUME NEW w, Tracked(w), NEW t, NEW v, v.s = t, v.p = w.p,
           \/ t.dlHeaders = {} /\ t.dlBodies = {}
           \/ /\ t.dlHeaders \subseteq w.s.dlHeaders /\ t.dlBodies \subseteq w.s.dlBodies
              /\ t.headerPeers = w.s.headerPeers /\ t.bodyPeers = w.s.bodyPeers
    PROVE  Tracked(v)
BY FewerTracked DEF Tracked

\* The block in hand joins the node's: it becomes the head, or it is one the
\* node has when there is one chain.
LEMMA EnactedInv ==
    ASSUME SyncInv, NEW b \in Fresh, b = hand, hand # NoBlock, Parent(b) \in known, b \notin Bad,
           queue.draining \subseteq {b}, queue' \in QueueStates, queue'.ready = queue.ready,
           queue'.pipe = queue.pipe, queue'.draining = {}, queue'.unknown = queue.unknown,
           queue'.bad = queue.bad,
           known' = known \cup {b}, hand' = NoBlock, peer' = peer, served' = served,
           \/ head' = head /\ sync' = sync /\ Len(b) <= Len(head)
           \/ head' = b /\ sync' = OnBlockImported(sync, b)
    PROVE  SyncInv'
<1> DEFINE t == sync'
<1>1. Base' /\ Path(b) \cap Bad = {}
  BY EnactedBase DEF SyncInv
<1>2. Hands' /\ Serves'
  BY DEF SyncInv, Hands, Serves
<1>3. /\ World \in Worlds /\ Sane(World) /\ World.s = sync /\ World.p = peer /\ World.q = queue
  BY WorldMembers DEF SyncInv, Ordered, Sane
<1>4. /\ sync \in SyncStates /\ sync.last \in Nat /\ sync.headers \in Numbered /\ peer \in [Peer -> PeerStates]
      /\ queue \in QueueStates /\ Tracked(World) /\ Fit(sync)
  BY <1>3, WorldFacts DEF Sane
<1>5. b \in Block /\ Len(b) \in Nat /\ Len(Parent(b)) = Len(b) - 1
  BY ParentFacts
<1>6. /\ t \in SyncStates /\ Fit(t) /\ t.common = sync.common
      /\ \/ t = sync /\ (Len(b) <= Len(head) \/ Len(b) <= sync.last)
         \/ t.last = Len(b) /\ \A m \in DOMAIN t.headers : t.headers[m] # b
      /\ \/ t.dlHeaders = {} /\ t.dlBodies = {}
         \/ /\ t.dlHeaders \subseteq sync.dlHeaders /\ t.dlBodies \subseteq sync.dlBodies
            /\ t.headerPeers = sync.headerPeers /\ t.bodyPeers = sync.bodyPeers
      /\ \A m \in DOMAIN t.headers : m \in DOMAIN sync.headers /\ t.headers[m] = sync.headers[m]
  <2>1. CASE head' = head /\ sync' = sync /\ Len(b) <= Len(head)
    BY <1>4, <2>1
  <2>2. CASE sync' = OnBlockImported(sync, b)
    <3> HIDE DEF t
    <3>1. t = OnBlockImported(sync, b)
      BY <2>2 DEF t
    <3> QED BY <1>4, <1>5, <3>1, OnBlockImportedFacts
  <2> QED BY <2>1, <2>2
<1>7. World' = [s |-> t, p |-> peer, q |-> queue']
  BY DEF World
<1>8. Sane(World)'
  <2> DEFINE v == [s |-> t, p |-> peer, q |-> queue']
  <2>1. v \in Worlds /\ v.s = t /\ v.p = peer /\ v.q = queue'
    BY <1>4, <1>6 DEF Worlds
  <2> HIDE DEF v
  <2>2. Tracked(v)
    BY <1>3, <1>4, <1>6, <2>1, ImportedTracked
  <2>3. World' = v
    BY <1>7 DEF v
  <2> HIDE DEF t
  <2> QED BY <1>6, <2>1, <2>2, <2>3 DEF Sane, Tracked, Fit, Drained
<1>9. ASSUME Clean(World.q)' PROVE Linear(World)'
  <2>1. OneChain /\ queue.bad = {} /\ Clean(queue)
    <3>1. OneChain' /\ queue'.bad = {}
      BY <1>9 DEF Clean, World
    <3> QED BY <3>1 DEF OneChain, Clean
  <2>2. QueueLinear(queue) /\ LastLinear(queue, sync.last) /\ HeadersLinear(sync, queue) /\ b \in Chain
    <3>1. QueueLinear(queue) /\ LastLinear(queue, sync.last) /\ HeadersLinear(sync, queue)
      BY <1>3, <2>1 DEF SyncInv, Ordered, Linear
    <3> QED BY <3>1 DEF QueueLinear, HandLinear
  <2>3. Chain' = Chain
    BY <2>2 DEF Chain
  <2>4. Had(queue)' = Had(queue) \cup {b} /\ known \subseteq Had(queue)
    BY DEF Had
  <2>5. QueueLinear(queue)'
    <3>1. queue'.ready \cup queue'.draining \subseteq Chain' /\ queue'.unknown = {} /\ queue'.bad = {}
          /\ queue'.pipe = queue'.ready
      BY <2>2, <2>3 DEF QueueLinear
    <3>2. \A c \in queue'.ready \cup queue'.draining : Path(c) \subseteq Had(queue)'
      BY <2>2, <2>4 DEF QueueLinear
    <3>3. HandLinear'
      BY DEF HandLinear
    <3> QED BY <3>1, <3>2, <3>3 DEF QueueLinear
  <2>6. LastLinear(queue, sync.last)'
    <3>1. \E c \in Had(queue)' : Len(c) = t.last
      <4>1. CASE t = sync
        BY <2>2, <2>4, <4>1 DEF LastLinear
      <4>2. CASE t.last = Len(b)
        BY <2>4, <4>2
      <4> QED BY <1>6, <4>1, <4>2
    <3> QED BY <3>1 DEF LastLinear
  <2>7. ASSUME NEW m \in DOMAIN t.headers
        PROVE  /\ t.headers[m] \in Chain' /\ t.headers[m] \notin known' /\ m > t.last
               /\ \A c \in Had(queue)' : Len(c) <= m
    <3>1. m \in DOMAIN sync.headers /\ t.headers[m] = sync.headers[m]
      BY <1>6, <2>7
    <3> DEFINE h == sync.headers[m]
    <3>2. m \in Nat /\ Len(h) = m
      BY <1>4, <3>1, NumberedFacts
    <3>3. h \in Chain /\ h \notin known /\ m > sync.last /\ \A c \in Had(queue) : Len(c) <= m
      BY <2>2, <3>1 DEF HeadersLinear
    <3>4. t.headers[m] = h
      BY <3>1
    <3> HIDE DEF h
    <3>5. Len(b) <= m
      <4>1. Len(b) - 1 <= m
        BY <1>5, <2>4, <3>3
      <4>2. Parent(b) \in Chain
        BY <2>1, ChainFacts DEF SyncInv
      <4>3. m # Len(b) - 1
        <5> SUFFICES ASSUME m = Len(b) - 1 PROVE FALSE
          OBVIOUS
        <5>1. Len(Parent(b)) = Len(h)
          BY <1>5, <3>2
        <5>2. h = Parent(b)
          BY <2>1, <3>3, <4>2, <5>1, ChainFacts DEF SyncInv
        <5> QED BY <3>3, <5>2
      <4> QED BY <1>5, <3>2, <4>1, <4>3
    <3>6. h # b
      <4>1. CASE Len(b) <= Len(head)
        <5>1. head \in Chain /\ Path(head) \subseteq known
          BY DEF SyncInv, Base, Chain
        <5>2. b \in Path(head)
          BY <2>1, <2>2, <4>1, <5>1, ChainFacts DEF SyncInv
        <5> QED BY <3>3, <5>1, <5>2
      <4>2. CASE Len(b) <= sync.last
        BY <1>4, <1>5, <3>2, <3>3, <4>2
      <4>3. CASE \A k \in DOMAIN t.headers : t.headers[k] # b
        BY <2>7, <3>4, <4>3
      <4> QED BY <1>6, <4>1, <4>2, <4>3
    <3>7. m > t.last
      <4>1. CASE t = sync
        BY <3>3, <4>1
      <4>2. CASE t.last = Len(b)
        <5>1. m # Len(b)
          BY <2>1, <2>2, <3>2, <3>3, <3>6, ChainFacts DEF SyncInv
        <5> QED BY <1>5, <3>2, <3>5, <4>2, <5>1
      <4> QED BY <1>6, <4>1, <4>2
    <3>8. h \in Chain' /\ h \notin known'
      BY <2>3, <3>3, <3>6
    <3>9. \A c \in Had(queue)' : Len(c) <= m
      BY <2>4, <3>3, <3>5
    <3> QED BY <3>4, <3>7, <3>8, <3>9
  <2>8. HeadersLinear(sync, queue)'
    BY <2>7 DEF HeadersLinear
  <2> QED BY <2>5, <2>6, <2>8 DEF Linear, World
<1> QED BY <1>1, <1>2, <1>8, <1>9 DEF SyncInv, Ordered

\* The block in hand is refused: it is bad, and the clean queue is at an end.
LEMMA UpdateBadFacts ==
    ASSUME NEW q \in QueueStates, NEW b \in Fresh, NEW marked \in Marks(q, b), NEW t, t = UpdateBad(q, b, marked)
    PROVE  t \in QueueStates /\ t.draining = q.draining /\ t.bad # {}
<1> DEFINE f   == UNION {Following(c, q.unknown) : c \in marked \cup {b}}
           bad == q.bad \cup {b} \cup marked \cup f
           on  == {c \in q.pipe : c \notin bad /\ Parent(c) \notin bad}
<1>1. t = [q EXCEPT !.ready = @ \ marked, !.pipe = on, !.unknown = @ \ f, !.bad = bad]
  BY DEF UpdateBad
<1>2. marked \in SUBSET q.pipe
  <2>1. Marks(q, b) \subseteq SUBSET q.pipe
    BY DEF Marks
  <2> QED BY <2>1
<1>3. q.pipe \in SUBSET Fresh /\ q.unknown \in SUBSET Fresh /\ q.bad \in SUBSET Fresh /\ q.ready \in SUBSET Fresh
  BY DEF QueueStates
<1>4. f \in SUBSET Fresh
  <2>1. \A c : Following(c, q.unknown) \subseteq q.unknown
    BY DEF Following
  <2> QED BY <1>3, <2>1
<1>5. bad \in SUBSET Fresh /\ bad # {} /\ on \in SUBSET Fresh
  BY <1>2, <1>3, <1>4
<1> HIDE DEF f, bad, on
<1>6. t = [ready |-> q.ready \ marked, pipe |-> on, draining |-> q.draining, unknown |-> q.unknown \ f,
           bad |-> bad, difficulty |-> q.difficulty]
  BY <1>1 DEF QueueStates
<1> QED BY <1>3, <1>5, <1>6 DEF QueueStates

\* doneDrain.
LEMMA DoneDrainFacts ==
    ASSUME NEW q \in QueueStates, NEW left \in Int, NEW r, r = [q EXCEPT !.draining = {}, !.difficulty = left]
    PROVE  /\ r \in QueueStates /\ r.ready = q.ready /\ r.pipe = q.pipe /\ r.draining = {}
           /\ r.unknown = q.unknown /\ r.bad = q.bad
<1>1. r = [ready |-> q.ready, pipe |-> q.pipe, draining |-> {}, unknown |-> q.unknown,
           bad |-> q.bad, difficulty |-> left]
  BY DEF QueueStates
<1> QED BY <1>1 DEF QueueStates

\* The block in hand is enacted, or is bad.
LEMMA ImportDrainedInv ==
    ASSUME SyncInv, ImportDrained
    PROVE  SyncInv'
<1> DEFINE left == queue.difficulty - Cardinality(queue.draining)
           r == [queue EXCEPT !.draining = {}, !.difficulty = left]
           refused == /\ \E marked \in Marks(r, hand) : queue' = UpdateBad(r, hand, marked)
                      /\ sync' = sync /\ known' = known /\ head' = head
           enacted == /\ hand \notin Bad /\ Parent(hand) \in known
                      /\ queue' = r /\ known' = known \cup {hand}
                      /\ head' = IF Len(hand) > Len(head) THEN hand ELSE head
                      /\ sync' = IF Len(hand) > Len(head) THEN OnBlockImported(sync, hand) ELSE sync
<1>1. /\ hand # NoBlock /\ hand' = NoBlock /\ peer' = peer /\ served' = served
      /\ refused \/ enacted
  BY DEF ImportDrained, remote
<1>2. World \in Worlds /\ Sane(World) /\ World.s = sync /\ World.p = peer /\ World.q = queue
  BY WorldMembers DEF SyncInv, Ordered, Sane
<1>3. hand \in Fresh /\ queue.draining \subseteq {hand} /\ queue \in QueueStates
  BY <1>1, <1>2, WorldFacts DEF SyncInv, Hands, Sane, Drained
<1>4. left \in Int
  <2>1. IsFiniteSet({hand})
    BY FS_Singleton
  <2>2. IsFiniteSet(queue.draining)
    BY <1>3, <2>1, FS_Subset
  <2>3. Cardinality(queue.draining) \in Nat /\ queue.difficulty \in Int
    BY <1>3, <2>2, FS_CardinalityType DEF QueueStates
  <2> QED BY <2>3
<1> HIDE DEF left
<1>5. /\ r \in QueueStates /\ r.ready = queue.ready /\ r.pipe = queue.pipe /\ r.draining = {}
      /\ r.unknown = queue.unknown /\ r.bad = queue.bad
  <2> HIDE DEF refused, enacted
  <2> QED BY <1>3, <1>4, DoneDrainFacts
<1> HIDE DEF r
<1>6. CASE refused
  <2>1. PICK marked \in Marks(r, hand) : queue' = UpdateBad(r, hand, marked)
    BY <1>6
  <2> DEFINE q == UpdateBad(r, hand, marked)
  <2>2. q \in QueueStates /\ q.draining = {} /\ q.bad # {}
    BY <1>3, <1>5, UpdateBadFacts
  <2>3. queue' = q /\ sync' = sync /\ known' = known /\ head' = head
    BY <1>6, <2>1
  <2> HIDE DEF q, refused
  <2> DEFINE w == [World EXCEPT !.q = q]
  <2>4. w \in Worlds /\ w.s = sync /\ w.p = peer /\ w.q = q
    BY <1>2, <2>2, WithQueue
  <2> HIDE DEF w
  <2>5. Tracked(w) /\ Fit(w.s)
    BY <1>2, <2>4 DEF Sane, Tracked
  <2>6. ~Clean(w.q)
    BY <2>2, <2>4 DEF Clean
  <2>7. Sync(w)
    BY <1>1, <2>3, <2>4 DEF Sync
  <2>8. Ordered(World)'
    <3>1. w.q.draining \subseteq {hand'} \ {NoBlock}
      BY <2>2, <2>4
    <3> QED BY <2>3, <2>4, <2>5, <2>6, <2>7, <3>1, SyncMoves
  <2>9. Base' /\ Serves' /\ Hands'
    BY <1>1, <2>3 DEF SyncInv, Base, Serves, Hands
  <2> QED BY <2>8, <2>9 DEF SyncInv
<1>7. CASE enacted
  <2>1. Len(hand) \in Nat /\ Len(head) \in Nat
    BY <1>3, ParentFacts, BaseFacts DEF SyncInv
  <2>2. \/ head' = head /\ sync' = sync /\ Len(hand) <= Len(head)
        \/ head' = hand /\ sync' = OnBlockImported(sync, hand)
    BY <1>7, <2>1
  <2>3. queue' = r /\ known' = known \cup {hand} /\ hand \notin Bad /\ Parent(hand) \in known
    BY <1>7
  <2> HIDE DEF enacted
  <2> QED BY <1>1, <1>3, <1>5, <2>2, <2>3, EnactedInv
<1> QED BY <1>1, <1>6, <1>7

\* The next block of the chain that a peer serves.
LEMMA NextServed ==
    ASSUME SyncInv, NEW p \in Peer, NEW b, b = Prefix(Served[p], Len(head) + 1), b # NoBlock
    PROVE  b \in Fresh /\ b \in Chain
<1>1. Len(head) \in Nat /\ Served[p] \in Block
  BY BaseFacts, BlockChainSyncAssumption DEF SyncInv
<1>2. Len(head) + 1 <= Len(Served[p]) /\ b = SubSeq(Served[p], 1, Len(head) + 1)
  BY DEF Prefix
<1>3. Len(Served[p]) \in Nat
  BY <1>1, PathFacts
<1>4. Len(head) + 1 \in 0..Len(Served[p])
  BY <1>1, <1>2, <1>3
<1>5. b \in Path(Served[p]) /\ b \in Block /\ Len(b) = Len(head) + 1
  <2>1. SubSeq(Served[p], 1, Len(head) + 1) \in Path(Served[p])
    BY <1>1, <1>4, PathFacts
  <2>2. SubSeq(Served[p], 1, Len(head) + 1) \in Block /\ Len(SubSeq(Served[p], 1, Len(head) + 1)) = Len(head) + 1
    BY <1>1, <1>4, PrefixFacts
  <2> QED BY <1>2, <2>1, <2>2
<1>6. Len(<<>>) = 0
  BY <1>1, PathFacts
<1>7. b # <<>>
  BY <1>1, <1>5, <1>6
<1> QED BY <1>5, <1>7 DEF Fresh, Chain

\* The consensus puts a block on the head into the queue.  Its header may be
\* there: it is then the first, and nothing of the queue is above it.
LEMMA CommitInv ==
    ASSUME SyncInv, NEW p \in Peer, Commit(p)
    PROVE  SyncInv'
<1> DEFINE b == Prefix(Served[p], Len(head) + 1)
           q == Imported(queue, b)
           w == [World EXCEPT !.q = q]
<1>1. /\ b # NoBlock /\ Parent(b) = head /\ queue' = q /\ sync' = sync /\ peer' = peer
      /\ UNCHANGED local /\ served' = served
  BY DEF Commit, remote
<1>2. World \in Worlds /\ Sane(World) /\ World.s = sync /\ World.p = peer /\ World.q = queue
  BY WorldMembers DEF SyncInv, Ordered, Sane
<1>3. queue \in QueueStates /\ sync.headers \in Numbered /\ <<>> \in known
  BY <1>2, WorldFacts, BaseFacts DEF SyncInv
<1>4. b \in Fresh /\ b \in Chain /\ head \in known
  BY <1>1, NextServed DEF SyncInv, Base
<1> HIDE DEF b
<1>5. b \in Block /\ Len(b) \in Nat /\ Len(head) = Len(b) - 1
  BY <1>1, <1>4, ParentFacts
<1>6. q \in QueueStates /\ q.draining = queue.draining /\ queue.bad \subseteq q.bad
  BY <1>3, <1>5, ImportFacts
<1>7. ImportResult(queue, b) \in {"AlreadyKnown", "AlreadyInChain", "BadChain", "Success", "UnknownParent"}
  BY <1>3, <1>5, ImportFacts
<1> HIDE DEF q
<1>8. w \in Worlds /\ w.s = sync /\ w.p = peer /\ w.q = q
  BY <1>2, <1>6, WithQueue
<1> HIDE DEF w
<1>9. ASSUME Clean(q) PROVE Linear(w)
  <2>1. OneChain /\ Clean(queue)
    BY <1>6, <1>9 DEF Clean
  <2>2. QueueLinear(queue) /\ LastLinear(queue, sync.last) /\ HeadersLinear(sync, queue)
    BY <1>2, <2>1 DEF SyncInv, Ordered, Linear
  <2>3. /\ ImportResult(queue, b) # "BadChain"
        /\ ImportResult(queue, b) = "Success" => QueueLinear(q) /\ Had(q) = Had(queue) \cup {b}
        /\ ImportResult(queue, b) \in {"AlreadyKnown", "AlreadyInChain"} => q = queue
        /\ ImportResult(queue, b) = "UnknownParent" => Parent(b) \notin Had(queue)
    BY <1>3, <1>4, <2>1, <2>2, ImportLinear DEF SyncInv, q
  <2>4. CASE q = queue
    BY <1>8, <2>2, <2>4 DEF Linear
  <2>5. CASE QueueLinear(q) /\ Had(q) = Had(queue) \cup {b}
    <3>1. LastLinear(q, sync.last)
      BY <2>2, <2>5 DEF LastLinear
    <3>2. ASSUME NEW m \in DOMAIN sync.headers PROVE Len(b) <= m
      <4> DEFINE h == sync.headers[m]
      <4>1. m \in Nat /\ Len(h) = m
        BY <1>3, NumberedFacts
      <4>2. h \in Chain /\ h \notin known /\ \A c \in Had(queue) : Len(c) <= m
        BY <2>2 DEF HeadersLinear
      <4> HIDE DEF h
      <4>3. Len(head) <= m
        BY <1>4, <4>2 DEF Had
      <4>4. m # Len(head)
        <5>1. head \in Chain
          BY <1>4 DEF Chain
        <5>2. h # head
          BY <1>4, <4>2
        <5> QED BY <2>1, <4>1, <4>2, <5>1, <5>2, ChainFacts DEF SyncInv
      <4> QED BY <1>5, <4>1, <4>3, <4>4
    <3>3. HeadersLinear(sync, q)
      BY <2>2, <2>5, <3>2 DEF HeadersLinear
    <3> QED BY <1>8, <2>5, <3>1, <3>3 DEF Linear
  <2>6. ImportResult(queue, b) # "UnknownParent"
    BY <1>1, <1>4, <2>3 DEF Had
  <2> QED BY <1>7, <2>3, <2>4, <2>5, <2>6
<1>10. Ordered(w)
  <2>1. Sane(w)
    BY <1>2, <1>6, <1>8 DEF Sane, Tracked, Drained
  <2> QED BY <1>8, <1>9, <2>1 DEF Ordered
<1>11. Sync(w)
  BY <1>1, <1>8 DEF Sync
<1> QED BY <1>1, <1>10, <1>11, HandlerStep

\* Nothing changes.
LEMMA StutterInv ==
    ASSUME SyncInv, UNCHANGED vars
    PROVE  SyncInv'
<1>1. Sync(World) /\ UNCHANGED local /\ UNCHANGED served
  BY WorldMembers DEF vars, Sync, local
<1> QED BY <1>1, HandlerStep DEF SyncInv

-----------------------------------------------------------------------------
(* The theorems.                                                           *)

\* Every step of the handlers, of the client thread and of the consensus keeps
\* the inductive invariant: the node's blocks are whole chains that can be
\* enacted, and the downloads, the notes and the queue are in order (Ordered).
\* While the blocks are of one chain and none was found bad, the queue then
\* holds whole chains, the block in hand follows one of the node's, and every
\* header is above the last block, outside the database, and not below a block
\* of the queue: it may be of a block that a peer or the consensus has put into
\* the queue meanwhile.
THEOREM SyncInvariant == Spec => []SyncInv
<1>1. Init => SyncInv
  BY InitInv
<1>2. SyncInv /\ [Next]_vars => SyncInv'
  <2> SUFFICES ASSUME SyncInv, [Next]_vars PROVE SyncInv'
    OBVIOUS
  <2>1. CASE UNCHANGED vars
    BY <2>1, StutterInv
  <2>2. ASSUME NEW p \in Peer, OnPeerStatus(p) PROVE SyncInv'
    BY <2>2, OnPeerStatusInv
  <2>3. ASSUME NEW p \in Peer, BlockHeaders(p) PROVE SyncInv'
    BY <2>3, BlockHeadersInv
  <2>4. ASSUME NEW p \in Peer, BlockBodies(p) PROVE SyncInv'
    BY <2>4, BlockBodiesInv
  <2>5. ASSUME NEW p \in Peer, NewBlockHashes(p) PROVE SyncInv'
    BY <2>5, NewBlockHashesInv
  <2>6. ASSUME NEW p \in Peer, NewBlock(p) PROVE SyncInv'
    BY <2>6, NewBlockInv
  <2>7. ASSUME NEW p \in Peer, OnPeerAborting(p) PROVE SyncInv'
    BY <2>7, OnPeerAbortingInv
  <2>8. ASSUME NEW p \in Peer, Commit(p) PROVE SyncInv'
    BY <2>8, CommitInv
  <2>9. ASSUME NEW b \in queue.pipe, Drain(b) PROVE SyncInv'
    BY <2>9, DrainInv
  <2>10. CASE ImportDrained
    BY <2>10, ImportDrainedInv
  <2> QED BY <2>1, <2>2, <2>3, <2>4, <2>5, <2>6, <2>7, <2>8, <2>9, <2>10 DEF Next
<1> QED BY <1>1, <1>2, PTL DEF Spec

\* The members keep their types, at most one block is being drained, and the
\* node has its head, whatever the peers serve and in whatever order they answer.
THEOREM SyncTypeOK == Spec => []TypeOK
<1>1. SyncInv => TypeOK
  <2> SUFFICES ASSUME SyncInv PROVE TypeOK
    OBVIOUS
  <2>1. World \in Worlds /\ Sane(World) /\ World.s = sync /\ World.p = peer /\ World.q = queue
    BY WorldMembers DEF SyncInv, Ordered, Sane
  <2>2. /\ sync \in SyncStates /\ sync.headers \in Numbered /\ sync.bodies \in Numbered
        /\ \A p \in Peer : peer[p] \in PeerStates
    BY <2>1, WorldFacts
  <2>3. /\ \A n \in DOMAIN sync.headers : Len(sync.headers[n]) = n
        /\ \A n \in DOMAIN sync.bodies : Len(sync.bodies[n]) = n
    BY <2>2, NumberedFacts
  <2>4. /\ sync.state \in {"Idle", "NotSynced", "Blocks", "Waiting"}
        /\ sync.common \in BOOLEAN /\ sync.last \in Nat
    BY <2>2 DEF SyncStates
  <2>5. \A p \in Peer : peer[p].asking \in {"Nothing", "BlockHeaders", "BlockBodies"}
    BY <2>2 DEF PeerStates
  <2>6. Cardinality(queue.draining) <= 1
    <3>1. queue.draining \subseteq {hand}
      BY <2>1 DEF Sane, Drained
    <3>2. IsFiniteSet({hand}) /\ Cardinality({hand}) = 1
      BY FS_Singleton
    <3> QED BY <3>1, <3>2, FS_Subset
  <2>7. head \in known
    BY DEF SyncInv, Base
  <2> QED BY <2>3, <2>4, <2>5, <2>6, <2>7 DEF TypeOK
<1> QED BY <1>1, SyncInvariant, PTL

\* No number is left noted as being downloaded when the peer that was asked for
\* it has answered, was lost or was disabled (clearPeerDownload).
THEOREM SyncNoOrphans == Spec => []NoOrphans
<1>1. SyncInv => NoOrphans
  BY WorldMembers DEF SyncInv, Ordered, Sane, Tracked, NoOrphans
<1> QED BY <1>1, SyncInvariant, PTL

\* Every body belongs to the header of its number, and the body of every other
\* header is still expected, through all merges, removals and restarts.
THEOREM SyncBodiesMatch == Spec => []BodiesMatch
<1>1. SyncInv => BodiesMatch
  BY WorldMembers DEF SyncInv, Ordered, Sane, Fit, BodiesMatch
<1> QED BY <1>1, SyncInvariant, PTL

\* While the blocks are of one chain and none was found bad, the headers are
\* above the last block, so that collectBlocks can collect them: in whatever
\* order the peers answer and grow, and however many blocks the consensus puts
\* into the queue while their headers are asked for, stored or collected.
THEOREM SyncHeadersAbove == Spec => []HeadersAbove
<1>1. SyncInv => HeadersAbove
  BY WorldMembers DEF SyncInv, Ordered, Clean, Linear, HeadersLinear, HeadersAbove
<1> QED BY <1>1, SyncInvariant, PTL

\* A number whose predecessor has no header has none that precedes it.
LEMMA NotInside ==
    ASSUME Fit(sync), NEW n, n - 1 \notin DOMAIN sync.headers
    PROVE  ~Inside(n)
BY DEF Fit, Inside

\* While the blocks are of one chain and none was found bad, removeItem is only
\* asked for the first number of a run, the vector it has moved from is never
\* used: neither when a block that a peer or the consensus had queued joins the
\* chain (onBlockImported), nor when a peer sends a block (onPeerNewBlock).
THEOREM SyncRemovesFirst == Spec => []RemovesFirst
<1>1. SyncInv => RemovesFirst
  <2> SUFFICES ASSUME SyncInv, OneChain, queue.bad = {}
               PROVE  /\ hand # NoBlock /\ Len(hand) > Len(head) /\ Removes(hand) => ~Inside(Len(hand))
                      /\ \A p \in Peer : LET b == served[p]
                                          IN  Len(b) <= sync.last + 1 /\ ImportResult(queue, b) = "Success"
                                              => ~Inside(Len(b))
    BY DEF RemovesFirst
  <2>1. World \in Worlds /\ Fit(sync) /\ QueueLinear(queue) /\ HeadersLinear(sync, queue)
    BY WorldMembers DEF SyncInv, Ordered, Sane, Clean, Linear
  <2>2. sync.headers \in Numbered /\ sync.last \in Nat
    BY <2>1, WorldFacts, WorldMembers
  <2>3. ASSUME hand # NoBlock PROVE ~Inside(Len(hand))
    <3>1. hand \in Fresh /\ Parent(hand) \in known /\ Parent(hand) \in Chain
      BY <2>1, <2>3 DEF SyncInv, Hands, QueueLinear, HandLinear, Chain
    <3>2. Len(Parent(hand)) = Len(hand) - 1
      BY <3>1, ParentFacts
    <3>3. ASSUME Len(hand) - 1 \in DOMAIN sync.headers PROVE FALSE
      <4> DEFINE h == sync.headers[Len(hand) - 1]
      <4>1. h \in Chain /\ h \notin known /\ Len(h) = Len(hand) - 1
        BY <2>1, <2>2, <3>3, NumberedFacts DEF HeadersLinear
      <4> HIDE DEF h
      <4>2. h = Parent(hand)
        BY <3>1, <3>2, <4>1, ChainFacts DEF SyncInv
      <4> QED BY <3>1, <4>1, <4>2
    <3> QED BY <2>1, <3>3, NotInside
  <2>4. ASSUME NEW p \in Peer, Len(served[p]) <= sync.last + 1 PROVE ~Inside(Len(served[p]))
    <3>1. Len(served[p]) \in Nat
      BY PathFacts DEF SyncInv, Serves
    <3>2. Len(served[p]) - 1 \notin DOMAIN sync.headers
      BY <2>1, <2>2, <2>4, <3>1 DEF HeadersLinear
    <3> QED BY <2>1, <3>2, NotInside
  <2> QED BY <2>3, <2>4
<1> QED BY <1>1, SyncInvariant, PTL

=============================================================================

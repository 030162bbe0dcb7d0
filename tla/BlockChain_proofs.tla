-------------------------- MODULE BlockChain_proofs --------------------------
(***************************************************************************)
(* What the chain on disk and in memory keeps, for every set of blocks on  *)
(* any branches, any number of crashes and rewinds, and every size of the  *)
(* window and of the bloom index.                                          *)
(***************************************************************************)
EXTENDS BlockChain, NonceCheck_proofs, Iterations

-----------------------------------------------------------------------------
(* The inductive invariant.                                                *)

Block == MaybeBlock \ {NoBlock}
Stage == {"idle", "blocks", "extras", "nonces", "best", "update"}
ImpType == [at : Stage, block : Block, best : BOOLEAN, reorg : BOOLEAN, common : Block]

\* the block that is imported: its branch meets that of the last block in
\* imp.common, and only the branch of the best block is left for it
ImportInv ==
    /\ imp \in ImpType
    /\ imp.at # "idle" => imp.block # Genesis /\ Parent(imp.block) \in detailsDB /\ Sound(imp.block)
    /\ imp.at # "idle" => imp.common \in Path(Parent(imp.block)) /\ (imp.best /\ ~imp.reorg => imp.at = "update" \/ imp.common = last)
    /\ imp.at \in {"blocks", "extras", "nonces", "best"} =>
          /\ imp.common \in Path(last) /\ imp.block \notin Path(last)
          /\ imp.best => Len(last) <= Len(imp.block)
    /\ imp.at \in {"extras", "nonces", "best", "update"} => imp.block \in blocksDB
    /\ imp.at \in {"nonces", "best", "update"} => imp.block \in detailsDB
    /\ imp.at = "best" => imp.best
    /\ imp.at = "update" => last = imp.block

\* the details on disk are closed under parents, their blocks are there too, and
\* no block repeats a key of its branch
DiskInv ==
    /\ Genesis \in detailsDB /\ last \in detailsDB /\ best = last
    /\ \A b \in detailsDB : Path(b) \subseteq detailsDB
    /\ \A b \in detailsDB \ {Genesis} : b \in blocksDB /\ Sound(b)

\* a number leads to a block of that number, if to any
IsEntry(n, b) == b # NoBlock => b \in detailsDB /\ Len(b) = n
NumbersInv ==
    /\ \A n \in Number : IsEntry(n, hashDB[n]) /\ IsEntry(n, hashes[n])
    /\ \A n \in 1..Len(Indexed) : hashDB[n] # NoBlock

Trusted == ~torn /\ ~raced

\* the numbers on disk are those of the branch of Indexed; the cache holds some of
\* them, and none that the batch of a reversion is about to change
IndexInv ==
    Trusted =>
        /\ \A n \in 1..Len(Indexed) : hashDB[n] = SubSeq(Indexed, 1, n)
        /\ \A n \in Number : hashes[n] # NoBlock => n <= Len(Indexed) /\ hashes[n] = SubSeq(Indexed, 1, n)
        /\ imp.at \in {"blocks", "extras"} /\ imp.reorg =>
              \A n \in Number : n > Len(imp.common) => hashes[n] = NoBlock

AddressInv ==
    Trusted => \A n \in 1..Len(Indexed) : \A t \in Indexed[n] : addrDB[t] = SubSeq(Indexed, 1, n)

\* both levels of a bloom index have what the blocks up to b log
Covers(bl, b) ==
    \A n \in 1..Len(b) : b[n] \subseteq bl[0][n] /\ b[n] \subseteq bl[1][n \div IndexSize]

\* the blooms in memory are ahead of those on disk while the batch is not written
Bloomed == IF imp.best /\ imp.at \in {"blocks", "extras"} THEN imp.block ELSE Indexed
BloomInv == Trusted => Covers(bloomDB, Indexed) /\ Covers(blooms, Bloomed)

\* the nonce check holds the keys of the window below b but for those that a
\* block of another branch has too
Window(b) == KeysIn(b, StartBlk(Len(b)), Len(b))
Elsewhere(b, known) == UNION {GenerateKeys(Txs(d)) : d \in known \ Path(b)}
Watches(w, b, known) ==
    /\ w.startblk = StartBlk(Len(b)) /\ w.endblk = Len(b)
    /\ w.cache \subseteq Window(b)
    /\ Window(b) \ w.cache \subseteq Elsewhere(b, known)
Watched == IF imp.at = "update" THEN imp.common ELSE last
NonceInv == Trusted /\ rewinds = 0 /\ ~(imp.at = "update" /\ imp.reorg) => Watches(nc, Watched, detailsDB)

IndInv == /\ TypeOK /\ ImportInv /\ DiskInv /\ NumbersInv
          /\ IndexInv /\ AddressInv /\ BloomInv /\ NonceInv

-----------------------------------------------------------------------------
(* Blocks are sequences; the path of a block is the set of its prefixes.   *)

\* a function on 1..n is a sequence of length n
LEMMA FunctionIsSeq ==
    ASSUME NEW S, NEW n \in Nat, NEW f \in [1..n -> S]
    PROVE  f \in Seq(S) /\ Len(f) = n
OBVIOUS

\* a block is a sequence of payloads that is no longer than MaxNumber
LEMMA BlockIsSeq ==
    ASSUME NEW b
    PROVE  b \in Block <=> b \in Seq(Payload) /\ Len(b) <= MaxNumber
<1> DEFINE U == UNION {[1..n -> Payload] : n \in 0..MaxNumber}
<1>1. b \in Block <=> b \in U
  BY BlockChainAssumption DEF Block, MaybeBlock
<1>2. MaxNumber \in Nat
  BY BlockChainAssumption
<1>3. ASSUME b \in U PROVE b \in Seq(Payload) /\ Len(b) <= MaxNumber
  <2>1. PICK n \in 0..MaxNumber : b \in [1..n -> Payload]
    BY <1>3
  <2>2. n \in Nat /\ n <= MaxNumber
    BY <1>2
  <2> QED BY <2>1, <2>2, FunctionIsSeq
<1>4. ASSUME b \in Seq(Payload), Len(b) <= MaxNumber PROVE b \in U
  <2>1. Len(b) \in 0..MaxNumber /\ b \in [1..Len(b) -> Payload]
    BY <1>2, <1>4, LenProperties
  <2> QED BY <2>1
<1> QED BY <1>1, <1>3, <1>4

\* what a block is made of
LEMMA BlockFacts ==
    ASSUME NEW b \in Block
    PROVE  /\ b \in Seq(Payload) /\ Len(b) \in Nat /\ Len(b) <= MaxNumber /\ DOMAIN b = 1..Len(b)
           /\ b \in Seq(SUBSET Tx) /\ \A i \in 1..Len(b) : b[i] \in Payload /\ b[i] \in SUBSET Tx
           /\ b # NoBlock /\ b \in MaybeBlock
<1>1. b \in Seq(Payload) /\ Len(b) <= MaxNumber
  BY BlockIsSeq
<1>2. Len(b) \in Nat /\ DOMAIN b = 1..Len(b) /\ \A i \in 1..Len(b) : b[i] \in Payload
  BY <1>1, LenProperties, ElementOfSeq
<1>3. b \in Seq(SUBSET Tx)
  BY <1>1, SeqMonotonic, BlockChainAssumption
<1>4. b # NoBlock /\ b \in MaybeBlock
  BY DEF Block
<1> QED BY <1>1, <1>2, <1>3, <1>4, BlockChainAssumption

\* a prefix of a block
LEMMA PrefixFacts ==
    ASSUME NEW b \in Block, NEW n \in 0..Len(b)
    PROVE  /\ SubSeq(b, 1, n) \in Block /\ Len(SubSeq(b, 1, n)) = n
           /\ \A i \in 1..n : SubSeq(b, 1, n)[i] = b[i]
<1>1. n \in Nat /\ n <= Len(b) /\ Len(b) <= MaxNumber /\ Len(b) \in Nat /\ MaxNumber \in Nat
  BY BlockFacts, BlockChainAssumption
<1>2. \A i \in 1..n : b[i] \in Payload
  BY <1>1, BlockFacts
<1>3. /\ SubSeq(b, 1, n) \in Seq(Payload)
      /\ Len(SubSeq(b, 1, n)) = IF 1 <= n THEN n - 1 + 1 ELSE 0
      /\ \A i \in 1..(n - 1 + 1) : SubSeq(b, 1, n)[i] = b[1 + i - 1]
  BY <1>1, <1>2, SubSeqProperties
<1>4. Len(SubSeq(b, 1, n)) = n
  BY <1>1, <1>3
<1>5. \A i \in 1..n : SubSeq(b, 1, n)[i] = b[i]
  BY <1>1, <1>3
<1>6. SubSeq(b, 1, n) \in Block
  <2>1. SubSeq(b, 1, n) \in Seq(Payload) /\ Len(SubSeq(b, 1, n)) <= MaxNumber
    BY <1>1, <1>3, <1>4
  <2> QED BY <2>1, BlockIsSeq
<1> QED BY <1>4, <1>5, <1>6

\* the path of a block, by the elements of its members
LEMMA PathMember ==
    ASSUME NEW b \in Block, NEW d
    PROVE  d \in Path(b) <=> d \in Block /\ Len(d) <= Len(b) /\ \A i \in 1..Len(d) : d[i] = b[i]
<1>1. ASSUME d \in Path(b) PROVE d \in Block /\ Len(d) <= Len(b) /\ \A i \in 1..Len(d) : d[i] = b[i]
  <2>1. PICK n \in 0..Len(b) : d = SubSeq(b, 1, n)
    BY <1>1 DEF Path
  <2> QED BY <2>1, PrefixFacts, BlockFacts
<1>2. ASSUME d \in Block, Len(d) <= Len(b), \A i \in 1..Len(d) : d[i] = b[i] PROVE d \in Path(b)
  <2>1. Len(d) \in 0..Len(b)
    BY <1>2, BlockFacts
  <2> DEFINE e == SubSeq(b, 1, Len(d))
  <2>2. e \in Block /\ Len(e) = Len(d) /\ \A i \in 1..Len(d) : e[i] = b[i]
    BY <2>1, PrefixFacts
  <2>3. e \in Seq(Payload) /\ d \in Seq(Payload)
    BY <1>2, <2>2, BlockFacts
  <2> HIDE DEF e
  <2>4. e = d
    BY <1>2, <2>2, <2>3, SeqEqual
  <2> QED BY <2>1, <2>4 DEF Path, e
<1> QED BY <1>1, <1>2

\* a member of a path is the prefix of its length
LEMMA PathIsPrefix ==
    ASSUME NEW b \in Block, NEW d \in Path(b)
    PROVE  /\ d \in Block /\ Len(d) \in 0..Len(b) /\ d = SubSeq(b, 1, Len(d))
           /\ \A n \in 0..Len(d) : SubSeq(d, 1, n) = SubSeq(b, 1, n)
<1>1. d \in Block /\ Len(d) <= Len(b) /\ Len(d) \in Nat /\ Len(b) \in Nat
      /\ \A i \in 1..Len(d) : d[i] = b[i]
  BY PathMember, BlockFacts
<1>2. ASSUME NEW n \in 0..Len(d) PROVE SubSeq(d, 1, n) = SubSeq(b, 1, n)
  <2> DEFINE e == SubSeq(d, 1, n)
             f == SubSeq(b, 1, n)
  <2>1. n \in 0..Len(b)
    BY <1>1
  <2>2. /\ e \in Block /\ Len(e) = n /\ \A i \in 1..n : e[i] = d[i]
        /\ f \in Block /\ Len(f) = n /\ \A i \in 1..n : f[i] = b[i]
    BY <1>1, <2>1, PrefixFacts
  <2>3. e \in Seq(Payload) /\ f \in Seq(Payload)
    BY <2>2, BlockFacts
  <2>4. \A i \in 1..n : e[i] = f[i]
    BY <1>1, <2>2
  <2> HIDE DEF e, f
  <2>5. e = f
    BY <2>2, <2>3, <2>4, SeqEqual
  <2> QED BY <2>5 DEF e, f
<1>3. SubSeq(d, 1, Len(d)) = d
  BY <1>1, SubSeqFull, BlockFacts
<1>4. SubSeq(d, 1, Len(d)) = SubSeq(b, 1, Len(d))
  BY <1>1, <1>2
<1> QED BY <1>1, <1>2, <1>3, <1>4

\* paths are transitive, and hold the block and the genesis
LEMMA PathFacts ==
    ASSUME NEW b \in Block
    PROVE  /\ Path(b) \subseteq Block /\ b \in Path(b) /\ Genesis \in Path(b)
           /\ Genesis \in Block /\ Len(Genesis) = 0
           /\ \A d \in Path(b) : Path(d) \subseteq Path(b)
           /\ \A d, e \in Path(b) : Len(d) <= Len(e) => d \in Path(e)
           /\ \A d, e \in Path(b) : Len(d) = Len(e) => d = e
<1>1. Genesis \in Block /\ Len(Genesis) = 0
  <2>1. << >> \in Seq(Payload) /\ Len(<< >>) = 0 /\ 0 <= MaxNumber
    BY EmptySeq, BlockChainAssumption
  <2>2. << >> \in Block
    BY <2>1, BlockIsSeq
  <2> QED BY <2>1, <2>2 DEF Genesis
<1>2. b \in Path(b) /\ Genesis \in Path(b)
  BY <1>1, PathMember, BlockFacts
<1>3. \A d \in Path(b) : d \in Block
  BY PathMember
<1>4. ASSUME NEW d \in Path(b), NEW e \in Path(d) PROVE e \in Path(b)
  <2>1. d \in Block /\ Len(d) <= Len(b) /\ \A i \in 1..Len(d) : d[i] = b[i]
    BY PathMember
  <2>2. e \in Block /\ Len(e) <= Len(d) /\ \A i \in 1..Len(e) : e[i] = d[i]
    BY <2>1, PathMember
  <2>3. Len(e) <= Len(b) /\ \A i \in 1..Len(e) : e[i] = b[i]
    BY <2>1, <2>2, BlockFacts
  <2> QED BY <2>2, <2>3, PathMember
<1>5. ASSUME NEW d \in Path(b), NEW e \in Path(b), Len(d) <= Len(e) PROVE d \in Path(e)
  <2>1. d \in Block /\ \A i \in 1..Len(d) : d[i] = b[i]
    BY PathMember
  <2>2. e \in Block /\ \A i \in 1..Len(e) : e[i] = b[i]
    BY PathMember
  <2>3. \A i \in 1..Len(d) : d[i] = e[i]
    BY <1>5, <2>1, <2>2, BlockFacts
  <2> QED BY <1>5, <2>1, <2>2, <2>3, PathMember
<1>6. ASSUME NEW d \in Path(b), NEW e \in Path(b), Len(d) = Len(e) PROVE d = e
  BY <1>6, PathIsPrefix
<1> QED BY <1>1, <1>2, <1>3, <1>4, <1>5, <1>6

\* the parent of a block that is not the genesis
LEMMA ParentFacts ==
    ASSUME NEW b \in Block, b # Genesis
    PROVE  /\ Len(b) > 0 /\ Parent(b) \in Block /\ Parent(b) \in Path(b) /\ Len(Parent(b)) = Len(b) - 1
           /\ Path(b) = Path(Parent(b)) \cup {b} /\ b \notin Path(Parent(b))
           /\ Txs(b) \in SUBSET Tx /\ Txs(b) = b[Len(b)]
<1>1. Len(b) \in Nat /\ Len(b) > 0
  BY EmptySeq, BlockFacts DEF Genesis
<1>2. Len(b) - 1 \in 0..Len(b)
  BY <1>1
<1>3. Parent(b) \in Path(b) /\ Parent(b) \in Block /\ Len(Parent(b)) = Len(b) - 1
  BY <1>2, PrefixFacts DEF Path, Parent
<1>4. b \notin Path(Parent(b))
  BY <1>1, <1>3, PathMember
<1>5. ASSUME NEW d \in Path(b), d # b PROVE d \in Path(Parent(b))
  <2>1. Len(d) # Len(b)
    BY <1>5, PathFacts
  <2>2. Len(d) <= Len(Parent(b))
    BY <1>1, <1>3, <2>1, PathIsPrefix
  <2> QED BY <1>3, <2>2, PathFacts
<1>6. Path(Parent(b)) \cup {b} \subseteq Path(b)
  BY <1>3, PathFacts
<1>7. Txs(b) \in SUBSET Tx /\ Txs(b) = b[Len(b)]
  BY <1>1, BlockFacts DEF Txs
<1> QED BY <1>1, <1>3, <1>4, <1>5, <1>6, <1>7

\* a child of a block
LEMMA ChildFacts ==
    ASSUME NEW p \in Block, NEW x \in Payload, Len(p) < MaxNumber
    PROVE  /\ Append(p, x) \in Block /\ Append(p, x) # Genesis
           /\ Parent(Append(p, x)) = p /\ Txs(Append(p, x)) = x
<1> DEFINE b == Append(p, x)
<1>1. p \in Seq(Payload) /\ Len(p) \in Nat /\ MaxNumber \in Nat
  BY BlockFacts, BlockChainAssumption
<1>2. /\ b \in Seq(Payload) /\ b # << >> /\ Len(b) = Len(p) + 1
      /\ \A i \in 1..Len(p) : b[i] = p[i]
      /\ b[Len(p) + 1] = x
  BY <1>1, AppendProperties
<1> HIDE DEF b
<1>3. b \in Block /\ b # Genesis
  BY <1>1, <1>2, BlockIsSeq DEF Genesis
<1>4. p \in Path(b) /\ Len(p) = Len(b) - 1
  BY <1>1, <1>2, <1>3, PathMember
<1>5. Parent(b) = p
  BY <1>3, <1>4, ParentFacts, PathFacts
<1>6. Txs(b) = x
  BY <1>2 DEF Txs
<1> QED BY <1>3, <1>5, <1>6 DEF b

\* two blocks have a last common ancestor
LEMMA CommonFacts ==
    ASSUME NEW b \in Block, NEW c \in Block
    PROVE  Common(b, c) \in Path(b) /\ Common(b, c) \in Path(c)
<1> DEFINE A == Path(b) \cap Path(c)
           S == {Len(b) - Len(d) : d \in A}
<1>1. Genesis \in A /\ A \subseteq Path(b)
  BY PathFacts
<1>2. \A d \in A : Len(d) \in Nat /\ Len(b) - Len(d) \in Nat
  BY <1>1, PathIsPrefix, BlockFacts
<1>3. S \in SUBSET Nat /\ S # {}
  BY <1>1, <1>2
<1>4. PICK v \in S : \A w \in S : v <= w
  BY <1>3, LeastElement
<1>5. PICK a \in A : v = Len(b) - Len(a)
  BY <1>4
<1>6. \A d \in A : Len(d) <= Len(a)
  <2> TAKE d \in A
  <2>1. Len(b) - Len(a) <= Len(b) - Len(d)
    BY <1>4, <1>5
  <2>2. Len(a) \in Nat /\ Len(d) \in Nat /\ Len(b) \in Nat
    BY <1>2, <1>5, BlockFacts
  <2> QED BY <2>1, <2>2
<1>7. \E e \in A : \A d \in A : Len(d) <= Len(e)
  BY <1>5, <1>6
<1>8. Common(b, c) = CHOOSE e \in A : \A d \in A : Len(d) <= Len(e)
  BY DEF Common
<1> HIDE DEF A
<1>9. Common(b, c) \in A
  BY <1>7, <1>8
<1> QED BY <1>9 DEF A


-----------------------------------------------------------------------------
(* Quotients.                                                              *)

\* quotient and remainder
LEMMA DivFacts ==
    ASSUME NEW n \in Nat, NEW w \in Nat, w > 0
    PROVE  /\ n \div w \in Nat /\ n % w \in 0..(w-1)
           /\ n = w * (n \div w) + (n % w)
<1>1. n \div w \in Int /\ n % w \in 0..(w-1)
  OBVIOUS
<1>2. n = w * (n \div w) + (n % w)
  OBVIOUS
<1>3. n \div w \in Nat
  <2> DEFINE q == n \div w
  <2>1. q \in Int /\ n < w * q + w
    BY <1>1, <1>2
  <2>2. SUFFICES ASSUME q < 0 PROVE FALSE
    BY <2>1
  <2> HIDE DEF q
  <2>3. w * (q + 1) <= 0
    BY <2>1, <2>2, SMTT(20)
  <2>4. w * (q + 1) = w * q + w
    BY <2>1
  <2> QED BY <2>1, <2>3, <2>4
<1> QED BY <1>1, <1>2, <1>3

\* there is one quotient and one remainder
LEMMA DivUnique ==
    ASSUME NEW n \in Nat, NEW w \in Nat, w > 0, NEW q \in Nat, NEW r \in 0..(w-1), n = w * q + r
    PROVE  n \div w = q /\ n % w = r
OBVIOUS

\* a quotient is no larger
LEMMA DivLe == ASSUME NEW n \in Nat, NEW w \in Nat, w > 0 PROVE n \div w <= n
BY DivFacts, SMTT(20)

\* quotients grow with the dividend
LEMMA DivMono == ASSUME NEW m \in Nat, NEW n \in Nat, NEW w \in Nat, w > 0, m <= n PROVE m \div w <= n \div w
<1> DEFINE a == m \div w
           b == n \div w
<1>1. a \in Nat /\ b \in Nat /\ w * a <= m /\ n < w * b + w
  BY DivFacts
<1>2. SUFFICES ASSUME a > b PROVE FALSE
  BY <1>1
<1> HIDE DEF a, b
<1>3. w * a >= w * (b + 1)
  BY <1>1, <1>2, SMTT(20)
<1>4. w * (b+1) = w * b + w
  BY <1>1
<1> QED BY <1>1, <1>3, <1>4

\* dividing twice is dividing by the product
LEMMA DivDiv ==
    ASSUME NEW n \in Nat, NEW v \in Nat, v > 0, NEW w \in Nat, w > 0
    PROVE  (n \div v) \div w = n \div (v * w)
<1> DEFINE a == n \div v
           q == a \div w
           r == a % w
           s == n % v
<1>1. a \in Nat /\ s \in 0..(v - 1) /\ n = v * a + s
  BY DivFacts
<1>2. q \in Nat /\ r \in 0..(w - 1) /\ a = w * q + r
  <2> HIDE DEF a
  <2> QED BY <1>1, DivFacts
<1> DEFINE u == v * w
           z == v * r + s
<1> HIDE DEF a, q, r, s
<1>3. u \in Nat /\ u > 0
  BY SMTT(20)
<1>4. v * r <= v * (w - 1) /\ v * r \in Nat
  BY <1>2, SMTT(20)
<1>5. v * (w - 1) = u - v
  OBVIOUS
<1>6. z \in 0..(u - 1)
  <2> HIDE DEF u
  <2> QED BY <1>1, <1>2, <1>3, <1>4, <1>5
<1>7. n = u * q + z
  <2>1. v * a = v * (w * q) + v * r
    BY <1>1, <1>2
  <2>2. v * (w * q) = u * q
    BY <1>2
  <2>3. v * a = u * q + v * r
    BY <2>1, <2>2
  <2>4. u * q \in Int /\ v * r \in Int /\ s \in Int
    BY <1>1, <1>2, <1>3, <1>4
  <2> QED BY <1>1, <2>3, <2>4
<1> HIDE DEF u, z
<1>8. n \div u = q
  BY <1>2, <1>3, <1>6, <1>7, DivUnique
<1> QED BY <1>8 DEF u, q, a

\* of two numbers with one quotient the larger has the larger remainder
LEMMA RemainderMono ==
    ASSUME NEW m \in Nat, NEW n \in Nat, NEW w \in Nat, w > 0, m <= n, m \div w = n \div w
    PROVE  m % w <= n % w
<1> DEFINE q == n \div w
           r == m % w
           s == n % w
<1>1. q \in Nat /\ r \in Int /\ s \in Int /\ m = w * q + r /\ n = w * q + s
  BY DivFacts
<1> HIDE DEF q, r, s
<1>2. w * q \in Int
  BY <1>1
<1>3. r <= s
  BY <1>1, <1>2
<1> QED BY <1>3 DEF r, s

-----------------------------------------------------------------------------
(* The bloom index.                                                        *)

\* a block and the item of level 1 that it belongs to are items
LEMMA ItemFacts ==
    ASSUME NEW n \in Nat, n <= MaxNumber
    PROVE  n \in Item /\ n \div IndexSize \in Nat /\ n \div IndexSize \in Item
<1>1. IndexSize \in Nat /\ IndexSize > 0 /\ MaxNumber \in Nat
  BY BlockChainAssumption
<1>2. n \div IndexSize \in Nat /\ n \div IndexSize <= n
  BY <1>1, DivFacts, DivLe
<1> QED BY <1>1, <1>2 DEF Item

\* the items of a chunk, by their offsets
LEMMA ItemsMember ==
    ASSUME NEW level, NEW i, NEW lo, NEW hi, NEW p \in 0..(IndexSize - 1),
           i = lo \div (Fine(level) * IndexSize) => (lo \div Fine(level)) % IndexSize <= p,
           i = hi \div (Fine(level) * IndexSize) => p <= (hi \div Fine(level)) % IndexSize
    PROVE  i * IndexSize + p \in Items(level, i, lo, hi)
BY DEF Items

\* withBlockBloom looks at the item of block n in the chunk where it is
LEMMA ItemsHas ==
    ASSUME NEW level \in Level, NEW lo \in Nat, NEW n \in Nat, NEW hi \in Nat, lo <= n, n <= hi
    PROVE  n \div Fine(level) \in Items(level, (n \div Fine(level)) \div IndexSize, lo, hi)
<1> DEFINE w == IndexSize
           f == Fine(level)
           x == n \div f
           y == lo \div f
           z == hi \div f
           i == x \div w
<1>1. w \in Nat /\ w > 0 /\ f \in Nat /\ f > 0
  BY BlockChainAssumption DEF Fine
<1> HIDE DEF f, w
<1>2. x \in Nat /\ y \in Nat /\ z \in Nat /\ y <= x /\ x <= z
  BY <1>1, DivFacts, DivMono
<1>3. lo \div (f * w) = y \div w /\ hi \div (f * w) = z \div w
  BY <1>1, DivDiv
<1> HIDE DEF x, y, z
<1>4. i \in Nat /\ x % w \in 0..(w - 1) /\ x = w * i + (x % w)
  BY <1>1, <1>2, DivFacts
<1>5. i = y \div w => y % w <= x % w
  BY <1>1, <1>2, RemainderMono DEF i
<1>6. i = z \div w => x % w <= z % w
  BY <1>1, <1>2, RemainderMono DEF i
<1> HIDE DEF i
<1>7. x = i * w + (x % w)
  BY <1>1, <1>4
<1>8. i * w + (x % w) \in Items(level, i, lo, hi)
  BY <1>3, <1>4, <1>5, <1>6, ItemsMember DEF f, w, y, z
<1>9. x \in Items(level, i, lo, hi)
  BY <1>7, <1>8
<1> QED BY <1>9 DEF x, f, w, i

\* a search finds the block of a transaction that both levels have
LEMMA SearchFinds ==
    ASSUME NEW n \in Number, NEW lo \in 0..n, NEW hi \in n..MaxNumber, NEW t,
           t \in blooms[0][n], t \in blooms[1][n \div IndexSize]
    PROVE  n \in WithBlockBloom(t, lo, hi)
<1> DEFINE w == IndexSize
           u == w * w
           h == n \div w
           i == h \div w
<1>1. w \in Nat /\ w > 0 /\ n \in Nat /\ lo \in Nat /\ hi \in Nat /\ lo <= n /\ n <= hi /\ n <= MaxNumber
  BY BlockChainAssumption DEF Number
<1>2. h \in Nat /\ h \in Item /\ n \in Item
  BY <1>1, ItemFacts
<1>3. u \in Nat /\ u > 0
  BY <1>1, SMTT(20)
<1>4. i = n \div u
  BY <1>1, DivDiv
<1>5. i \in (lo \div u)..CeilDiv(hi, u)
  <2>1. lo \div u \in Nat /\ n \div u \in Nat /\ lo \div u <= n \div u
    BY <1>1, <1>3, DivFacts, DivMono
  <2>2. hi + u - 1 \in Nat /\ n <= hi + u - 1
    BY <1>1, <1>3
  <2>3. n \div u <= (hi + u - 1) \div u /\ (hi + u - 1) \div u \in Nat
    <3> HIDE DEF u
    <3> QED BY <1>1, <1>3, <2>2, DivFacts, DivMono
  <2> QED BY <1>4, <2>1, <2>3 DEF CeilDiv
<1>6. h \in Items(1, i, lo, hi)
  <2>1. Fine(1) = w
    BY DEF Fine
  <2> QED BY <1>1, <2>1, ItemsHas DEF Level
<1>7. n \in Items(0, h, lo, hi)
  <2>1. n \div Fine(0) = n
    BY <1>1 DEF Fine
  <2>2. n \div Fine(0) \in Items(0, (n \div Fine(0)) \div w, lo, hi)
    BY <1>1, ItemsHas DEF Level
  <2> QED BY <2>1, <2>2
<1> DEFINE top  == UNION {Items(1, j, lo, hi) : j \in (lo \div u)..CeilDiv(hi, u)}
           high == {j \in top \cap Item : t \in blooms[1][j]}
           low  == UNION {Items(0, j, lo, hi) : j \in high}
<1>8. h \in top
  <2> HIDE DEF u, h, i
  <2> QED BY <1>5, <1>6
<1>9. h \in high
  <2> HIDE DEF top
  <2> QED BY <1>2, <1>8
<1>10. n \in low
  <2> HIDE DEF high
  <2> QED BY <1>7, <1>9
<1>11. n \in {j \in low \cap Item : t \in blooms[0][j]}
  <2> HIDE DEF low
  <2> QED BY <1>2, <1>10
<1> QED BY <1>11 DEF WithBlockBloom

BloomsType == [Level -> [Item -> SUBSET Tx]]

\* clearBlockBlooms keeps what the blocks below the cleared ones log: the upper
\* level is built again from the lower one
LEMMA ClearFacts ==
    ASSUME NEW bl \in BloomsType, NEW begin \in Nat, NEW end \in Nat
    PROVE  /\ ClearBlockBlooms(bl, begin, end) \in BloomsType
           /\ \A c \in Block : Covers(bl, c) /\ Len(c) < begin => Covers(ClearBlockBlooms(bl, begin, end), c)
<1> DEFINE low  == [i \in Item |-> IF begin <= i /\ i < end THEN {} ELSE bl[0][i]]
           high == [i \in Item |->
                      IF begin \div IndexSize <= i /\ i < (end - 1) \div IndexSize + 1
                      THEN UNION {low[j] : j \in {k \in Item : k \div IndexSize = i}}
                      ELSE bl[1][i]]
           r    == ClearBlockBlooms(bl, begin, end)
<1>1. 0 \in Level /\ 1 \in Level
  BY DEF Level
<1>2. bl[0] \in [Item -> SUBSET Tx] /\ bl[1] \in [Item -> SUBSET Tx]
  BY <1>1 DEF BloomsType
<1>3. low \in [Item -> SUBSET Tx]
  BY <1>2
<1> HIDE DEF low
<1>4. \A i \in Item : UNION {low[j] : j \in {k \in Item : k \div IndexSize = i}} \in SUBSET Tx
  BY <1>3
<1>5. high \in [Item -> SUBSET Tx]
  BY <1>2, <1>4
<1>6. r = [l \in Level |-> IF l = 0 THEN low ELSE high]
  BY DEF ClearBlockBlooms, low
<1> HIDE DEF high, r
<1>7. r \in BloomsType /\ r[0] = low /\ r[1] = high
  BY <1>1, <1>3, <1>5, <1>6 DEF BloomsType
<1>8. ASSUME NEW c \in Block, Covers(bl, c), Len(c) < begin, NEW n \in 1..Len(c)
      PROVE  c[n] \subseteq r[0][n] /\ c[n] \subseteq r[1][n \div IndexSize]
  <2>1. n \in Nat /\ n <= MaxNumber /\ n < begin
    BY <1>8, BlockFacts, BlockChainAssumption
  <2>2. n \in Item /\ n \div IndexSize \in Item
    BY <2>1, ItemFacts
  <2>3. c[n] \subseteq bl[0][n] /\ c[n] \subseteq bl[1][n \div IndexSize]
    BY <1>8 DEF Covers
  <2>4. low[n] = bl[0][n]
    BY <2>1, <2>2 DEF low
  <2>5. low[n] \subseteq UNION {low[j] : j \in {k \in Item : k \div IndexSize = n \div IndexSize}}
    BY <2>2
  <2>6. high[n \div IndexSize] \in {bl[1][n \div IndexSize],
           UNION {low[j] : j \in {k \in Item : k \div IndexSize = n \div IndexSize}}}
    BY <2>2 DEF high
  <2> QED BY <1>7, <2>3, <2>4, <2>5, <2>6
<1>9. \A c \in Block : Covers(bl, c) /\ Len(c) < begin => Covers(r, c)
  BY <1>8 DEF Covers
<1> QED BY <1>7, <1>9 DEF r

\* the blocks above the common ancestor, by their numbers
LEMMA RouteFacts ==
    ASSUME NEW b \in Block, NEW c \in Path(b)
    PROVE  /\ \A d : d \in Route(b, c) <=> d \in Path(b) /\ Len(d) > Len(c)
           /\ \A n \in 1..Len(b) : n > Len(c) => SubSeq(b, 1, n) \in Route(b, c)
           /\ \A d \in Route(b, c) : d \in Block /\ d # Genesis /\ Len(d) \in 1..Len(b) /\ Len(d) > Len(c)
                                     /\ d = SubSeq(b, 1, Len(d)) /\ Txs(d) = b[Len(d)] /\ Txs(d) \in SUBSET Tx
<1>1. c \in Block /\ Len(c) \in Nat /\ Len(b) \in Nat /\ Len(c) <= Len(b)
  BY PathIsPrefix, BlockFacts
<1>2. ASSUME NEW d \in Path(b) PROVE d \in Path(c) <=> Len(d) <= Len(c)
  BY <1>1, PathFacts, PathIsPrefix
<1>3. ASSUME NEW d PROVE d \in Route(b, c) <=> d \in Path(b) /\ Len(d) > Len(c)
  <2>1. d \in Path(b) => Len(d) \in Nat
    BY <1>1, PathIsPrefix
  <2> QED BY <1>1, <1>2, <2>1 DEF Route
<1>4. ASSUME NEW n \in 1..Len(b), n > Len(c) PROVE SubSeq(b, 1, n) \in Route(b, c)
  <2>1. n \in 0..Len(b)
    BY <1>1
  <2>2. SubSeq(b, 1, n) \in Path(b) /\ Len(SubSeq(b, 1, n)) = n
    BY <2>1, PrefixFacts DEF Path
  <2> QED BY <1>3, <1>4, <2>2
<1>5. ASSUME NEW d \in Route(b, c)
      PROVE  d \in Block /\ d # Genesis /\ Len(d) \in 1..Len(b) /\ Len(d) > Len(c)
             /\ d = SubSeq(b, 1, Len(d)) /\ Txs(d) = b[Len(d)] /\ Txs(d) \in SUBSET Tx
  <2>1. d \in Path(b) /\ Len(d) > Len(c)
    BY <1>3
  <2>2. d \in Block /\ Len(d) \in 0..Len(b) /\ d = SubSeq(b, 1, Len(d))
    BY <2>1, PathIsPrefix
  <2>3. Len(d) \in 1..Len(b)
    BY <1>1, <2>1, <2>2
  <2>4. d # Genesis
    BY <2>3, PathFacts
  <2>5. d[Len(d)] = b[Len(d)]
    BY <2>1, <2>2, <2>3, PathMember
  <2> QED BY <2>1, <2>2, <2>3, <2>4, <2>5, ParentFacts
<1> QED BY <1>3, <1>4, <1>5

\* the blooms of a new branch cover it
LEMMA AddFacts ==
    ASSUME NEW bl \in BloomsType, NEW b \in Block, NEW c \in Path(b)
    PROVE  /\ AddBlooms(bl, Route(b, c)) \in BloomsType
           /\ Covers(bl, c) => Covers(AddBlooms(bl, Route(b, c)), b)
<1> DEFINE new(l, i) == UNION {Txs(d) : d \in {e \in Route(b, c) : Len(e) \div Fine(l) = i}}
           r == AddBlooms(bl, Route(b, c))
<1>1. r = [l \in Level |-> [i \in Item |-> bl[l][i] \cup new(l, i)]]
  BY DEF AddBlooms
<1>2. \A l \in Level, i \in Item : new(l, i) \in SUBSET Tx
  BY RouteFacts
<1>3. \A l \in Level, i \in Item : bl[l][i] \in SUBSET Tx
  BY DEF BloomsType
<1>4. ASSUME NEW n \in 1..Len(b), n > Len(c), NEW l \in Level PROVE b[n] \subseteq new(l, n \div Fine(l))
  <2> DEFINE d == SubSeq(b, 1, n)
  <2>1. d \in Route(b, c)
    BY <1>4, RouteFacts
  <2>2. n \in 0..Len(b)
    BY BlockFacts
  <2>3. Len(d) = n
    BY <2>2, PrefixFacts
  <2> HIDE DEF d
  <2>4. Txs(d) = b[n]
    BY <2>1, <2>3, RouteFacts
  <2> QED BY <2>1, <2>3, <2>4
<1> HIDE DEF new, r
<1>5. r \in BloomsType
  BY <1>1, <1>2, <1>3 DEF BloomsType
<1>6. ASSUME Covers(bl, c), NEW n \in 1..Len(b) PROVE b[n] \subseteq r[0][n] /\ b[n] \subseteq r[1][n \div IndexSize]
  <2>1. n \in Nat /\ n <= MaxNumber
    BY BlockFacts, BlockChainAssumption
  <2>2. n \in Item /\ n \div IndexSize \in Item /\ 0 \in Level /\ 1 \in Level
    BY <2>1, ItemFacts DEF Level
  <2>3. n \div Fine(0) = n /\ n \div Fine(1) = n \div IndexSize
    BY <2>1 DEF Fine
  <2>4. r[0][n] = bl[0][n] \cup new(0, n) /\ r[1][n \div IndexSize] = bl[1][n \div IndexSize] \cup new(1, n \div IndexSize)
    BY <1>1, <2>2
  <2>5. CASE n > Len(c)
    <3>1. b[n] \subseteq new(0, n) /\ b[n] \subseteq new(1, n \div IndexSize)
      BY <1>4, <2>2, <2>3, <2>5
    <3> QED BY <2>4, <3>1
  <2>6. CASE ~(n > Len(c))
    <3>1. c \in Block /\ Len(c) \in Nat /\ n \in 1..Len(c)
      BY <2>1, <2>6, PathIsPrefix, BlockFacts
    <3>2. c[n] = b[n]
      BY <3>1, PathMember
    <3>3. b[n] \subseteq bl[0][n] /\ b[n] \subseteq bl[1][n \div IndexSize]
      BY <1>6, <3>1, <3>2 DEF Covers
    <3> QED BY <2>4, <3>3
  <2> QED BY <2>5, <2>6
<1>7. Covers(bl, c) => Covers(r, b)
  BY <1>6 DEF Covers
<1> QED BY <1>5, <1>7 DEF r

\* what covers a block covers the path to it
LEMMA CoversPath ==
    ASSUME NEW bl, NEW b \in Block, NEW c \in Path(b), Covers(bl, b)
    PROVE  Covers(bl, c)
<1>1. c \in Block /\ Len(c) \in 0..Len(b) /\ Len(b) \in Nat /\ \A n \in 1..Len(c) : c[n] = b[n]
  BY PathMember, PathIsPrefix, BlockFacts
<1> QED BY <1>1 DEF Covers

-----------------------------------------------------------------------------
(* The nonce check on the branches of the chain.                           *)

\* the methods of the nonce check keep its type
LEMMA NonceTypes ==
    ASSUME NEW w \in NonceCache, NEW c \in Seq(SUBSET Tx), NEW rebuild \in BOOLEAN, NEW x
    PROVE  /\ UpdateCache(w, c, Len(c), rebuild) \in NonceCache
           /\ Rebuilt(c) \in NonceCache
           /\ DelCache(w, x) \in NonceCache
           /\ UpdateCache(w, c, Len(c), TRUE) = Rebuilt(c)
<1>1. Len(c) \in Nat /\ StartBlk(Len(c)) \in Nat
  BY LenProperties, StartBlkType
<1>2. \A lo, hi : KeysIn(c, lo, hi) \subseteq Keys
  BY KeysInType
<1>3. w.cache \subseteq Keys /\ w.startblk \in Nat /\ w.endblk \in Nat
  BY DEF NonceCache
<1> DEFINE r == UpdateCache(w, c, Len(c), rebuild)
<1>4. r = [cache |-> r.cache, startblk |-> StartBlk(Len(c)), endblk |-> Len(c)] /\ r.cache \subseteq Keys
  BY <1>2, <1>3 DEF UpdateCache
<1>5. r \in NonceCache
  <2> HIDE DEF r
  <2> QED BY <1>1, <1>4 DEF NonceCache
<1>6. Rebuilt(c) \in NonceCache
  BY <1>1, <1>2, RebuiltExact DEF NonceCache
<1>7. DelCache(w, x) \in NonceCache
  BY DEF DelCache, NonceCache
<1>8. UpdateCache(w, c, Len(c), TRUE) = Rebuilt(c)
  BY DEF UpdateCache, Rebuilt
<1> QED BY <1>5, <1>6, <1>7, <1>8

\* no two blocks of the branch of b share a key
PathSound(b) ==
    \A i, j \in 1..Len(b) : i # j => GenerateKeys(b[i]) \cap GenerateKeys(b[j]) = {}

\* the branches on disk, and that of a block that is imported, share no key
LEMMA SoundBranch ==
    ASSUME DiskInv, detailsDB \subseteq Block, NEW b \in Block,
           b # Genesis => Parent(b) \in detailsDB /\ Sound(b)
    PROVE  PathSound(b)
<1>1. ASSUME NEW i \in 1..Len(b), NEW j \in 1..Len(b), i < j
      PROVE  GenerateKeys(b[i]) \cap GenerateKeys(b[j]) = {}
  <2>1. Len(b) \in Nat /\ j \in 0..Len(b) /\ i \in 1..(j - 1) /\ b # Genesis
    BY <1>1, BlockFacts, PathFacts
  <2> DEFINE e == SubSeq(b, 1, j)
  <2>2. e \in Block /\ Len(e) = j /\ (\A k \in 1..j : e[k] = b[k]) /\ e \in Path(b)
    BY <2>1, PrefixFacts DEF Path
  <2> HIDE DEF e
  <2>3. e # Genesis
    BY <2>1, <2>2, PathFacts
  <2>4. e = b \/ e \in detailsDB
    BY <2>1, <2>2, ParentFacts DEF DiskInv
  <2>5. Sound(e)
    BY <2>1, <2>3, <2>4 DEF DiskInv
  <2>6. GenerateKeys(e[i]) \cap GenerateKeys(Txs(e)) = {}
    BY <2>1, <2>2, <2>5 DEF Sound
  <2>7. Txs(e) = b[j] /\ e[i] = b[i]
    BY <2>1, <2>2, BlockFacts DEF Txs
  <2> QED BY <2>6, <2>7
<1>2. \A i, j \in 1..Len(b) : i # j => i < j \/ j < i
  BY BlockFacts
<1> QED BY <1>1, <1>2 DEF PathSound

\* the keys of a window, by the blocks of the branch
LEMMA WindowMember ==
    ASSUME NEW b \in Block, NEW lo, NEW hi, NEW k
    PROVE  k \in KeysIn(b, lo, hi) <=> \E j \in 1..Len(b) : lo <= j /\ j <= hi /\ k \in GenerateKeys(b[j])
<1>1. DOMAIN b = 1..Len(b)
  BY BlockFacts
<1> QED BY <1>1 DEF KeysIn

\* a key of c's branch that a block off that branch has too: the block is off the
\* longer branch of b as well, because that branch is sound
LEMMA ElsewhereMoves ==
    ASSUME NEW b \in Block, PathSound(b), NEW c \in Path(b), NEW known,
           NEW j \in 1..Len(c), NEW k \in GenerateKeys(b[j]), k \in Elsewhere(c, known)
    PROVE  k \in Elsewhere(b, known)
<1>1. PICK d \in known \ Path(c) : k \in GenerateKeys(Txs(d))
  BY DEF Elsewhere
<1>2. c \in Block /\ Len(c) \in 0..Len(b) /\ Len(b) \in Nat
  BY PathIsPrefix, BlockFacts
<1>3. d \notin Path(b)
  <2> SUFFICES ASSUME d \in Path(b) PROVE FALSE
    OBVIOUS
  <2>1. d \in Route(b, c)
    BY <1>1 DEF Route
  <2>2. Len(d) \in 1..Len(b) /\ Len(d) > Len(c) /\ Txs(d) = b[Len(d)]
    BY <2>1, RouteFacts
  <2>3. j \in 1..Len(b) /\ j # Len(d)
    BY <1>2, <2>2
  <2> QED BY <1>1, <2>2, <2>3 DEF PathSound
<1> QED BY <1>1, <1>3 DEF Elsewhere

\* updateCache moves the window up a branch: a key of the old window is evicted
\* only if no block that stays has it, because the branch is sound
LEMMA WatchMoves ==
    ASSUME NEW b \in Block, PathSound(b), NEW c \in Path(b), NEW known, NEW w,
           Watches(w, c, known)
    PROVE  Watches(UpdateCache(w, b, Len(b), FALSE), b, known)
<1> DEFINE n == Len(b)
           m == Len(c)
           s == StartBlk(m)
           e == StartBlk(n)
           f == IF m + 1 > e THEN m + 1 ELSE e
           r == UpdateCache(w, b, n, FALSE)
<1>1. n \in Nat /\ m \in Nat /\ m <= n /\ c \in Block
  BY PathIsPrefix, BlockFacts
<1>2. s \in Nat /\ e \in Nat /\ s <= e /\ e <= n
  BY <1>1, StartBlkType, StartBlkGrows
<1>3. w.startblk = s /\ w.endblk = m /\ w.cache \subseteq Window(c) /\ Window(c) \ w.cache \subseteq Elsewhere(c, known)
  BY DEF Watches
<1>4. /\ r.cache = (w.cache \ KeysIn(b, s, e - 1)) \cup KeysIn(b, f, n)
      /\ r.startblk = e /\ r.endblk = n
  BY <1>3 DEF UpdateCache
<1>5. \A j \in 1..m : c[j] = b[j] /\ j \in 1..n
  BY <1>1, PathMember
<1> HIDE DEF r, s, e
<1>6. ASSUME NEW k \in r.cache PROVE k \in Window(b)
  <2>1. CASE k \in KeysIn(b, f, n)
    <3>1. PICK j \in 1..n : f <= j /\ j <= n /\ k \in GenerateKeys(b[j])
      BY <2>1, WindowMember
    <3>2. e <= j
      BY <1>1, <1>2, <3>1
    <3> QED BY <3>1, <3>2, WindowMember DEF Window, e
  <2>2. CASE k \in w.cache /\ k \notin KeysIn(b, s, e - 1)
    <3>1. PICK j \in 1..m : s <= j /\ j <= m /\ k \in GenerateKeys(c[j])
      BY <1>1, <1>3, <2>2, WindowMember DEF Window, s
    <3>2. j \in 1..n /\ k \in GenerateKeys(b[j])
      BY <1>5, <3>1
    <3>3. ~(j <= e - 1)
      BY <2>2, <3>1, <3>2, WindowMember
    <3>4. e <= j /\ j <= n
      BY <1>1, <1>2, <3>2, <3>3
    <3> QED BY <3>2, <3>4, WindowMember DEF Window, e
  <2> QED BY <1>4, <2>1, <2>2
<1>7. ASSUME NEW k \in Window(b), k \notin r.cache PROVE k \in Elsewhere(b, known)
  <2>1. PICK j \in 1..n : e <= j /\ j <= n /\ k \in GenerateKeys(b[j])
    BY WindowMember DEF Window, e
  <2>2. ~(f <= j)
    BY <1>4, <1>7, <2>1, WindowMember
  <2>3. j \in 1..m /\ s <= j /\ j <= m
    BY <1>1, <1>2, <2>1, <2>2
  <2>4. k \in Window(c)
    BY <1>1, <1>5, <2>1, <2>3, WindowMember DEF Window, s
  <2>5. k \notin KeysIn(b, s, e - 1)
    <3> SUFFICES ASSUME NEW i \in 1..n, s <= i, i <= e - 1, k \in GenerateKeys(b[i]) PROVE FALSE
      BY WindowMember
    <3>1. i # j
      BY <1>1, <1>2, <2>1
    <3> QED BY <2>1, <3>1 DEF PathSound
  <2>6. k \in Elsewhere(c, known)
    BY <1>3, <1>4, <1>7, <2>4, <2>5
  <2> QED BY <2>1, <2>3, <2>6, ElsewhereMoves
<1>8. r.startblk = StartBlk(n) /\ r.endblk = n
  BY <1>4 DEF e
<1>9. Watches(r, b, known)
  BY <1>6, <1>7, <1>8 DEF Watches
<1> QED BY <1>9 DEF r

\* a nonce check that is built anew watches its branch
LEMMA RebuiltWatches ==
    ASSUME NEW b \in Block, NEW known
    PROVE  Watches(Rebuilt(b), b, known)
<1>1. b \in Seq(SUBSET Tx)
  BY BlockFacts
<1> QED BY <1>1, RebuiltExact DEF Watches, Window

\* delCache forgets keys of a block of another branch
LEMMA ForgetWatches ==
    ASSUME NEW b \in Block, NEW known, NEW w \in NonceCache, Watches(w, b, known), NEW d \in known \ Path(b)
    PROVE  Watches(DelCache(w, Txs(d)), b, known)
<1> DEFINE r == DelCache(w, Txs(d))
<1>1. r.cache = w.cache \ GenerateKeys(Txs(d)) /\ r.startblk = w.startblk /\ r.endblk = w.endblk
  BY DEF DelCache, NonceCache
<1>2. GenerateKeys(Txs(d)) \subseteq Elsewhere(b, known)
  BY DEF Elsewhere
<1> HIDE DEF r
<1>3. Watches(r, b, known)
  BY <1>1, <1>2 DEF Watches
<1> QED BY <1>3 DEF r

\* more blocks on disk do not disturb what the nonce check watches
LEMMA WatchesMore ==
    ASSUME NEW b, NEW known, NEW more, known \subseteq more, NEW w, Watches(w, b, known)
    PROVE  Watches(w, b, more)
<1>1. Elsewhere(b, known) \subseteq Elsewhere(b, more)
  BY DEF Elsewhere
<1> QED BY <1>1 DEF Watches

-----------------------------------------------------------------------------
(* The steps keep the invariant.                                           *)

\* the invariant in the form that the steps use
LEMMA Facts ==
    ASSUME IndInv
    PROVE  /\ blocksDB \subseteq Block /\ detailsDB \subseteq Block
           /\ last \in Block /\ best = last /\ last \in detailsDB
           /\ hashDB \in [Number -> MaybeBlock] /\ hashes \in [Number -> MaybeBlock]
           /\ addrDB \in [Tx -> MaybeBlock] /\ addresses \in [Tx -> MaybeBlock]
           /\ bloomDB \in BloomsType /\ blooms \in BloomsType /\ nc \in NonceCache
           /\ imp.at \in Stage /\ imp.block \in Block /\ imp.common \in Block
           /\ imp.best \in BOOLEAN /\ imp.reorg \in BOOLEAN
           /\ Indexed \in Block /\ Bloomed \in Block /\ Watched \in Block
           /\ \A b \in Block : Len(b) \in Nat /\ 1..Len(b) \subseteq Number
           /\ \A b \in detailsDB : Path(b) \subseteq detailsDB /\ PathSound(b)
           /\ Len(last) <= Len(Indexed)
<1>1. blocksDB \subseteq Block /\ detailsDB \subseteq Block /\ last \in Block /\ best = last /\ last \in detailsDB
  BY DEF IndInv, TypeOK, DiskInv, Block
<1>2. /\ hashDB \in [Number -> MaybeBlock] /\ hashes \in [Number -> MaybeBlock]
      /\ addrDB \in [Tx -> MaybeBlock] /\ addresses \in [Tx -> MaybeBlock]
      /\ bloomDB \in BloomsType /\ blooms \in BloomsType /\ nc \in NonceCache
  BY DEF IndInv, TypeOK, BloomsType
<1>3. /\ imp.at \in Stage /\ imp.block \in Block /\ imp.common \in Block
      /\ imp.best \in BOOLEAN /\ imp.reorg \in BOOLEAN
  BY DEF IndInv, ImportInv, ImpType
<1>4. Indexed \in Block /\ Bloomed \in Block /\ Watched \in Block
  BY <1>1, <1>3 DEF Indexed, Bloomed, Watched
<1>5. \A b \in Block : Len(b) \in Nat /\ 1..Len(b) \subseteq Number
  BY BlockFacts, BlockChainAssumption DEF Number
<1>6. ASSUME NEW b \in detailsDB PROVE Path(b) \subseteq detailsDB /\ PathSound(b)
  <2>1. Path(b) \subseteq detailsDB /\ b \in Block
    BY <1>1 DEF IndInv, DiskInv
  <2>2. b # Genesis => Parent(b) \in detailsDB /\ Sound(b)
    BY <2>1, ParentFacts DEF IndInv, DiskInv
  <2> QED BY <1>1, <2>1, <2>2, SoundBranch DEF IndInv
<1>7. Len(last) <= Len(Indexed)
  BY <1>1, <1>5 DEF Indexed, IndInv, ImportInv
<1> QED BY <1>1, <1>2, <1>3, <1>4, <1>5, <1>6, <1>7

\* the import moves to another stage
LEMMA ImpMoves ==
    ASSUME imp \in ImpType, NEW s \in Stage
    PROVE  LET i == [imp EXCEPT !.at = s]
           IN  /\ i \in ImpType /\ i.at = s /\ i.block = imp.block /\ i.best = imp.best
               /\ i.reorg = imp.reorg /\ i.common = imp.common
BY DEF ImpType

\* no import is under way
LEMMA IdleFacts == /\ Idle \in ImpType /\ Idle.at = "idle" /\ Idle.best = FALSE /\ Idle.reorg = FALSE
<1>1. Genesis \in Block
  <2>1. << >> \in Seq(Payload) /\ Len(<< >>) <= MaxNumber
    BY EmptySeq, BlockChainAssumption
  <2> QED BY <2>1, BlockIsSeq DEF Genesis
<1> QED BY <1>1 DEF Idle, ImpType, Stage

\* a step of the caches of addresses only
LEMMA AddressCacheKeeps ==
    ASSUME IndInv, (\E t \in Tx : CollectAddress(t) \/ ReadAddress(t)) \/ UNCHANGED vars
    PROVE  IndInv'
<1>1. UNCHANGED <<blocksDB, detailsDB, hashDB, addrDB, bloomDB, best, hashes, blooms, last, nc, imp, bounds>>
  BY DEF CollectAddress, ReadAddress, vars, disk, memory
<1>2. addresses' \in [Tx -> MaybeBlock]
  <2>1. addresses \in [Tx -> MaybeBlock] /\ addrDB \in [Tx -> MaybeBlock] /\ NoBlock \in MaybeBlock
    BY Facts DEF MaybeBlock
  <2>2. ASSUME NEW t \in Tx, CollectAddress(t) PROVE addresses' \in [Tx -> MaybeBlock]
    BY <2>1, <2>2 DEF CollectAddress
  <2>3. ASSUME NEW t \in Tx, ReadAddress(t) PROVE addresses' \in [Tx -> MaybeBlock]
    BY <2>1, <2>3 DEF ReadAddress, QueryExtras
  <2>4. CASE UNCHANGED vars
    BY <2>1, <2>4 DEF vars, memory
  <2> QED BY <2>2, <2>3, <2>4
<1>3. TypeOK'
  BY <1>1, <1>2 DEF IndInv, TypeOK, bounds
<1>4. ImportInv' /\ DiskInv' /\ NumbersInv'
  BY <1>1 DEF IndInv, ImportInv, DiskInv, NumbersInv, IsEntry, Indexed
<1>5. IndexInv' /\ AddressInv' /\ BloomInv' /\ NonceInv'
  BY <1>1 DEF IndInv, IndexInv, AddressInv, BloomInv, NonceInv, Trusted, Indexed, Bloomed, Watched, bounds
<1> QED BY <1>3, <1>4, <1>5 DEF IndInv

\* garbageCollect reads a chunk of blooms again
LEMMA CollectBloomsKeeps ==
    ASSUME IndInv, NEW l \in Level, NEW chunk \in Item, CollectBlooms(l, chunk)
    PROVE  IndInv'
<1>1. UNCHANGED <<blocksDB, detailsDB, hashDB, addrDB, bloomDB, best, hashes, addresses, last, nc, imp, bounds>>
  BY DEF CollectBlooms, disk
<1>2. blooms \in BloomsType /\ bloomDB \in BloomsType
  BY Facts
<1>3. /\ blooms' \in BloomsType
      /\ \A k \in Level, i \in Item : blooms'[k][i] \in {blooms[k][i], bloomDB[k][i]}
  BY <1>2 DEF CollectBlooms, BloomsType
<1>4. TypeOK'
  BY <1>1, <1>3 DEF IndInv, TypeOK, bounds, BloomsType
<1>5. ImportInv' /\ DiskInv' /\ NumbersInv'
  BY <1>1 DEF IndInv, ImportInv, DiskInv, NumbersInv, IsEntry, Indexed
<1>6. IndexInv' /\ AddressInv' /\ NonceInv'
  BY <1>1 DEF IndInv, IndexInv, AddressInv, NonceInv, Trusted, Indexed, Watched, bounds
<1>7. BloomInv'
  <2> SUFFICES ASSUME Trusted PROVE Covers(bloomDB, Indexed) /\ Covers(blooms', Indexed)
    BY <1>1 DEF BloomInv, Trusted, Bloomed, Indexed, bounds, CollectBlooms
  <2>1. Covers(bloomDB, Indexed) /\ Covers(blooms, Indexed)
    BY DEF IndInv, BloomInv, Bloomed, CollectBlooms
  <2>2. Indexed \in Block /\ 0 \in Level /\ 1 \in Level
    BY Facts DEF Level
  <2>3. \A n \in 1..Len(Indexed) : n \in Item /\ n \div IndexSize \in Item
    BY <2>2, BlockFacts, ItemFacts, BlockChainAssumption
  <2>4. \A n \in 1..Len(Indexed) :
           /\ blooms'[0][n] \in {blooms[0][n], bloomDB[0][n]}
           /\ blooms'[1][n \div IndexSize] \in {blooms[1][n \div IndexSize], bloomDB[1][n \div IndexSize]}
    BY <1>3, <2>2, <2>3
  <2> QED BY <2>1, <2>4 DEF Covers
<1> QED BY <1>4, <1>5, <1>6, <1>7 DEF IndInv

\* a number that is read leads to a block of that number
LEMMA NumberHashFacts ==
    ASSUME IndInv, NEW n \in Number
    PROVE  /\ NumberHash(n) \in MaybeBlock /\ IsEntry(n, NumberHash(n))
           /\ NumberHash(n) = IF hashes[n] # NoBlock THEN hashes[n] ELSE hashDB[n]
           /\ n <= Len(Indexed) => NumberHash(n) # NoBlock
           /\ Trusted /\ n <= Len(Indexed) => NumberHash(n) = SubSeq(Indexed, 1, n)
<1>1. n \in Nat /\ n # 0 /\ n > 0
  BY BlockChainAssumption DEF Number
<1>2. NumberHash(n) = IF hashes[n] # NoBlock THEN hashes[n] ELSE hashDB[n]
  BY <1>1 DEF NumberHash, QueryExtras
<1>3. IsEntry(n, hashes[n]) /\ IsEntry(n, hashDB[n])
  BY DEF IndInv, NumbersInv
<1>4. NumberHash(n) \in MaybeBlock /\ IsEntry(n, NumberHash(n))
  BY <1>2, <1>3, Facts
<1>5. n <= Len(Indexed) => n \in 1..Len(Indexed)
  BY <1>1, Facts
<1>6. n <= Len(Indexed) => NumberHash(n) # NoBlock
  BY <1>2, <1>5 DEF IndInv, NumbersInv
<1>7. Trusted /\ n <= Len(Indexed) => NumberHash(n) = SubSeq(Indexed, 1, n)
  BY <1>2, <1>5 DEF IndInv, IndexInv
<1> QED BY <1>2, <1>4, <1>6, <1>7

\* the numbers that are cached in a step keep the parts of the invariant about the
\* cache, unless they are numbers of a branch that is left
LEMMA ReadFacts ==
    ASSUME IndInv, NEW S, hashes' = Read(S)
    PROVE  /\ hashes' \in [Number -> MaybeBlock]
           /\ \A n \in Number : IsEntry(n, hashes'[n])
           /\ \A n \in Number : n \notin S => hashes'[n] = hashes[n]
           /\ \A n \in Number : n \in S => hashes'[n] = NumberHash(n)
<1>1. hashes \in [Number -> MaybeBlock]
  BY Facts
<1>2. \A n \in Number : hashes'[n] = IF n \in S THEN NumberHash(n) ELSE hashes[n]
  BY DEF Read
<1>3. \A n \in Number : NumberHash(n) \in MaybeBlock /\ IsEntry(n, NumberHash(n))
  BY NumberHashFacts
<1>4. \A n \in Number : IsEntry(n, hashes[n])
  BY DEF IndInv, NumbersInv
<1>5. \A n \in Number : hashes'[n] \in MaybeBlock
  BY <1>1, <1>2, <1>3
<1>6. hashes' \in [Number -> MaybeBlock]
  BY <1>5 DEF Read
<1>7. \A n \in Number : IsEntry(n, hashes'[n])
  BY <1>2, <1>3, <1>4
<1> QED BY <1>2, <1>6, <1>7

\* numberHash on an RPC thread
LEMMA ReadNumberKeeps ==
    ASSUME IndInv, NEW n \in Number, ReadNumber(n)
    PROVE  IndInv'
<1>1. UNCHANGED <<blocksDB, detailsDB, hashDB, addrDB, bloomDB, best, addresses, blooms, last, nc, imp,
                  imports, crashes, rewinds, torn>> /\ hashes' = Read({n})
  BY DEF ReadNumber, disk
<1>2. Trusted' => /\ Trusted /\ ~(imp.reorg /\ imp.at \in {"blocks", "extras"})
                  /\ n <= Len(Indexed) \/ NumberHash(n) = NoBlock
  <2>1. n \in Nat /\ Len(Indexed) \in Nat
    BY Facts, BlockChainAssumption DEF Number
  <2> QED BY <1>1, <2>1 DEF ReadNumber, Trusted
<1>3. TypeOK'
  <2>1. raced' \in BOOLEAN
    BY DEF ReadNumber
  <2> QED BY <1>1, <2>1, ReadFacts DEF IndInv, TypeOK
<1>4. ImportInv' /\ DiskInv'
  BY <1>1 DEF IndInv, ImportInv, DiskInv
<1>5. Indexed' = Indexed /\ Bloomed' = Bloomed /\ Watched' = Watched
  BY <1>1 DEF Indexed, Bloomed, Watched
<1>6. NumbersInv'
  BY <1>1, <1>5, ReadFacts DEF IndInv, NumbersInv, IsEntry
<1>7. IndexInv'
  <2> SUFFICES ASSUME Trusted', Trusted
               PROVE  /\ \A m \in 1..Len(Indexed) : hashDB[m] = SubSeq(Indexed, 1, m)
                      /\ \A m \in Number : hashes'[m] # NoBlock => m <= Len(Indexed) /\ hashes'[m] = SubSeq(Indexed, 1, m)
    BY <1>1, <1>2, <1>5 DEF IndexInv
  <2>1. /\ \A m \in 1..Len(Indexed) : hashDB[m] = SubSeq(Indexed, 1, m)
        /\ \A m \in Number : hashes[m] # NoBlock => m <= Len(Indexed) /\ hashes[m] = SubSeq(Indexed, 1, m)
    BY DEF IndInv, IndexInv
  <2>2. hashes'[n] # NoBlock => n <= Len(Indexed) /\ hashes'[n] = SubSeq(Indexed, 1, n)
    BY <1>1, <1>2, ReadFacts, NumberHashFacts
  <2>3. \A m \in Number : m # n => hashes'[m] = hashes[m]
    BY <1>1, ReadFacts
  <2> QED BY <2>1, <2>2, <2>3
<1>8. AddressInv' /\ BloomInv' /\ NonceInv'
  BY <1>1, <1>2, <1>5 DEF IndInv, AddressInv, BloomInv, NonceInv
<1> QED BY <1>3, <1>4, <1>6, <1>7, <1>8 DEF IndInv

\* the block is written
LEMMA WriteBlocksKeeps ==
    ASSUME IndInv, WriteBlocks
    PROVE  IndInv'
<1>1. /\ UNCHANGED <<detailsDB, hashDB, addrDB, bloomDB, best, hashes, addresses, blooms, last, nc, bounds>>
      /\ blocksDB' = blocksDB \cup {imp.block} /\ imp.at = "blocks"
  BY DEF WriteBlocks, memory
<1>2. /\ imp' \in ImpType /\ imp'.at = "extras" /\ imp'.block = imp.block /\ imp'.best = imp.best
      /\ imp'.reorg = imp.reorg /\ imp'.common = imp.common
  BY ImpMoves DEF WriteBlocks, IndInv, ImportInv, Stage
<1>3. TypeOK'
  BY <1>1, <1>2, Facts DEF IndInv, TypeOK, bounds, Block
<1>4. ImportInv'
  BY <1>1, <1>2 DEF IndInv, ImportInv
<1>5. DiskInv'
  BY <1>1 DEF IndInv, DiskInv
<1>6. Indexed' = Indexed /\ Bloomed' = Bloomed /\ Watched' = Watched
  BY <1>1, <1>2 DEF Indexed, Bloomed, Watched
<1>7. NumbersInv' /\ AddressInv'
  BY <1>1, <1>6 DEF IndInv, NumbersInv, IsEntry, AddressInv, Trusted, bounds
<1>8. IndexInv' /\ BloomInv' /\ NonceInv'
  BY <1>1, <1>2, <1>6 DEF IndInv, IndexInv, BloomInv, NonceInv, Trusted, bounds
<1> QED BY <1>3, <1>4, <1>5, <1>7, <1>8 DEF IndInv

\* the keys of the block leave the nonce check
LEMMA ForgetNoncesKeeps ==
    ASSUME IndInv, ForgetNonces
    PROVE  IndInv'
<1>1. /\ UNCHANGED <<blocksDB, detailsDB, hashDB, addrDB, bloomDB, best, hashes, addresses, blooms, last, bounds>>
      /\ nc' = DelCache(nc, Txs(imp.block)) /\ imp.at = "nonces"
  BY DEF ForgetNonces, disk
<1>2. \/ /\ imp.best /\ imp' \in ImpType /\ imp'.at = "best" /\ imp'.block = imp.block /\ imp'.best = imp.best
         /\ imp'.reorg = imp.reorg /\ imp'.common = imp.common
      \/ ~imp.best /\ imp' \in ImpType /\ imp'.at = "idle" /\ imp'.best = FALSE /\ imp'.reorg = FALSE
  BY ImpMoves, IdleFacts DEF ForgetNonces, IndInv, ImportInv, Stage
<1>3. nc' \in NonceCache
  <2>1. << >> \in Seq(SUBSET Tx)
    BY EmptySeq
  <2> QED BY <1>1, <2>1, Facts, NonceTypes
<1>4. TypeOK'
  BY <1>1, <1>2, <1>3 DEF IndInv, TypeOK, bounds
<1>5. ImportInv'
  BY <1>1, <1>2 DEF IndInv, ImportInv
<1>6. DiskInv'
  BY <1>1 DEF IndInv, DiskInv
<1>7. Indexed' = Indexed /\ Bloomed' = Bloomed /\ Watched' = Watched /\ Watched = last
  BY <1>1, <1>2 DEF Indexed, Bloomed, Watched
<1>8. NumbersInv' /\ AddressInv'
  BY <1>1, <1>7 DEF IndInv, NumbersInv, IsEntry, AddressInv, Trusted, bounds
<1>9. IndexInv' /\ BloomInv'
  BY <1>1, <1>2, <1>7 DEF IndInv, IndexInv, BloomInv, Trusted, bounds
<1>10. NonceInv'
  <2> SUFFICES ASSUME Trusted, rewinds = 0 PROVE Watches(nc', last, detailsDB)
    BY <1>1, <1>7 DEF NonceInv, Trusted, bounds
  <2>1. Watches(nc, last, detailsDB)
    BY <1>1, <1>7 DEF IndInv, NonceInv
  <2>2. imp.block \in detailsDB \ Path(last)
    BY <1>1 DEF IndInv, ImportInv
  <2> QED BY <1>1, <2>1, <2>2, Facts, ForgetWatches
<1> QED BY <1>4, <1>5, <1>6, <1>8, <1>9, <1>10 DEF IndInv

\* the block becomes the last one
LEMMA WriteBestKeeps ==
    ASSUME IndInv, WriteBest
    PROVE  IndInv'
<1>1. /\ UNCHANGED <<blocksDB, detailsDB, hashDB, addrDB, bloomDB, hashes, addresses, blooms, nc, bounds>>
      /\ last' = imp.block /\ best' = imp.block /\ imp.at = "best" /\ imp.best
  BY DEF WriteBest, IndInv, ImportInv
<1>2. /\ imp' \in ImpType /\ imp'.at = "update" /\ imp'.block = imp.block /\ imp'.best = imp.best
      /\ imp'.reorg = imp.reorg /\ imp'.common = imp.common
  BY ImpMoves DEF WriteBest, IndInv, ImportInv, Stage
<1>3. TypeOK'
  BY <1>1, <1>2, Facts DEF IndInv, TypeOK, bounds, Block
<1>4. ImportInv'
  BY <1>1, <1>2 DEF IndInv, ImportInv
<1>5. DiskInv'
  BY <1>1 DEF IndInv, DiskInv, ImportInv
<1>6. Indexed' = Indexed /\ Bloomed' = Bloomed
  BY <1>1, <1>2 DEF Indexed, Bloomed
<1>7. NumbersInv' /\ AddressInv'
  BY <1>1, <1>6 DEF IndInv, NumbersInv, IsEntry, AddressInv, Trusted, bounds
<1>8. IndexInv' /\ BloomInv'
  BY <1>1, <1>2, <1>6 DEF IndInv, IndexInv, BloomInv, Trusted, bounds
<1>9. NonceInv'
  <2> SUFFICES ASSUME Trusted, rewinds = 0, ~imp.reorg PROVE Watches(nc, imp.common, detailsDB)
    BY <1>1, <1>2 DEF NonceInv, Trusted, Watched, bounds
  <2>1. Watches(nc, last, detailsDB)
    BY <1>1 DEF IndInv, NonceInv, Watched
  <2>2. imp.common = last
    BY <1>1 DEF IndInv, ImportInv
  <2> QED BY <2>1, <2>2
<1> QED BY <1>3, <1>4, <1>5, <1>7, <1>8, <1>9 DEF IndInv

\* the chain that the indexes show, as a sequence of sets of transactions
LEMMA ChainOf ==
    ASSUME NEW b \in Block, NEW f \in [1..Len(b) -> SUBSET Tx]
    PROVE  /\ f \in Seq(SUBSET Tx) /\ Len(f) = Len(b)
           /\ (\A n \in 1..Len(b) : f[n] = b[n]) => f = b
<1>1. Len(b) \in Nat /\ b \in Seq(SUBSET Tx)
  BY BlockFacts
<1>2. f \in Seq(SUBSET Tx) /\ Len(f) = Len(b)
  BY <1>1, FunctionIsSeq
<1> QED BY <1>1, <1>2, SeqEqual

\* the transactions of an entry of the number index
LEMMA EntryTxs ==
    ASSUME IndInv, NEW n \in Number, NEW h, IsEntry(n, h)
    PROVE  (IF h = NoBlock THEN {} ELSE Txs(h)) \in SUBSET Tx
<1>1. CASE h # NoBlock
  <2>1. h \in Block /\ Len(h) = n /\ n \in Nat /\ n > 0
    BY <1>1, Facts, BlockChainAssumption DEF IsEntry, Number
  <2>2. h # Genesis
    BY <2>1, PathFacts
  <2> QED BY <1>1, <2>1, <2>2, ParentFacts
<1> QED BY <1>1

\* a prefix of a block is no NoBlock and has the transactions of its last block
LEMMA PrefixTxs ==
    ASSUME NEW b \in Block, NEW n \in 1..Len(b)
    PROVE  /\ SubSeq(b, 1, n) # NoBlock /\ SubSeq(b, 1, n) \in Path(b) /\ Len(SubSeq(b, 1, n)) = n
           /\ (IF SubSeq(b, 1, n) = NoBlock THEN {} ELSE Txs(SubSeq(b, 1, n))) = b[n]
<1>1. n \in 0..Len(b) /\ n \in 1..n
  BY BlockFacts
<1>2. SubSeq(b, 1, n) \in Block /\ Len(SubSeq(b, 1, n)) = n /\ SubSeq(b, 1, n)[n] = b[n]
  BY <1>1, PrefixFacts
<1>3. SubSeq(b, 1, n) # NoBlock
  BY <1>2, BlockFacts
<1>4. SubSeq(b, 1, n) \in Path(b)
  BY <1>1 DEF Path
<1> QED BY <1>2, <1>3, <1>4 DEF Txs

\* the chain that updateCache reads
LEMMA NumberedFacts ==
    ASSUME IndInv
    PROVE  /\ Numbered(last) \in Seq(SUBSET Tx) /\ Len(Numbered(last)) = Len(last)
           /\ Trusted /\ Indexed = last => Numbered(last) = last
<1> DEFINE f == Numbered(last)
<1>1. 1..Len(last) \subseteq Number /\ last \in Block
  BY Facts
<1>2. \A n \in 1..Len(last) : f[n] = IF NumberHash(n) = NoBlock THEN {} ELSE Txs(NumberHash(n))
  BY DEF Numbered
<1>3. f \in [1..Len(last) -> SUBSET Tx]
  <2>1. \A n \in 1..Len(last) : (IF NumberHash(n) = NoBlock THEN {} ELSE Txs(NumberHash(n))) \in SUBSET Tx
    BY <1>1, NumberHashFacts, EntryTxs
  <2> QED BY <2>1 DEF Numbered
<1>4. ASSUME Trusted, Indexed = last, NEW n \in 1..Len(last) PROVE f[n] = last[n]
  <2>1. n \in Number /\ n <= Len(Indexed)
    BY <1>1, <1>4, Facts
  <2>2. NumberHash(n) = SubSeq(last, 1, n)
    BY <1>4, <2>1, NumberHashFacts
  <2> QED BY <1>1, <1>2, <2>2, PrefixTxs
<1> HIDE DEF f
<1>5. f \in Seq(SUBSET Tx) /\ Len(f) = Len(last) /\ (Trusted /\ Indexed = last => f = last)
  BY <1>1, <1>3, <1>4, ChainOf
<1> QED BY <1>5 DEF f

\* the window of the nonce check moves to the block
LEMMA UpdateNoncesKeeps ==
    ASSUME IndInv, UpdateNonces
    PROVE  IndInv'
<1> DEFINE start   == StartBlk(Len(last))
           first   == IF imp.reorg THEN 1 ELSE nc.endblk + 1
           evicted == IF imp.reorg THEN {} ELSE nc.startblk..(start - 1)
           S       == evicted \cup (IF first > start THEN first ELSE start)..Len(last)
<1>1. /\ UNCHANGED <<blocksDB, detailsDB, hashDB, addrDB, bloomDB, best, addresses, blooms, last, bounds>>
      /\ imp.at = "update" /\ nc' = UpdateCache(nc, Numbered(last), Len(last), imp.reorg) /\ imp' = Idle
      /\ hashes' = Read(S)
  BY DEF UpdateNonces, disk
<1>2. imp' \in ImpType /\ imp'.at = "idle" /\ imp'.best = FALSE /\ imp'.reorg = FALSE
  BY <1>1, IdleFacts
<1>3. last = imp.block /\ Indexed = last /\ Indexed' = last /\ Bloomed = last /\ Bloomed' = last /\ Watched' = last
  BY <1>1, <1>2 DEF Indexed, Bloomed, Watched, IndInv, ImportInv
<1>4. \A n \in S : n \in Int => n <= Len(last)
  <2>1. Len(last) \in Nat /\ start \in Nat /\ start <= Len(last) /\ nc.startblk \in Nat /\ nc.endblk \in Nat
    BY Facts, StartBlkType DEF NonceCache
  <2> QED BY <2>1
<1> HIDE DEF S
<1>5. nc' \in NonceCache
  BY <1>1, Facts, NumberedFacts, NonceTypes
<1>6. TypeOK'
  BY <1>1, <1>2, <1>5, ReadFacts DEF IndInv, TypeOK, bounds
<1>7. ImportInv' /\ DiskInv'
  BY <1>1, <1>2 DEF IndInv, ImportInv, DiskInv
<1>8. NumbersInv'
  BY <1>1, <1>3, ReadFacts DEF IndInv, NumbersInv, IsEntry
<1>9. IndexInv'
  <2> SUFFICES ASSUME Trusted
               PROVE  /\ \A m \in 1..Len(last) : hashDB[m] = SubSeq(last, 1, m)
                      /\ \A m \in Number : hashes'[m] # NoBlock => m <= Len(last) /\ hashes'[m] = SubSeq(last, 1, m)
    BY <1>1, <1>2, <1>3 DEF IndexInv, Trusted, bounds
  <2>1. /\ \A m \in 1..Len(last) : hashDB[m] = SubSeq(last, 1, m)
        /\ \A m \in Number : hashes[m] # NoBlock => m <= Len(last) /\ hashes[m] = SubSeq(last, 1, m)
    BY <1>3 DEF IndInv, IndexInv
  <2>2. \A m \in Number : m \in Int
    BY BlockChainAssumption DEF Number
  <2>3. \A m \in Number : m \in S => m <= Len(last) /\ hashes'[m] = SubSeq(last, 1, m)
    BY <1>1, <1>3, <1>4, <2>2, ReadFacts, NumberHashFacts
  <2>4. \A m \in Number : m \notin S => hashes'[m] = hashes[m]
    BY <1>1, ReadFacts
  <2> QED BY <2>1, <2>3, <2>4
<1>10. AddressInv' /\ BloomInv'
  BY <1>1, <1>3 DEF IndInv, AddressInv, BloomInv, Trusted, bounds
<1>11. NonceInv'
  <2> SUFFICES ASSUME Trusted, rewinds = 0 PROVE Watches(nc', last, detailsDB)
    BY <1>1, <1>2, <1>3 DEF NonceInv, Trusted, bounds
  <2>1. Numbered(last) = last /\ last \in Block /\ last \in Seq(SUBSET Tx)
    BY <1>3, Facts, NumberedFacts, BlockFacts
  <2>2. CASE imp.reorg
    <3>1. nc' = UpdateCache(nc, last, Len(last), TRUE)
      BY <1>1, <2>1, <2>2, Facts
    <3>2. nc' = Rebuilt(last)
      BY <2>1, <3>1, NonceTypes, Facts
    <3> QED BY <2>1, <3>2, RebuiltWatches
  <2>3. CASE ~imp.reorg
    <3>1. Watches(nc, imp.common, detailsDB)
      BY <1>1, <2>3 DEF IndInv, NonceInv, Watched
    <3>2. nc' = UpdateCache(nc, last, Len(last), FALSE)
      BY <1>1, <2>1, <2>3, Facts
    <3>3. imp.common \in Path(last) /\ PathSound(last)
      <4>1. imp.block # Genesis /\ imp.common \in Path(Parent(imp.block))
        BY <1>1 DEF IndInv, ImportInv
      <4> QED BY <1>3, <4>1, ParentFacts, Facts
    <3> QED BY <2>1, <3>1, <3>2, <3>3, WatchMoves
  <2> QED BY <2>2, <2>3
<1> QED BY <1>6, <1>7, <1>8, <1>9, <1>10, <1>11 DEF IndInv

\* the node stops and opens its database
LEMMA CrashKeeps ==
    ASSUME IndInv, Crash
    PROVE  IndInv'
<1> DEFINE c == [n \in 1..Len(best) |-> IF hashDB[n] = NoBlock THEN {} ELSE Txs(hashDB[n])]
<1>1. /\ UNCHANGED <<blocksDB, detailsDB, hashDB, addrDB, bloomDB, best, imports, rewinds, raced>>
      /\ last' = best /\ addresses' = NoAddresses /\ blooms' = bloomDB /\ nc' = Rebuilt(c)
      /\ hashes' = [n \in Number |-> IF StartBlk(Len(best)) <= n /\ n <= Len(best) THEN hashDB[n] ELSE NoBlock]
      /\ torn' = (torn \/ (imp.best /\ imp.at \in {"nonces", "best"}))
      /\ imp' = Idle /\ crashes < MaxCrashes /\ crashes' = crashes + 1
  BY DEF Crash, disk
<1>2. imp' \in ImpType /\ imp'.at = "idle" /\ imp'.best = FALSE /\ imp'.reorg = FALSE
  BY <1>1, IdleFacts
<1>3. best = last /\ last \in Block /\ last' = last /\ Indexed' = last /\ Bloomed' = last /\ Watched' = last
  BY <1>1, <1>2, Facts DEF Indexed, Bloomed, Watched
<1>4. 1..Len(last) \subseteq Number /\ Len(last) \in Nat /\ Len(Indexed) \in Nat /\ Len(last) <= Len(Indexed)
  BY Facts
<1>5. \A n \in Number : IsEntry(n, hashDB[n])
  BY DEF IndInv, NumbersInv
<1>6. c \in [1..Len(last) -> SUBSET Tx]
  <2>1. \A n \in 1..Len(last) : (IF hashDB[n] = NoBlock THEN {} ELSE Txs(hashDB[n])) \in SUBSET Tx
    BY <1>4, <1>5, EntryTxs
  <2> QED BY <1>3, <2>1
<1>7. \A n \in 1..Len(last) : c[n] = IF hashDB[n] = NoBlock THEN {} ELSE Txs(hashDB[n])
  BY <1>3
<1> HIDE DEF c
<1>8. c \in Seq(SUBSET Tx)
  BY <1>3, <1>6, ChainOf
<1>9. TypeOK'
  <2>1. nc' \in NonceCache
    BY <1>1, <1>8, Facts, NonceTypes
  <2>2. addresses' \in [Tx -> MaybeBlock]
    BY <1>1 DEF NoAddresses, MaybeBlock
  <2>3. hashes' \in [Number -> MaybeBlock]
    <3>1. NoBlock \in MaybeBlock /\ hashDB \in [Number -> MaybeBlock]
      BY Facts DEF MaybeBlock
    <3> QED BY <1>1, <3>1
  <2>4. torn' \in BOOLEAN
    BY <1>1
  <2>5. crashes' \in 0..MaxCrashes
    BY <1>1, BlockChainAssumption DEF IndInv, TypeOK
  <2> QED BY <1>1, <1>2, <1>3, <2>1, <2>2, <2>3, <2>4, <2>5 DEF IndInv, TypeOK
<1>10. ImportInv' /\ DiskInv'
  BY <1>1, <1>2, <1>3 DEF IndInv, ImportInv, DiskInv
<1>11. NumbersInv'
  <2>1. \A n \in Number : hashes'[n] # NoBlock => hashes'[n] = hashDB[n]
    BY <1>1
  <2>2. \A n \in Number : IsEntry(n, hashes'[n])
    BY <1>5, <2>1 DEF IsEntry
  <2>3. \A n \in 1..Len(last) : hashDB[n] # NoBlock
    BY <1>4 DEF IndInv, NumbersInv
  <2> QED BY <1>1, <1>3, <1>5, <2>2, <2>3 DEF NumbersInv, IsEntry
<1>12. Trusted' => Trusted /\ Indexed = last
  BY <1>1 DEF Trusted, Indexed
<1>13. Trusted' => \A n \in 1..Len(last) : hashDB[n] = SubSeq(last, 1, n)
  BY <1>12 DEF IndInv, IndexInv
<1>14. IndexInv'
  <2>1. \A n \in Number : n \in Nat /\ n > 0
    BY BlockChainAssumption DEF Number
  <2>2. ASSUME Trusted', NEW n \in Number, hashes'[n] # NoBlock PROVE n <= Len(last) /\ hashes'[n] = SubSeq(last, 1, n)
    <3>1. n <= Len(last) /\ hashes'[n] = hashDB[n] /\ n \in 1..Len(last)
      BY <1>1, <1>3, <1>4, <2>1, <2>2
    <3> QED BY <1>13, <2>2, <3>1
  <2> QED BY <1>1, <1>2, <1>3, <1>13, <2>2 DEF IndexInv
<1>15. AddressInv' /\ BloomInv'
  BY <1>1, <1>3, <1>12 DEF IndInv, AddressInv, BloomInv
<1>16. NonceInv'
  <2> SUFFICES ASSUME Trusted' PROVE Watches(nc', last, detailsDB)
    BY <1>1, <1>3 DEF NonceInv
  <2>1. \A n \in 1..Len(last) : c[n] = last[n]
    BY <1>3, <1>7, <1>13, PrefixTxs
  <2>2. c = last
    BY <1>3, <1>6, <2>1, ChainOf
  <2> QED BY <1>1, <1>3, <2>2, RebuiltWatches
<1> QED BY <1>9, <1>10, <1>11, <1>14, <1>15, <1>16 DEF IndInv

\* rewind
LEMMA RewindKeeps ==
    ASSUME IndInv, NEW n \in 0..MaxNumber, Rewind(n)
    PROVE  IndInv'
<1> DEFINE cleared == [k \in Number |-> IF n < k /\ k <= Len(last) THEN NoBlock ELSE hashes[k]]
           head    == IF n = 0 THEN Genesis ELSE QueryExtras(cleared, hashDB, n)
<1>1. /\ UNCHANGED <<blocksDB, detailsDB, hashDB, addrDB, bloomDB, nc, imp, imports, crashes, torn, raced>>
      /\ imp.at = "idle" /\ rewinds < MaxRewinds /\ n < Len(last) /\ rewinds' = rewinds + 1
      /\ hashes' = [k \in Number |-> IF k = n THEN head ELSE cleared[k]]
      /\ last' = head /\ best' = head /\ addresses' = NoAddresses
      /\ blooms' = ClearBlockBlooms(blooms, n + 1, Len(last) + 1)
  BY DEF Rewind
<1>2. Indexed = last /\ Bloomed = last /\ Indexed' = head /\ Bloomed' = head
  BY <1>1 DEF Indexed, Bloomed
<1>3. n \in Nat /\ Len(last) \in Nat /\ last \in Block /\ MaxNumber \in Nat
  BY Facts, BlockChainAssumption
<1>4. head \in detailsDB /\ Len(head) = n /\ (Trusted => head = SubSeq(last, 1, n))
  <2>1. CASE n = 0
    <3>1. SubSeq(last, 1, 0) = << >>
      BY SubSeqEmpty
    <3>2. Genesis \in detailsDB /\ Len(Genesis) = 0
      BY PathFacts, Facts DEF IndInv, DiskInv
    <3> QED BY <2>1, <3>1, <3>2 DEF Genesis
  <2>2. CASE n # 0
    <3>1. n \in Number /\ n <= Len(Indexed)
      BY <1>1, <1>2, <1>3, <2>2 DEF Number
    <3>2. cleared[n] = hashes[n]
      BY <1>3, <3>1
    <3>3. head = NumberHash(n)
      BY <2>2, <3>2, NumberHashFacts DEF NumberHash, QueryExtras
    <3> QED BY <1>2, <3>1, <3>3, NumberHashFacts DEF IsEntry
  <2> QED BY <2>1, <2>2
<1>5. \A k \in Number : hashes'[k] = IF k = n THEN head ELSE IF n < k /\ k <= Len(last) THEN NoBlock ELSE hashes[k]
  BY <1>1
<1> HIDE DEF head
<1>6. head \in Block
  BY <1>4, Facts
<1>7. Trusted => head \in Path(last)
  <2>1. n \in 0..Len(last)
    BY <1>1, <1>3
  <2> QED BY <1>4, <2>1 DEF Path
<1>8. TypeOK'
  <2>1. addresses' \in [Tx -> MaybeBlock]
    BY <1>1 DEF NoAddresses, MaybeBlock
  <2>2. hashes' \in [Number -> MaybeBlock]
    <3>1. NoBlock \in MaybeBlock /\ hashes \in [Number -> MaybeBlock] /\ head \in MaybeBlock
      BY <1>6, Facts, BlockFacts DEF MaybeBlock
    <3>2. \A k \in Number : hashes'[k] \in MaybeBlock
      BY <1>5, <3>1
    <3> QED BY <1>1, <3>2
  <2>3. blooms' \in BloomsType
    <3>1. n + 1 \in Nat /\ Len(last) + 1 \in Nat /\ blooms \in BloomsType
      BY <1>3, Facts
    <3> QED BY <1>1, <3>1, ClearFacts
  <2>4. rewinds' \in 0..MaxRewinds
    BY <1>1, BlockChainAssumption DEF IndInv, TypeOK
  <2> QED BY <1>1, <1>6, <2>1, <2>2, <2>3, <2>4 DEF IndInv, TypeOK, BloomsType, Block
<1>9. ImportInv' /\ DiskInv'
  BY <1>1, <1>4 DEF IndInv, ImportInv, DiskInv
<1>10. NumbersInv'
  <2>1. \A k \in Number : IsEntry(k, hashes'[k])
    BY <1>4, <1>5 DEF IndInv, NumbersInv, IsEntry
  <2>2. \A k \in 1..Len(head) : k \in 1..Len(Indexed)
    BY <1>1, <1>2, <1>3, <1>4
  <2> QED BY <1>1, <1>2, <2>1, <2>2 DEF IndInv, NumbersInv, IsEntry
<1>11. Trusted' = Trusted
  BY <1>1 DEF Trusted
<1>12. Trusted => /\ head \in Path(last)
                  /\ \A k \in 1..Len(head) : /\ k \in 1..Len(last) /\ SubSeq(head, 1, k) = SubSeq(last, 1, k)
                                             /\ head[k] = last[k]
  <2> SUFFICES ASSUME Trusted, NEW k \in 1..Len(head)
               PROVE  k \in 1..Len(last) /\ SubSeq(head, 1, k) = SubSeq(last, 1, k) /\ head[k] = last[k]
    BY <1>7
  <2>1. k \in 1..Len(last) /\ k \in 0..Len(head)
    BY <1>1, <1>3, <1>4
  <2> QED BY <1>3, <1>7, <2>1, PathIsPrefix, PathMember
<1>13. IndexInv'
  <2> SUFFICES ASSUME Trusted
               PROVE  /\ \A k \in 1..Len(head) : hashDB[k] = SubSeq(head, 1, k)
                      /\ \A k \in Number : hashes'[k] # NoBlock => k <= Len(head) /\ hashes'[k] = SubSeq(head, 1, k)
    BY <1>1, <1>2, <1>11 DEF IndexInv
  <2>1. /\ \A k \in 1..Len(last) : hashDB[k] = SubSeq(last, 1, k)
        /\ \A k \in Number : hashes[k] # NoBlock => k <= Len(last) /\ hashes[k] = SubSeq(last, 1, k)
    BY <1>2 DEF IndInv, IndexInv
  <2>2. ASSUME NEW k \in Number, hashes'[k] # NoBlock PROVE k <= Len(head) /\ hashes'[k] = SubSeq(head, 1, k)
    <3>1. k \in Nat /\ k > 0
      BY BlockChainAssumption DEF Number
    <3>2. CASE k = n
      <4>1. SubSeq(head, 1, Len(head)) = head
        BY <1>6, BlockFacts, SubSeqFull
      <4> QED BY <1>3, <1>4, <1>5, <3>2, <4>1
    <3>3. CASE k # n
      <4>1. hashes'[k] = hashes[k] /\ ~(n < k /\ k <= Len(last)) /\ k <= Len(last)
        BY <1>5, <2>1, <2>2, <3>3
      <4>2. k \in 1..Len(head)
        BY <1>3, <1>4, <3>1, <3>3, <4>1
      <4> QED BY <1>4, <1>12, <2>1, <2>2, <3>1, <4>1, <4>2
    <3> QED BY <3>2, <3>3
  <2> QED BY <1>12, <2>1, <2>2
<1>14. AddressInv'
  BY <1>1, <1>2, <1>11, <1>12 DEF IndInv, AddressInv
<1>15. BloomInv'
  <2> SUFFICES ASSUME Trusted PROVE Covers(bloomDB, head) /\ Covers(blooms', head)
    BY <1>1, <1>2, <1>11 DEF BloomInv
  <2>1. Covers(bloomDB, head) /\ Covers(blooms, head)
    BY <1>2, <1>3, <1>7, CoversPath DEF IndInv, BloomInv
  <2>2. n + 1 \in Nat /\ Len(last) + 1 \in Nat /\ blooms \in BloomsType /\ Len(head) < n + 1
    BY <1>3, <1>4, Facts
  <2> QED BY <1>1, <1>6, <2>1, <2>2, ClearFacts
<1>16. NonceInv'
  <2>1. rewinds' # 0
    BY <1>1, BlockChainAssumption DEF IndInv, TypeOK
  <2> QED BY <2>1 DEF NonceInv
<1> QED BY <1>8, <1>9, <1>10, <1>13, <1>14, <1>15, <1>16 DEF IndInv

\* the number index that the batch of a best block writes
LEMMA RouteNumbers ==
    ASSUME NEW b \in Block, NEW c \in Path(b), NEW n \in Number
    PROVE  LET route == Route(b, c)
           IN  /\ (\E d \in route : Len(d) = n) <=> n > Len(c) /\ n <= Len(b)
               /\ (\E d \in route : Len(d) = n) => (CHOOSE d \in route : Len(d) = n) = SubSeq(b, 1, n)
<1> DEFINE route == Route(b, c)
<1>1. n \in Nat /\ n > 0 /\ Len(b) \in Nat /\ Len(c) \in Nat
  BY BlockFacts, PathIsPrefix, BlockChainAssumption DEF Number
<1>2. ASSUME n > Len(c), n <= Len(b) PROVE SubSeq(b, 1, n) \in route /\ Len(SubSeq(b, 1, n)) = n
  <2>1. n \in 1..Len(b)
    BY <1>1, <1>2
  <2> QED BY <1>2, <2>1, RouteFacts, PrefixTxs
<1>3. \A d \in route : Len(d) = n => n > Len(c) /\ n <= Len(b) /\ d = SubSeq(b, 1, n)
  BY RouteFacts
<1> HIDE DEF route
<1>4. (\E d \in route : Len(d) = n) => (CHOOSE d \in route : Len(d) = n) = SubSeq(b, 1, n)
  BY <1>3
<1>5. (\E d \in route : Len(d) = n) <=> n > Len(c) /\ n <= Len(b)
  BY <1>2, <1>3
<1> QED BY <1>4, <1>5 DEF route

\* the addresses that the batch of a best block writes
LEMMA RouteAddresses ==
    ASSUME NEW b \in Block, PathSound(b), NEW c \in Path(b), NEW n \in 1..Len(b), NEW t \in b[n]
    PROVE  LET route == Route(b, c)
           IN  /\ (\E d \in route : t \in Txs(d)) <=> n > Len(c)
               /\ n > Len(c) => (CHOOSE d \in route : t \in Txs(d)) = SubSeq(b, 1, n)
<1> DEFINE route == Route(b, c)
           e == SubSeq(b, 1, n)
<1>1. n > Len(c) => e \in route /\ t \in Txs(e)
  <2>1. SUFFICES ASSUME n > Len(c) PROVE e \in route /\ t \in Txs(e)
    OBVIOUS
  <2>2. e \in route /\ Len(e) = n
    BY <2>1, RouteFacts, PrefixTxs
  <2> QED BY <2>2, RouteFacts
<1>2. ASSUME NEW d \in route, t \in Txs(d) PROVE d = e /\ n > Len(c)
  <2>1. Len(d) \in 1..Len(b) /\ Len(d) > Len(c) /\ d = SubSeq(b, 1, Len(d)) /\ Txs(d) = b[Len(d)]
    BY RouteFacts
  <2>2. Key[t] \in GenerateKeys(b[n]) /\ Key[t] \in GenerateKeys(b[Len(d)])
    BY <1>2, <2>1 DEF GenerateKeys
  <2>3. Len(d) = n
    BY <2>1, <2>2 DEF PathSound
  <2> QED BY <2>1, <2>3
<1> HIDE DEF route, e
<1>3. (\E d \in route : t \in Txs(d)) <=> n > Len(c)
  BY <1>1, <1>2
<1>4. n > Len(c) => (CHOOSE d \in route : t \in Txs(d)) = e
  BY <1>1, <1>2
<1> QED BY <1>3, <1>4 DEF route, e

\* the batch of a best block copies the chunks of its branch to disk
LEMMA ChunkCovers ==
    ASSUME NEW mem \in BloomsType, NEW db \in BloomsType, NEW new, NEW b \in Block, NEW c \in Path(b),
           Covers(mem, b), Covers(db, c),
           new = [l \in Level |-> [i \in Item |->
                    IF \E d \in Route(b, c) : InChunk(d, l, i) THEN mem[l][i] ELSE db[l][i]]]
    PROVE  Covers(new, b)
<1> SUFFICES ASSUME NEW n \in 1..Len(b) PROVE b[n] \subseteq new[0][n] /\ b[n] \subseteq new[1][n \div IndexSize]
  BY DEF Covers
<1>1. n \in Nat /\ n <= MaxNumber
  BY BlockFacts, BlockChainAssumption
<1>2. n \in Item /\ n \div IndexSize \in Item /\ 0 \in Level /\ 1 \in Level
  BY <1>1, ItemFacts DEF Level
<1>3. b[n] \subseteq mem[0][n] /\ b[n] \subseteq mem[1][n \div IndexSize]
  BY DEF Covers
<1>4. CASE n > Len(c)
  <2> DEFINE d == SubSeq(b, 1, n)
  <2>1. d \in Route(b, c) /\ Len(d) = n
    BY <1>4, RouteFacts, PrefixTxs
  <2> HIDE DEF d
  <2>2. n \div Fine(0) = n /\ n \div Fine(1) = n \div IndexSize
    BY <1>1 DEF Fine
  <2>3. InChunk(d, 0, n) /\ InChunk(d, 1, n \div IndexSize)
    BY <2>1, <2>2 DEF InChunk
  <2>4. new[0][n] = mem[0][n] /\ new[1][n \div IndexSize] = mem[1][n \div IndexSize]
    BY <1>2, <2>1, <2>3
  <2> QED BY <1>3, <2>4
<1>5. CASE ~(n > Len(c))
  <2>1. c \in Block /\ Len(c) \in Nat /\ n \in 1..Len(c)
    BY <1>1, <1>5, PathIsPrefix, BlockFacts
  <2>2. c[n] = b[n]
    BY <2>1, PathMember
  <2>3. b[n] \subseteq db[0][n] /\ b[n] \subseteq db[1][n \div IndexSize]
    BY <2>1, <2>2 DEF Covers
  <2>4. new[0][n] \in {mem[0][n], db[0][n]} /\ new[1][n \div IndexSize] \in {mem[1][n \div IndexSize], db[1][n \div IndexSize]}
    BY <1>2
  <2> QED BY <1>3, <2>3, <2>4
<1> QED BY <1>4, <1>5

\* the batch: the details and, for the best block, the indexes of its branch
LEMMA WriteExtrasKeeps ==
    ASSUME IndInv, WriteExtras
    PROVE  IndInv'
<1> DEFINE b == imp.block
           c == imp.common
           route == IF imp.best THEN Route(b, c) ELSE {}
<1>1. /\ UNCHANGED <<blocksDB, best, hashes, addresses, blooms, last, nc, bounds>> /\ imp.at = "extras"
      /\ detailsDB' = detailsDB \cup {b}
      /\ hashDB' = [n \in Number |-> IF \E d \in route : Len(d) = n
                                     THEN CHOOSE d \in route : Len(d) = n ELSE hashDB[n]]
      /\ addrDB' = [t \in Tx |-> IF \E d \in route : t \in Txs(d)
                                 THEN CHOOSE d \in route : t \in Txs(d) ELSE addrDB[t]]
      /\ bloomDB' = [l \in Level |-> [i \in Item |->
                       IF \E d \in route : InChunk(d, l, i) THEN blooms[l][i] ELSE bloomDB[l][i]]]
  BY DEF WriteExtras, memory
<1>2. /\ imp' \in ImpType /\ imp'.at = "nonces" /\ imp'.block = b /\ imp'.best = imp.best
      /\ imp'.reorg = imp.reorg /\ imp'.common = c
  BY ImpMoves DEF WriteExtras, IndInv, ImportInv, Stage
<1>3. /\ b \in Block /\ b # Genesis /\ Parent(b) \in detailsDB /\ Sound(b) /\ c \in Path(Parent(b))
      /\ c \in Path(last) /\ b \notin Path(last) /\ (imp.best => Len(last) <= Len(b)) /\ b \in blocksDB
      /\ (imp.best /\ ~imp.reorg => c = last) /\ last \in Block
  BY <1>1, Facts DEF IndInv, ImportInv
<1>4. c \in Path(b) /\ Path(b) \subseteq detailsDB' /\ PathSound(b)
  <2>1. Path(b) = Path(Parent(b)) \cup {b}
    BY <1>3, ParentFacts
  <2>2. Path(Parent(b)) \subseteq detailsDB
    BY <1>3, Facts
  <2>3. PathSound(b)
    BY <1>3, Facts, SoundBranch DEF IndInv
  <2> QED BY <1>1, <1>3, <2>1, <2>2, <2>3
<1>5. /\ Indexed = last /\ Indexed' = IF imp.best THEN b ELSE last
      /\ Bloomed = IF imp.best THEN b ELSE last
      /\ Bloomed' = Indexed' /\ Watched = last /\ Watched' = last /\ Trusted' = Trusted
  BY <1>1, <1>2 DEF Indexed, Bloomed, Watched, Trusted, bounds
<1>6. Len(b) \in Nat /\ Len(c) \in Nat /\ Len(last) \in Nat /\ Len(c) <= Len(last) /\ Len(c) <= Len(b)
      /\ 1..Len(b) \subseteq Number /\ \A n \in Number : n \in Nat /\ n > 0
  BY <1>3, <1>4, Facts, PathIsPrefix, BlockChainAssumption DEF Number
\* the three indexes, for the best block and for another
<1>7. \A n \in Number : hashDB'[n] = IF imp.best /\ n > Len(c) /\ n <= Len(b) THEN SubSeq(b, 1, n) ELSE hashDB[n]
  <2>1. CASE imp.best
    <3>1. route = Route(b, c)
      BY <2>1
    <3> HIDE DEF route, b, c
    <3> TAKE n \in Number
    <3>2. /\ (\E d \in route : Len(d) = n) <=> n > Len(c) /\ n <= Len(b)
          /\ (\E d \in route : Len(d) = n) => (CHOOSE d \in route : Len(d) = n) = SubSeq(b, 1, n)
      BY <1>3, <1>4, <3>1, RouteNumbers
    <3>3. hashDB'[n] = IF \E d \in route : Len(d) = n THEN CHOOSE d \in route : Len(d) = n ELSE hashDB[n]
      BY <1>1
    <3> QED BY <2>1, <3>2, <3>3
  <2>2. CASE ~imp.best
    <3>1. route = {}
      BY <2>2
    <3> HIDE DEF route
    <3> QED BY <1>1, <2>2, <3>1
  <2> QED BY <2>1, <2>2
<1>8. ~imp.best => addrDB' = addrDB /\ bloomDB' = bloomDB
  <2> SUFFICES ASSUME ~imp.best PROVE addrDB' = addrDB /\ bloomDB' = bloomDB
    OBVIOUS
  <2>1. route = {}
    OBVIOUS
  <2> HIDE DEF route
  <2>2. addrDB \in [Tx -> MaybeBlock] /\ bloomDB \in [Level -> [Item -> SUBSET Tx]]
    BY Facts DEF BloomsType
  <2> QED BY <1>1, <2>1, <2>2
<1>9. \A d \in route : d \in Block
  BY <1>3, <1>4, RouteFacts
<1>10. \A n \in 1..Len(c) : SubSeq(last, 1, n) = SubSeq(b, 1, n) /\ last[n] = b[n] /\ n \in 1..Len(last) /\ n \in 1..Len(b)
  <2> TAKE n \in 1..Len(c)
  <2>1. n \in 0..Len(c)
    BY <1>6
  <2>2. SubSeq(c, 1, n) = SubSeq(last, 1, n) /\ SubSeq(c, 1, n) = SubSeq(b, 1, n)
    BY <1>3, <1>4, <2>1, PathIsPrefix
  <2>3. c[n] = last[n] /\ c[n] = b[n]
    BY <1>3, <1>4, PathMember
  <2> QED BY <1>6, <2>2, <2>3
<1>11. TypeOK'
  <2>1. hashDB' \in [Number -> MaybeBlock]
    <3>1. \A n \in Number : imp.best /\ n > Len(c) /\ n <= Len(b) => SubSeq(b, 1, n) \in MaybeBlock
      BY <1>3, <1>6, PrefixFacts, BlockFacts
    <3>2. \A n \in Number : hashDB'[n] \in MaybeBlock
      BY <1>7, <3>1, Facts
    <3> QED BY <1>1, <3>2
  <2>2. addrDB' \in [Tx -> MaybeBlock]
    <3>1. \A d \in route : d \in MaybeBlock
      BY <1>9, BlockFacts
    <3>2. addrDB \in [Tx -> MaybeBlock]
      BY Facts
    <3> HIDE DEF route
    <3>3. \A t \in Tx : (\E d \in route : t \in Txs(d)) => (CHOOSE d \in route : t \in Txs(d)) \in route
      OBVIOUS
    <3> QED BY <1>1, <3>1, <3>2, <3>3
  <2>3. bloomDB' \in BloomsType
    <3> HIDE DEF route
    <3> QED BY <1>1, Facts DEF BloomsType
  <2> QED BY <1>1, <1>2, <1>3, <2>1, <2>2, <2>3 DEF IndInv, TypeOK, bounds, BloomsType, Block
<1>12. ImportInv'
  BY <1>1, <1>2 DEF IndInv, ImportInv
<1>13. DiskInv'
  BY <1>1, <1>3, <1>4 DEF IndInv, DiskInv
<1>14. NumbersInv'
  <2>1. ASSUME NEW n \in Number PROVE IsEntry(n, hashDB[n])' /\ IsEntry(n, hashes[n])'
    <3>1. IsEntry(n, hashes[n]) /\ IsEntry(n, hashDB[n])
      BY DEF IndInv, NumbersInv
    <3>2. n > Len(c) /\ n <= Len(b) => SubSeq(b, 1, n) \in detailsDB' /\ Len(SubSeq(b, 1, n)) = n
      BY <1>3, <1>4, <1>6, PrefixTxs
    <3> QED BY <1>1, <1>7, <3>1, <3>2 DEF IsEntry
  <2>2. ASSUME NEW n \in 1..Len(Indexed') PROVE hashDB'[n] # NoBlock
    <3>1. n \in Number /\ n \in Nat /\ n > 0 /\ Indexed' \in Block /\ n <= Len(Indexed')
      <4>1. Indexed' \in Block
        BY <1>3, <1>5
      <4>2. Len(Indexed') \in Nat /\ 1..Len(Indexed') \subseteq Number
        BY <4>1, Facts
      <4> QED BY <4>1, <4>2
    <3>2. n <= Len(last) => hashDB[n] # NoBlock
      BY <1>5, <1>6, <3>1 DEF IndInv, NumbersInv
    <3>3. CASE imp.best /\ n > Len(c)
      <4>1. n \in 1..Len(b) /\ n <= Len(b)
        BY <1>5, <3>1, <3>3, <1>6
      <4> QED BY <1>3, <1>7, <3>1, <3>3, <4>1, PrefixTxs
    <3>4. CASE ~(imp.best /\ n > Len(c))
      <4>1. n <= Len(last)
        BY <1>5, <1>6, <3>1, <3>4
      <4> QED BY <1>7, <3>1, <3>2, <3>4, <4>1
    <3> QED BY <3>3, <3>4
  <2> QED BY <2>1, <2>2 DEF NumbersInv
<1>15. IndexInv'
  <2> SUFFICES ASSUME Trusted
               PROVE  /\ \A n \in 1..Len(Indexed') : hashDB'[n] = SubSeq(Indexed', 1, n)
                      /\ \A n \in Number : hashes[n] # NoBlock => n <= Len(Indexed') /\ hashes[n] = SubSeq(Indexed', 1, n)
    BY <1>1, <1>2, <1>5 DEF IndexInv
  <2>1. /\ \A n \in 1..Len(last) : hashDB[n] = SubSeq(last, 1, n)
        /\ \A n \in Number : hashes[n] # NoBlock => n <= Len(last) /\ hashes[n] = SubSeq(last, 1, n)
        /\ imp.reorg => \A n \in Number : n > Len(c) => hashes[n] = NoBlock
    BY <1>1, <1>5 DEF IndInv, IndexInv
  <2>2. CASE ~imp.best
    <3>1. \A n \in 1..Len(last) : n \in Number
      BY <1>3, Facts
    <3> QED BY <1>5, <1>7, <2>1, <2>2, <3>1
  <2>3. CASE imp.best
    <3>1. ASSUME NEW n \in 1..Len(b) PROVE hashDB'[n] = SubSeq(b, 1, n)
      <4>1. n \in Number /\ n <= Len(b)
        BY <1>6
      <4>2. CASE n > Len(c)
        BY <1>7, <2>3, <4>1, <4>2
      <4>3. CASE ~(n > Len(c))
        <5>1. n \in 1..Len(c)
          BY <1>6, <4>1, <4>3
        <5> QED BY <1>7, <1>10, <2>1, <4>1, <4>3, <5>1
      <4> QED BY <4>2, <4>3
    <3>2. ASSUME NEW n \in Number, hashes[n] # NoBlock PROVE n <= Len(b) /\ hashes[n] = SubSeq(b, 1, n)
      <4>1. n <= Len(last) /\ hashes[n] = SubSeq(last, 1, n)
        BY <2>1, <3>2
      <4>2. ~(n > Len(c))
        <5>1. CASE imp.reorg
          BY <2>1, <3>2, <5>1
        <5>2. CASE ~imp.reorg
          BY <1>3, <1>6, <2>3, <4>1, <5>2
        <5> QED BY <5>1, <5>2
      <4>3. n \in 1..Len(c)
        BY <1>6, <4>2
      <4> QED BY <1>6, <1>10, <4>1, <4>3
    <3> QED BY <1>5, <2>3, <3>1, <3>2
  <2> QED BY <2>2, <2>3
<1>16. AddressInv'
  <2> SUFFICES ASSUME Trusted, NEW n \in 1..Len(Indexed'), NEW t \in Indexed'[n]
               PROVE  addrDB'[t] = SubSeq(Indexed', 1, n)
    BY <1>5 DEF AddressInv
  <2>1. \A m \in 1..Len(last) : \A u \in last[m] : addrDB[u] = SubSeq(last, 1, m)
    BY <1>5 DEF IndInv, AddressInv
  <2>2. CASE ~imp.best
    BY <1>5, <1>8, <2>1, <2>2
  <2>3. CASE imp.best
    <3>1. Indexed' = b /\ route = Route(b, c) /\ n \in 1..Len(b) /\ t \in b[n] /\ t \in Tx
      BY <1>3, <1>5, <2>3, BlockFacts
    <3> HIDE DEF route, b, c
    <3>2. CASE n > Len(c)
      <4>1. /\ \E d \in route : t \in Txs(d)
            /\ (CHOOSE d \in route : t \in Txs(d)) = SubSeq(b, 1, n)
        BY <1>3, <1>4, <3>1, <3>2, RouteAddresses
      <4>2. addrDB'[t] = CHOOSE d \in route : t \in Txs(d)
        BY <1>1, <3>1, <4>1
      <4> QED BY <3>1, <4>1, <4>2
    <3>3. CASE ~(n > Len(c))
      <4>1. n \in 1..Len(c)
        BY <1>6, <3>1, <3>3
      <4>2. addrDB'[t] = addrDB[t]
        <5>1. ~\E d \in route : t \in Txs(d)
          BY <1>3, <1>4, <3>1, <3>3, RouteAddresses
        <5> QED BY <1>1, <3>1, <5>1
      <4> QED BY <1>10, <2>1, <3>1, <4>1, <4>2
    <3> QED BY <3>2, <3>3
  <2> QED BY <2>2, <2>3
<1>17. BloomInv'
  <2> SUFFICES ASSUME Trusted PROVE Covers(bloomDB', Indexed') /\ Covers(blooms, Indexed')
    BY <1>1, <1>5 DEF BloomInv
  <2>1. Covers(bloomDB, last) /\ Covers(blooms, Indexed')
    BY <1>5 DEF IndInv, BloomInv
  <2>2. CASE ~imp.best
    BY <1>5, <1>8, <2>1, <2>2
  <2>3. CASE imp.best
    <3>1. Indexed' = b /\ route = Route(b, c)
      BY <1>5, <2>3
    <3>2. Covers(bloomDB, c)
      BY <1>3, <2>1, CoversPath
    <3>3. blooms \in BloomsType /\ bloomDB \in BloomsType
      BY Facts
    <3> HIDE DEF route, b, c
    <3>4. Covers(bloomDB', b)
      BY <1>1, <1>3, <1>4, <2>1, <3>1, <3>2, <3>3, ChunkCovers
    <3> QED BY <2>1, <3>1, <3>4
  <2> QED BY <2>2, <2>3
<1>18. NonceInv'
  <2>1. Watches(nc, last, detailsDB) => Watches(nc, last, detailsDB')
    BY <1>1, WatchesMore
  <2> QED BY <1>1, <1>2, <1>5, <2>1 DEF IndInv, NonceInv, bounds
<1> QED BY <1>11, <1>12, <1>13, <1>14, <1>15, <1>16, <1>17, <1>18 DEF IndInv

\* an announced block extends a block whose details are on disk
LEMMA BlocksFacts ==
    ASSUME NEW b \in Blocks
    PROVE  \E q \in detailsDB, x \in Payload : b = Append(q, x) /\ Len(q) < MaxNumber
<1>1. \E q \in Parents, x \in Payload : b = Append(q, x)
  BY DEF Blocks
<1>2. \A q \in Parents : q \in detailsDB /\ Len(q) < MaxNumber
  BY DEF Parents
<1> QED BY <1>1, <1>2

\* the import of a block starts: caches and blooms of a branch that is left are cleared
LEMMA StartImportKeeps ==
    ASSUME IndInv, NEW b \in Blocks, StartImport(b)
    PROVE  IndInv'
<1> DEFINE p == Parent(b)
           c == Common(last, p)
           reorg == IsBest(b) /\ c # last
           kept == IF reorg THEN ClearBlockBlooms(blooms, Len(c) + 1, Len(last) + 1) ELSE blooms
<1>1. /\ UNCHANGED <<blocksDB, detailsDB, hashDB, addrDB, bloomDB, best, last, nc, crashes, rewinds, torn, raced>>
      /\ imp.at = "idle" /\ imports < MaxBlocks /\ imports' = imports + 1 /\ Sound(b) /\ ~IsKnown(b, TRUE)
      /\ blooms' = IF IsBest(b) THEN AddBlooms(kept, Route(b, c)) ELSE kept
      /\ imp' = [at |-> "blocks", block |-> b, best |-> IsBest(b), reorg |-> reorg, common |-> c]
  BY DEF StartImport, disk
<1>2. b \in Block /\ b # Genesis /\ p \in detailsDB /\ p \in Block
  <2>1. PICK q \in detailsDB, x \in Payload : b = Append(q, x) /\ Len(q) < MaxNumber
    BY BlocksFacts
  <2> QED BY <2>1, Facts, ChildFacts
<1>3. last \in Block /\ Len(last) \in Nat /\ best = last /\ last \in detailsDB /\ Path(last) \subseteq detailsDB
  BY Facts
<1>4. c \in Path(last) /\ c \in Path(p) /\ c \in Path(b) /\ c \in Block /\ Len(c) \in Nat /\ Len(c) <= Len(last)
  <2>1. c \in Path(last) /\ c \in Path(p)
    BY <1>2, <1>3, CommonFacts
  <2> QED BY <1>2, <1>3, <2>1, ParentFacts, PathIsPrefix, Facts
<1>5. b \notin Path(last)
  <2> SUFFICES ASSUME b \in Path(last) PROVE FALSE
    OBVIOUS
  <2>1. b \in detailsDB /\ b \in blocksDB /\ Len(b) <= Len(last)
    BY <1>2, <1>3, PathMember DEF IndInv, DiskInv
  <2> QED BY <1>1, <2>1 DEF IsKnown
<1>6. IsBest(b) \in BOOLEAN /\ reorg \in BOOLEAN /\ (IsBest(b) => Len(last) <= Len(b))
  BY <1>2, <1>3, Facts DEF IsBest
<1>7. /\ hashes' \in [Number -> MaybeBlock] /\ addresses' \in [Tx -> MaybeBlock]
      /\ \A n \in Number : hashes'[n] = IF reorg /\ Len(c) + 1 <= n /\ n <= Len(last) THEN NoBlock ELSE hashes[n]
  <2>1. hashes \in [Number -> MaybeBlock] /\ addresses \in [Tx -> MaybeBlock] /\ NoBlock \in MaybeBlock
    BY Facts DEF MaybeBlock
  <2>2. CASE reorg
    <3>1. /\ hashes' = [n \in Number |-> IF Len(c) + 1 <= n /\ n <= Len(last) THEN NoBlock ELSE hashes[n]]
          /\ addresses' = NoAddresses
      BY <2>2 DEF StartImport, ClearCachesDuringChainReversion
    <3> HIDE DEF c, reorg
    <3> QED BY <2>1, <2>2, <3>1 DEF NoAddresses
  <2>3. CASE ~reorg
    <3>1. hashes' = hashes /\ addresses' = addresses
      BY <2>3 DEF StartImport
    <3> HIDE DEF c, reorg
    <3> QED BY <2>1, <2>3, <3>1
  <2> QED BY <2>2, <2>3
<1> HIDE DEF c, p, reorg, kept
<1>8. kept \in BloomsType /\ blooms' \in BloomsType
  <2>1. blooms \in BloomsType /\ Len(c) + 1 \in Nat /\ Len(last) + 1 \in Nat
    BY <1>3, <1>4, Facts
  <2>2. kept \in BloomsType
    BY <2>1, ClearFacts DEF kept
  <2> QED BY <1>1, <1>2, <1>4, <2>2, AddFacts
<1>9. /\ imp' \in ImpType /\ imp'.at = "blocks" /\ imp'.block = b /\ imp'.best = IsBest(b)
      /\ imp'.reorg = reorg /\ imp'.common = c
  BY <1>1, <1>2, <1>4, <1>6 DEF ImpType, Stage
<1>10. Indexed = last /\ Bloomed = last /\ Watched = last /\ Indexed' = last /\ Watched' = last
       /\ Bloomed' = (IF IsBest(b) THEN b ELSE last) /\ Trusted' = Trusted
  BY <1>1, <1>9 DEF Indexed, Bloomed, Watched, Trusted
<1>11. TypeOK'
  <2>1. imports' \in 0..MaxBlocks
    BY <1>1, BlockChainAssumption DEF IndInv, TypeOK
  <2>2. imp'.reorg => imp'.best
    BY <1>9 DEF reorg
  <2> QED BY <1>1, <1>7, <1>8, <2>1, <2>2 DEF IndInv, TypeOK, BloomsType
<1>12. ImportInv'
  <2>1. IsBest(b) /\ ~reorg => c = last
    BY DEF reorg
  <2> QED BY <1>1, <1>2, <1>4, <1>5, <1>6, <1>9, <2>1 DEF ImportInv, p
<1>13. DiskInv'
  BY <1>1 DEF IndInv, DiskInv
<1>14. NumbersInv'
  BY <1>1, <1>7, <1>10 DEF IndInv, NumbersInv, IsEntry
<1>15. IndexInv'
  <2> SUFFICES ASSUME Trusted
               PROVE  /\ \A n \in 1..Len(last) : hashDB[n] = SubSeq(last, 1, n)
                      /\ \A n \in Number : hashes'[n] # NoBlock => n <= Len(last) /\ hashes'[n] = SubSeq(last, 1, n)
                      /\ reorg => \A n \in Number : n > Len(c) => hashes'[n] = NoBlock
    BY <1>1, <1>9, <1>10 DEF IndexInv
  <2>1. /\ \A n \in 1..Len(last) : hashDB[n] = SubSeq(last, 1, n)
        /\ \A n \in Number : hashes[n] # NoBlock => n <= Len(last) /\ hashes[n] = SubSeq(last, 1, n)
    BY <1>10 DEF IndInv, IndexInv
  <2>2. ASSUME reorg, NEW n \in Number, n > Len(c) PROVE hashes'[n] = NoBlock
    <3>1. n \in Nat /\ Len(c) + 1 <= n
      BY <1>4, <2>2, BlockChainAssumption DEF Number
    <3>2. CASE n <= Len(last)
      BY <1>7, <2>2, <3>1, <3>2
    <3>3. CASE ~(n <= Len(last))
      BY <1>7, <2>1, <3>3
    <3> QED BY <3>2, <3>3
  <2>3. \A n \in Number : hashes'[n] # NoBlock => hashes'[n] = hashes[n]
    BY <1>7
  <2> QED BY <2>1, <2>2, <2>3
<1>16. AddressInv'
  BY <1>1, <1>10 DEF IndInv, AddressInv
<1>17. BloomInv'
  <2> SUFFICES ASSUME Trusted PROVE Covers(bloomDB, last) /\ Covers(blooms', IF IsBest(b) THEN b ELSE last)
    BY <1>1, <1>10 DEF BloomInv
  <2>1. Covers(bloomDB, last) /\ Covers(blooms, last)
    BY <1>10 DEF IndInv, BloomInv
  <2>2. Covers(kept, c)
    <3>1. Covers(blooms, c)
      BY <1>3, <1>4, <2>1, CoversPath
    <3>2. blooms \in BloomsType /\ Len(c) + 1 \in Nat /\ Len(last) + 1 \in Nat /\ Len(c) < Len(c) + 1
      BY <1>3, <1>4, Facts
    <3>3. Covers(ClearBlockBlooms(blooms, Len(c) + 1, Len(last) + 1), c)
      BY <1>4, <3>1, <3>2, ClearFacts
    <3> QED BY <3>1, <3>3 DEF kept
  <2>3. CASE IsBest(b)
    BY <1>1, <1>2, <1>4, <1>8, <2>1, <2>2, <2>3, AddFacts
  <2>4. CASE ~IsBest(b)
    <3>1. blooms' = blooms
      BY <1>1, <2>4 DEF kept, reorg
    <3> QED BY <2>1, <2>4, <3>1
  <2> QED BY <2>3, <2>4
<1>18. NonceInv'
  BY <1>1, <1>9, <1>10 DEF IndInv, NonceInv
<1> QED BY <1>11, <1>12, <1>13, <1>14, <1>15, <1>16, <1>17, <1>18 DEF IndInv

\* a new database holds the genesis
LEMMA InitHolds == Init => IndInv
<1> SUFFICES ASSUME Init PROVE IndInv
  OBVIOUS
<1>1. /\ blocksDB = {} /\ detailsDB = {Genesis} /\ hashDB = NoHashes
      /\ addrDB = NoAddresses /\ bloomDB = NoBlooms /\ best = Genesis
      /\ hashes = NoHashes /\ addresses = NoAddresses /\ blooms = NoBlooms
      /\ last = Genesis /\ nc = Rebuilt(Genesis) /\ imp = Idle
      /\ imports = 0 /\ crashes = 0 /\ rewinds = 0 /\ torn = FALSE /\ raced = FALSE
  BY DEF Init, Genesis
<1>2. Idle \in ImpType /\ Idle.at = "idle" /\ Idle.best = FALSE /\ Idle.reorg = FALSE
  BY IdleFacts
<1>3. Genesis \in Block /\ Len(Genesis) = 0
  <2>1. << >> \in Seq(Payload) /\ Len(<< >>) = 0 /\ 0 <= MaxNumber
    BY EmptySeq, BlockChainAssumption
  <2> QED BY <2>1, BlockIsSeq DEF Genesis
<1>4. Path(Genesis) = {Genesis}
  <2>1. ASSUME NEW d \in Path(Genesis) PROVE d = Genesis
    <3>1. d \in Path(Genesis) /\ Genesis \in Path(Genesis) /\ Len(d) \in 0..0
      BY <1>3, PathIsPrefix, PathFacts
    <3> QED BY <1>3, <3>1, PathFacts
  <2> QED BY <1>3, <2>1, PathFacts
<1>5. TypeOK
  <2>1. {hashDB, hashes} \subseteq [Number -> MaybeBlock] /\ {addrDB, addresses} \subseteq [Tx -> MaybeBlock]
    BY <1>1 DEF NoHashes, NoAddresses, MaybeBlock
  <2>2. {bloomDB, blooms} \subseteq [Level -> [Item -> SUBSET Tx]]
    BY <1>1 DEF NoBlooms
  <2>3. nc \in NonceCache
    <3>1. Genesis \in Seq(SUBSET Tx)
      BY EmptySeq DEF Genesis
    <3>2. NoCache \in NonceCache
      BY DEF NoCache, NonceCache
    <3> QED BY <1>1, <3>1, <3>2, NonceTypes
  <2>4. 0 \in 0..MaxBlocks /\ 0 \in 0..MaxCrashes /\ 0 \in 0..MaxRewinds
    BY BlockChainAssumption
  <2> QED BY <1>1, <1>2, <1>3, <2>1, <2>2, <2>3, <2>4 DEF TypeOK, Block
<1>6. Indexed = Genesis /\ Bloomed = Genesis /\ Watched = Genesis
  BY <1>1, <1>2 DEF Indexed, Bloomed, Watched
<1>7. ImportInv /\ DiskInv
  BY <1>1, <1>2, <1>4 DEF ImportInv, DiskInv
<1>8. NumbersInv
  BY <1>1, <1>3, <1>6 DEF NumbersInv, IsEntry, NoHashes
<1>9. IndexInv
  BY <1>1, <1>2, <1>3, <1>6 DEF IndexInv, NoHashes
<1>10. AddressInv /\ BloomInv
  BY <1>1, <1>3, <1>6 DEF AddressInv, BloomInv, Covers
<1>11. NonceInv
  BY <1>1, <1>3, <1>6, RebuiltWatches DEF NonceInv
<1> QED BY <1>5, <1>7, <1>8, <1>9, <1>10, <1>11 DEF IndInv

-----------------------------------------------------------------------------
(* The theorems.                                                           *)

\* The invariant holds in every state, whatever is imported, read, evicted and
\* rewound, and wherever the node stops.
THEOREM ChainInvariance == Spec => []IndInv
<1>1. IndInv /\ [Next]_vars => IndInv'
  <2> SUFFICES ASSUME IndInv, [Next]_vars PROVE IndInv'
    OBVIOUS
  <2>1. ASSUME NEW b \in Blocks, StartImport(b) PROVE IndInv'
    BY <2>1, StartImportKeeps
  <2>2. CASE WriteBlocks \/ WriteExtras \/ ForgetNonces
    BY <2>2, WriteBlocksKeeps, WriteExtrasKeeps, ForgetNoncesKeeps
  <2>3. CASE WriteBest \/ UpdateNonces \/ Crash
    BY <2>3, WriteBestKeeps, UpdateNoncesKeeps, CrashKeeps
  <2>4. ASSUME NEW n \in 0..MaxNumber, Rewind(n) PROVE IndInv'
    BY <2>4, RewindKeeps
  <2>5. CASE (\E t \in Tx : CollectAddress(t) \/ ReadAddress(t)) \/ UNCHANGED vars
    BY <2>5, AddressCacheKeeps
  <2>6. ASSUME NEW l \in Level, NEW c \in Item, CollectBlooms(l, c) PROVE IndInv'
    BY <2>6, CollectBloomsKeeps
  <2>7. ASSUME NEW n \in Number, ReadNumber(n) PROVE IndInv'
    BY <2>7, ReadNumberKeeps
  <2> QED BY <2>1, <2>2, <2>3, <2>4, <2>5, <2>6, <2>7 DEF Next
<1> QED BY <1>1, InitHolds, PTL DEF Spec

\* Every variable of the chain keeps its type, and only a best block changes the
\* branch.
THEOREM ChainTypes == Spec => []TypeOK
<1>1. IndInv => TypeOK
  BY DEF IndInv
<1> QED BY <1>1, ChainInvariance, PTL

\* "best" always names a block whose branch is on disk with its details.
THEOREM DiskStaysClosed == Spec => []DiskClosed
<1>1. ASSUME IndInv PROVE DiskClosed
  <2>1. Path(best) \subseteq detailsDB
    BY <1>1, Facts
  <2> QED BY <1>1, <2>1 DEF DiskClosed, IndInv, DiskInv
<1> QED BY <1>1, ChainInvariance, PTL

\* Between imports numberHash follows the branch of the last block.
THEOREM IndexStaysCanonical == Spec => []CanonicalIndex
<1>1. ASSUME IndInv, Undisturbed, NEW n \in 1..Len(last) PROVE NumberHash(n) = SubSeq(last, 1, n)
  <2>1. Trusted /\ Indexed = last
    BY <1>1 DEF Undisturbed, Trusted, Indexed
  <2>2. n \in Number /\ n <= Len(Indexed)
    BY <1>1, <2>1, Facts
  <2> QED BY <1>1, <2>1, <2>2, NumberHashFacts
<1>2. IndInv => CanonicalIndex
  BY <1>1 DEF CanonicalIndex
<1> QED BY <1>2, ChainInvariance, PTL

\* Between imports a transaction of the branch of the last block is found in its
\* block on that branch.
THEOREM AddressesStayOnDisk == Spec => []AddressOnDisk
<1>1. IndInv /\ Undisturbed => Trusted /\ Indexed = last
  BY DEF Undisturbed, Trusted, Indexed
<1>2. IndInv => AddressOnDisk
  BY <1>1 DEF AddressOnDisk, IndInv, AddressInv
<1> QED BY <1>2, ChainInvariance, PTL

\* Between imports a search by bloom finds the block of every transaction of the
\* branch of the last block.
THEOREM LogsAreFound == Spec => []NoMissedLogs
<1>1. ASSUME IndInv, Undisturbed, NEW n \in 1..Len(last), NEW t \in last[n],
             NEW lo \in 0..n, NEW hi \in n..MaxNumber
      PROVE  n \in WithBlockBloom(t, lo, hi)
  <2>1. Trusted /\ Bloomed = last
    BY <1>1 DEF Undisturbed, Trusted, Bloomed, Indexed
  <2>2. Covers(blooms, last)
    BY <1>1, <2>1 DEF IndInv, BloomInv
  <2>3. t \in blooms[0][n] /\ t \in blooms[1][n \div IndexSize]
    BY <1>1, <2>2 DEF Covers
  <2>4. n \in Number
    BY <1>1, Facts
  <2> QED BY <1>1, <2>3, <2>4, SearchFinds
<1>2. IndInv => NoMissedLogs
  BY <1>1 DEF NoMissedLogs
<1> QED BY <1>2, ChainInvariance, PTL

\* Between imports, if nothing was rewound, the nonce check holds the keys of its
\* window of the branch of the last block, but for those that a block of another
\* branch has too.
THEOREM NoncesFollowBranch == Spec => []NonceWindow
<1>1. IndInv /\ Undisturbed /\ rewinds = 0 => Watches(nc, last, detailsDB)
  BY DEF Undisturbed, Trusted, Watched, IndInv, NonceInv
<1>2. IndInv => NonceWindow
  BY <1>1 DEF NonceWindow, Watches, Window, Elsewhere
<1> QED BY <1>2, ChainInvariance, PTL
=============================================================================

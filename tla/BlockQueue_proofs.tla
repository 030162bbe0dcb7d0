-------------------------- MODULE BlockQueue_proofs --------------------------
(***************************************************************************)
(* What the block queue keeps, for every set of blocks, any number of      *)
(* verifiers, clears and retries.                                          *)
(***************************************************************************)
EXTENDS BlockQueue, Iterations, FiniteSetTheorems, SequenceTheorems

-----------------------------------------------------------------------------
(* Sequences and the sets of their elements.                               *)

\* no element comes twice
Distinct(s) == \A i, j \in DOMAIN s : s[i] = s[j] => i = j

\* The elements of a sequence are finitely many, as many as it is long if none
\* comes twice.
LEMMA SetOf ==
    ASSUME NEW T, NEW s \in Seq(T)
    PROVE  /\ ToSet(s) \subseteq T /\ IsFiniteSet(ToSet(s)) /\ Cardinality(ToSet(s)) \in Nat
           /\ Cardinality(ToSet(s)) <= Len(s) /\ (Distinct(s) => Cardinality(ToSet(s)) = Len(s))
           /\ (s = <<>> <=> ToSet(s) = {})
<1>1. ToSet(s) \subseteq T /\ DOMAIN s = 1..Len(s) /\ Len(s) \in Nat
  BY DEF ToSet
<1>2. IsFiniteSet(1..Len(s)) /\ Cardinality(1..Len(s)) = Len(s)
  BY <1>1, FS_Interval
<1> DEFINE f == [i \in 1..Len(s) |-> s[i]]
<1>3. f \in Surjection(1..Len(s), ToSet(s))
  BY <1>1 DEF Surjection, ToSet
<1>4. IsFiniteSet(ToSet(s)) /\ Cardinality(ToSet(s)) <= Len(s)
  <2> HIDE DEF f
  <2> QED BY <1>2, <1>3, FS_Surjection
<1>5. ASSUME Distinct(s) PROVE Cardinality(ToSet(s)) = Len(s)
  <2>1. f \in Injection(1..Len(s), ToSet(s))
    BY <1>1, <1>5 DEF Injection, IsInjective, Distinct, ToSet
  <2>2. f \in Bijection(1..Len(s), ToSet(s))
    BY <1>3, <2>1 DEF Bijection
  <2> HIDE DEF f
  <2> QED BY <1>2, <2>2, FS_Bijection DEF ExistsBijection
<1>6. s = <<>> <=> ToSet(s) = {}
  <2>1. s = <<>> <=> Len(s) = 0
    OBVIOUS
  <2>2. ToSet(s) = {} <=> 1..Len(s) = {}
    BY <1>1 DEF ToSet
  <2>3. 1..Len(s) = {} <=> Len(s) = 0
    <3>1. Len(s) # 0 => 1 \in 1..Len(s)
      BY <1>1
    <3> QED BY <3>1, <1>1
  <2> QED BY <2>1, <2>2, <2>3
<1> QED BY <1>1, <1>4, <1>5, <1>6, FS_CardinalityType

\* The elements of a sequence are the values at its positions.
LEMMA Elements ==
    ASSUME NEW T, NEW s \in Seq(T)
    PROVE  /\ \A i \in 1..Len(s) : s[i] \in ToSet(s)
           /\ \A x \in ToSet(s) : \E i \in 1..Len(s) : s[i] = x
           /\ \A B : ToSet(s) \subseteq B => s \in Seq(B)
<1>1. DOMAIN s = 1..Len(s) /\ Len(s) \in Nat /\ s = [i \in 1..Len(s) |-> s[i]]
  OBVIOUS
<1>2. \A i \in 1..Len(s) : s[i] \in ToSet(s)
  BY <1>1 DEF ToSet
<1>3. \A x \in ToSet(s) : \E i \in 1..Len(s) : s[i] = x
  BY <1>1 DEF ToSet
<1>4. ASSUME NEW B, ToSet(s) \subseteq B PROVE s \in Seq(B)
  <2>1. s \in [1..Len(s) -> B]
    BY <1>1, <1>2, <1>4
  <2> QED BY <1>1, <2>1
<1> QED BY <1>2, <1>3, <1>4

\* The empty sequence has no elements.
LEMMA SetOfEmpty == ToSet(<<>>) = {} /\ Distinct(<<>>)
BY DEF ToSet, Distinct

\* push_back adds one element.
LEMMA SetOfAppend ==
    ASSUME NEW T, NEW s \in Seq(T), NEW x \in T
    PROVE  /\ Append(s, x) \in Seq(T) /\ ToSet(Append(s, x)) = ToSet(s) \cup {x}
           /\ Distinct(s) /\ x \notin ToSet(s) => Distinct(Append(s, x))
<1>1. Append(s, x) \in Seq(T) /\ DOMAIN Append(s, x) = 1..(Len(s) + 1) /\ DOMAIN s = 1..Len(s) /\ Len(s) \in Nat
  OBVIOUS
<1>2. \A i \in 1..(Len(s) + 1) : Append(s, x)[i] = IF i = Len(s) + 1 THEN x ELSE s[i]
  OBVIOUS
<1>3. ToSet(Append(s, x)) = ToSet(s) \cup {x}
  <2>1. ASSUME NEW y \in ToSet(s) \cup {x} PROVE y \in ToSet(Append(s, x))
    <3>1. CASE y = x
      BY <3>1, <1>1, <1>2 DEF ToSet
    <3>2. CASE y \in ToSet(s)
      <4>1. PICK i \in 1..Len(s) : y = s[i]
        BY <3>2, <1>1 DEF ToSet
      <4>2. i \in 1..(Len(s) + 1) /\ Append(s, x)[i] = y
        BY <4>1, <1>1, <1>2
      <4> QED BY <4>2, <1>1 DEF ToSet
    <3> QED BY <3>1, <3>2
  <2>2. ASSUME NEW y \in ToSet(Append(s, x)) PROVE y \in ToSet(s) \cup {x}
    <3>1. PICK i \in 1..(Len(s) + 1) : y = Append(s, x)[i]
      BY <1>1 DEF ToSet
    <3>2. i = Len(s) + 1 \/ i \in 1..Len(s)
      BY <1>1
    <3> QED BY <3>1, <3>2, <1>1, <1>2 DEF ToSet
  <2> QED BY <2>1, <2>2
<1>4. ASSUME Distinct(s), x \notin ToSet(s) PROVE Distinct(Append(s, x))
  <2> SUFFICES ASSUME NEW i \in 1..(Len(s) + 1), NEW j \in 1..(Len(s) + 1), Append(s, x)[i] = Append(s, x)[j]
               PROVE  i = j
    BY <1>1 DEF Distinct
  <2>1. \A k \in 1..Len(s) : s[k] # x
    BY <1>1, <1>4 DEF ToSet
  <2> QED BY <1>1, <1>2, <1>4, <2>1 DEF Distinct
<1> QED BY <1>1, <1>3, <1>4

\* A sequence behind another has the elements of both.
LEMMA SetOfConcat ==
    ASSUME NEW T, NEW s \in Seq(T), NEW t \in Seq(T)
    PROVE  /\ s \o t \in Seq(T) /\ ToSet(s \o t) = ToSet(s) \cup ToSet(t)
           /\ Distinct(s) /\ Distinct(t) /\ ToSet(s) \cap ToSet(t) = {} => Distinct(s \o t)
<1>1. /\ s \o t \in Seq(T) /\ DOMAIN (s \o t) = 1..(Len(s) + Len(t))
      /\ DOMAIN s = 1..Len(s) /\ DOMAIN t = 1..Len(t) /\ Len(s) \in Nat /\ Len(t) \in Nat
  OBVIOUS
<1>2. \A i \in 1..(Len(s) + Len(t)) : (s \o t)[i] = IF i <= Len(s) THEN s[i] ELSE t[i - Len(s)]
  OBVIOUS
<1>3. ToSet(s \o t) = ToSet(s) \cup ToSet(t)
  <2>1. ASSUME NEW y \in ToSet(s) PROVE y \in ToSet(s \o t)
    <3>1. PICK i \in 1..Len(s) : y = s[i]
      BY <1>1 DEF ToSet
    <3>2. i \in 1..(Len(s) + Len(t)) /\ (s \o t)[i] = y
      BY <3>1, <1>1, <1>2
    <3> QED BY <3>2, <1>1 DEF ToSet
  <2>2. ASSUME NEW y \in ToSet(t) PROVE y \in ToSet(s \o t)
    <3>1. PICK i \in 1..Len(t) : y = t[i]
      BY <1>1 DEF ToSet
    <3>2. Len(s) + i \in 1..(Len(s) + Len(t)) /\ (s \o t)[Len(s) + i] = y
      BY <3>1, <1>1, <1>2
    <3> QED BY <3>2, <1>1 DEF ToSet
  <2>3. ASSUME NEW y \in ToSet(s \o t) PROVE y \in ToSet(s) \cup ToSet(t)
    <3>1. PICK i \in 1..(Len(s) + Len(t)) : y = (s \o t)[i]
      BY <1>1 DEF ToSet
    <3>2. i \in 1..Len(s) \/ i - Len(s) \in 1..Len(t)
      BY <1>1
    <3> QED BY <3>1, <3>2, <1>1, <1>2 DEF ToSet
  <2> QED BY <2>1, <2>2, <2>3
<1>4. ASSUME Distinct(s), Distinct(t), ToSet(s) \cap ToSet(t) = {} PROVE Distinct(s \o t)
  <2> SUFFICES ASSUME NEW i \in 1..(Len(s) + Len(t)), NEW j \in 1..(Len(s) + Len(t)), (s \o t)[i] = (s \o t)[j]
               PROVE  i = j
    BY <1>1 DEF Distinct
  <2>1. \A k \in 1..Len(s), m \in 1..Len(t) : s[k] # t[m]
    BY <1>1, <1>4 DEF ToSet
  <2>2. i \in 1..Len(s) \/ i - Len(s) \in 1..Len(t)
    BY <1>1
  <2>3. j \in 1..Len(s) \/ j - Len(s) \in 1..Len(t)
    BY <1>1
  <2>4. \A k, m \in 1..Len(s) : s[k] = s[m] => k = m
    BY <1>1, <1>4 DEF Distinct
  <2>5. \A k, m \in 1..Len(t) : t[k] = t[m] => k = m
    BY <1>1, <1>4 DEF Distinct
  <2> QED BY <1>1, <1>2, <2>1, <2>2, <2>3, <2>4, <2>5
<1> QED BY <1>1, <1>3, <1>4

\* Taking the first element leaves the others.
LEMMA SetOfTail ==
    ASSUME NEW T, NEW s \in Seq(T), s # <<>>
    PROVE  /\ Head(s) \in T /\ Head(s) \in ToSet(s) /\ Tail(s) \in Seq(T)
           /\ ToSet(s) = ToSet(Tail(s)) \cup {Head(s)} /\ Len(Tail(s)) = Len(s) - 1
           /\ Distinct(s) => Head(s) \notin ToSet(Tail(s)) /\ Distinct(Tail(s))
<1>1. /\ Len(s) \in Nat \ {0} /\ Tail(s) \in Seq(T) /\ Len(Tail(s)) = Len(s) - 1
      /\ DOMAIN s = 1..Len(s) /\ DOMAIN Tail(s) = 1..(Len(s) - 1) /\ Head(s) = s[1]
      /\ \A i \in 1..(Len(s) - 1) : Tail(s)[i] = s[i + 1]
  OBVIOUS
<1>2. ToSet(s) = ToSet(Tail(s)) \cup {Head(s)}
  <2>1. ASSUME NEW y \in ToSet(s) PROVE y \in ToSet(Tail(s)) \cup {Head(s)}
    <3>1. PICK i \in 1..Len(s) : y = s[i]
      BY <1>1 DEF ToSet
    <3>2. CASE i = 1
      BY <3>1, <3>2, <1>1
    <3>3. CASE i # 1
      <4>1. i - 1 \in 1..(Len(s) - 1) /\ Tail(s)[i - 1] = y
        BY <3>1, <3>3, <1>1
      <4> QED BY <4>1, <1>1 DEF ToSet
    <3> QED BY <3>2, <3>3
  <2>2. ASSUME NEW y \in ToSet(Tail(s)) PROVE y \in ToSet(s)
    <3>1. PICK i \in 1..(Len(s) - 1) : y = s[i + 1]
      BY <1>1 DEF ToSet
    <3>2. i + 1 \in 1..Len(s)
      BY <1>1
    <3> QED BY <3>1, <3>2, <1>1 DEF ToSet
  <2>3. Head(s) \in ToSet(s)
    BY <1>1 DEF ToSet
  <2> QED BY <2>1, <2>2, <2>3
<1>3. ASSUME Distinct(s) PROVE Head(s) \notin ToSet(Tail(s)) /\ Distinct(Tail(s))
  <2>1. \A i, j \in 1..Len(s) : s[i] = s[j] => i = j
    BY <1>1, <1>3 DEF Distinct
  <2>2. \A i \in 1..(Len(s) - 1) : i + 1 \in 1..Len(s) /\ i + 1 # 1
    BY <1>1
  <2>3. Head(s) \notin ToSet(Tail(s))
    BY <1>1, <2>1, <2>2 DEF ToSet
  <2>4. Distinct(Tail(s))
    BY <1>1, <2>1, <2>2 DEF Distinct
  <2> QED BY <2>3, <2>4
<1>4. Head(s) \in T /\ Head(s) \in ToSet(s)
  BY <1>1, <1>2
<1> QED BY <1>1, <1>2, <1>3, <1>4

-----------------------------------------------------------------------------
(* The elements of a sequence that are in a set.                           *)

\* Pick is the iteration it is defined as.
LEMMA PickFacts ==
    ASSUME NEW T, NEW s \in Seq(T), NEW S
    PROVE  /\ \A k \in 0..Len(s) : Pick(s, S)[k] \in Seq(T)
           /\ Pick(s, S)[0] = <<>>
           /\ \A k \in 1..Len(s) : Pick(s, S)[k] = Keep(Pick(s, S)[k - 1], s[k], S)
<1> DEFINE n == Len(s)
           Q == Seq(T)
           e == <<>>
           F == [k \in 1..n |-> [x \in Q |-> Keep(x, s[k], S)]]
<1>1. n \in Nat /\ e \in Q
  OBVIOUS
<1>2. \A k \in 1..n, x \in Q : Keep(x, s[k], S) \in Q
  BY DEF Keep
<1> HIDE DEF n, Q, e
<1>3. F \in [1..n -> [Q -> Q]]
  BY <1>2
<1>4. PICK g \in [0..n -> Q] : g[0] = e /\ \A k \in 1..n : g[k] = F[k][g[k - 1]]
  <2> HIDE DEF F
  <2> QED BY <1>1, <1>3, Iteration
<1>5. ASSUME NEW k \in 1..n PROVE g[k] = Keep(g[k - 1], s[k], S)
  <2>1. g[k - 1] \in Q
    BY <1>1, <1>4
  <2> QED BY <2>1, <1>4
<1>6. g = [k \in 0..n |-> IF k = 0 THEN e ELSE Keep(g[k - 1], s[k], S)]
  <2> HIDE DEF F
  <2> QED BY <1>1, <1>4, <1>5
<1> DEFINE p == Pick(s, S)
<1>7. p = [k \in 0..n |-> IF k = 0 THEN e ELSE Keep(p[k - 1], s[k], S)]
  BY <1>6, Zenon DEF Pick, n, e
<1> HIDE DEF p
<1>8. p[0] = e /\ \A k \in 1..n : p[k] = Keep(p[k - 1], s[k], S)
  BY <1>1, <1>7
<1>9. \A k \in 0..n : p[k] \in Q
  BY <1>1, <1>2, <1>8, StaysIn
<1> QED BY <1>8, <1>9 DEF p, n, e, Q

\* Only keeps exactly the elements of S, in their order and as often as they
\* come.
LEMMA OnlyFacts ==
    ASSUME NEW T, NEW s \in Seq(T), NEW S
    PROVE  /\ Only(s, S) \in Seq(T) /\ ToSet(Only(s, S)) = ToSet(s) \cap S
           /\ Distinct(s) => Distinct(Only(s, S))
           /\ ToSet(s) \subseteq S => Only(s, S) = s
<1> DEFINE n == Len(s)
           p == Pick(s, S)
           First(k) == {s[i] : i \in 1..k}
           Fine(k) == /\ ToSet(p[k]) = First(k) \cap S
                      /\ Distinct(s) => Distinct(p[k])
                      /\ ToSet(s) \subseteq S => p[k] = SubSeq(s, 1, k)
           G == {k \in 0..n : Fine(k)}
<1>1. n \in Nat /\ DOMAIN s = 1..n /\ \A k \in 1..n : s[k] \in T /\ s[k] \in ToSet(s)
  BY DEF ToSet
<1>2. /\ \A k \in 0..n : p[k] \in Seq(T)
      /\ p[0] = <<>>
      /\ \A k \in 1..n : p[k] = Keep(p[k - 1], s[k], S)
  BY PickFacts
<1> HIDE DEF p
<1>3. 0 \in G
  <2>1. First(0) = {} /\ SubSeq(s, 1, 0) = <<>>
    OBVIOUS
  <2> QED BY <1>1, <1>2, <2>1, SetOfEmpty
<1>4. ASSUME NEW k \in 1..n, k - 1 \in G PROVE k \in G
  <2>1. k - 1 \in 0..n /\ k \in 0..n /\ p[k - 1] \in Seq(T) /\ s[k] \in T /\ Fine(k - 1)
    <3> HIDE DEF Fine
    <3> QED BY <1>1, <1>2, <1>4
  <2>2. First(k) = First(k - 1) \cup {s[k]}
    <3>1. \A i \in 1..k : i = k \/ i \in 1..(k - 1)
      BY <1>1
    <3>2. \A i \in 1..(k - 1) : i \in 1..k
      BY <1>1
    <3>3. k \in 1..k
      BY <1>1
    <3> QED BY <3>1, <3>2, <3>3
  <2>3. Distinct(s) => s[k] \notin First(k - 1)
    <3>1. \A i \in 1..(k - 1) : i \in 1..n /\ i # k
      BY <1>1
    <3> QED BY <1>1, <3>1 DEF Distinct
  <2>4. SubSeq(s, 1, k) = Append(SubSeq(s, 1, k - 1), s[k])
    BY <1>1
  <2> HIDE DEF First
  <2>5. CASE s[k] \in S
    <3>1. p[k] = Append(p[k - 1], s[k])
      BY <1>2, <2>5 DEF Keep
    <3>2. ToSet(p[k]) = ToSet(p[k - 1]) \cup {s[k]} /\ (Distinct(p[k - 1]) /\ s[k] \notin ToSet(p[k - 1]) => Distinct(p[k]))
      BY <2>1, <3>1, SetOfAppend
    <3>3. Fine(k)
      BY <2>1, <2>2, <2>3, <2>4, <2>5, <3>1, <3>2
    <3> QED BY <2>1, <3>3
  <2>6. CASE s[k] \notin S
    <3>1. p[k] = p[k - 1]
      BY <1>2, <2>6 DEF Keep
    <3>2. ~(ToSet(s) \subseteq S)
      BY <1>1, <2>6
    <3>3. Fine(k)
      BY <2>1, <2>2, <2>6, <3>1, <3>2
    <3> QED BY <2>1, <3>3
  <2> QED BY <2>5, <2>6
<1>5. \A k \in 0..n : k \in G
  <2> HIDE DEF G, n
  <2> QED BY <1>1, <1>3, <1>4, UpTo
<1>6. Fine(n) /\ p[n] \in Seq(T)
  <2> HIDE DEF Fine
  <2> QED BY <1>1, <1>2, <1>5
<1>7. First(n) = ToSet(s) /\ SubSeq(s, 1, n) = s
  BY <1>1 DEF ToSet
<1> QED BY <1>6, <1>7 DEF Only, p

\* Without drops exactly the elements of S.
LEMMA WithoutFacts ==
    ASSUME NEW T, NEW s \in Seq(T), NEW S
    PROVE  /\ Without(s, S) \in Seq(T) /\ ToSet(Without(s, S)) = ToSet(s) \ S
           /\ Distinct(s) => Distinct(Without(s, S))
           /\ ToSet(s) \cap S = {} => Without(s, S) = s
BY OnlyFacts DEF Without

-----------------------------------------------------------------------------
(* The descendants of a block among the unknown ones.                      *)

\* Kids are the blocks of m_unknown under one parent.
LEMMA KidsFacts ==
    ASSUME NEW s \in Seq(Block), NEW p
    PROVE  /\ Kids(p, s) \in Seq(Block) /\ ToSet(Kids(p, s)) = {b \in ToSet(s) : Parent[b] = p}
           /\ Distinct(s) => Distinct(Kids(p, s))
<1>1. ToSet(s) \cap {b \in ToSet(s) : Parent[b] = p} = {b \in ToSet(s) : Parent[b] = p}
  OBVIOUS
<1> QED BY <1>1, OnlyFacts DEF Kids

\* A visit adds blocks of m_unknown to goodQueue.
LEMMA VisitFacts ==
    ASSUME NEW T, Block \subseteq T, NEW s \in Seq(Block), NEW seen \in Seq(T), NEW k \in Nat
    PROVE  Visit(seen, k, s) \in Seq(T)
<1>1. Kids(seen[k], s) \in Seq(T)
  <2>1. Kids(seen[k], s) \in Seq(Block)
    BY KidsFacts
  <2> QED BY <2>1
<1> QED BY <1>1 DEF Visit

\* Bfs is the iteration it is defined as.
LEMMA BfsFacts ==
    ASSUME NEW s \in Seq(Block), NEW p
    PROVE  /\ \A k \in 0..(Len(s) + 1) : Bfs(p, s)[k] \in Seq(Block \cup {p})
           /\ Bfs(p, s)[0] = <<p>>
           /\ \A k \in 1..(Len(s) + 1) : Bfs(p, s)[k] = Visit(Bfs(p, s)[k - 1], k, s)
<1> DEFINE n == Len(s) + 1
           T == Block \cup {p}
           Q == Seq(T)
           e == <<p>>
           F == [k \in 1..n |-> [x \in Q |-> Visit(x, k, s)]]
<1>1. n \in Nat /\ e \in Q
  OBVIOUS
<1>2. ASSUME NEW k \in 1..n, NEW x \in Q PROVE Visit(x, k, s) \in Q
  <2>1. Block \subseteq T /\ k \in Nat
    BY <1>1
  <2> HIDE DEF T
  <2> QED BY <2>1, VisitFacts
<1> HIDE DEF n, Q, e
<1>3. F \in [1..n -> [Q -> Q]]
  BY <1>2
<1>4. PICK g \in [0..n -> Q] : g[0] = e /\ \A k \in 1..n : g[k] = F[k][g[k - 1]]
  <2> HIDE DEF F
  <2> QED BY <1>1, <1>3, Iteration
<1>5. ASSUME NEW k \in 1..n PROVE g[k] = Visit(g[k - 1], k, s)
  <2>1. g[k - 1] \in Q
    BY <1>1, <1>4
  <2> QED BY <2>1, <1>4
<1>6. g = [k \in 0..n |-> IF k = 0 THEN e ELSE Visit(g[k - 1], k, s)]
  <2> HIDE DEF F
  <2> QED BY <1>1, <1>4, <1>5
<1> DEFINE f == Bfs(p, s)
<1>7. f = [k \in 0..n |-> IF k = 0 THEN e ELSE Visit(f[k - 1], k, s)]
  BY <1>6, Zenon DEF Bfs, n, e
<1> HIDE DEF f
<1>8. f[0] = e /\ \A k \in 1..n : f[k] = Visit(f[k - 1], k, s)
  BY <1>1, <1>7
<1>9. \A k \in 0..n : f[k] \in Q
  BY <1>1, <1>2, <1>8, StaysIn
<1> QED BY <1>8, <1>9 DEF f, n, e, Q, T

\* the family of any block is made of blocks of s
LEMMA FamilySubset ==
    ASSUME NEW s \in Seq(Block), NEW p
    PROVE  Family(p, s) \in Seq(Block) /\ ToSet(Family(p, s)) \subseteq ToSet(s)
<1> DEFINE n == Len(s) + 1
           f == Bfs(p, s)
           T == Block \cup {p}
           Fine(k) == Len(f[k]) >= 1 /\ \A i \in 2..Len(f[k]) : f[k][i] \in ToSet(s)
           G == {k \in 0..n : Fine(k)}
<1>1. n \in Nat /\ ToSet(s) \subseteq Block
  BY SetOf
<1>2. /\ \A k \in 0..n : f[k] \in Seq(T)
      /\ f[0] = <<p>>
      /\ \A k \in 1..n : f[k] = Visit(f[k - 1], k, s)
  BY BfsFacts
<1> HIDE DEF f, T
<1>3. 0 \in G
  <2>1. Len(f[0]) = 1
    BY <1>2
  <2>2. Fine(0)
    BY <2>1
  <2> HIDE DEF Fine
  <2> QED BY <1>1, <2>2
<1>4. ASSUME NEW k \in 1..n, k - 1 \in G PROVE k \in G
  <2>1. k - 1 \in 0..n /\ k \in 0..n /\ f[k - 1] \in Seq(T) /\ Fine(k - 1)
    <3> HIDE DEF Fine
    <3> QED BY <1>1, <1>2, <1>4
  <2>2. CASE k <= Len(f[k - 1])
    <3> DEFINE kids == Kids(f[k - 1][k], s)
    <3>1. f[k] = f[k - 1] \o kids
      BY <1>2, <2>2 DEF Visit
    <3>2. kids \in Seq(Block) /\ ToSet(kids) \subseteq ToSet(s)
      BY KidsFacts
    <3> HIDE DEF kids
    <3>3. \A i \in 1..Len(kids) : kids[i] \in ToSet(s)
      BY <3>2, Elements
    <3>4. kids \in Seq(T)
      BY <3>2 DEF T
    <3>5. Len(f[k]) = Len(f[k - 1]) + Len(kids) /\ Len(f[k - 1]) \in Nat /\ Len(kids) \in Nat
      BY <2>1, <3>1, <3>4
    <3>6. ASSUME NEW i \in 2..Len(f[k]) PROVE f[k][i] \in ToSet(s)
      <4>1. CASE i <= Len(f[k - 1])
        <5>1. f[k][i] = f[k - 1][i] /\ i \in 2..Len(f[k - 1])
          BY <4>1, <2>1, <3>1, <3>4, <3>5
        <5> QED BY <5>1, <2>1
      <4>2. CASE i > Len(f[k - 1])
        <5>1. f[k][i] = kids[i - Len(f[k - 1])] /\ i - Len(f[k - 1]) \in 1..Len(kids)
          BY <4>2, <2>1, <3>1, <3>4, <3>5
        <5> QED BY <5>1, <3>3
      <4> QED BY <4>1, <4>2, <3>5
    <3>7. Fine(k)
      BY <2>1, <3>5, <3>6
    <3> HIDE DEF Fine
    <3> QED BY <2>1, <3>7
  <2>3. CASE ~(k <= Len(f[k - 1]))
    <3>1. f[k] = f[k - 1]
      BY <1>2, <2>3 DEF Visit
    <3> QED BY <2>1, <3>1
  <2> QED BY <2>2, <2>3
<1>5. \A k \in 0..n : k \in G
  <2> HIDE DEF G, n
  <2> QED BY <1>1, <1>3, <1>4, UpTo
<1>6. Fine(n) /\ f[n] \in Seq(T)
  <2> HIDE DEF Fine
  <2> QED BY <1>1, <1>2, <1>5
<1> DEFINE t == f[n]
<1>7. t # <<>> /\ Tail(t) \in Seq(T) /\ Len(Tail(t)) = Len(t) - 1 /\ DOMAIN Tail(t) = 1..(Len(t) - 1)
      /\ Len(t) \in Nat /\ \A i \in 1..(Len(t) - 1) : Tail(t)[i] = t[i + 1]
  <2> HIDE DEF t
  <2> QED BY <1>6 DEF t
<1>8. \A i \in 2..Len(t) : t[i] \in ToSet(s)
  BY <1>6
<1> HIDE DEF t
<1>9. \A i \in 1..(Len(t) - 1) : Tail(t)[i] \in ToSet(s)
  BY <1>7, <1>8
<1>10. ToSet(Tail(t)) \subseteq ToSet(s)
  BY <1>7, <1>9 DEF ToSet
<1>11. Tail(t) \in Seq(Block)
  BY <1>1, <1>7, <1>10, Elements
<1> QED BY <1>10, <1>11 DEF Family, t, f, n

\* in the family of a block that is not waiting itself every block comes once and
\* after its parent, and no child is left behind
LEMMA FamilyFacts ==
    ASSUME NEW s \in Seq(Block), Distinct(s), NEW p, p \notin ToSet(s)
    PROVE  /\ Distinct(Family(p, s))
           /\ \A b \in ToSet(s) : Parent[b] \in ToSet(Family(p, s)) \cup {p} => b \in ToSet(Family(p, s))
           /\ \A j \in DOMAIN Family(p, s) : Parent[Family(p, s)[j]] = p
                 \/ \E i \in 1..(j - 1) : Family(p, s)[i] = Parent[Family(p, s)[j]]
<1> DEFINE n == Len(s) + 1
           f == Bfs(p, s)
           T == Block \cup {p}
           Reached(t, k) == \A b \in ToSet(s) : b \in ToSet(t) <=> \E i \in 1..k : i <= Len(t) /\ Parent[b] = t[i]
           Sorted(t) == \A j \in 2..Len(t) : \E i \in 1..(j - 1) : t[i] = Parent[t[j]]
           Fine(k) == Len(f[k]) >= 1 /\ f[k][1] = p /\ Distinct(f[k]) /\ Reached(f[k], k) /\ Sorted(f[k])
           G == {k \in 0..n : Fine(k)}
<1>1. n \in Nat /\ ToSet(s) \subseteq Block
  BY SetOf
<1>2. /\ \A k \in 0..n : f[k] \in Seq(T)
      /\ f[0] = <<p>>
      /\ \A k \in 1..n : f[k] = Visit(f[k - 1], k, s)
  BY BfsFacts
<1> HIDE DEF f, T
<1>3. 0 \in G
  <2>1. Len(f[0]) = 1 /\ f[0][1] = p /\ ToSet(f[0]) = {p} /\ Distinct(f[0])
    BY <1>2 DEF ToSet, Distinct
  <2>2. Reached(f[0], 0) /\ Sorted(f[0])
    BY <2>1
  <2> HIDE DEF Reached, Sorted
  <2> QED BY <1>1, <2>1, <2>2
<1>4. ASSUME NEW k \in 1..n, k - 1 \in G PROVE k \in G
  <2>1. k - 1 \in 0..n /\ k \in 0..n /\ k \in Nat /\ k >= 1 /\ f[k - 1] \in Seq(T) /\ Fine(k - 1)
    <3> HIDE DEF Fine
    <3> QED BY <1>1, <1>2, <1>4
  <2> DEFINE t == f[k - 1]
  <2>2. /\ t \in Seq(T) /\ Len(t) \in Nat /\ Len(t) >= 1 /\ t[1] = p /\ Distinct(t)
        /\ Reached(t, k - 1) /\ Sorted(t)
    <3> HIDE DEF Reached, Sorted
    <3> QED BY <2>1
  <2> HIDE DEF t
  <2>3. CASE k <= Len(t)
    <3> DEFINE kids == Kids(t[k], s)
    <3>1. f[k] = t \o kids
      BY <1>2, <2>3 DEF Visit, t
    <3>2. kids \in Seq(Block) /\ ToSet(kids) = {b \in ToSet(s) : Parent[b] = t[k]} /\ Distinct(kids)
      BY KidsFacts
    <3> HIDE DEF kids
    <3>3. kids \in Seq(T)
      BY <3>2 DEF T
    <3>4. /\ Len(f[k]) = Len(t) + Len(kids) /\ Len(kids) \in Nat
          /\ \A i \in 1..(Len(t) + Len(kids)) : f[k][i] = IF i <= Len(t) THEN t[i] ELSE kids[i - Len(t)]
      BY <2>2, <3>1, <3>3
    <3>5. ToSet(t) \cap ToSet(kids) = {}
      <4> SUFFICES ASSUME NEW b \in ToSet(t), b \in ToSet(kids) PROVE FALSE
        OBVIOUS
      <4>1. b \in ToSet(s) /\ Parent[b] = t[k]
        BY <3>2
      <4>2. PICK i \in 1..(k - 1) : i <= Len(t) /\ Parent[b] = t[i]
        BY <4>1, <2>2
      <4>3. i \in DOMAIN t /\ k \in DOMAIN t
        BY <4>2, <2>1, <2>2, <2>3
      <4>4. i = k
        BY <4>1, <4>2, <4>3, <2>2 DEF Distinct
      <4> QED BY <4>2, <4>4, <2>1
    <3>6. ToSet(f[k]) = ToSet(t) \cup ToSet(kids) /\ Distinct(f[k])
      BY <2>2, <3>1, <3>2, <3>3, <3>5, SetOfConcat
    <3>7. Reached(f[k], k)
      <4> SUFFICES ASSUME NEW b \in ToSet(s)
                   PROVE  b \in ToSet(f[k]) <=> \E i \in 1..k : i <= Len(f[k]) /\ Parent[b] = f[k][i]
        OBVIOUS
      <4>1. \A i \in 1..k : i <= Len(t) /\ i <= Len(f[k]) /\ f[k][i] = t[i]
        BY <2>1, <2>2, <2>3, <3>4
      <4>2. b \in ToSet(t) <=> \E i \in 1..(k - 1) : i <= Len(t) /\ Parent[b] = t[i]
        BY <2>2
      <4>3. b \in ToSet(kids) <=> Parent[b] = t[k]
        BY <3>2
      <4>4. \A i \in 1..k : i = k \/ i \in 1..(k - 1)
        BY <2>1
      <4>5. \A i \in 1..(k - 1) : i \in 1..k
        BY <2>1
      <4>6. k \in 1..k
        BY <2>1
      <4> QED BY <4>1, <4>2, <4>3, <4>4, <4>5, <4>6, <3>6
    <3>8. Sorted(f[k])
      <4> SUFFICES ASSUME NEW j \in 2..Len(f[k]) PROVE \E i \in 1..(j - 1) : f[k][i] = Parent[f[k][j]]
        OBVIOUS
      <4>1. CASE j <= Len(t)
        <5>1. j \in 2..Len(t) /\ f[k][j] = t[j]
          BY <4>1, <2>2, <3>4
        <5>2. PICK i \in 1..(j - 1) : t[i] = Parent[t[j]]
          BY <5>1, <2>2
        <5>3. f[k][i] = t[i]
          BY <5>1, <5>2, <2>2, <3>4
        <5> QED BY <5>1, <5>2, <5>3
      <4>2. CASE j > Len(t)
        <5>1. j - Len(t) \in 1..Len(kids) /\ f[k][j] = kids[j - Len(t)]
          BY <4>2, <2>2, <3>4
        <5>2. kids[j - Len(t)] \in ToSet(kids)
          BY <5>1, <3>2 DEF ToSet
        <5>3. Parent[f[k][j]] = t[k]
          BY <5>1, <5>2, <3>2
        <5>4. Len(t) \in Nat /\ k \in 1..(j - 1) /\ k \in 1..(Len(t) + Len(kids))
          BY <2>1, <2>2, <2>3, <3>4, <4>2
        <5>5. f[k][k] = t[k]
          BY <2>3, <3>4, <5>4
        <5> QED BY <5>3, <5>4, <5>5
      <4> QED BY <4>1, <4>2, <2>2, <3>4
    <3>9. Len(f[k]) >= 1 /\ f[k][1] = p
      BY <2>2, <3>4
    <3>10. Fine(k)
      BY <3>6, <3>7, <3>8, <3>9
    <3> HIDE DEF Fine
    <3> QED BY <2>1, <3>10
  <2>4. CASE ~(k <= Len(t))
    <3>1. f[k] = t
      BY <1>2, <2>4 DEF Visit, t
    <3>2. \A i \in 1..k : i <= Len(t) <=> i <= Len(t) /\ i \in 1..(k - 1)
      BY <2>1, <2>2, <2>4
    <3>3. \A i \in 1..(k - 1) : i \in 1..k
      BY <2>1
    <3>4. Reached(t, k)
      BY <2>2, <3>2, <3>3
    <3>5. Fine(k)
      BY <2>2, <3>1, <3>4
    <3> HIDE DEF Fine
    <3> QED BY <2>1, <3>5
  <2> QED BY <2>3, <2>4
<1>5. \A k \in 0..n : k \in G
  <2> HIDE DEF G, n
  <2> QED BY <1>1, <1>3, <1>4, UpTo
<1> DEFINE t == f[n]
<1>6. t \in Seq(T) /\ Len(t) \in Nat /\ Len(t) >= 1 /\ t[1] = p /\ Distinct(t) /\ Reached(t, n) /\ Sorted(t)
  <2>1. Fine(n) /\ f[n] \in Seq(T)
    <3> HIDE DEF Fine
    <3> QED BY <1>1, <1>2, <1>5
  <2> HIDE DEF Reached, Sorted
  <2> QED BY <2>1
<1> HIDE DEF t
<1> DEFINE u == Tail(t)
<1>7. u = Family(p, s)
  BY DEF Family, t, f, n
<1>8. /\ t # <<>> /\ Head(t) = p
      /\ u \in Seq(T) /\ Len(u) = Len(t) - 1 /\ DOMAIN u = 1..(Len(t) - 1)
      /\ \A i \in 1..(Len(t) - 1) : u[i] = t[i + 1]
  BY <1>6
<1>9. ToSet(t) = ToSet(u) \cup {p} /\ Distinct(u)
  BY <1>6, <1>8, SetOfTail
<1> HIDE DEF u
<1>10. Len(t) <= n
  <2>1. Cardinality(ToSet(t)) = Len(t)
    BY <1>6, SetOf
  <2>2. ToSet(u) \subseteq ToSet(s)
    BY <1>7, FamilySubset
  <2>3. IsFiniteSet(ToSet(s)) /\ Cardinality(ToSet(s)) <= Len(s) /\ Cardinality(ToSet(s)) \in Nat
    BY SetOf
  <2>4. IsFiniteSet(ToSet(s) \cup {p}) /\ Cardinality(ToSet(s) \cup {p}) = Cardinality(ToSet(s)) + 1
    BY <2>3, FS_AddElement
  <2>5. ToSet(t) \subseteq ToSet(s) \cup {p}
    BY <1>9, <2>2
  <2>6. Cardinality(ToSet(t)) <= Cardinality(ToSet(s) \cup {p})
    BY <2>4, <2>5, FS_Subset
  <2> QED BY <2>1, <2>3, <2>4, <2>6
<1>11. ASSUME NEW b \in ToSet(s), Parent[b] \in ToSet(u) \cup {p} PROVE b \in ToSet(u)
  <2>1. PICK i \in 1..Len(t) : t[i] = Parent[b]
    BY <1>6, <1>9, <1>11, Elements
  <2>2. i \in 1..n
    BY <2>1, <1>1, <1>6, <1>10
  <2>3. b \in ToSet(t)
    BY <2>1, <2>2, <1>6
  <2> QED BY <2>3, <1>9
<1>12. ASSUME NEW j \in DOMAIN u PROVE Parent[u[j]] = p \/ \E i \in 1..(j - 1) : u[i] = Parent[u[j]]
  <2>1. j + 1 \in 2..Len(t) /\ u[j] = t[j + 1]
    BY <1>6, <1>8
  <2>2. PICK i \in 1..j : t[i] = Parent[t[j + 1]]
    <3>1. \E i \in 1..((j + 1) - 1) : t[i] = Parent[t[j + 1]]
      BY <2>1, <1>6
    <3>2. (j + 1) - 1 = j
      BY <1>6, <1>8
    <3> QED BY <3>1, <3>2
  <2>3. CASE i = 1
    BY <2>1, <2>2, <2>3, <1>6
  <2>4. CASE i # 1
    <3>1. i - 1 \in 1..(j - 1) /\ i - 1 \in 1..(Len(t) - 1) /\ u[i - 1] = t[i]
      BY <2>1, <2>2, <2>4, <1>6, <1>8
    <3> QED BY <3>1, <2>1, <2>2
  <2> QED BY <2>3, <2>4
<1> QED BY <1>7, <1>9, <1>11, <1>12

\* What removeIf leaves is shorter by what it removes.
LEMMA WithoutLen ==
    ASSUME NEW T, NEW s \in Seq(T), Distinct(s), NEW gone, gone \subseteq ToSet(s)
    PROVE  /\ IsFiniteSet(gone) /\ Cardinality(gone) \in Nat
           /\ Len(Without(s, gone)) = Len(s) - Cardinality(gone)
           /\ Cardinality(ToSet(s) \ gone) = Cardinality(ToSet(s)) - Cardinality(gone)
           /\ gone # {} => Cardinality(gone) >= 1
<1>1. IsFiniteSet(ToSet(s)) /\ Cardinality(ToSet(s)) = Len(s)
  BY SetOf
<1>2. IsFiniteSet(gone) /\ Cardinality(gone) \in Nat
  BY <1>1, FS_Subset, FS_CardinalityType
<1>3. Cardinality(ToSet(s) \ gone) = Cardinality(ToSet(s)) - Cardinality(gone)
  <2>1. ToSet(s) \cap gone = gone
    OBVIOUS
  <2> QED BY <1>1, <1>2, <2>1, FS_Difference
<1>4. Len(Without(s, gone)) = Cardinality(ToSet(s) \ gone)
  <2>1. Without(s, gone) \in Seq(T) /\ ToSet(Without(s, gone)) = ToSet(s) \ gone /\ Distinct(Without(s, gone))
    BY WithoutFacts
  <2> QED BY <2>1, SetOf
<1>5. gone # {} => Cardinality(gone) >= 1
  <2>1. gone # {} => Cardinality(gone) # 0
    BY <1>2, FS_EmptySet
  <2> QED BY <1>2, <2>1
<1> QED BY <1>1, <1>2, <1>3, <1>4, <1>5

\* removeIf returns elements of the queue, and none when none is removed.
LEMMA ReturnedFacts ==
    ASSUME NEW T, NEW s \in Seq(T), NEW gone
    PROVE  /\ Returned(s, gone) \subseteq ToSet(s)
           /\ ToSet(s) \cap gone = {} => Returned(s, gone) = {}
<1> DEFINE m == Len(Without(s, gone)) + 1
<1>1. m \in Nat /\ m >= 1 /\ Len(s) \in Nat /\ DOMAIN s = 1..Len(s)
  <2>1. Without(s, gone) \in Seq(T)
    BY WithoutFacts
  <2> QED BY <2>1
<1>2. ToSet(s) \cap gone = {} => m = Len(s) + 1
  BY WithoutFacts
<1> HIDE DEF m
<1> DEFINE t == SubSeq(s, m, Len(s))
<1>3. t \in Seq(T) /\ Len(t) = (IF m <= Len(s) THEN Len(s) - m + 1 ELSE 0) /\ \A i \in 1..Len(t) : t[i] = s[m + i - 1]
  BY <1>1
<1> HIDE DEF t
<1>4. \A i \in 1..Len(t) : m + i - 1 \in 1..Len(s)
  BY <1>1, <1>3
<1>5. ToSet(t) \subseteq ToSet(s)
  <2> SUFFICES ASSUME NEW x \in ToSet(t) PROVE x \in ToSet(s)
    OBVIOUS
  <2>1. PICK i \in 1..Len(t) : t[i] = x
    BY <1>3, Elements
  <2>2. s[m + i - 1] \in ToSet(s)
    BY <1>4, Elements
  <2> QED BY <2>1, <2>2, <1>3
<1>6. ToSet(s) \cap gone = {} => ToSet(t) = {}
  <2> SUFFICES ASSUME ToSet(s) \cap gone = {} PROVE ToSet(t) = {}
    OBVIOUS
  <2>1. Len(t) = 0
    BY <1>1, <1>2, <1>3
  <2>2. t = <<>>
    BY <1>3, <2>1
  <2> QED BY <2>2, SetOfEmpty
<1> QED BY <1>5, <1>6 DEF Returned, t, m

-----------------------------------------------------------------------------
(* What every state of the queue has in common.                            *)

\* the entries of m_verifying
Entry == [hash : Block, done : BOOLEAN]
\* the blocks being verified
Hashes(s) == {e.hash : e \in ToSet(s.verifying)}
\* the finished entries of m_verifying
Done(s) == {e \in ToSet(s.verifying) : e.done}

\* the blocks on their way
OnWay(s) == ToSet(s.verified) \cup Hashes(s) \cup ToSet(s.unverified)

\* the blocks whose data the queues hold, whose sizes knownSize counts
Held(s) == Cardinality(ToSet(s.verified)) + Cardinality(ToSet(s.unverified)) + Cardinality(Done(s))

\* no block is twice in the queues, or both on its way and waiting for its parent
Apart(s) ==
    /\ Distinct(s.verified) /\ Distinct(s.verifying) /\ Distinct(s.unverified) /\ Distinct(s.unknown)
    /\ \A e, f \in ToSet(s.verifying) : e.hash = f.hash => e = f
    /\ ToSet(s.verified) \cap ToSet(s.unverified) = {}
    /\ ToSet(s.verified) \cap Hashes(s) = {} /\ Hashes(s) \cap ToSet(s.unverified) = {}
    /\ ToSet(s.unknown) \cap OnWay(s) = {}

\* and import knows every block on its way
Sane(s) ==
    /\ s \in Queue /\ Apart(s) /\ Held(s) <= s.knownSize
    /\ OnWay(s) \subseteq s.ready \cup s.bad

\* The types of the parts of a queue.
LEMMA QueueFields ==
    ASSUME NEW s \in Queue
    PROVE  /\ s.verified \in Seq(Block) /\ s.unverified \in Seq(Block) /\ s.unknown \in Seq(Block)
           /\ s.verifying \in Seq(Entry) /\ s.future \in Seq(Block)
           /\ s.ready \subseteq Block /\ s.draining \subseteq Block /\ s.bad \subseteq Block \cup {Uncles}
           /\ s.knownSize \in Nat /\ s.unknownSize \in 0..(Word - 1)
BY DEF Queue, Entry

\* The blocks on their way and the finished ones are finitely many blocks.
LEMMA DoneFacts ==
    ASSUME NEW s \in Queue
    PROVE  /\ Hashes(s) \subseteq Block /\ OnWay(s) \subseteq Block
           /\ IsFiniteSet(Done(s)) /\ Cardinality(Done(s)) \in Nat
           /\ Cardinality(ToSet(s.verified)) \in Nat /\ Cardinality(ToSet(s.unverified)) \in Nat
           /\ Held(s) \in Nat
<1>1. s.verifying \in Seq(Entry) /\ s.verified \in Seq(Block) /\ s.unverified \in Seq(Block)
  BY QueueFields
<1>2. IsFiniteSet(ToSet(s.verifying)) /\ ToSet(s.verifying) \subseteq Entry
  BY <1>1, SetOf
<1>3. Done(s) \subseteq ToSet(s.verifying)
  BY DEF Done
<1>4. IsFiniteSet(Done(s)) /\ Cardinality(Done(s)) \in Nat
  BY <1>2, <1>3, FS_Subset, FS_CardinalityType
<1>5. Hashes(s) \subseteq Block
  BY <1>2 DEF Hashes, Entry
<1>6. /\ Cardinality(ToSet(s.verified)) \in Nat /\ Cardinality(ToSet(s.unverified)) \in Nat
      /\ ToSet(s.verified) \subseteq Block /\ ToSet(s.unverified) \subseteq Block
  BY <1>1, SetOf
<1> QED BY <1>4, <1>5, <1>6 DEF Held, OnWay

\* The size of the unknown blocks stays a size_t, and removing nothing leaves
\* it.
LEMMA RemoveSizeFacts ==
    ASSUME NEW n \in 0..(Word - 1), NEW count \in Nat
    PROVE  RemoveSize(n, count) \in 0..(Word - 1) /\ RemoveSize(n, 0) = n
<1>1. Word \in Nat /\ Word > 0
  BY ConstantsAssumption
<1>2. (n - count) % Word \in 0..(Word - 1)
  BY <1>1
<1>3. n % Word = n
  BY <1>1
<1> QED BY <1>2, <1>3 DEF RemoveSize

-----------------------------------------------------------------------------
(* updateBad.                                                              *)

\* no block of an unknown parent is known to be bad
Unmixed(s) == ToSet(s.unknown) \cap s.bad = {}

\* collectUnknownBad moves the descendants of bad blocks from m_unknown to
\* m_knownBad.
LEMMA CollectFacts ==
    ASSUME NEW s, Sane(s), NEW hashes, NEW t, t = CollectUnknownBad(s, hashes)
    PROVE  /\ Sane(t)
           /\ t.verified = s.verified /\ t.verifying = s.verifying /\ t.unverified = s.unverified
           /\ t.ready = s.ready /\ t.draining = s.draining /\ t.future = s.future
           /\ s.bad \subseteq t.bad /\ t.bad \subseteq s.bad \cup ToSet(s.unknown)
           /\ ToSet(t.unknown) \subseteq ToSet(s.unknown) /\ (Unmixed(s) => Unmixed(t))
           /\ hashes = {} => t = s
<1> DEFINE f == UNION {ToSet(Family(h, s.unknown)) : h \in hashes}
<1>1. s \in Queue /\ s.unknown \in Seq(Block) /\ s.unknownSize \in 0..(Word - 1)
  BY QueueFields DEF Sane
<1>2. f \subseteq ToSet(s.unknown)
  BY <1>1, FamilySubset
<1>3. t = [s EXCEPT !.bad = @ \cup f, !.unknown = Without(@, f), !.unknownSize = RemoveSize(@, Cardinality(f))]
  BY DEF CollectUnknownBad
<1>4. hashes = {} => f = {}
  OBVIOUS
<1> HIDE DEF f
<1>5. IsFiniteSet(f) /\ Cardinality(f) \in Nat /\ ToSet(s.unknown) \subseteq Block
  <2>1. IsFiniteSet(ToSet(s.unknown)) /\ ToSet(s.unknown) \subseteq Block
    BY <1>1, SetOf
  <2> QED BY <1>2, <2>1, FS_Subset, FS_CardinalityType
<1>6. /\ Without(s.unknown, f) \in Seq(Block) /\ ToSet(Without(s.unknown, f)) = ToSet(s.unknown) \ f
      /\ Distinct(s.unknown) => Distinct(Without(s.unknown, f))
      /\ f = {} => Without(s.unknown, f) = s.unknown
  BY <1>1, WithoutFacts
<1>7. RemoveSize(s.unknownSize, Cardinality(f)) \in 0..(Word - 1) /\ RemoveSize(s.unknownSize, 0) = s.unknownSize
  BY <1>1, <1>5, RemoveSizeFacts
<1>8. t \in Queue
  BY <1>1, <1>2, <1>3, <1>5, <1>6, <1>7 DEF Queue
<1>9. /\ t.verified = s.verified /\ t.verifying = s.verifying /\ t.unverified = s.unverified
      /\ t.ready = s.ready /\ t.draining = s.draining /\ t.future = s.future /\ t.knownSize = s.knownSize
      /\ t.bad = s.bad \cup f /\ t.unknown = Without(s.unknown, f)
  BY <1>1, <1>3 DEF Queue
<1>10. OnWay(t) = OnWay(s) /\ Hashes(t) = Hashes(s) /\ Held(t) = Held(s)
  BY <1>9 DEF OnWay, Hashes, Held, Done
<1>11. Apart(t)
  BY <1>6, <1>9, <1>10 DEF Apart, Sane
<1>12. Sane(t)
  BY <1>8, <1>9, <1>10, <1>11 DEF Sane
<1>13. ASSUME hashes = {} PROVE t = s
  <2>1. f = {} /\ Cardinality(f) = 0
    BY <1>13, <1>4, FS_EmptySet
  <2>2. s.bad \cup f = s.bad /\ Without(s.unknown, f) = s.unknown /\ RemoveSize(s.unknownSize, Cardinality(f)) = s.unknownSize
    BY <2>1, <1>6, <1>7
  <2> QED BY <2>2, <1>1, <1>3 DEF Queue
<1>14. Unmixed(s) => Unmixed(t)
  BY <1>6, <1>9 DEF Unmixed
<1> QED BY <1>2, <1>6, <1>9, <1>12, <1>13, <1>14

\* Marking blocks bad touches m_readySet, m_knownBad and m_unknown only.
LEMMA MarkBadFacts ==
    ASSUME NEW s, Sane(s), NEW hashes, hashes \subseteq Block \cup {Uncles}, NEW t, t = MarkBad(s, hashes)
    PROVE  /\ Sane(t)
           /\ t.verified = s.verified /\ t.verifying = s.verifying /\ t.unverified = s.unverified
           /\ t.ready = s.ready \ hashes /\ t.draining = s.draining /\ t.future = s.future
           /\ s.bad \subseteq t.bad /\ hashes \subseteq t.bad /\ t.bad \subseteq s.bad \cup hashes \cup ToSet(s.unknown)
           /\ ToSet(t.unknown) \subseteq ToSet(s.unknown)
           /\ (Unmixed(s) /\ hashes \cap ToSet(s.unknown) = {} => Unmixed(t))
           /\ hashes = {} => t = s
<1> DEFINE u == [s EXCEPT !.bad = @ \cup hashes, !.ready = @ \ hashes]
<1>1. s \in Queue
  BY DEF Sane
<1>2. u \in Queue
  BY <1>1 DEF Queue
<1>3. /\ u.verified = s.verified /\ u.verifying = s.verifying /\ u.unverified = s.unverified /\ u.unknown = s.unknown
      /\ u.ready = s.ready \ hashes /\ u.draining = s.draining /\ u.future = s.future /\ u.knownSize = s.knownSize
      /\ u.bad = s.bad \cup hashes
  BY <1>1 DEF Queue
<1>4. hashes = {} => u = s
  BY <1>1 DEF Queue
<1>5. t = CollectUnknownBad(u, hashes)
  BY DEF MarkBad
<1> HIDE DEF u
<1>6. OnWay(u) = OnWay(s) /\ Hashes(u) = Hashes(s) /\ Held(u) = Held(s)
  BY <1>3 DEF OnWay, Hashes, Held, Done
<1>7. Sane(u)
  BY <1>2, <1>3, <1>6 DEF Sane, Apart
<1>8. /\ Sane(t)
      /\ t.verified = u.verified /\ t.verifying = u.verifying /\ t.unverified = u.unverified
      /\ t.ready = u.ready /\ t.draining = u.draining /\ t.future = u.future
      /\ u.bad \subseteq t.bad /\ t.bad \subseteq u.bad \cup ToSet(u.unknown)
      /\ ToSet(t.unknown) \subseteq ToSet(u.unknown) /\ (Unmixed(u) => Unmixed(t))
      /\ hashes = {} => t = u
  BY <1>5, <1>7, CollectFacts
<1>9. Unmixed(s) /\ hashes \cap ToSet(s.unknown) = {} => Unmixed(u)
  BY <1>3 DEF Unmixed
<1> QED BY <1>3, <1>4, <1>8, <1>9

\* a finished block is not known to be bad: its own hash is not looked at
DoneFine(s) == \A e \in ToSet(s.verifying) : e.done => e.hash \notin s.bad

\* what updateBad may do to a queue
Purged(s, t) ==
    /\ ToSet(t.verified) \subseteq ToSet(s.verified) /\ ToSet(t.verifying) \subseteq ToSet(s.verifying)
    /\ ToSet(t.unverified) \subseteq ToSet(s.unverified) /\ ToSet(t.unknown) \subseteq ToSet(s.unknown)
    /\ t.ready \subseteq s.ready /\ t.draining = s.draining /\ t.future = s.future
    /\ s.bad \subseteq t.bad /\ t.bad \subseteq s.bad \cup OnWay(s) \cup ToSet(s.unknown) \cup {Uncles}
    /\ s.ready \subseteq t.ready \cup t.bad
    /\ DoneFine(s) => DoneFine(t)
    /\ Unmixed(s) => Unmixed(t)

\* Two passes of updateBad do what one may do.
LEMMA PurgedTwice ==
    ASSUME NEW s, NEW t, NEW u, Purged(s, t), Purged(t, u)
    PROVE  Purged(s, u)
<1>1. Hashes(t) \subseteq Hashes(s)
  BY DEF Purged, Hashes
<1>2. OnWay(t) \subseteq OnWay(s)
  BY <1>1 DEF Purged, OnWay
<1> QED BY <1>2 DEF Purged

\* A pass may change nothing.
LEMMA PurgedSame == \A s : Purged(s, s)
BY DEF Purged

\* The part of a pass over m_verified: it keeps the queue sane, and shortens it
\* or changes nothing.
LEMMA PurgeVerifiedFacts ==
    ASSUME NEW s, Sane(s), NEW t, t = PurgeVerified(s)
    PROVE  /\ Sane(t) /\ Purged(s, t)
           /\ Tainted(s.verified, s.bad) = {} => t = s
           /\ KnownCount(t) \in Nat /\ KnownCount(s) \in Nat /\ KnownCount(t) <= KnownCount(s)
           /\ Tainted(s.verified, s.bad) # {} => KnownCount(t) < KnownCount(s)
<1> DEFINE gone == Tainted(s.verified, s.bad)
           out  == Returned(s.verified, gone)
           u == [s EXCEPT !.verified = Without(@, gone), !.knownSize = @ - Cardinality(out \cap gone)]
<1>1. /\ s \in Queue /\ s.verified \in Seq(Block) /\ s.verifying \in Seq(Entry) /\ s.unverified \in Seq(Block)
      /\ s.knownSize \in Nat /\ s.bad \subseteq Block \cup {Uncles} /\ Distinct(s.verified)
  BY QueueFields DEF Sane, Apart
<1>2. gone \subseteq ToSet(s.verified)
  BY DEF Tainted
<1>3. out \subseteq ToSet(s.verified) /\ ToSet(s.verified) \subseteq Block
  BY <1>1, ReturnedFacts, SetOf
<1>4. gone = {} => out = {}
  BY <1>1, ReturnedFacts
<1>5. t = MarkBad(u, out)
  BY DEF PurgeVerified
<1> HIDE DEF gone, out
<1>6. /\ IsFiniteSet(gone) /\ Cardinality(gone) \in Nat
      /\ Len(Without(s.verified, gone)) = Len(s.verified) - Cardinality(gone)
      /\ Cardinality(ToSet(s.verified) \ gone) = Cardinality(ToSet(s.verified)) - Cardinality(gone)
      /\ gone # {} => Cardinality(gone) >= 1
  BY <1>1, <1>2, WithoutLen
<1>7. /\ Without(s.verified, gone) \in Seq(Block) /\ ToSet(Without(s.verified, gone)) = ToSet(s.verified) \ gone
      /\ Distinct(Without(s.verified, gone))
      /\ gone = {} => Without(s.verified, gone) = s.verified
  BY <1>1, WithoutFacts
<1>8. Cardinality(out \cap gone) \in Nat /\ Cardinality(out \cap gone) <= Cardinality(gone)
      /\ (out = {} => Cardinality(out \cap gone) = 0)
  <2>1. out \cap gone \subseteq gone
    OBVIOUS
  <2>2. out = {} => out \cap gone = {}
    OBVIOUS
  <2> QED BY <1>6, <2>1, <2>2, FS_Subset, FS_CardinalityType, FS_EmptySet
<1>9. /\ u.verified = Without(s.verified, gone) /\ u.verifying = s.verifying /\ u.unverified = s.unverified
      /\ u.unknown = s.unknown /\ u.ready = s.ready /\ u.draining = s.draining /\ u.future = s.future
      /\ u.knownSize = s.knownSize - Cardinality(out \cap gone) /\ u.bad = s.bad
  BY <1>1 DEF Queue
<1>10. Held(u) <= u.knownSize /\ Held(u) \in Nat /\ u.knownSize \in Nat
  <2>1. Held(s) <= s.knownSize
    BY DEF Sane
  <2>2. Cardinality(Done(s)) \in Nat /\ Cardinality(ToSet(s.unverified)) \in Nat /\ Cardinality(ToSet(s.verified)) \in Nat
    BY <1>1, DoneFacts
  <2>3. Cardinality(ToSet(u.verified)) \in Nat
    BY <1>7, <1>9, SetOf
  <2>4. Done(u) = Done(s)
    BY <1>9 DEF Done
  <2>5. /\ Cardinality(ToSet(u.verified)) = Cardinality(ToSet(s.verified)) - Cardinality(gone)
        /\ Cardinality(ToSet(u.unverified)) = Cardinality(ToSet(s.unverified))
    BY <1>6, <1>7, <1>9
  <2>6. Held(u) = Held(s) - Cardinality(gone) /\ Held(u) \in Nat /\ Held(s) \in Nat
    <3> HIDE DEF u
    <3> QED BY <1>6, <2>2, <2>3, <2>4, <2>5 DEF Held
  <2>7. u.knownSize = s.knownSize - Cardinality(out \cap gone)
    BY <1>9
  <2> HIDE DEF u
  <2> QED BY <1>1, <1>6, <1>8, <2>1, <2>6, <2>7
<1>11. u \in Queue
  BY <1>1, <1>7, <1>9, <1>10 DEF Queue
<1>12. gone = {} => u = s
  <2> SUFFICES ASSUME gone = {} PROVE u = s
    OBVIOUS
  <2>1. Without(s.verified, gone) = s.verified /\ s.knownSize - Cardinality(out \cap gone) = s.knownSize
    BY <1>1, <1>4, <1>7, <1>8
  <2> QED BY <1>1, <2>1 DEF Queue
<1> HIDE DEF u
<1>13. Hashes(u) = Hashes(s) /\ OnWay(u) \subseteq OnWay(s) /\ ToSet(u.verified) \subseteq ToSet(s.verified)
  BY <1>7, <1>9 DEF OnWay, Hashes
<1>14. Apart(u)
  BY <1>7, <1>9, <1>13 DEF Apart, Sane
<1>15. Sane(u)
  BY <1>9, <1>10, <1>11, <1>13, <1>14 DEF Sane
<1>16. /\ Sane(t)
       /\ t.verified = u.verified /\ t.verifying = u.verifying /\ t.unverified = u.unverified
       /\ t.ready = u.ready \ out /\ t.draining = u.draining /\ t.future = u.future
       /\ u.bad \subseteq t.bad /\ out \subseteq t.bad /\ t.bad \subseteq u.bad \cup out \cup ToSet(u.unknown)
       /\ ToSet(t.unknown) \subseteq ToSet(u.unknown)
       /\ (Unmixed(u) /\ out \cap ToSet(u.unknown) = {} => Unmixed(t))
       /\ out = {} => t = u
  BY <1>3, <1>5, <1>15, MarkBadFacts
<1>17. DoneFine(s) => DoneFine(t)
  <2> SUFFICES ASSUME DoneFine(s), NEW e \in ToSet(t.verifying), e.done PROVE e.hash \notin t.bad
    BY DEF DoneFine
  <2>1. e \in ToSet(s.verifying) /\ e.hash \in Hashes(s) /\ e.hash \notin s.bad
    BY <1>9, <1>16 DEF DoneFine, Hashes
  <2>2. e.hash \notin out /\ e.hash \notin ToSet(s.unknown)
    BY <2>1, <1>3 DEF Sane, Apart, OnWay
  <2> QED BY <2>1, <2>2, <1>9, <1>16
<1>18. Purged(s, t)
  <2>1. Unmixed(s) => Unmixed(t)
    <3>1. out \cap ToSet(u.unknown) = {}
      BY <1>3, <1>9 DEF Sane, Apart, OnWay
    <3> QED BY <3>1, <1>9, <1>16 DEF Unmixed
  <2>2. s.ready \subseteq t.ready \cup t.bad
    BY <1>9, <1>16
  <2> QED BY <1>3, <1>9, <1>13, <1>16, <1>17, <2>1, <2>2 DEF Purged, OnWay
<1>19. KnownCount(s) \in Nat /\ KnownCount(t) = KnownCount(s) - Cardinality(gone) /\ KnownCount(t) \in Nat
  <2>1. t.verified \in Seq(Block) /\ t.verifying \in Seq(Entry) /\ t.unverified \in Seq(Block)
    BY <1>16, QueueFields DEF Sane
  <2> DEFINE a == Len(s.verified)
             b == Len(s.unverified)
             c == Len(s.verifying)
             x == Len(t.verified)
             y == Len(t.unverified)
             z == Len(t.verifying)
             d == Cardinality(gone)
  <2>2. a \in Nat /\ b \in Nat /\ c \in Nat /\ x \in Nat /\ y \in Nat /\ z \in Nat /\ d \in Nat
    BY <1>1, <1>6, <2>1, LenProperties
  <2>3. x = a - d /\ y = b /\ z = c
    BY <1>6, <1>9, <1>16
  <2>4. KnownCount(s) = a + b + c /\ KnownCount(t) = x + y + z
    BY DEF KnownCount
  <2> HIDE DEF a, b, c, x, y, z, d
  <2>5. KnownCount(s) \in Nat /\ KnownCount(t) \in Nat /\ KnownCount(t) = KnownCount(s) - d
    BY <2>2, <2>3, <2>4
  <2> QED BY <2>5 DEF d
<1> QED BY <1>4, <1>6, <1>12, <1>16, <1>18, <1>19 DEF gone

\* The part of a pass over m_unverified, likewise.
LEMMA PurgeUnverifiedFacts ==
    ASSUME NEW s, Sane(s), NEW t, t = PurgeUnverified(s)
    PROVE  /\ Sane(t) /\ Purged(s, t)
           /\ Tainted(s.unverified, s.bad) = {} => t = s
           /\ KnownCount(t) \in Nat /\ KnownCount(s) \in Nat /\ KnownCount(t) <= KnownCount(s)
           /\ Tainted(s.unverified, s.bad) # {} => KnownCount(t) < KnownCount(s)
<1> DEFINE gone == Tainted(s.unverified, s.bad)
           out  == Returned(s.unverified, gone)
           u == [s EXCEPT !.unverified = Without(@, gone), !.knownSize = @ - Cardinality(out \cap gone)]
<1>1. /\ s \in Queue /\ s.unverified \in Seq(Block) /\ s.verifying \in Seq(Entry) /\ s.verified \in Seq(Block)
      /\ s.knownSize \in Nat /\ s.bad \subseteq Block \cup {Uncles} /\ Distinct(s.unverified)
  BY QueueFields DEF Sane, Apart
<1>2. gone \subseteq ToSet(s.unverified)
  BY DEF Tainted
<1>3. out \subseteq ToSet(s.unverified) /\ ToSet(s.unverified) \subseteq Block
  BY <1>1, ReturnedFacts, SetOf
<1>4. gone = {} => out = {}
  BY <1>1, ReturnedFacts
<1>5. t = MarkBad(u, out)
  BY DEF PurgeUnverified
<1> HIDE DEF gone, out
<1>6. /\ IsFiniteSet(gone) /\ Cardinality(gone) \in Nat
      /\ Len(Without(s.unverified, gone)) = Len(s.unverified) - Cardinality(gone)
      /\ Cardinality(ToSet(s.unverified) \ gone) = Cardinality(ToSet(s.unverified)) - Cardinality(gone)
      /\ gone # {} => Cardinality(gone) >= 1
  BY <1>1, <1>2, WithoutLen
<1>7. /\ Without(s.unverified, gone) \in Seq(Block) /\ ToSet(Without(s.unverified, gone)) = ToSet(s.unverified) \ gone
      /\ Distinct(Without(s.unverified, gone))
      /\ gone = {} => Without(s.unverified, gone) = s.unverified
  BY <1>1, WithoutFacts
<1>8. Cardinality(out \cap gone) \in Nat /\ Cardinality(out \cap gone) <= Cardinality(gone)
      /\ (out = {} => Cardinality(out \cap gone) = 0)
  <2>1. out \cap gone \subseteq gone
    OBVIOUS
  <2>2. out = {} => out \cap gone = {}
    OBVIOUS
  <2> QED BY <1>6, <2>1, <2>2, FS_Subset, FS_CardinalityType, FS_EmptySet
<1>9. /\ u.unverified = Without(s.unverified, gone) /\ u.verifying = s.verifying /\ u.verified = s.verified
      /\ u.unknown = s.unknown /\ u.ready = s.ready /\ u.draining = s.draining /\ u.future = s.future
      /\ u.knownSize = s.knownSize - Cardinality(out \cap gone) /\ u.bad = s.bad
  BY <1>1 DEF Queue
<1>10. Held(u) <= u.knownSize /\ Held(u) \in Nat /\ u.knownSize \in Nat
  <2>1. Held(s) <= s.knownSize
    BY DEF Sane
  <2>2. Cardinality(Done(s)) \in Nat /\ Cardinality(ToSet(s.verified)) \in Nat /\ Cardinality(ToSet(s.unverified)) \in Nat
    BY <1>1, DoneFacts
  <2>3. Cardinality(ToSet(u.unverified)) \in Nat
    BY <1>7, <1>9, SetOf
  <2>4. Done(u) = Done(s)
    BY <1>9 DEF Done
  <2>5. /\ Cardinality(ToSet(u.unverified)) = Cardinality(ToSet(s.unverified)) - Cardinality(gone)
        /\ Cardinality(ToSet(u.verified)) = Cardinality(ToSet(s.verified))
    BY <1>6, <1>7, <1>9
  <2>6. Held(u) = Held(s) - Cardinality(gone) /\ Held(u) \in Nat /\ Held(s) \in Nat
    <3> HIDE DEF u
    <3> QED BY <1>6, <2>2, <2>3, <2>4, <2>5 DEF Held
  <2>7. u.knownSize = s.knownSize - Cardinality(out \cap gone)
    BY <1>9
  <2> HIDE DEF u
  <2> QED BY <1>1, <1>6, <1>8, <2>1, <2>6, <2>7
<1>11. u \in Queue
  BY <1>1, <1>7, <1>9, <1>10 DEF Queue
<1>12. gone = {} => u = s
  <2> SUFFICES ASSUME gone = {} PROVE u = s
    OBVIOUS
  <2>1. Without(s.unverified, gone) = s.unverified /\ s.knownSize - Cardinality(out \cap gone) = s.knownSize
    BY <1>1, <1>4, <1>7, <1>8
  <2> QED BY <1>1, <2>1 DEF Queue
<1> HIDE DEF u
<1>13. Hashes(u) = Hashes(s) /\ OnWay(u) \subseteq OnWay(s) /\ ToSet(u.unverified) \subseteq ToSet(s.unverified)
  BY <1>7, <1>9 DEF OnWay, Hashes
<1>14. Apart(u)
  BY <1>7, <1>9, <1>13 DEF Apart, Sane
<1>15. Sane(u)
  BY <1>9, <1>10, <1>11, <1>13, <1>14 DEF Sane
<1>16. /\ Sane(t)
       /\ t.unverified = u.unverified /\ t.verifying = u.verifying /\ t.verified = u.verified
       /\ t.ready = u.ready \ out /\ t.draining = u.draining /\ t.future = u.future
       /\ u.bad \subseteq t.bad /\ out \subseteq t.bad /\ t.bad \subseteq u.bad \cup out \cup ToSet(u.unknown)
       /\ ToSet(t.unknown) \subseteq ToSet(u.unknown)
       /\ (Unmixed(u) /\ out \cap ToSet(u.unknown) = {} => Unmixed(t))
       /\ out = {} => t = u
  BY <1>3, <1>5, <1>15, MarkBadFacts
<1>17. DoneFine(s) => DoneFine(t)
  <2> SUFFICES ASSUME DoneFine(s), NEW e \in ToSet(t.verifying), e.done PROVE e.hash \notin t.bad
    BY DEF DoneFine
  <2>1. e \in ToSet(s.verifying) /\ e.hash \in Hashes(s) /\ e.hash \notin s.bad
    BY <1>9, <1>16 DEF DoneFine, Hashes
  <2>2. e.hash \notin out /\ e.hash \notin ToSet(s.unknown)
    BY <2>1, <1>3 DEF Sane, Apart, OnWay
  <2> QED BY <2>1, <2>2, <1>9, <1>16
<1>18. Purged(s, t)
  <2>1. Unmixed(s) => Unmixed(t)
    <3>1. out \cap ToSet(u.unknown) = {}
      BY <1>3, <1>9 DEF Sane, Apart, OnWay
    <3> QED BY <3>1, <1>9, <1>16 DEF Unmixed
  <2>2. s.ready \subseteq t.ready \cup t.bad
    BY <1>9, <1>16
  <2> QED BY <1>3, <1>9, <1>13, <1>16, <1>17, <2>1, <2>2 DEF Purged, OnWay
<1>19. KnownCount(s) \in Nat /\ KnownCount(t) = KnownCount(s) - Cardinality(gone) /\ KnownCount(t) \in Nat
  <2>1. t.verified \in Seq(Block) /\ t.verifying \in Seq(Entry) /\ t.unverified \in Seq(Block)
    BY <1>16, QueueFields DEF Sane
  <2> DEFINE a == Len(s.verified)
             b == Len(s.unverified)
             c == Len(s.verifying)
             x == Len(t.verified)
             y == Len(t.unverified)
             z == Len(t.verifying)
             d == Cardinality(gone)
  <2>2. a \in Nat /\ b \in Nat /\ c \in Nat /\ x \in Nat /\ y \in Nat /\ z \in Nat /\ d \in Nat
    BY <1>1, <1>6, <2>1, LenProperties
  <2>3. x = a /\ y = b - d /\ z = c
    BY <1>6, <1>9, <1>16
  <2>4. KnownCount(s) = a + b + c /\ KnownCount(t) = x + y + z
    BY DEF KnownCount
  <2> HIDE DEF a, b, c, x, y, z, d
  <2>5. KnownCount(s) \in Nat /\ KnownCount(t) \in Nat /\ KnownCount(t) = KnownCount(s) - d
    BY <2>2, <2>3, <2>4
  <2> QED BY <2>5 DEF d
<1> QED BY <1>4, <1>6, <1>12, <1>16, <1>18, <1>19 DEF gone

\* The part of a pass over m_verifying, likewise.
LEMMA PurgeVerifyingFacts ==
    ASSUME NEW s, Sane(s), NEW t, t = PurgeVerifying(s)
    PROVE  /\ Sane(t) /\ Purged(s, t)
           /\ TaintedEntries(s.verifying, s.bad) = {} => t = s
           /\ KnownCount(t) \in Nat /\ KnownCount(s) \in Nat /\ KnownCount(t) <= KnownCount(s)
           /\ TaintedEntries(s.verifying, s.bad) # {} => KnownCount(t) < KnownCount(s)
<1> DEFINE gone == TaintedEntries(s.verifying, s.bad)
           out  == Returned(s.verifying, gone)
           whole == {e \in out \cap gone : e.done}
           u == [s EXCEPT !.verifying = Without(@, gone), !.knownSize = @ - Cardinality(whole)]
           hashes == {e.hash : e \in whole} \cup {Sha3Uncles(e) : e \in out \ whole}
<1>1. /\ s \in Queue /\ s.verified \in Seq(Block) /\ s.verifying \in Seq(Entry) /\ s.unverified \in Seq(Block)
      /\ s.knownSize \in Nat /\ s.bad \subseteq Block \cup {Uncles} /\ Distinct(s.verifying)
  BY QueueFields DEF Sane, Apart
<1>2. gone \subseteq ToSet(s.verifying)
  BY DEF TaintedEntries
<1>3. out \subseteq ToSet(s.verifying) /\ ToSet(s.verifying) \subseteq Entry
  BY <1>1, ReturnedFacts, SetOf
<1>4. gone = {} => out = {}
  BY <1>1, ReturnedFacts
<1>5. t = MarkBad(u, hashes)
  BY DEF PurgeVerifying
<1> HIDE DEF gone, out
<1>6. /\ IsFiniteSet(gone) /\ Cardinality(gone) \in Nat
      /\ Len(Without(s.verifying, gone)) = Len(s.verifying) - Cardinality(gone)
      /\ gone # {} => Cardinality(gone) >= 1
  BY <1>1, <1>2, WithoutLen
<1>7. /\ Without(s.verifying, gone) \in Seq(Entry) /\ ToSet(Without(s.verifying, gone)) = ToSet(s.verifying) \ gone
      /\ Distinct(Without(s.verifying, gone))
      /\ gone = {} => Without(s.verifying, gone) = s.verifying
  BY <1>1, WithoutFacts
<1>8. /\ whole \subseteq out /\ whole \subseteq gone /\ whole \subseteq Done(s)
      /\ (gone = {} => whole = {} /\ hashes = {})
  BY <1>2, <1>4 DEF Done
<1>9. hashes \subseteq Hashes(s) \cup {Uncles}
  <2>1. \A e \in out : e.hash \in Hashes(s)
    BY <1>3 DEF Hashes
  <2>2. \A e \in out : Sha3Uncles(e) \in Hashes(s) \cup {Uncles}
    BY <2>1 DEF Sha3Uncles
  <2> HIDE DEF whole
  <2> QED BY <2>1, <2>2, <1>8
<1>10. \A e \in ToSet(s.verifying) \ gone : e.done => e.hash \notin hashes
  <2> SUFFICES ASSUME NEW e \in ToSet(s.verifying) \ gone, e.done, e.hash \in hashes PROVE FALSE
    OBVIOUS
  <2>1. e.hash \in Block /\ Uncles \notin Block
    BY <1>3, ConstantsAssumption DEF Entry
  <2>2. \A f \in ToSet(s.verifying) : e.hash = f.hash => e = f
    BY DEF Sane, Apart
  <2>3. CASE \E f \in whole : e.hash = f.hash
    BY <2>2, <2>3, <1>3, <1>8
  <2>4. CASE \E f \in out \ whole : e.hash = Sha3Uncles(f)
    <3>1. PICK f \in out \ whole : e.hash = Sha3Uncles(f)
      BY <2>4
    <3>2. ~f.done /\ e.hash = f.hash
      BY <2>1, <3>1 DEF Sha3Uncles
    <3>3. f \in ToSet(s.verifying)
      BY <3>1, <1>3
    <3> QED BY <2>2, <3>2, <3>3
  <2> HIDE DEF whole
  <2> QED BY <2>3, <2>4
<1> HIDE DEF whole, hashes
<1>11. Cardinality(whole) \in Nat /\ IsFiniteSet(whole) /\ (whole = {} => Cardinality(whole) = 0)
  BY <1>6, <1>8, FS_Subset, FS_CardinalityType, FS_EmptySet
<1>12. /\ u.verified = s.verified /\ u.verifying = Without(s.verifying, gone) /\ u.unverified = s.unverified
       /\ u.unknown = s.unknown /\ u.ready = s.ready /\ u.draining = s.draining /\ u.future = s.future
       /\ u.knownSize = s.knownSize - Cardinality(whole) /\ u.bad = s.bad
  BY <1>1 DEF Queue
<1>13. Held(u) <= u.knownSize /\ u.knownSize \in Nat
  <2>1. Held(s) <= s.knownSize
    BY DEF Sane
  <2>2. /\ Cardinality(Done(s)) \in Nat /\ Cardinality(ToSet(s.unverified)) \in Nat /\ IsFiniteSet(Done(s))
        /\ Cardinality(ToSet(s.verified)) \in Nat
    BY <1>1, DoneFacts
  <2>3. Cardinality(Done(s) \ whole) = Cardinality(Done(s)) - Cardinality(whole)
        /\ IsFiniteSet(Done(s) \ whole) /\ Cardinality(Done(s) \ whole) \in Nat
    <3>1. Done(s) \cap whole = whole
      BY <1>8
    <3>2. Cardinality(Done(s) \ whole) = Cardinality(Done(s)) - Cardinality(Done(s) \cap whole)
      BY <2>2, FS_Difference
    <3>3. IsFiniteSet(Done(s) \ whole)
      BY <2>2, FS_Difference
    <3> QED BY <3>1, <3>2, <3>3, FS_CardinalityType
  <2>4. Done(u) \subseteq Done(s) \ whole
    BY <1>7, <1>8, <1>12 DEF Done
  <2>5. Cardinality(Done(u)) <= Cardinality(Done(s) \ whole) /\ Cardinality(Done(u)) \in Nat
    BY <2>3, <2>4, FS_Subset, FS_CardinalityType
  <2> QED BY <1>1, <1>11, <1>12, <2>1, <2>2, <2>3, <2>5 DEF Held
<1>14. u \in Queue
  BY <1>1, <1>7, <1>12, <1>13 DEF Queue, Entry
<1>15. gone = {} => u = s
  <2> SUFFICES ASSUME gone = {} PROVE u = s
    OBVIOUS
  <2>1. Without(s.verifying, gone) = s.verifying /\ s.knownSize - Cardinality(whole) = s.knownSize
    BY <1>1, <1>7, <1>8, <1>11
  <2> QED BY <1>1, <2>1 DEF Queue
<1> HIDE DEF u
<1>16. ToSet(u.verifying) \subseteq ToSet(s.verifying) /\ Hashes(u) \subseteq Hashes(s)
  BY <1>7, <1>12 DEF Hashes
<1>17. OnWay(u) \subseteq OnWay(s)
  BY <1>12, <1>16 DEF OnWay
<1>18. Apart(u)
  BY <1>7, <1>12, <1>16, <1>17 DEF Apart, Sane
<1>19. Sane(u)
  BY <1>12, <1>13, <1>14, <1>17, <1>18 DEF Sane
<1>20. hashes \subseteq Block \cup {Uncles}
  BY <1>1, <1>9, DoneFacts
<1>21. /\ Sane(t)
       /\ t.verified = u.verified /\ t.verifying = u.verifying /\ t.unverified = u.unverified
       /\ t.ready = u.ready \ hashes /\ t.draining = u.draining /\ t.future = u.future
       /\ u.bad \subseteq t.bad /\ hashes \subseteq t.bad /\ t.bad \subseteq u.bad \cup hashes \cup ToSet(u.unknown)
       /\ ToSet(t.unknown) \subseteq ToSet(u.unknown)
       /\ (Unmixed(u) /\ hashes \cap ToSet(u.unknown) = {} => Unmixed(t))
       /\ hashes = {} => t = u
  BY <1>5, <1>19, <1>20, MarkBadFacts
<1>22. DoneFine(s) => DoneFine(t)
  <2> SUFFICES ASSUME DoneFine(s), NEW e \in ToSet(t.verifying), e.done PROVE e.hash \notin t.bad
    BY DEF DoneFine
  <2>1. e \in ToSet(s.verifying) \ gone /\ e.hash \in Hashes(s) /\ e.hash \notin s.bad
    BY <1>7, <1>12, <1>21 DEF DoneFine, Hashes
  <2>2. e.hash \notin hashes /\ e.hash \notin ToSet(s.unknown)
    BY <2>1, <1>10 DEF Sane, Apart, OnWay
  <2> QED BY <2>1, <2>2, <1>12, <1>21
<1>23. Purged(s, t)
  <2>1. Unmixed(s) => Unmixed(t)
    <3>1. Uncles \notin ToSet(s.unknown)
      BY <1>1, ConstantsAssumption, QueueFields, SetOf
    <3>2. hashes \cap ToSet(u.unknown) = {}
      BY <3>1, <1>9, <1>12 DEF Sane, Apart, OnWay
    <3> QED BY <3>2, <1>12, <1>21 DEF Unmixed
  <2>2. s.ready \subseteq t.ready \cup t.bad
    BY <1>12, <1>21
  <2> QED BY <1>9, <1>12, <1>16, <1>21, <1>22, <2>1, <2>2 DEF Purged, OnWay
<1>24. KnownCount(s) \in Nat /\ KnownCount(t) = KnownCount(s) - Cardinality(gone) /\ KnownCount(t) \in Nat
  <2>1. t.verified \in Seq(Block) /\ t.verifying \in Seq(Entry) /\ t.unverified \in Seq(Block)
    BY <1>21, QueueFields DEF Sane
  <2> DEFINE a == Len(s.verified)
             b == Len(s.unverified)
             c == Len(s.verifying)
             x == Len(t.verified)
             y == Len(t.unverified)
             z == Len(t.verifying)
             d == Cardinality(gone)
  <2>2. a \in Nat /\ b \in Nat /\ c \in Nat /\ x \in Nat /\ y \in Nat /\ z \in Nat /\ d \in Nat
    BY <1>1, <1>6, <2>1, LenProperties
  <2>3. x = a /\ y = b /\ z = c - d
    BY <1>6, <1>12, <1>21
  <2>4. KnownCount(s) = a + b + c /\ KnownCount(t) = x + y + z
    BY DEF KnownCount
  <2> HIDE DEF a, b, c, x, y, z, d
  <2>5. KnownCount(s) \in Nat /\ KnownCount(t) \in Nat /\ KnownCount(t) = KnownCount(s) - d
    BY <2>2, <2>3, <2>4
  <2> QED BY <2>5 DEF d
<1> QED BY <1>6, <1>8, <1>15, <1>21, <1>23, <1>24 DEF gone

\* a pass of updateBad finds nothing
Clean(s) ==
    /\ Tainted(s.verified, s.bad) = {} /\ Tainted(s.unverified, s.bad) = {}
    /\ TaintedEntries(s.verifying, s.bad) = {}

\* A pass of updateBad shortens the queues, or changes nothing and leaves no
\* bad block behind.
LEMMA PurgeFacts ==
    ASSUME NEW s, Sane(s), NEW t, t = Purge(s)
    PROVE  /\ Sane(t) /\ Purged(s, t)
           /\ Clean(s) => t = s
           /\ KnownCount(t) \in Nat /\ KnownCount(s) \in Nat /\ KnownCount(t) <= KnownCount(s)
           /\ ~Clean(s) => KnownCount(t) < KnownCount(s)
<1> DEFINE a == PurgeVerified(s)
           b == PurgeUnverified(a)
<1>1. t = PurgeVerifying(b)
  BY DEF Purge
<1>2. /\ Sane(a) /\ Purged(s, a)
      /\ Tainted(s.verified, s.bad) = {} => a = s
      /\ KnownCount(a) \in Nat /\ KnownCount(s) \in Nat /\ KnownCount(a) <= KnownCount(s)
      /\ Tainted(s.verified, s.bad) # {} => KnownCount(a) < KnownCount(s)
  BY PurgeVerifiedFacts
<1>3. /\ Sane(b) /\ Purged(a, b)
      /\ Tainted(a.unverified, a.bad) = {} => b = a
      /\ KnownCount(b) \in Nat /\ KnownCount(b) <= KnownCount(a)
      /\ Tainted(a.unverified, a.bad) # {} => KnownCount(b) < KnownCount(a)
  BY <1>2, PurgeUnverifiedFacts
<1>4. /\ Sane(t) /\ Purged(b, t)
      /\ TaintedEntries(b.verifying, b.bad) = {} => t = b
      /\ KnownCount(t) \in Nat /\ KnownCount(t) <= KnownCount(b)
      /\ TaintedEntries(b.verifying, b.bad) # {} => KnownCount(t) < KnownCount(b)
  BY <1>1, <1>3, PurgeVerifyingFacts
<1>5. Purged(s, t)
  BY <1>2, <1>3, <1>4, PurgedTwice
<1> HIDE DEF a, b
<1>6. Clean(s) => t = s
  BY <1>2, <1>3, <1>4 DEF Clean
<1>7. ASSUME ~Clean(s) PROVE KnownCount(t) < KnownCount(s)
  <2>1. CASE Tainted(s.verified, s.bad) # {}
    BY <2>1, <1>2, <1>3, <1>4
  <2>2. CASE Tainted(s.verified, s.bad) = {} /\ Tainted(s.unverified, s.bad) # {}
    <3>1. a = s
      BY <2>2, <1>2
    <3> QED BY <2>2, <3>1, <1>2, <1>3, <1>4
  <2>3. CASE Tainted(s.verified, s.bad) = {} /\ Tainted(s.unverified, s.bad) = {}
    <3>1. a = s
      BY <2>3, <1>2
    <3>2. b = s
      BY <2>3, <3>1, <1>3
    <3>3. TaintedEntries(s.verifying, s.bad) # {}
      BY <2>3, <1>7 DEF Clean
    <3> QED BY <3>2, <3>3, <1>2, <1>4
  <2> QED BY <2>1, <2>2, <2>3
<1> QED BY <1>2, <1>3, <1>4, <1>5, <1>6, <1>7

\* Passes is the iteration it is defined as, through sane queues.
LEMMA PassesFacts ==
    ASSUME NEW s, Sane(s), NEW h
    PROVE  /\ KnownCount(s) \in Nat
           /\ \A k \in 0..KnownCount(s) : Sane(Passes(s, h)[k])
           /\ Passes(s, h)[0] = CollectUnknownBad(s, {h})
           /\ \A k \in 1..KnownCount(s) : Passes(s, h)[k] = Purge(Passes(s, h)[k - 1])
<1> DEFINE n == KnownCount(s)
           Q == {x \in Queue : Sane(x)}
           e == CollectUnknownBad(s, {h})
           F == [k \in 1..n |-> [x \in Q |-> Purge(x)]]
<1>1. n \in Nat /\ e \in Q
  <2>1. Sane(e)
    BY CollectFacts
  <2> QED BY <2>1, PurgeFacts DEF Sane
<1>2. \A k \in 1..n, x \in Q : Purge(x) \in Q
  BY PurgeFacts DEF Sane
<1> HIDE DEF n, Q, e
<1>3. F \in [1..n -> [Q -> Q]]
  BY <1>2
<1>4. PICK g \in [0..n -> Q] : g[0] = e /\ \A k \in 1..n : g[k] = F[k][g[k - 1]]
  <2> HIDE DEF F
  <2> QED BY <1>1, <1>3, Iteration
<1>5. ASSUME NEW k \in 1..n PROVE g[k] = Purge(g[k - 1])
  <2>1. g[k - 1] \in Q
    BY <1>1, <1>4
  <2> QED BY <2>1, <1>4
<1>6. g = [k \in 0..n |-> IF k = 0 THEN e ELSE Purge(g[k - 1])]
  <2> HIDE DEF F
  <2> QED BY <1>1, <1>4, <1>5
<1> DEFINE f == Passes(s, h)
<1>7. f = [k \in 0..n |-> IF k = 0 THEN e ELSE Purge(f[k - 1])]
  BY <1>6, Zenon DEF Passes, n, e
<1> HIDE DEF f
<1>8. f[0] = e /\ \A k \in 1..n : f[k] = Purge(f[k - 1])
  BY <1>1, <1>7
<1>9. \A k \in 0..n : f[k] \in Q
  BY <1>1, <1>2, <1>8, StaysIn
<1>10. \A x \in Q : Sane(x)
  BY DEF Q
<1>11. \A k \in 0..n : Sane(f[k])
  BY <1>9, <1>10
<1> QED BY <1>1, <1>8, <1>11 DEF f, n, e

\* updateBad ends with nothing that is or descends from a bad block in its queues
LEMMA UpdateBadFacts ==
    ASSUME NEW s, Sane(s), NEW h, NEW t, t = UpdateBad(s, h)
    PROVE  Sane(t) /\ Purged(s, t) /\ Clean(t)
<1> DEFINE n == KnownCount(s)
           f == Passes(s, h)
           Fine(k) == Purged(s, f[k]) /\ (Clean(f[k]) \/ KnownCount(f[k]) + k <= n)
           G == {k \in 0..n : Fine(k)}
<1>1. n \in Nat /\ (\A k \in 0..n : Sane(f[k])) /\ f[0] = CollectUnknownBad(s, {h})
      /\ \A k \in 1..n : f[k] = Purge(f[k - 1])
  BY PassesFacts
<1> HIDE DEF f
<1>2. 0 \in G
  <2>1. /\ f[0].verified = s.verified /\ f[0].verifying = s.verifying /\ f[0].unverified = s.unverified
        /\ f[0].ready = s.ready /\ f[0].draining = s.draining /\ f[0].future = s.future
        /\ s.bad \subseteq f[0].bad /\ f[0].bad \subseteq s.bad \cup ToSet(s.unknown)
        /\ ToSet(f[0].unknown) \subseteq ToSet(s.unknown) /\ (Unmixed(s) => Unmixed(f[0]))
    <3> DEFINE hs == {h}
               c == f[0]
    <3>1. c = CollectUnknownBad(s, hs)
      BY <1>1
    <3> HIDE DEF hs, c
    <3>2. /\ c.verified = s.verified /\ c.verifying = s.verifying /\ c.unverified = s.unverified
          /\ c.ready = s.ready /\ c.draining = s.draining /\ c.future = s.future
          /\ s.bad \subseteq c.bad /\ c.bad \subseteq s.bad \cup ToSet(s.unknown)
          /\ ToSet(c.unknown) \subseteq ToSet(s.unknown) /\ (Unmixed(s) => Unmixed(c))
      BY <3>1, CollectFacts
    <3> QED BY <3>2 DEF c
  <2>2. DoneFine(s) => DoneFine(f[0])
    <3> SUFFICES ASSUME DoneFine(s), NEW e \in ToSet(s.verifying), e.done PROVE e.hash \notin f[0].bad
      BY <2>1 DEF DoneFine
    <3>1. e.hash \in OnWay(s)
      BY DEF OnWay, Hashes
    <3> QED BY <2>1, <3>1 DEF DoneFine, Sane, Apart
  <2>3. Purged(s, f[0])
    BY <2>1, <2>2 DEF Purged
  <2>4. KnownCount(f[0]) = n
    BY <2>1 DEF KnownCount
  <2>5. Fine(0)
    BY <1>1, <2>3, <2>4
  <2> HIDE DEF Fine
  <2> QED BY <1>1, <2>5
<1>3. ASSUME NEW k \in 1..n, k - 1 \in G PROVE k \in G
  <2>1. k - 1 \in 0..n /\ k \in 0..n /\ Fine(k - 1)
    <3> HIDE DEF Fine
    <3> QED BY <1>1, <1>3
  <2>2. Sane(f[k - 1]) /\ f[k] = Purge(f[k - 1])
    BY <1>1, <2>1
  <2>3. /\ Purged(f[k - 1], f[k])
        /\ Clean(f[k - 1]) => f[k] = f[k - 1]
        /\ KnownCount(f[k]) \in Nat /\ KnownCount(f[k - 1]) \in Nat
        /\ ~Clean(f[k - 1]) => KnownCount(f[k]) < KnownCount(f[k - 1])
    BY <2>2, PurgeFacts
  <2>4. Purged(s, f[k])
    BY <2>1, <2>3, PurgedTwice
  <2>5. Clean(f[k]) \/ KnownCount(f[k]) + k <= n
    BY <1>1, <2>1, <2>3
  <2>6. Fine(k)
    BY <2>4, <2>5
  <2> HIDE DEF Fine
  <2> QED BY <2>1, <2>6
<1>4. \A k \in 0..n : k \in G
  <2> HIDE DEF G, n
  <2> QED BY <1>1, <1>2, <1>3, UpTo
<1>5. Fine(n) /\ Sane(f[n])
  <2> HIDE DEF Fine
  <2> QED BY <1>1, <1>4
<1>6. t = f[n]
  BY DEF UpdateBad, f
<1>7. ASSUME KnownCount(f[n]) + n <= n PROVE Clean(f[n])
  <2>1. /\ f[n].verified \in Seq(Block) /\ f[n].verifying \in Seq(Entry) /\ f[n].unverified \in Seq(Block)
    BY <1>5, QueueFields DEF Sane
  <2> DEFINE a == Len(f[n].verified)
             b == Len(f[n].unverified)
             c == Len(f[n].verifying)
  <2>2. a \in Nat /\ b \in Nat /\ c \in Nat
    BY <2>1, LenProperties
  <2>3. a + b + c + n <= n
    BY <1>7 DEF KnownCount
  <2>4. a = 0 /\ b = 0 /\ c = 0
    <3> HIDE DEF a, b, c, n
    <3> QED BY <1>1, <2>2, <2>3
  <2>5. f[n].verified = <<>> /\ f[n].unverified = <<>> /\ f[n].verifying = <<>>
    BY <2>1, <2>4
  <2> QED BY <2>5, SetOfEmpty DEF Clean, Tainted, TaintedEntries
<1> QED BY <1>5, <1>6, <1>7

-----------------------------------------------------------------------------
(* The blocks on their way, in order.                                      *)

\* the blocks of m_verifying, in order
HashSeq(y) == [i \in DOMAIN y |-> y[i].hash]

\* The hashes of the entries of m_verifying, in order.
LEMMA HashSeqFacts ==
    ASSUME NEW y \in Seq(Entry)
    PROVE  /\ HashSeq(y) \in Seq(Block) /\ Len(HashSeq(y)) = Len(y)
           /\ \A i \in 1..Len(y) : HashSeq(y)[i] = y[i].hash
           /\ ToSet(HashSeq(y)) = {e.hash : e \in ToSet(y)}
           /\ (Distinct(y) /\ \A e, f \in ToSet(y) : e.hash = f.hash => e = f) => Distinct(HashSeq(y))
<1>1. Len(y) \in Nat /\ DOMAIN y = 1..Len(y) /\ \A i \in 1..Len(y) : y[i].hash \in Block /\ y[i] \in ToSet(y)
  <2>1. \A i \in 1..Len(y) : y[i] \in ToSet(y) /\ y[i] \in Entry
    BY Elements
  <2> QED BY <2>1 DEF Entry
<1>2. HashSeq(y) \in [1..Len(y) -> Block] /\ DOMAIN HashSeq(y) = 1..Len(y)
      /\ \A i \in 1..Len(y) : HashSeq(y)[i] = y[i].hash
  BY <1>1 DEF HashSeq
<1>3. HashSeq(y) \in Seq(Block) /\ Len(HashSeq(y)) = Len(y)
  BY <1>1, <1>2
<1>4. ToSet(HashSeq(y)) = {e.hash : e \in ToSet(y)}
  BY <1>1, <1>2 DEF ToSet
<1>5. ASSUME Distinct(y), \A e, f \in ToSet(y) : e.hash = f.hash => e = f PROVE Distinct(HashSeq(y))
  BY <1>1, <1>2, <1>5 DEF Distinct
<1> QED BY <1>2, <1>3, <1>4, <1>5

\* The pipeline holds the blocks on their way, each once.
LEMMA PipeFacts ==
    ASSUME NEW s, Sane(s)
    PROVE  /\ Pipe(s) = s.verified \o HashSeq(s.verifying) \o s.unverified
           /\ Pipe(s) \in Seq(Block) /\ ToSet(Pipe(s)) = OnWay(s) /\ Distinct(Pipe(s))
<1>1. s.verified \in Seq(Block) /\ s.unverified \in Seq(Block) /\ s.verifying \in Seq(Entry)
  BY QueueFields DEF Sane
<1> DEFINE y == HashSeq(s.verifying)
           a == s.verified \o y
<1>2. Pipe(s) = a \o s.unverified
  BY DEF Pipe, HashSeq
<1>3. y \in Seq(Block) /\ ToSet(y) = Hashes(s) /\ Distinct(y)
  <2>1. Distinct(s.verifying) /\ \A e, f \in ToSet(s.verifying) : e.hash = f.hash => e = f
    BY DEF Sane, Apart
  <2> QED BY <1>1, <2>1, HashSeqFacts DEF Hashes
<1> HIDE DEF y
<1>4. a \in Seq(Block) /\ ToSet(a) = ToSet(s.verified) \cup Hashes(s) /\ Distinct(a)
  <2>1. Distinct(s.verified) /\ ToSet(s.verified) \cap ToSet(y) = {}
    BY <1>3 DEF Sane, Apart
  <2> QED BY <1>1, <1>3, <2>1, SetOfConcat
<1> HIDE DEF a
<1>5. Distinct(s.unverified) /\ ToSet(a) \cap ToSet(s.unverified) = {}
  BY <1>4 DEF Sane, Apart
<1>6. a \o s.unverified \in Seq(Block) /\ ToSet(a \o s.unverified) = ToSet(a) \cup ToSet(s.unverified) /\ Distinct(a \o s.unverified)
  BY <1>1, <1>4, <1>5, SetOfConcat
<1>7. ToSet(a) \cup ToSet(s.unverified) = OnWay(s)
  BY <1>4 DEF OnWay
<1> QED BY <1>2, <1>6, <1>7 DEF a, y

\* a block that goes from the front of m_verifying to the end of m_verified
LEMMA PipeSettle ==
    ASSUME NEW v \in Seq(Block), NEW y \in Seq(Entry), y # <<>>
    PROVE  Append(v, Head(y).hash) \o HashSeq(Tail(y)) = v \o HashSeq(y)
<1> DEFINE l == Append(v, Head(y).hash) \o HashSeq(Tail(y))
           r == v \o HashSeq(y)
           a == Len(v)
           c == Len(y)
<1>1. /\ a \in Nat /\ c \in Nat /\ c >= 1 /\ Tail(y) \in Seq(Entry) /\ Len(Tail(y)) = c - 1 /\ Head(y) = y[1]
      /\ Head(y) \in Entry /\ \A i \in 1..(c - 1) : Tail(y)[i] = y[i + 1]
  OBVIOUS
<1>2. Head(y).hash \in Block
  BY <1>1 DEF Entry
<1>3. /\ HashSeq(y) \in Seq(Block) /\ Len(HashSeq(y)) = c
      /\ \A i \in 1..c : HashSeq(y)[i] = y[i].hash
  BY HashSeqFacts
<1>4. /\ HashSeq(Tail(y)) \in Seq(Block) /\ Len(HashSeq(Tail(y))) = c - 1
      /\ \A i \in 1..(c - 1) : HashSeq(Tail(y))[i] = y[i + 1].hash
  <2> DEFINE z == Tail(y)
  <2>1. z \in Seq(Entry) /\ Len(z) = c - 1 /\ \A i \in 1..(c - 1) : z[i] = y[i + 1]
    BY <1>1
  <2> HIDE DEF z, c
  <2>2. HashSeq(z) \in Seq(Block) /\ Len(HashSeq(z)) = c - 1 /\ \A i \in 1..(c - 1) : HashSeq(z)[i] = z[i].hash
    BY <2>1, HashSeqFacts
  <2>3. \A i \in 1..(c - 1) : HashSeq(z)[i] = y[i + 1].hash
    BY <2>1, <2>2
  <2> QED BY <2>2, <2>3 DEF z
<1> DEFINE m == Append(v, Head(y).hash)
<1>5. /\ m \in Seq(Block) /\ Len(m) = a + 1
      /\ \A i \in 1..(a + 1) : m[i] = IF i = a + 1 THEN Head(y).hash ELSE v[i]
  BY <1>2
<1> HIDE DEF m
<1>6. /\ l \in Seq(Block) /\ Len(l) = a + c
      /\ \A i \in 1..(a + c) : l[i] = IF i <= a + 1 THEN m[i] ELSE HashSeq(Tail(y))[i - (a + 1)]
  <2> DEFINE z == HashSeq(Tail(y))
  <2>1. z \in Seq(Block) /\ Len(z) = c - 1
    BY <1>4
  <2>2. l = m \o z
    BY DEF m
  <2> HIDE DEF z, l, a, c
  <2>3. /\ l \in Seq(Block) /\ Len(l) = Len(m) + Len(z)
        /\ \A i \in 1..(Len(m) + Len(z)) : l[i] = IF i <= Len(m) THEN m[i] ELSE z[i - Len(m)]
    BY <1>5, <2>1, <2>2, ConcatProperties
  <2>4. Len(m) + Len(z) = a + c
    BY <1>1, <1>5, <2>1
  <2> QED BY <1>5, <2>3, <2>4 DEF z
<1>7. /\ r \in Seq(Block) /\ Len(r) = a + c
      /\ \A i \in 1..(a + c) : r[i] = IF i <= a THEN v[i] ELSE HashSeq(y)[i - a]
  <2> DEFINE z == HashSeq(y)
  <2>1. z \in Seq(Block) /\ Len(z) = c
    BY <1>3
  <2> HIDE DEF z, c
  <2>2. /\ v \o z \in Seq(Block) /\ Len(v \o z) = Len(v) + Len(z)
        /\ \A i \in 1..(Len(v) + Len(z)) : (v \o z)[i] = IF i <= Len(v) THEN v[i] ELSE z[i - Len(v)]
    BY <2>1, ConcatProperties
  <2> QED BY <2>1, <2>2 DEF z
<1>8. ASSUME NEW i \in 1..(a + c) PROVE l[i] = r[i]
  <2> HIDE DEF l, r, a, c
  <2>1. CASE i <= a
    <3>1. l[i] = m[i] /\ m[i] = v[i] /\ r[i] = v[i]
      BY <2>1, <1>1, <1>5, <1>6, <1>7
    <3> QED BY <3>1
  <2>2. CASE i = a + 1
    <3>1. l[i] = Head(y).hash
      BY <2>2, <1>1, <1>5, <1>6
    <3>2. r[i] = HashSeq(y)[1]
      BY <2>2, <1>1, <1>7
    <3>3. HashSeq(y)[1] = y[1].hash
      BY <1>1, <1>3
    <3> QED BY <3>1, <3>2, <3>3, <1>1
  <2>3. CASE i > a + 1
    <3>1. i - (a + 1) \in 1..(c - 1) /\ i - a \in 1..c /\ (i - (a + 1)) + 1 = i - a
      BY <2>3, <1>1
    <3>2. l[i] = HashSeq(Tail(y))[i - (a + 1)]
      BY <2>3, <1>1, <1>6
    <3>3. HashSeq(Tail(y))[i - (a + 1)] = y[(i - (a + 1)) + 1].hash
      BY <3>1, <1>4
    <3>4. r[i] = HashSeq(y)[i - a]
      BY <2>3, <1>1, <1>7
    <3>5. HashSeq(y)[i - a] = y[i - a].hash
      BY <3>1, <1>3
    <3> QED BY <3>1, <3>2, <3>3, <3>4, <3>5
  <2> QED BY <2>1, <2>2, <2>3, <1>1
<1> HIDE DEF l, r
<1>9. l = r
  BY <1>1, <1>6, <1>7, <1>8
<1> QED BY <1>9 DEF l, r

-----------------------------------------------------------------------------
(* Blocks that leave m_verifying.                                          *)

\* nothing on its way is known to be bad
Tidy(s) == OnWay(s) \cap s.bad = {}

\* When a pass finds nothing, no block on its way is bad.
LEMMA TidyFacts == ASSUME NEW s, Clean(s), DoneFine(s) PROVE Tidy(s)
<1>1. ToSet(s.verified) \cap s.bad = {} /\ ToSet(s.unverified) \cap s.bad = {}
  BY DEF Clean, Tainted
<1>2. ASSUME NEW e \in ToSet(s.verifying) PROVE e.hash \notin s.bad
  <2>1. Sha3Uncles(e) \notin s.bad
    BY <1>2 DEF Clean, TaintedEntries
  <2> QED BY <1>2, <2>1 DEF Sha3Uncles, DoneFine
<1> QED BY <1>1, <1>2 DEF Tidy, OnWay, Hashes

\* Then no finished block is bad either.
LEMMA TidyDone == ASSUME NEW s, Tidy(s) PROVE DoneFine(s)
BY DEF Tidy, DoneFine, OnWay, Hashes

\* the finished blocks
DoneHashes(s) == {e.hash : e \in Done(s)}

\* what may happen to a queue when finished blocks leave m_verifying
Settled(s, t) ==
    /\ ToSet(t.verifying) \subseteq ToSet(s.verifying) /\ t.unverified = s.unverified
    /\ t.unknown = s.unknown /\ t.draining = s.draining /\ t.future = s.future
    /\ t.ready \subseteq s.ready /\ s.bad \subseteq t.bad /\ t.bad \subseteq s.bad \cup DoneHashes(s)
    /\ ToSet(t.verified) \subseteq ToSet(s.verified) \cup DoneHashes(s)
    /\ s.ready \subseteq t.ready \cup t.bad
    /\ Tidy(s) => Tidy(t)
    /\ s.bad = {} => t.bad = {} /\ t.ready = s.ready /\ Pipe(t) = Pipe(s)

\* Blocks that leave one after the other do what they may do together.
LEMMA SettledTwice ==
    ASSUME NEW s, NEW t, NEW u, Settled(s, t), Settled(t, u)
    PROVE  Settled(s, u)
<1>1. DoneHashes(t) \subseteq DoneHashes(s)
  BY DEF Settled, DoneHashes, Done
<1> QED BY <1>1 DEF Settled

\* No block may leave.
LEMMA SettledSame == \A s : Settled(s, s)
BY DEF Settled

\* A block that leaves m_verifying is put behind m_verified, or is bad with its
\* parent.
LEMMA SettleFacts ==
    ASSUME NEW s, Sane(s), NEW b \in Block, b \notin OnWay(s), b \notin ToSet(s.unknown), b \in s.ready \cup s.bad,
           NEW t, t = Settle(s, b)
    PROVE  /\ Sane(t) /\ t.verifying = s.verifying /\ t.unverified = s.unverified
           /\ t.unknown = s.unknown /\ t.draining = s.draining /\ t.future = s.future
           /\ Parent[b] \in s.bad => t.verified = s.verified /\ t.ready = s.ready \ {b} /\ t.bad = s.bad \cup {b}
           /\ Parent[b] \notin s.bad => t.verified = Append(s.verified, b) /\ t.ready = s.ready /\ t.bad = s.bad
<1>1. s \in Queue /\ s.verified \in Seq(Block) /\ s.knownSize \in Nat /\ s.bad \subseteq Block \cup {Uncles}
  BY QueueFields DEF Sane
<1>2. CASE Parent[b] \in s.bad
  <2>1. t = [s EXCEPT !.ready = @ \ {b}, !.bad = @ \cup {b}]
    BY <1>2 DEF Settle
  <2>2. t \in Queue
    <3>1. s \in Queue /\ s.ready \ {b} \subseteq Block /\ s.bad \cup {b} \subseteq Block \cup {Uncles}
      BY <1>1, QueueFields
    <3>2. [s EXCEPT !.ready = @ \ {b}, !.bad = @ \cup {b}] \in Queue
      BY <3>1 DEF Queue
    <3> QED BY <2>1, <3>2
  <2>3. /\ t.verified = s.verified /\ t.verifying = s.verifying /\ t.unverified = s.unverified
        /\ t.unknown = s.unknown /\ t.draining = s.draining /\ t.future = s.future
        /\ t.ready = s.ready \ {b} /\ t.bad = s.bad \cup {b} /\ t.knownSize = s.knownSize
    BY <1>1, <2>1 DEF Queue
  <2>4. OnWay(t) = OnWay(s) /\ Held(t) = Held(s) /\ Hashes(t) = Hashes(s)
    BY <2>3 DEF OnWay, Held, Hashes, Done
  <2>5. Sane(t)
    BY <2>2, <2>3, <2>4 DEF Sane, Apart
  <2> QED BY <1>2, <2>3, <2>5
<1>3. CASE Parent[b] \notin s.bad
  <2>1. t = [s EXCEPT !.verified = Append(@, b), !.knownSize = @ + 1]
    BY <1>3 DEF Settle
  <2>2. /\ Append(s.verified, b) \in Seq(Block) /\ ToSet(Append(s.verified, b)) = ToSet(s.verified) \cup {b}
        /\ Distinct(Append(s.verified, b))
    <3>1. b \notin ToSet(s.verified) /\ Distinct(s.verified)
      BY DEF OnWay, Sane, Apart
    <3> QED BY <1>1, <3>1, SetOfAppend
  <2>3. t \in Queue
    <3>1. s \in Queue /\ Append(s.verified, b) \in Seq(Block) /\ s.knownSize + 1 \in Nat
      BY <1>1, <2>2
    <3>2. [s EXCEPT !.verified = Append(@, b), !.knownSize = @ + 1] \in Queue
      BY <3>1 DEF Queue
    <3> QED BY <2>1, <3>2
  <2>4. /\ t.verified = Append(s.verified, b) /\ t.verifying = s.verifying /\ t.unverified = s.unverified
        /\ t.unknown = s.unknown /\ t.draining = s.draining /\ t.future = s.future
        /\ t.ready = s.ready /\ t.bad = s.bad /\ t.knownSize = s.knownSize + 1
    BY <1>1, <2>1 DEF Queue
  <2>5. OnWay(t) = OnWay(s) \cup {b} /\ Hashes(t) = Hashes(s)
    BY <2>2, <2>4 DEF OnWay, Hashes
  <2>6. Held(t) <= t.knownSize
    <3>1. IsFiniteSet(ToSet(s.verified)) /\ b \notin ToSet(s.verified)
      BY <1>1, SetOf DEF OnWay
    <3>2. Cardinality(ToSet(t.verified)) = Cardinality(ToSet(s.verified)) + 1
      <4>1. Cardinality(ToSet(s.verified) \cup {b}) = Cardinality(ToSet(s.verified)) + 1
        BY <3>1, FS_AddElement
      <4> QED BY <4>1, <2>2, <2>4
    <3>3. Cardinality(ToSet(s.verified)) \in Nat /\ Cardinality(ToSet(s.unverified)) \in Nat /\ Cardinality(Done(s)) \in Nat
      BY <1>1, DoneFacts
    <3>4. Cardinality(ToSet(t.unverified)) = Cardinality(ToSet(s.unverified)) /\ Done(t) = Done(s)
      BY <2>4 DEF Done
    <3>5. Held(t) = Held(s) + 1 /\ Held(s) \in Nat
      BY <3>2, <3>3, <3>4 DEF Held
    <3>6. Held(s) <= s.knownSize
      BY DEF Sane
    <3> QED BY <1>1, <2>4, <3>5, <3>6
  <2>7. Apart(t)
    BY <2>2, <2>4, <2>5 DEF Sane, Apart, OnWay
  <2>8. Sane(t)
    BY <2>3, <2>4, <2>5, <2>6, <2>7 DEF Sane
  <2> QED BY <1>3, <2>4, <2>8
<1> QED BY <1>2, <1>3

\* the first entry leaves m_verifying; a finished one takes its size along
Leave(s) == IF Head(s.verifying).done THEN [s EXCEPT !.verifying = Tail(@), !.knownSize = @ - 1]
                                      ELSE [s EXCEPT !.verifying = Tail(@)]

\* Taking the first entry off m_verifying loses its block and its size, and
\* nothing else.
LEMMA LeaveFacts ==
    ASSUME NEW s, Sane(s), s.verifying # <<>>, NEW t, t = Leave(s)
    PROVE  /\ Sane(t) /\ t.verifying = Tail(s.verifying)
           /\ t.verified = s.verified /\ t.unverified = s.unverified /\ t.unknown = s.unknown
           /\ t.draining = s.draining /\ t.future = s.future /\ t.ready = s.ready /\ t.bad = s.bad
           /\ ToSet(s.verifying) = ToSet(t.verifying) \cup {Head(s.verifying)}
           /\ Head(s.verifying) \in Entry /\ Head(s.verifying).hash \in Block
           /\ Head(s.verifying).hash \notin OnWay(t) /\ OnWay(s) = OnWay(t) \cup {Head(s.verifying).hash}
           /\ Head(s.verifying).hash \notin ToSet(s.unknown) /\ Head(s.verifying).hash \in s.ready \cup s.bad
<1> DEFINE e == Head(s.verifying)
<1>1. s \in Queue /\ s.verifying \in Seq(Entry) /\ s.knownSize \in Nat
  BY QueueFields DEF Sane
<1>2. /\ e \in Entry /\ Tail(s.verifying) \in Seq(Entry) /\ ToSet(s.verifying) = ToSet(Tail(s.verifying)) \cup {e}
      /\ e \notin ToSet(Tail(s.verifying)) /\ Distinct(Tail(s.verifying))
  <2>1. Distinct(s.verifying)
    BY DEF Sane, Apart
  <2> QED BY <1>1, <2>1, SetOfTail
<1> HIDE DEF e
<1>3. e.hash \in Block /\ e.done \in BOOLEAN
  BY <1>2 DEF Entry
<1>4. /\ t.verifying = Tail(s.verifying)
      /\ t.verified = s.verified /\ t.unverified = s.unverified /\ t.unknown = s.unknown
      /\ t.draining = s.draining /\ t.future = s.future /\ t.ready = s.ready /\ t.bad = s.bad
      /\ t.knownSize = IF e.done THEN s.knownSize - 1 ELSE s.knownSize
  BY <1>1 DEF Queue, Leave, e
<1>5. Hashes(s) = Hashes(t) \cup {e.hash} /\ e.hash \notin Hashes(t)
  <2>1. \A f, g \in ToSet(s.verifying) : f.hash = g.hash => f = g
    BY DEF Sane, Apart
  <2>2. \A f \in ToSet(t.verifying) : f \in ToSet(s.verifying) /\ f # e
    BY <1>2, <1>4
  <2>3. \A f \in ToSet(t.verifying) : f.hash # e.hash
    BY <2>1, <2>2, <1>2
  <2> QED BY <2>3, <1>2, <1>4 DEF Hashes
<1>6. OnWay(s) = OnWay(t) \cup {e.hash}
  BY <1>4, <1>5 DEF OnWay
<1>7. e.hash \notin OnWay(t)
  BY <1>4, <1>5 DEF OnWay, Sane, Apart
<1>8. e.hash \notin ToSet(s.unknown) /\ e.hash \in s.ready \cup s.bad
  BY <1>6 DEF Sane, Apart
<1>9. Held(t) <= t.knownSize /\ t.knownSize \in Nat
  <2>1. /\ Cardinality(ToSet(s.verified)) \in Nat /\ Cardinality(ToSet(s.unverified)) \in Nat
        /\ Cardinality(Done(s)) \in Nat /\ IsFiniteSet(Done(s)) /\ Held(s) <= s.knownSize
    BY <1>1, DoneFacts DEF Sane
  <2>2. CASE e.done
    <3>1. e \in Done(s) /\ Done(t) = Done(s) \ {e}
      BY <2>2, <1>2, <1>4 DEF Done
    <3>2. Cardinality(Done(t)) = Cardinality(Done(s)) - 1
      BY <2>1, <3>1, FS_RemoveElement
    <3>3. IsFiniteSet(Done(t)) /\ Cardinality(Done(t)) \in Nat
      BY <2>1, <3>1, FS_Subset, FS_CardinalityType
    <3>4. Held(t) = Held(s) - 1 /\ Held(s) \in Nat /\ Held(t) \in Nat
      BY <1>4, <2>1, <3>2, <3>3 DEF Held
    <3> QED BY <1>1, <1>4, <2>1, <2>2, <3>4
  <2>3. CASE ~e.done
    <3>1. Done(t) = Done(s)
      BY <2>3, <1>2, <1>4 DEF Done
    <3>2. Held(t) = Held(s)
      BY <1>4, <3>1 DEF Held
    <3> QED BY <1>1, <1>4, <2>1, <2>3, <3>2
  <2> QED BY <2>2, <2>3
<1>10. t \in Queue
  <2>1. t = [s EXCEPT !.verifying = Tail(s.verifying), !.knownSize = t.knownSize]
    BY <1>1, <1>4 DEF Queue, Leave, e
  <2> QED BY <1>1, <1>2, <1>9, <2>1 DEF Queue, Entry
<1>11. Apart(t)
  BY <1>2, <1>4, <1>5, <1>6 DEF Apart, Sane
<1>12. Sane(t)
  BY <1>4, <1>6, <1>9, <1>10, <1>11 DEF Sane
<1> QED BY <1>2, <1>3, <1>4, <1>6, <1>7, <1>8, <1>12 DEF e

\* OnWay after a block has settled
LEMMA SettledOnWay ==
    ASSUME NEW s, NEW u, NEW t, NEW b,
           OnWay(s) = OnWay(u) \cup {b}, b \notin OnWay(u),
           t.verifying = u.verifying, t.unverified = u.unverified, u.bad = s.bad,
           \/ t.verified = u.verified /\ t.bad = u.bad \cup {b}
           \/ ToSet(t.verified) = ToSet(u.verified) \cup {b} /\ t.bad = u.bad
    PROVE  (Tidy(s) => Tidy(t)) /\ OnWay(t) \subseteq OnWay(s)
<1>1. CASE t.verified = u.verified /\ t.bad = u.bad \cup {b}
  <2>1. OnWay(t) = OnWay(u)
    BY <1>1 DEF OnWay, Hashes
  <2> QED BY <1>1, <2>1 DEF Tidy
<1>2. CASE ToSet(t.verified) = ToSet(u.verified) \cup {b} /\ t.bad = u.bad
  <2>1. OnWay(t) = OnWay(u) \cup {b}
    BY <1>2 DEF OnWay, Hashes
  <2> QED BY <1>2, <2>1 DEF Tidy
<1> QED BY <1>1, <1>2

\* One step of drainVerified keeps the queue sane and settles finished blocks
\* only.
LEMMA DrainOneFacts ==
    ASSUME NEW s, Sane(s), NEW t, t = DrainOne(s)
    PROVE  Sane(t) /\ Settled(s, t)
<1>1. CASE ~(s.verifying # <<>> /\ Head(s.verifying).done)
  <2>1. t = s
    BY <1>1 DEF DrainOne
  <2> QED BY <2>1, SettledSame
<1>2. CASE s.verifying # <<>> /\ Head(s.verifying).done
  <2> DEFINE e == Head(s.verifying)
             b == e.hash
             u == [s EXCEPT !.verifying = Tail(@), !.knownSize = @ - 1]
  <2>1. t = Settle(u, b)
    BY <1>2 DEF DrainOne
  <2>2. /\ Sane(u) /\ u.verifying = Tail(s.verifying)
        /\ u.verified = s.verified /\ u.unverified = s.unverified /\ u.unknown = s.unknown
        /\ u.draining = s.draining /\ u.future = s.future /\ u.ready = s.ready /\ u.bad = s.bad
        /\ ToSet(s.verifying) = ToSet(u.verifying) \cup {e}
        /\ e \in Entry /\ b \in Block
        /\ b \notin OnWay(u) /\ OnWay(s) = OnWay(u) \cup {b}
        /\ b \notin ToSet(s.unknown) /\ b \in s.ready \cup s.bad
    <3>1. u = Leave(s)
      BY <1>2 DEF Leave
    <3> HIDE DEF u
    <3> QED BY <1>2, <3>1, LeaveFacts
  <2>3. e.done /\ e \in ToSet(s.verifying)
    BY <1>2, <2>2
  <2>4. b \in DoneHashes(s)
    BY <2>3 DEF DoneHashes, Done
  <2> HIDE DEF e, b, u
  <2>5. /\ Sane(t) /\ t.verifying = u.verifying /\ t.unverified = u.unverified
        /\ t.unknown = u.unknown /\ t.draining = u.draining /\ t.future = u.future
        /\ Parent[b] \in u.bad => t.verified = u.verified /\ t.ready = u.ready \ {b} /\ t.bad = u.bad \cup {b}
        /\ Parent[b] \notin u.bad => t.verified = Append(u.verified, b) /\ t.ready = u.ready /\ t.bad = u.bad
    BY <2>1, <2>2, SettleFacts
  <2>6. u.verified \in Seq(Block) /\ s.verifying \in Seq(Entry)
    BY <2>2, QueueFields DEF Sane
  <2>7. ToSet(Append(u.verified, b)) = ToSet(u.verified) \cup {b}
    BY <2>2, <2>6, SetOfAppend
  <2>8. Tidy(s) => Tidy(t)
    BY <2>2, <2>5, <2>7, SettledOnWay
  <2>9. /\ ToSet(t.verifying) \subseteq ToSet(s.verifying) /\ t.unverified = s.unverified
        /\ t.unknown = s.unknown /\ t.draining = s.draining /\ t.future = s.future
        /\ t.ready \subseteq s.ready /\ s.bad \subseteq t.bad /\ t.bad \subseteq s.bad \cup DoneHashes(s)
        /\ ToSet(t.verified) \subseteq ToSet(s.verified) \cup DoneHashes(s)
        /\ s.ready \subseteq t.ready \cup t.bad
    BY <2>2, <2>4, <2>5, <2>7
  <2>10. ASSUME s.bad = {} PROVE t.bad = {} /\ t.ready = s.ready /\ Pipe(t) = Pipe(s)
    <3>1. t.verified = Append(s.verified, b) /\ t.bad = {} /\ t.ready = s.ready
      BY <2>2, <2>5, <2>10
    <3>2. Pipe(t) = t.verified \o HashSeq(t.verifying) \o t.unverified
      BY <2>5, PipeFacts
    <3>3. Pipe(s) = s.verified \o HashSeq(s.verifying) \o s.unverified
      BY PipeFacts
    <3>4. Append(s.verified, b) \o HashSeq(Tail(s.verifying)) = s.verified \o HashSeq(s.verifying)
      <4>1. Append(s.verified, Head(s.verifying).hash) \o HashSeq(Tail(s.verifying)) = s.verified \o HashSeq(s.verifying)
        BY <1>2, <2>2, <2>6, PipeSettle
      <4> QED BY <4>1 DEF b, e
    <3>5. t.verifying = Tail(s.verifying) /\ t.unverified = s.unverified
      BY <2>2, <2>5
    <3> QED BY <3>1, <3>2, <3>3, <3>4, <3>5
  <2> QED BY <2>5, <2>8, <2>9, <2>10 DEF Settled
<1> QED BY <1>1, <1>2

\* Drains is the iteration it is defined as, through sane queues.
LEMMA DrainsFacts ==
    ASSUME NEW s, Sane(s)
    PROVE  /\ Len(s.verifying) \in Nat
           /\ \A k \in 0..Len(s.verifying) : Sane(Drains(s)[k])
           /\ Drains(s)[0] = s
           /\ \A k \in 1..Len(s.verifying) : Drains(s)[k] = DrainOne(Drains(s)[k - 1])
<1> DEFINE n == Len(s.verifying)
           Q == {x \in Queue : Sane(x)}
           F == [k \in 1..n |-> [x \in Q |-> DrainOne(x)]]
<1>1. n \in Nat /\ s \in Q
  <2>1. s \in Queue /\ s.verifying \in Seq(Entry)
    BY QueueFields DEF Sane
  <2> QED BY <2>1, LenProperties
<1>2. \A k \in 1..n, x \in Q : DrainOne(x) \in Q
  BY DrainOneFacts DEF Sane
<1> HIDE DEF n, Q
<1>3. F \in [1..n -> [Q -> Q]]
  BY <1>2
<1>4. PICK g \in [0..n -> Q] : g[0] = s /\ \A k \in 1..n : g[k] = F[k][g[k - 1]]
  <2> HIDE DEF F
  <2> QED BY <1>1, <1>3, Iteration
<1>5. ASSUME NEW k \in 1..n PROVE g[k] = DrainOne(g[k - 1])
  <2>1. g[k - 1] \in Q
    BY <1>1, <1>4
  <2> QED BY <2>1, <1>4
<1>6. g = [k \in 0..n |-> IF k = 0 THEN s ELSE DrainOne(g[k - 1])]
  <2> HIDE DEF F
  <2> QED BY <1>1, <1>4, <1>5
<1> DEFINE f == Drains(s)
<1>7. f = [k \in 0..n |-> IF k = 0 THEN s ELSE DrainOne(f[k - 1])]
  BY <1>6, Zenon DEF Drains, n
<1> HIDE DEF f
<1>8. f[0] = s /\ \A k \in 1..n : f[k] = DrainOne(f[k - 1])
  BY <1>1, <1>7
<1>9. \A k \in 0..n : f[k] \in Q
  BY <1>1, <1>2, <1>8, StaysIn
<1>10. \A x \in Q : Sane(x)
  BY DEF Q
<1>11. \A k \in 0..n : Sane(f[k])
  BY <1>9, <1>10
<1> QED BY <1>1, <1>8, <1>11 DEF f, n

\* drainVerified keeps the queue sane and settles finished blocks only.
LEMMA DrainVerifiedFacts ==
    ASSUME NEW s, Sane(s), NEW t, t = DrainVerified(s)
    PROVE  Sane(t) /\ Settled(s, t)
<1> DEFINE n == Len(s.verifying)
           f == Drains(s)
           G == {k \in 0..n : Settled(s, f[k])}
<1>1. n \in Nat /\ (\A k \in 0..n : Sane(f[k])) /\ f[0] = s /\ \A k \in 1..n : f[k] = DrainOne(f[k - 1])
  BY DrainsFacts
<1> HIDE DEF f, n
<1>2. 0 \in G
  BY <1>1, SettledSame
<1>3. ASSUME NEW k \in 1..n, k - 1 \in G PROVE k \in G
  <2>1. k - 1 \in 0..n /\ k \in 0..n /\ Settled(s, f[k - 1])
    BY <1>1, <1>3
  <2>2. Sane(f[k - 1]) /\ f[k] = DrainOne(f[k - 1])
    BY <1>1, <2>1
  <2>3. Settled(f[k - 1], f[k])
    BY <2>2, DrainOneFacts
  <2>4. Settled(s, f[k])
    BY <2>1, <2>3, SettledTwice
  <2> QED BY <2>1, <2>4
<1>4. \A k \in 0..n : k \in G
  <2> HIDE DEF G
  <2> QED BY <1>1, <1>2, <1>3, UpTo
<1>5. Settled(s, f[n]) /\ Sane(f[n])
  BY <1>1, <1>4
<1> QED BY <1>5 DEF DrainVerified, f, n

-----------------------------------------------------------------------------
(* doneDrain, noteReady and import.                                        *)

\* the queue when doneDrain has released the batch and noted its bad blocks
Released(s, bads) == [s EXCEPT !.draining = {}, !.bad = @ \cup ToSet(bads)]

\* updateBad for every refused block leaves no bad block in the queues.
LEMMA UpdatesFacts ==
    ASSUME NEW s, NEW bads \in Seq(Block), NEW e, e = Released(s, bads), Sane(e),
           NEW t, t = Updates(s, bads)[Len(bads)]
    PROVE  Sane(t) /\ Purged(e, t) /\ (bads = <<>> => t = e) /\ (bads # <<>> => Clean(t))
<1> DEFINE n == Len(bads)
           Q == {x \in Queue : Sane(x)}
           F == [k \in 1..n |-> [x \in Q |-> UpdateBad(x, bads[k])]]
<1>1. n \in Nat /\ e \in Q
  BY DEF Sane
<1>2. \A k \in 1..n, x \in Q : UpdateBad(x, bads[k]) \in Q
  BY UpdateBadFacts DEF Sane
<1>3. bads = <<>> <=> n = 0
  OBVIOUS
<1>4. \A x \in Q : Sane(x)
  OBVIOUS
<1> HIDE DEF n, Q
<1>5. F \in [1..n -> [Q -> Q]]
  BY <1>2
<1>6. PICK g \in [0..n -> Q] : g[0] = e /\ \A k \in 1..n : g[k] = F[k][g[k - 1]]
  <2> HIDE DEF F
  <2> QED BY ONLY <1>1, <1>5, Iteration
<1>7. ASSUME NEW k \in 1..n PROVE g[k] = UpdateBad(g[k - 1], bads[k])
  <2>1. g[k - 1] \in Q
    BY <1>1, <1>6
  <2> QED BY <2>1, <1>6
<1>8. g = [k \in 0..n |-> IF k = 0 THEN e ELSE UpdateBad(g[k - 1], bads[k])]
  <2> HIDE DEF F
  <2> QED BY <1>1, <1>6, <1>7
<1> DEFINE f == Updates(s, bads)
<1>9. f = [k \in 0..n |-> IF k = 0 THEN e ELSE UpdateBad(f[k - 1], bads[k])]
  <2>1. g = [k \in 0..Len(bads) |-> IF k = 0 THEN Released(s, bads) ELSE UpdateBad(g[k - 1], bads[k])]
    BY <1>8 DEF n
  <2>2. f = CHOOSE g_1 : g_1 = [k \in 0..Len(bads) |-> IF k = 0 THEN Released(s, bads) ELSE UpdateBad(g_1[k - 1], bads[k])]
    BY Zenon DEF Updates, Released
  <2>3. f = [k \in 0..Len(bads) |-> IF k = 0 THEN Released(s, bads) ELSE UpdateBad(f[k - 1], bads[k])]
    <3> HIDE DEF f
    <3> QED BY <2>1, <2>2, Zenon
  <2> QED BY <2>3 DEF n
<1>10. t = f[n]
  BY DEF n
<1> HIDE DEF f
<1>11. f[0] = e /\ \A k \in 1..n : f[k] = UpdateBad(f[k - 1], bads[k])
  BY <1>1, <1>9
<1>12. \A k \in 0..n : f[k] \in Q
  BY <1>1, <1>2, <1>11, StaysIn
<1> DEFINE Fine(k) == Purged(e, f[k]) /\ (k = 0 \/ Clean(f[k]))
           G == {k \in 0..n : Fine(k)}
<1>13. 0 \in G
  <2>1. Fine(0)
    BY <1>11, PurgedSame
  <2> HIDE DEF Fine
  <2> QED BY <1>1, <2>1
<1>14. ASSUME NEW k \in 1..n, k - 1 \in G PROVE k \in G
  <2>1. k - 1 \in 0..n /\ k \in 0..n /\ Fine(k - 1)
    <3> HIDE DEF Fine
    <3> QED BY <1>1, <1>14
  <2>2. Sane(f[k - 1]) /\ f[k] = UpdateBad(f[k - 1], bads[k])
    BY <1>4, <1>11, <1>12, <2>1
  <2>3. Purged(f[k - 1], f[k]) /\ Clean(f[k])
    BY <2>2, UpdateBadFacts
  <2>4. Fine(k)
    BY <2>1, <2>3, PurgedTwice
  <2> HIDE DEF Fine
  <2> QED BY <2>1, <2>4
<1>15. \A k \in 0..n : k \in G
  <2> HIDE DEF G
  <2> QED BY <1>1, <1>13, <1>14, UpTo
<1>16. Fine(n) /\ Sane(f[n])
  <2>1. n \in G /\ n \in 0..n
    BY <1>1, <1>15
  <2> HIDE DEF Fine
  <2> QED BY <2>1, <1>4, <1>12
<1> QED BY <1>3, <1>10, <1>11, <1>16

\* the blocks of f, the descendants of h, become ready
Readied(s, h, f, t) ==
    /\ f \in Seq(Block) /\ ToSet(f) \subseteq ToSet(s.unknown)
    /\ t.verified = s.verified /\ t.verifying = s.verifying /\ t.unverified = s.unverified \o f
    /\ t.ready = s.ready \cup ToSet(f) /\ ToSet(t.unknown) = ToSet(s.unknown) \ ToSet(f)
    /\ t.draining = s.draining /\ t.bad = s.bad /\ OnWay(t) = OnWay(s) \cup ToSet(f)
    /\ \A b \in ToSet(s.unknown) : Parent[b] \in ToSet(f) \cup {h} => b \in ToSet(f)
    /\ \A j \in DOMAIN f : Parent[f[j]] = h \/ \E i \in 1..(j - 1) : f[i] = Parent[f[j]]

\* noteReady takes all descendants of a block out of m_unknown, parents first.
LEMMA NoteReadyFacts ==
    ASSUME NEW s, Sane(s), NEW h, h \notin ToSet(s.unknown)
    PROVE  Sane(NoteReady(s, h)) /\ Readied(s, h, Family(h, s.unknown), NoteReady(s, h))
<1> DEFINE f == Family(h, s.unknown)
           t == NoteReady(s, h)
<1>1. /\ s \in Queue /\ s.unknown \in Seq(Block) /\ Distinct(s.unknown) /\ s.unverified \in Seq(Block)
      /\ s.knownSize \in Nat /\ s.unknownSize \in 0..(Word - 1) /\ Distinct(s.unverified) /\ s.ready \subseteq Block
  BY QueueFields DEF Sane, Apart
<1>2. f \in Seq(Block) /\ ToSet(f) \subseteq ToSet(s.unknown)
  BY <1>1, FamilySubset
<1>3. /\ Distinct(f)
      /\ \A b \in ToSet(s.unknown) : Parent[b] \in ToSet(f) \cup {h} => b \in ToSet(f)
      /\ \A j \in DOMAIN f : Parent[f[j]] = h \/ \E i \in 1..(j - 1) : f[i] = Parent[f[j]]
  BY <1>1, FamilyFacts
<1>4. Len(f) \in Nat /\ ToSet(f) \subseteq Block /\ Cardinality(ToSet(f)) = Len(f) /\ IsFiniteSet(ToSet(f))
  BY <1>2, <1>3, SetOf, LenProperties
<1>5. t = [s EXCEPT !.unverified = @ \o f, !.ready = @ \cup ToSet(f), !.unknown = Without(@, ToSet(f)),
                    !.knownSize = @ + Len(f), !.unknownSize = RemoveSize(@, Len(f))]
  BY DEF NoteReady
<1> HIDE DEF f, t
<1>6. /\ s.unverified \o f \in Seq(Block) /\ ToSet(s.unverified \o f) = ToSet(s.unverified) \cup ToSet(f)
      /\ Distinct(s.unverified \o f)
  <2>1. ToSet(s.unverified) \cap ToSet(f) = {}
    BY <1>2 DEF Sane, Apart, OnWay
  <2> QED BY <1>1, <1>2, <1>3, <2>1, SetOfConcat
<1>7. /\ Without(s.unknown, ToSet(f)) \in Seq(Block) /\ ToSet(Without(s.unknown, ToSet(f))) = ToSet(s.unknown) \ ToSet(f)
      /\ Distinct(Without(s.unknown, ToSet(f)))
  BY <1>1, WithoutFacts
<1>8. RemoveSize(s.unknownSize, Len(f)) \in 0..(Word - 1)
  BY <1>1, <1>4, RemoveSizeFacts
<1>9. t \in Queue
  <2>1. s.knownSize + Len(f) \in Nat /\ s.ready \cup ToSet(f) \subseteq Block
    BY <1>1, <1>4
  <2>2. [s EXCEPT !.unverified = s.unverified \o f, !.ready = s.ready \cup ToSet(f), !.unknown = Without(s.unknown, ToSet(f)),
                    !.knownSize = s.knownSize + Len(f), !.unknownSize = RemoveSize(s.unknownSize, Len(f))] \in Queue
    BY <1>1, <1>6, <1>7, <1>8, <2>1 DEF Queue
  <2> QED BY <1>5, <2>2
<1>10. /\ t.verified = s.verified /\ t.verifying = s.verifying /\ t.unverified = s.unverified \o f
       /\ t.ready = s.ready \cup ToSet(f) /\ t.unknown = Without(s.unknown, ToSet(f))
       /\ t.draining = s.draining /\ t.bad = s.bad /\ t.knownSize = s.knownSize + Len(f)
  BY <1>1, <1>5 DEF Queue
<1> HIDE <1>5
<1>11. Hashes(t) = Hashes(s) /\ OnWay(t) = OnWay(s) \cup ToSet(f) /\ Done(t) = Done(s)
  BY <1>6, <1>10 DEF OnWay, Hashes, Done
<1>12. Held(t) <= t.knownSize
  <2>1. Cardinality(ToSet(s.unverified) \cup ToSet(f)) = Cardinality(ToSet(s.unverified)) + Len(f)
    <3>1. IsFiniteSet(ToSet(s.unverified)) /\ Cardinality(ToSet(s.unverified)) \in Nat
      BY <1>1, SetOf
    <3>2. ToSet(s.unverified) \cap ToSet(f) = {}
      BY <1>2 DEF Sane, Apart, OnWay
    <3>3. /\ Cardinality(ToSet(s.unverified) \cup ToSet(f)) =
                Cardinality(ToSet(s.unverified)) + Cardinality(ToSet(f)) - Cardinality(ToSet(s.unverified) \cap ToSet(f))
      BY <1>4, <3>1, FS_Union
    <3>4. Cardinality(ToSet(s.unverified) \cap ToSet(f)) = 0
      BY <3>2, FS_EmptySet
    <3> QED BY <1>4, <3>1, <3>3, <3>4
  <2>2. Cardinality(ToSet(s.verified)) \in Nat /\ Cardinality(ToSet(s.unverified)) \in Nat /\ Cardinality(Done(s)) \in Nat
    BY <1>1, DoneFacts
  <2>3. Held(t) = Cardinality(ToSet(s.verified)) + (Cardinality(ToSet(s.unverified)) + Len(f)) + Cardinality(Done(s))
    BY <1>6, <1>10, <1>11, <2>1 DEF Held
  <2>4. Held(s) = Cardinality(ToSet(s.verified)) + Cardinality(ToSet(s.unverified)) + Cardinality(Done(s))
    BY DEF Held
  <2>5. Held(s) <= s.knownSize
    BY DEF Sane
  <2>6. Held(t) = Held(s) + Len(f) /\ Held(s) \in Nat
    BY <1>4, <2>2, <2>3, <2>4
  <2> QED BY <1>1, <1>4, <1>10, <2>5, <2>6
<1>13. Apart(t)
  <2>1. ToSet(f) \cap OnWay(s) = {}
    BY <1>2 DEF Sane, Apart
  <2> QED BY <2>1, <1>6, <1>7, <1>10, <1>11 DEF Apart, Sane, OnWay
<1>14. Sane(t)
  BY <1>9, <1>10, <1>11, <1>12, <1>13 DEF Sane
<1>15. Readied(s, h, f, t)
  BY <1>2, <1>3, <1>7, <1>10, <1>11 DEF Readied
<1> QED BY <1>14, <1>15 DEF f, t

\* a new block, at the end of m_unverified
Add(s, b) == [s EXCEPT !.unverified = Append(@, b), !.ready = @ \cup {b}, !.knownSize = @ + 1]

\* A new block is put behind m_unverified and into m_readySet.
LEMMA AddFacts ==
    ASSUME NEW s, Sane(s), NEW b \in Block, b \notin OnWay(s), b \notin ToSet(s.unknown), NEW t, t = Add(s, b)
    PROVE  /\ Sane(t) /\ t.verified = s.verified /\ t.verifying = s.verifying /\ t.unverified = Append(s.unverified, b)
           /\ t.ready = s.ready \cup {b} /\ t.unknown = s.unknown /\ t.draining = s.draining /\ t.bad = s.bad
           /\ OnWay(t) = OnWay(s) \cup {b}
<1>1. s \in Queue /\ s.unverified \in Seq(Block) /\ s.knownSize \in Nat /\ s.ready \subseteq Block
  BY QueueFields DEF Sane
<1>2. /\ Append(s.unverified, b) \in Seq(Block) /\ ToSet(Append(s.unverified, b)) = ToSet(s.unverified) \cup {b}
      /\ Distinct(Append(s.unverified, b))
  <2>1. b \notin ToSet(s.unverified) /\ Distinct(s.unverified)
    BY DEF OnWay, Sane, Apart
  <2> QED BY <1>1, <2>1, SetOfAppend
<1>3. t \in Queue
  <2>1. s.knownSize + 1 \in Nat /\ s.ready \cup {b} \subseteq Block
    BY <1>1
  <2>2. [s EXCEPT !.unverified = Append(@, b), !.ready = @ \cup {b}, !.knownSize = @ + 1] \in Queue
    BY <1>1, <1>2, <2>1 DEF Queue
  <2> QED BY <2>2 DEF Add
<1>4. /\ t.verified = s.verified /\ t.verifying = s.verifying /\ t.unverified = Append(s.unverified, b)
      /\ t.ready = s.ready \cup {b} /\ t.unknown = s.unknown /\ t.draining = s.draining /\ t.bad = s.bad
      /\ t.knownSize = s.knownSize + 1
  BY <1>1 DEF Queue, Add
<1>5. OnWay(t) = OnWay(s) \cup {b} /\ Hashes(t) = Hashes(s) /\ Done(t) = Done(s)
  BY <1>2, <1>4 DEF OnWay, Hashes, Done
<1>6. Held(t) <= t.knownSize
  <2>1. IsFiniteSet(ToSet(s.unverified)) /\ b \notin ToSet(s.unverified)
    BY <1>1, SetOf DEF OnWay
  <2>2. Cardinality(ToSet(s.unverified) \cup {b}) = Cardinality(ToSet(s.unverified)) + 1
    BY <2>1, FS_AddElement
  <2>3. Cardinality(ToSet(s.verified)) \in Nat /\ Cardinality(ToSet(s.unverified)) \in Nat /\ Cardinality(Done(s)) \in Nat
    BY <1>1, DoneFacts
  <2>4. Held(t) = Cardinality(ToSet(s.verified)) + (Cardinality(ToSet(s.unverified)) + 1) + Cardinality(Done(s))
    BY <1>2, <1>4, <1>5, <2>2 DEF Held
  <2>5. Held(s) = Cardinality(ToSet(s.verified)) + Cardinality(ToSet(s.unverified)) + Cardinality(Done(s))
    BY DEF Held
  <2>6. Held(s) <= s.knownSize
    BY DEF Sane
  <2>7. Held(t) = Held(s) + 1 /\ Held(s) \in Nat
    BY <2>3, <2>4, <2>5
  <2> QED BY <1>1, <1>4, <2>6, <2>7
<1>7. Apart(t)
  BY <1>2, <1>4, <1>5 DEF Apart, Sane, OnWay
<1>8. Sane(t)
  BY <1>3, <1>4, <1>5, <1>6, <1>7 DEF Sane
<1> QED BY <1>4, <1>5, <1>8

\* updateBad has taken the blocks of B, and what descends from them, out of the queues
Cut(s, B, t) ==
    /\ ToSet(t.verified) \subseteq ToSet(s.verified) /\ ToSet(t.verifying) \subseteq ToSet(s.verifying)
    /\ ToSet(t.unverified) \subseteq ToSet(s.unverified) /\ ToSet(t.unknown) \subseteq ToSet(s.unknown)
    /\ OnWay(t) \subseteq OnWay(s) /\ t.ready \subseteq s.ready /\ s.ready \subseteq t.ready \cup t.bad
    /\ s.bad \cup B \subseteq t.bad /\ t.bad \subseteq s.bad \cup B \cup OnWay(s) \cup ToSet(s.unknown) \cup {Uncles}
    /\ Tidy(s) /\ B \cap OnWay(s) = {} => Tidy(t)
    /\ Unmixed(s) /\ B \cap ToSet(s.unknown) = {} => Unmixed(t)

\* What updateBad does after blocks have been marked bad.
LEMMA CutFacts ==
    ASSUME NEW s, NEW u, NEW t, NEW B,
           u.verified = s.verified, u.verifying = s.verifying, u.unverified = s.unverified, u.unknown = s.unknown,
           u.ready = s.ready, u.bad = s.bad \cup B, Purged(u, t), Clean(t)
    PROVE  Cut(s, B, t)
<1>1. Hashes(u) = Hashes(s) /\ OnWay(u) = OnWay(s) /\ Hashes(t) \subseteq Hashes(u)
  BY DEF Hashes, OnWay, Purged
<1>2. OnWay(t) \subseteq OnWay(s)
  BY <1>1 DEF OnWay, Purged
<1>3. ASSUME Tidy(s), B \cap OnWay(s) = {} PROVE Tidy(t)
  <2>1. Tidy(u)
    BY <1>1, <1>3 DEF Tidy
  <2>2. DoneFine(t)
    BY <2>1, TidyDone DEF Purged
  <2> QED BY <2>2, TidyFacts
<1>4. ASSUME Unmixed(s), B \cap ToSet(s.unknown) = {} PROVE Unmixed(t)
  <2>1. Unmixed(u)
    BY <1>4 DEF Unmixed
  <2> QED BY <2>1 DEF Purged
<1> QED BY <1>1, <1>2, <1>3, <1>4 DEF Cut, Purged

-----------------------------------------------------------------------------
(* What import may do with a block that it does not know.                  *)

\* the blocks on their way and the sets that import asks are the same
Untouched(s, t) ==
    /\ t.verified = s.verified /\ t.verifying = s.verifying /\ t.unverified = s.unverified
    /\ t.ready = s.ready /\ t.draining = s.draining /\ t.bad = s.bad

\* the block is known already, or goes to m_future
Postponed(s, b, t) == Untouched(s, t) /\ t.unknown = s.unknown

\* the parent of the block is unknown
Waits(s, b, t) ==
    /\ b \notin Known(s) \cup chain /\ Parent[b] \notin s.ready \cup s.draining \cup chain
    /\ Untouched(s, t) /\ ToSet(t.unknown) = ToSet(s.unknown) \cup {b}

\* the parent of the block is bad
Refused(s, b, t) ==
    b \notin Known(s) \cup chain /\ Parent[b] \in s.bad /\ t.draining = s.draining /\ Cut(s, {b}, t)

\* the block is ready, and f, the descendants that waited for it
Accepted(s, b, t) ==
    /\ b \notin Known(s) \cup chain /\ Parent[b] \in s.ready \cup s.draining \cup chain
    /\ t.verified = s.verified /\ t.verifying = s.verifying /\ t.draining = s.draining /\ t.bad = s.bad
    /\ \E f \in Seq(Block) :
        /\ t.unverified = Append(s.unverified, b) \o f /\ ToSet(f) \subseteq ToSet(s.unknown)
        /\ t.ready = s.ready \cup {b} \cup ToSet(f) /\ ToSet(t.unknown) = ToSet(s.unknown) \ ToSet(f)
        /\ OnWay(t) = OnWay(s) \cup {b} \cup ToSet(f)
        /\ \A x \in ToSet(s.unknown) : Parent[x] \in ToSet(f) \cup {b} => x \in ToSet(f)
        /\ \A j \in DOMAIN f : Parent[f[j]] = b \/ \E i \in 1..(j - 1) : f[i] = Parent[f[j]]

\* import postpones a block, lets it wait for its parent, refuses it or accepts
\* it.
LEMMA ImportFacts ==
    ASSUME NEW s, Sane(s), NEW b \in Block, NEW ours, NEW t, t = Import(s, b, ours)
    PROVE  Sane(t) /\ (Postponed(s, b, t) \/ Waits(s, b, t) \/ Refused(s, b, t) \/ Accepted(s, b, t))
<1>1. /\ s \in Queue /\ s.unknown \in Seq(Block) /\ s.future \in Seq(Block) /\ s.unknownSize \in 0..(Word - 1)
      /\ s.bad \subseteq Block \cup {Uncles}
  BY QueueFields DEF Sane
<1>2. CASE b \in Known(s) \cup chain
  BY <1>2 DEF Import, Postponed, Untouched
<1>3. CASE b \notin Known(s) \cup chain /\ Time[b] > clock /\ ~ours
  <2>1. t = [s EXCEPT !.future = Append(@, b), !.unknownSize = @]
    BY <1>3 DEF Import, InsertSize
  <2>2. Append(s.future, b) \in Seq(Block)
    BY <1>1, SetOfAppend
  <2>3. t \in Queue
    <3>1. [s EXCEPT !.future = Append(@, b), !.unknownSize = @] \in Queue
      BY <1>1, <2>2 DEF Queue
    <3> QED BY <2>1, <3>1
  <2>4. Untouched(s, t) /\ t.unknown = s.unknown /\ t.knownSize = s.knownSize
    BY <1>1, <2>1 DEF Queue, Untouched
  <2>5. OnWay(t) = OnWay(s) /\ Hashes(t) = Hashes(s) /\ Held(t) = Held(s)
    BY <2>4 DEF OnWay, Hashes, Held, Done, Untouched
  <2>6. Sane(t)
    BY <2>3, <2>4, <2>5 DEF Sane, Apart, Untouched
  <2> QED BY <2>4, <2>6 DEF Postponed
<1>4. CASE b \notin Known(s) \cup chain /\ ~(Time[b] > clock /\ ~ours)
  <2>1. b \notin s.ready /\ b \notin s.draining /\ b \notin ToSet(s.unknown) /\ b \notin s.bad /\ b \notin OnWay(s)
    BY <1>4 DEF Known, Sane
  <2>2. CASE Parent[b] \in s.bad
    <3> DEFINE u == [s EXCEPT !.bad = @ \cup {b}]
    <3>1. t = UpdateBad(u, b)
      BY <1>4, <2>2 DEF Import
    <3>2. u \in Queue
      <4>1. s.bad \cup {b} \subseteq Block \cup {Uncles}
        BY <1>1
      <4> QED BY <1>1, <4>1 DEF Queue
    <3>3. Untouched([s EXCEPT !.bad = @ \cup {b}], u) /\ u.unknown = s.unknown /\ u.knownSize = s.knownSize
          /\ u.verified = s.verified /\ u.verifying = s.verifying /\ u.unverified = s.unverified
          /\ u.ready = s.ready /\ u.draining = s.draining /\ u.bad = s.bad \cup {b}
      BY <1>1 DEF Queue, Untouched
    <3> HIDE DEF u
    <3>4. OnWay(u) = OnWay(s) /\ Hashes(u) = Hashes(s) /\ Held(u) = Held(s)
      BY <3>3 DEF OnWay, Hashes, Held, Done
    <3>5. Sane(u)
      BY <3>2, <3>3, <3>4 DEF Sane, Apart
    <3>6. Sane(t) /\ Purged(u, t) /\ Clean(t)
      BY <3>1, <3>5, UpdateBadFacts
    <3>7. Cut(s, {b}, t)
      BY <3>3, <3>6, CutFacts
    <3> QED BY <1>4, <2>2, <3>3, <3>6, <3>7 DEF Refused, Purged
  <2>3. CASE Parent[b] \notin s.bad /\ Parent[b] \notin s.ready \cup s.draining \cup chain
    <3>1. t = [s EXCEPT !.unknown = Append(@, b), !.unknownSize = @]
      BY <1>4, <2>3 DEF Import, InsertSize
    <3>2. /\ Append(s.unknown, b) \in Seq(Block) /\ ToSet(Append(s.unknown, b)) = ToSet(s.unknown) \cup {b}
          /\ Distinct(Append(s.unknown, b))
      <4>1. Distinct(s.unknown)
        BY DEF Sane, Apart
      <4> QED BY <1>1, <2>1, <4>1, SetOfAppend
    <3>3. t \in Queue
      <4>1. [s EXCEPT !.unknown = Append(@, b), !.unknownSize = @] \in Queue
        BY <1>1, <3>2 DEF Queue
      <4> QED BY <3>1, <4>1
    <3>4. Untouched(s, t) /\ t.unknown = Append(s.unknown, b) /\ t.knownSize = s.knownSize
      BY <1>1, <3>1 DEF Queue, Untouched
    <3>5. OnWay(t) = OnWay(s) /\ Hashes(t) = Hashes(s) /\ Held(t) = Held(s)
      BY <3>4 DEF OnWay, Hashes, Held, Done, Untouched
    <3>6. Apart(t)
      BY <2>1, <3>2, <3>4, <3>5 DEF Sane, Apart, Untouched
    <3>7. Sane(t)
      BY <3>3, <3>4, <3>5, <3>6 DEF Sane, Untouched
    <3> QED BY <1>4, <2>3, <3>2, <3>4, <3>7 DEF Waits
  <2>4. CASE Parent[b] \notin s.bad /\ Parent[b] \in s.ready \cup s.draining \cup chain
    <3> DEFINE u == [s EXCEPT !.unverified = Append(@, b), !.ready = @ \cup {b}, !.knownSize = @ + 1]
               f == Family(b, u.unknown)
    <3>1. t = NoteReady(u, b)
      BY <1>4, <2>4 DEF Import
    <3>2. /\ Sane(u) /\ u.verified = s.verified /\ u.verifying = s.verifying /\ u.unverified = Append(s.unverified, b)
          /\ u.ready = s.ready \cup {b} /\ u.unknown = s.unknown /\ u.draining = s.draining /\ u.bad = s.bad
          /\ OnWay(u) = OnWay(s) \cup {b}
      <4>1. b \in Block /\ u = Add(s, b)
        BY DEF Add
      <4> HIDE DEF u
      <4> QED BY <2>1, <4>1, AddFacts
    <3> HIDE DEF u
    <3>3. Sane(t) /\ Readied(u, b, f, t)
      <4>1. b \notin ToSet(u.unknown)
        BY <2>1, <3>2
      <4> QED BY <3>1, <3>2, <4>1, NoteReadyFacts
    <3> HIDE DEF f
    <3>4. /\ f \in Seq(Block) /\ ToSet(f) \subseteq ToSet(u.unknown)
          /\ t.verified = u.verified /\ t.verifying = u.verifying /\ t.unverified = u.unverified \o f
          /\ t.ready = u.ready \cup ToSet(f) /\ ToSet(t.unknown) = ToSet(u.unknown) \ ToSet(f)
          /\ t.draining = u.draining /\ t.bad = u.bad /\ OnWay(t) = OnWay(u) \cup ToSet(f)
          /\ \A x \in ToSet(u.unknown) : Parent[x] \in ToSet(f) \cup {b} => x \in ToSet(f)
          /\ \A j \in DOMAIN f : Parent[f[j]] = b \/ \E i \in 1..(j - 1) : f[i] = Parent[f[j]]
      BY <3>3 DEF Readied
    <3>5. Accepted(s, b, t)
      <4>1. /\ t.unverified = Append(s.unverified, b) \o f /\ ToSet(f) \subseteq ToSet(s.unknown)
            /\ t.ready = s.ready \cup {b} \cup ToSet(f) /\ ToSet(t.unknown) = ToSet(s.unknown) \ ToSet(f)
            /\ OnWay(t) = OnWay(s) \cup {b} \cup ToSet(f)
            /\ \A x \in ToSet(s.unknown) : Parent[x] \in ToSet(f) \cup {b} => x \in ToSet(f)
            /\ \A j \in DOMAIN f : Parent[f[j]] = b \/ \E i \in 1..(j - 1) : f[i] = Parent[f[j]]
        BY <3>2, <3>4
      <4>2. t.verified = s.verified /\ t.verifying = s.verifying /\ t.draining = s.draining /\ t.bad = s.bad
        BY <3>2, <3>4
      <4>3. f \in Seq(Block)
        BY <3>4
      <4> QED BY <1>4, <2>4, <4>1, <4>2, <4>3, Zenon DEF Accepted
    <3> QED BY <3>3, <3>5
  <2> QED BY <2>2, <2>3, <2>4
<1> QED BY <1>2, <1>3, <1>4

-----------------------------------------------------------------------------
(* The steps of the verifiers and of the client.                           *)

\* Moving the first of what is behind to the end of what is before changes
\* nothing.
LEMMA AppendTail ==
    ASSUME NEW T, NEW m \in Seq(T), NEW u \in Seq(T), u # <<>>
    PROVE  Append(m, Head(u)) \o Tail(u) = m \o u
<1> DEFINE x == Append(m, Head(u))
           w == Tail(u)
           l == x \o w
           r == m \o u
           a == Len(m)
           c == Len(u)
<1>1. a \in Nat /\ c \in Nat /\ c >= 1 /\ Head(u) = u[1] /\ Head(u) \in T
  BY EmptySeq
<1>2. x \in Seq(T) /\ Len(x) = a + 1 /\ (\A i \in 1..a : x[i] = m[i]) /\ x[a + 1] = u[1]
  BY <1>1, AppendProperties
<1>3. w \in Seq(T) /\ Len(w) = c - 1 /\ (\A i \in 1..(c - 1) : w[i] = u[i + 1])
  BY HeadTailProperties
<1> HIDE DEF x, w
<1>4. l \in Seq(T) /\ Len(l) = a + c /\ \A i \in 1..(a + c) : l[i] = IF i <= a + 1 THEN x[i] ELSE w[i - (a + 1)]
  <2>1. l \in Seq(T) /\ Len(l) = Len(x) + Len(w)
        /\ \A i \in 1..(Len(x) + Len(w)) : l[i] = IF i <= Len(x) THEN x[i] ELSE w[i - Len(x)]
    BY <1>2, <1>3, ConcatProperties
  <2>2. Len(x) + Len(w) = a + c
    <3> HIDE DEF a, c
    <3> QED BY <1>1, <1>2, <1>3
  <2> HIDE DEF l, a, c
  <2> QED BY <1>2, <2>1, <2>2
<1>5. r \in Seq(T) /\ Len(r) = a + c /\ \A i \in 1..(a + c) : r[i] = IF i <= a THEN m[i] ELSE u[i - a]
  BY ConcatProperties
<1> HIDE DEF l, r, a, c
<1>6. ASSUME NEW i \in 1..(a + c) PROVE l[i] = r[i]
  <2>1. CASE i <= a
    BY <2>1, <1>1, <1>2, <1>4, <1>5
  <2>2. CASE i = a + 1
    <3>1. l[i] = x[a + 1] /\ r[i] = u[1]
      BY <2>2, <1>1, <1>4, <1>5
    <3> QED BY <3>1, <1>2
  <2>3. CASE i > a + 1
    <3>1. i - (a + 1) \in 1..(c - 1) /\ i - a \in 1..c /\ (i - (a + 1)) + 1 = i - a
      BY <2>3, <1>1
    <3>2. l[i] = w[i - (a + 1)] /\ r[i] = u[i - a]
      BY <2>3, <1>1, <1>4, <1>5
    <3>3. w[i - (a + 1)] = u[(i - (a + 1)) + 1]
      BY <3>1, <1>3
    <3> QED BY <3>1, <3>2, <3>3
  <2> QED BY <2>1, <2>2, <2>3, <1>1
<1>7. l = r
  BY <1>4, <1>5, <1>6, SeqEqual
<1> QED BY <1>7 DEF l, r, x, w

\* push_back commutes with putting a sequence in front.
LEMMA ConcatAppend ==
    ASSUME NEW T, NEW v \in Seq(T), NEW h \in Seq(T), NEW b \in T
    PROVE  v \o Append(h, b) = Append(v \o h, b)
<1> DEFINE x == Append(h, b)
           m == v \o h
           l == v \o x
           r == Append(m, b)
           a == Len(v)
           c == Len(h)
<1>1. a \in Nat /\ c \in Nat
  OBVIOUS
<1>2. x \in Seq(T) /\ Len(x) = c + 1 /\ (\A i \in 1..c : x[i] = h[i]) /\ x[c + 1] = b
  BY AppendProperties
<1>3. m \in Seq(T) /\ Len(m) = a + c /\ \A i \in 1..(a + c) : m[i] = IF i <= a THEN v[i] ELSE h[i - a]
  BY ConcatProperties
<1> HIDE DEF x, m
<1>4. l \in Seq(T) /\ Len(l) = a + c + 1 /\ \A i \in 1..(a + c + 1) : l[i] = IF i <= a THEN v[i] ELSE x[i - a]
  <2>1. l \in Seq(T) /\ Len(l) = a + Len(x)
        /\ \A i \in 1..(a + Len(x)) : l[i] = IF i <= a THEN v[i] ELSE x[i - a]
    <3>1. x \in Seq(T)
      BY <1>2
    <3> QED BY <3>1, ConcatProperties
  <2>2. a + Len(x) = a + c + 1
    <3> HIDE DEF a, c
    <3> QED BY <1>1, <1>2
  <2> HIDE DEF l, a, c
  <2> QED BY <1>2, <2>1, <2>2
<1>5. r \in Seq(T) /\ Len(r) = a + c + 1 /\ (\A i \in 1..(a + c) : r[i] = m[i]) /\ r[a + c + 1] = b
  <2>1. r \in Seq(T) /\ Len(r) = Len(m) + 1 /\ (\A i \in 1..Len(m) : r[i] = m[i]) /\ r[Len(m) + 1] = b
    <3>1. m \in Seq(T) /\ b \in T
      BY <1>3
    <3> QED BY ONLY <3>1, AppendProperties DEF r
  <2> HIDE DEF r, a, c
  <2> QED BY <1>3, <2>1
<1> HIDE DEF l, r, a, c
<1>6. ASSUME NEW i \in 1..(a + c + 1) PROVE l[i] = r[i]
  <2>1. CASE i <= a
    <3>1. i \in 1..(a + c)
      BY <2>1, <1>1
    <3>2. l[i] = v[i]
      BY <2>1, <1>4
    <3>3. r[i] = m[i]
      BY <3>1, <1>5
    <3>4. m[i] = v[i]
      BY <2>1, <3>1, <1>3
    <3> QED BY <3>2, <3>3, <3>4
  <2>2. CASE i > a /\ i <= a + c
    <3>1. l[i] = x[i - a] /\ i - a \in 1..c
      BY <2>2, <1>1, <1>4
    <3>2. r[i] = h[i - a]
      BY <2>2, <1>1, <1>3, <1>5
    <3> QED BY <3>1, <3>2, <1>2
  <2>3. CASE i = a + c + 1
    <3>1. l[i] = x[i - a] /\ i - a = c + 1
      BY <2>3, <1>1, <1>4
    <3> QED BY <2>3, <3>1, <1>2, <1>5
  <2> QED BY <2>1, <2>2, <2>3, <1>1
<1>7. l = r
  BY <1>4, <1>5, <1>6, SeqEqual
<1> QED BY <1>7 DEF l, r, x, m

\* A block that goes from m_unverified to m_verifying keeps its place in the
\* pipeline.
LEMMA PipeTake ==
    ASSUME NEW v \in Seq(Block), NEW y \in Seq(Entry), NEW u \in Seq(Block), u # <<>>, NEW e \in Entry, e.hash = Head(u)
    PROVE  v \o HashSeq(Append(y, e)) \o Tail(u) = v \o HashSeq(y) \o u
<1> DEFINE h == HashSeq(y)
           b == Head(u)
           w == Tail(u)
<1>1. h \in Seq(Block) /\ b \in Block /\ w \in Seq(Block)
  BY HeadTailProperties, HashSeqFacts
<1>2. HashSeq(Append(y, e)) = Append(h, b)
  <2> DEFINE a == Append(y, e)
             l == HashSeq(a)
             r == Append(h, b)
             n == Len(y)
  <2>1. a \in Seq(Entry) /\ Len(a) = n + 1 /\ (\A i \in 1..n : a[i] = y[i]) /\ a[n + 1] = e /\ n \in Nat
    BY AppendProperties
  <2>2. l \in Seq(Block) /\ Len(l) = n + 1 /\ (\A i \in 1..(n + 1) : l[i] = a[i].hash)
    <3> HIDE DEF a, n
    <3> QED BY <2>1, HashSeqFacts
  <2>3. Len(h) = n /\ \A i \in 1..n : h[i] = y[i].hash
    BY HashSeqFacts
  <2> HIDE DEF h, b
  <2>4. r \in Seq(Block) /\ Len(r) = n + 1 /\ (\A i \in 1..n : r[i] = h[i]) /\ r[n + 1] = b
    <3>1. r \in Seq(Block) /\ Len(r) = Len(h) + 1 /\ (\A i \in 1..Len(h) : r[i] = h[i]) /\ r[Len(h) + 1] = b
      BY <1>1, AppendProperties
    <3> HIDE DEF r
    <3> QED BY <2>3, <3>1
  <2> HIDE DEF a, l, r, n
  <2>5. \A i \in 1..(n + 1) : l[i] = r[i]
    <3> SUFFICES ASSUME NEW i \in 1..(n + 1) PROVE l[i] = r[i]
      OBVIOUS
    <3>1. CASE i \in 1..n
      <4>1. l[i] = a[i].hash /\ a[i] = y[i] /\ r[i] = h[i] /\ h[i] = y[i].hash
        BY <3>1, <2>1, <2>2, <2>3, <2>4
      <4> QED BY <4>1
    <3>2. CASE i = n + 1
      <4>1. l[i] = a[i].hash /\ a[i] = e /\ r[i] = b
        BY <3>2, <2>1, <2>2, <2>4
      <4> QED BY <4>1 DEF b
    <3> QED BY <3>1, <3>2, <2>1
  <2>6. l = r
    BY <2>2, <2>4, <2>5, SeqEqual
  <2> QED BY <2>6 DEF a, l, r
<1> HIDE DEF h, b, w
<1> DEFINE m == v \o h
<1>3. m \in Seq(Block) /\ v \o Append(h, b) = Append(m, b)
  BY <1>1, ConcatProperties, ConcatAppend
<1> HIDE DEF m
<1>4. Append(m, b) \o w = m \o u
  BY <1>3, AppendTail DEF b, w
<1>5. v \o HashSeq(Append(y, e)) = Append(m, b)
  BY <1>2, <1>3
<1>6. v \o HashSeq(Append(y, e)) \o w = v \o h \o u
  BY <1>4, <1>5 DEF m
<1> QED BY <1>6 DEF h, w

\* the first block of m_unverified moves to m_verifying
Take(s) == [s EXCEPT !.unverified = Tail(@), !.knownSize = @ - 1,
                     !.verifying = Append(@, [hash |-> Head(s.unverified), done |-> FALSE])]

\* b is being verified now
Taken(s, b, t) ==
    /\ b \in Block /\ b \in ToSet(s.unverified) /\ b \notin ToSet(t.unverified)
    /\ ToSet(t.unverified) \subseteq ToSet(s.unverified)
    /\ ToSet(t.verifying) = ToSet(s.verifying) \cup {[hash |-> b, done |-> FALSE]}
    /\ t.verified = s.verified /\ t.unknown = s.unknown /\ t.ready = s.ready /\ t.draining = s.draining
    /\ t.bad = s.bad /\ OnWay(t) = OnWay(s) /\ Pipe(t) = Pipe(s)

\* A verifier takes the first block of m_unverified: it stays on its way.
LEMMA TakeFacts ==
    ASSUME NEW s, Sane(s), s.unverified # <<>>
    PROVE  Sane(Take(s)) /\ Taken(s, Head(s.unverified), Take(s))
<1> DEFINE b == Head(s.unverified)
           e == [hash |-> b, done |-> FALSE]
           t == Take(s)
<1>1. s \in Queue /\ s.unverified \in Seq(Block) /\ s.verifying \in Seq(Entry) /\ s.verified \in Seq(Block) /\ s.knownSize \in Nat
  BY QueueFields DEF Sane
<1>2. /\ b \in Block /\ b \in ToSet(s.unverified) /\ Tail(s.unverified) \in Seq(Block)
      /\ ToSet(s.unverified) = ToSet(Tail(s.unverified)) \cup {b}
      /\ b \notin ToSet(Tail(s.unverified)) /\ Distinct(Tail(s.unverified))
  <2>1. Distinct(s.unverified)
    BY DEF Sane, Apart
  <2> QED BY <1>1, <2>1, SetOfTail
<1> HIDE DEF b
<1>3. e \in Entry /\ e.hash = b /\ ~e.done
  BY <1>2 DEF Entry
<1>4. b \notin Hashes(s)
  BY <1>2 DEF Sane, Apart
<1>5. e \notin ToSet(s.verifying)
  BY <1>3, <1>4 DEF Hashes
<1>6. /\ Append(s.verifying, e) \in Seq(Entry) /\ ToSet(Append(s.verifying, e)) = ToSet(s.verifying) \cup {e}
      /\ Distinct(Append(s.verifying, e))
  <2>1. Distinct(s.verifying)
    BY DEF Sane, Apart
  <2> HIDE DEF e
  <2> QED BY <1>1, <1>3, <1>5, <2>1, SetOfAppend
<1>7. Pipe(s) = s.verified \o HashSeq(s.verifying) \o s.unverified
  BY PipeFacts
<1>8. s.verified \o HashSeq(Append(s.verifying, e)) \o Tail(s.unverified) = s.verified \o HashSeq(s.verifying) \o s.unverified
  <2> HIDE DEF e
  <2> QED BY <1>1, <1>3, PipeTake DEF b
<1>9. t = [s EXCEPT !.unverified = Tail(s.unverified), !.knownSize = s.knownSize - 1, !.verifying = Append(s.verifying, e)]
  BY DEF Take, b
<1> HIDE DEF t, e
<1>10. /\ t.verified = s.verified /\ t.verifying = Append(s.verifying, e) /\ t.unverified = Tail(s.unverified)
       /\ t.ready = s.ready /\ t.unknown = s.unknown /\ t.draining = s.draining /\ t.bad = s.bad
       /\ t.knownSize = s.knownSize - 1
  BY <1>1, <1>9 DEF Queue
<1>11. Hashes(t) = Hashes(s) \cup {b} /\ Done(t) = Done(s)
  BY <1>3, <1>6, <1>10 DEF Hashes, Done
<1>12. OnWay(t) = OnWay(s)
  BY <1>2, <1>10, <1>11 DEF OnWay
<1>13. Held(t) <= t.knownSize /\ t.knownSize \in Nat
  <2>1. IsFiniteSet(ToSet(s.unverified)) /\ ToSet(t.unverified) = ToSet(s.unverified) \ {b}
    <3>1. IsFiniteSet(ToSet(s.unverified))
      BY <1>1, SetOf
    <3> QED BY <1>2, <1>10, <3>1
  <2>2. Cardinality(ToSet(s.unverified) \ {b}) = Cardinality(ToSet(s.unverified)) - 1
    BY <1>2, <2>1, FS_RemoveElement
  <2>3. Cardinality(ToSet(s.verified)) \in Nat /\ Cardinality(ToSet(s.unverified)) \in Nat /\ Cardinality(Done(s)) \in Nat
    BY <1>1, DoneFacts
  <2>4. Held(t) = Cardinality(ToSet(s.verified)) + (Cardinality(ToSet(s.unverified)) - 1) + Cardinality(Done(s))
    BY <1>10, <1>11, <2>1, <2>2 DEF Held
  <2>5. Held(s) = Cardinality(ToSet(s.verified)) + Cardinality(ToSet(s.unverified)) + Cardinality(Done(s))
    BY DEF Held
  <2>6. Held(s) <= s.knownSize
    BY DEF Sane
  <2>7. Cardinality(ToSet(s.unverified)) # 0
    BY <1>2, <2>1, FS_EmptySet
  <2>8. Held(t) = Held(s) - 1 /\ Held(s) \in Nat /\ Held(s) >= 1
    BY <2>3, <2>4, <2>5, <2>7
  <2> QED BY <1>1, <1>10, <2>6, <2>8
<1>14. t \in Queue
  <2>1. s.knownSize - 1 \in Nat
    BY <1>10, <1>13
  <2>2. [s EXCEPT !.unverified = Tail(s.unverified), !.knownSize = s.knownSize - 1, !.verifying = Append(s.verifying, e)] \in Queue
    BY <1>1, <1>2, <1>6, <2>1 DEF Queue, Entry
  <2> QED BY <1>9, <2>2
<1>15. Apart(t)
  <2>1. \A x, y \in ToSet(t.verifying) : x.hash = y.hash => x = y
    <3>1. \A x \in ToSet(s.verifying) : x.hash # b
      BY <1>4 DEF Hashes
    <3>2. \A x, y \in ToSet(s.verifying) : x.hash = y.hash => x = y
      BY DEF Sane, Apart
    <3> QED BY <1>3, <1>6, <1>10, <3>1, <3>2
  <2> QED BY <2>1, <1>2, <1>6, <1>10, <1>11, <1>12 DEF Sane, Apart, OnWay
<1>16. Sane(t)
  BY <1>10, <1>12, <1>13, <1>14, <1>15 DEF Sane
<1>17. Pipe(t) = Pipe(s)
  BY <1>7, <1>8, <1>10, <1>16, PipeFacts
<1>18. ToSet(t.verifying) = ToSet(s.verifying) \cup {[hash |-> b, done |-> FALSE]}
  BY <1>6, <1>10 DEF e
<1>19. Taken(s, b, t)
  BY <1>2, <1>10, <1>12, <1>17, <1>18 DEF Taken
<1> QED BY <1>16, <1>19 DEF b, t

\* w is o and then p
Follows(o, p, w) ==
    /\ Len(w) = Len(o) + Len(p)
    /\ \A i \in 1..Len(o) : w[i] = o[i]
    /\ \A i \in 1..Len(p) : w[Len(o) + i] = p[i]

\* Concatenation, element by element.
LEMMA FollowsConcat ==
    ASSUME NEW T, NEW o \in Seq(T), NEW p \in Seq(T)
    PROVE  Follows(o, p, o \o p) /\ o \o p \in Seq(T)
<1> DEFINE w == o \o p
           a == Len(o)
           c == Len(p)
<1>1. w \in Seq(T) /\ Len(w) = a + c /\ \A i \in 1..(a + c) : w[i] = IF i <= a THEN o[i] ELSE p[i - a]
  BY ConcatProperties
<1>2. a \in Nat /\ c \in Nat
  BY LenProperties
<1> HIDE DEF w, a, c
<1>3. \A i \in 1..a : w[i] = o[i]
  BY <1>1, <1>2
<1>4. \A i \in 1..c : w[a + i] = p[i]
  <2> SUFFICES ASSUME NEW i \in 1..c PROVE w[a + i] = p[i]
    OBVIOUS
  <2>1. a + i \in 1..(a + c) /\ ~(a + i <= a) /\ (a + i) - a = i
    BY <1>2
  <2>2. w[a + i] = p[(a + i) - a]
    BY <1>1, <2>1
  <2> QED BY <2>1, <2>2
<1>5. Follows(o, p, w)
  BY <1>1, <1>3, <1>4 DEF Follows, a, c
<1> QED BY <1>1, <1>5 DEF w

\* What is put behind both stays behind.
LEMMA FollowsMore ==
    ASSUME NEW T, NEW o \in Seq(T), NEW p \in Seq(T), NEW w \in Seq(T), NEW x \in Seq(T), Follows(o, p, w)
    PROVE  Follows(o, p \o x, w \o x) /\ p \o x \in Seq(T) /\ w \o x \in Seq(T)
<1> DEFINE y == p \o x
           z == w \o x
           a == Len(o)
           c == Len(p)
           d == Len(x)
<1>1. y \in Seq(T) /\ Len(y) = c + d /\ (\A i \in 1..c : y[i] = p[i]) /\ \A i \in 1..d : y[c + i] = x[i]
  BY FollowsConcat DEF Follows
<1>2. z \in Seq(T) /\ Len(z) = Len(w) + d /\ (\A i \in 1..Len(w) : z[i] = w[i]) /\ \A i \in 1..d : z[Len(w) + i] = x[i]
  <2>1. z \in Seq(T) /\ Follows(w, x, z)
    BY FollowsConcat
  <2> HIDE DEF z
  <2> QED BY <2>1 DEF Follows
<1>3. a \in Nat /\ c \in Nat /\ d \in Nat
  BY LenProperties
<1>4. Len(w) = a + c /\ (\A i \in 1..a : w[i] = o[i]) /\ \A i \in 1..c : w[a + i] = p[i]
  BY DEF Follows
<1> HIDE DEF y, z, a, c, d
<1>5. Len(z) = a + Len(y)
  BY <1>1, <1>2, <1>3, <1>4
<1>6. \A i \in 1..a : z[i] = o[i]
  <2> SUFFICES ASSUME NEW i \in 1..a PROVE z[i] = o[i]
    OBVIOUS
  <2>1. i \in 1..Len(w)
    BY <1>3, <1>4
  <2> QED BY <2>1, <1>2, <1>4
<1>7. \A i \in 1..Len(y) : z[a + i] = y[i]
  <2> SUFFICES ASSUME NEW i \in 1..(c + d) PROVE z[a + i] = y[i]
    BY <1>1
  <2>1. CASE i <= c
    <3>1. i \in 1..c /\ a + i \in 1..Len(w)
      BY <2>1, <1>3, <1>4
    <3> QED BY <3>1, <1>1, <1>2, <1>4
  <2>2. CASE i > c
    <3>1. i - c \in 1..d /\ c + (i - c) = i /\ Len(w) + (i - c) = a + i
      BY <2>2, <1>3, <1>4
    <3>2. y[c + (i - c)] = x[i - c] /\ z[Len(w) + (i - c)] = x[i - c]
      BY <3>1, <1>1, <1>2
    <3> QED BY <3>1, <3>2
  <2> QED BY <2>1, <2>2, <1>3
<1>8. Follows(o, y, z)
  BY <1>5, <1>6, <1>7 DEF Follows, a
<1> QED BY <1>1, <1>2, <1>8 DEF y, z

\* the first k verified blocks are handed to the client
Fetch(s, k) ==
    [s EXCEPT !.verified  = SubSeq(@, k + 1, Len(@)),
              !.draining  = @ \cup ToSet(SubSeq(s.verified, 1, k)),
              !.ready     = @ \ ToSet(SubSeq(s.verified, 1, k)),
              !.knownSize = @ - k]

\* the blocks of out are being imported now
Fetched(s, out, t) ==
    /\ out \in Seq(Block) /\ Distinct(out) /\ ToSet(out) \subseteq ToSet(s.verified) /\ ToSet(out) \cap OnWay(t) = {}
    /\ ToSet(t.verified) \subseteq ToSet(s.verified) /\ t.verifying = s.verifying /\ t.unverified = s.unverified
    /\ t.unknown = s.unknown /\ t.bad = s.bad /\ t.ready = s.ready \ ToSet(out) /\ t.draining = s.draining \cup ToSet(out)
    /\ OnWay(s) = OnWay(t) \cup ToSet(out) /\ Follows(out, Pipe(t), Pipe(s))

\* o is the first k elements of v and r the others
Split(v, k, o, r) ==
    /\ o \in Seq(Block) /\ Len(o) = k /\ Distinct(o) /\ r \in Seq(Block) /\ Distinct(r)
    /\ ToSet(v) = ToSet(o) \cup ToSet(r) /\ ToSet(o) \cap ToSet(r) = {} /\ Follows(o, r, v)

\* The first k elements and the others make up the sequence.
LEMMA SplitFacts ==
    ASSUME NEW v \in Seq(Block), Distinct(v), NEW k \in 0..Len(v)
    PROVE  Split(v, k, SubSeq(v, 1, k), SubSeq(v, k + 1, Len(v)))
<1> DEFINE n == Len(v)
           o == SubSeq(v, 1, k)
           r == SubSeq(v, k + 1, n)
<1>1. n \in Nat /\ v \in [1..n -> Block] /\ k \in Nat /\ k <= n
  <2>1. n \in Nat /\ v \in [1..n -> Block] /\ k \in 0..n
    BY LenProperties
  <2> HIDE DEF n
  <2> QED BY <2>1
<1>2. o \in Seq(Block) /\ Len(o) = k /\ \A i \in 1..k : o[i] = v[i]
  <2>1. \A i \in 1..k : v[i] \in Block
    BY <1>1
  <2>2. o \in Seq(Block) /\ Len(o) = (IF 1 <= k THEN k - 1 + 1 ELSE 0) /\ \A i \in 1..(k - 1 + 1) : o[i] = v[1 + i - 1]
    BY <1>1, <2>1, SubSeqProperties
  <2> HIDE DEF n
  <2>3. k - 1 + 1 = k /\ \A i \in 1..k : 1 + i - 1 = i
    BY <1>1
  <2> QED BY <1>1, <2>2, <2>3
<1>3. r \in Seq(Block) /\ Len(r) = n - k /\ \A i \in 1..(n - k) : r[i] = v[k + i]
  <2>1. \A i \in (k + 1)..n : v[i] \in Block
    BY <1>1
  <2>2. r \in Seq(Block) /\ Len(r) = (IF k + 1 <= n THEN n - (k + 1) + 1 ELSE 0)
        /\ \A i \in 1..(n - (k + 1) + 1) : r[i] = v[(k + 1) + i - 1]
    BY <1>1, <2>1, SubSeqProperties
  <2> HIDE DEF n
  <2>3. n - (k + 1) + 1 = n - k /\ \A i \in 1..(n - k) : (k + 1) + i - 1 = k + i
    BY <1>1
  <2>4. Len(r) = n - k
    BY <1>1, <2>2
  <2> QED BY <1>1, <2>2, <2>3, <2>4
<1>4. \A i, j \in 1..n : v[i] = v[j] => i = j
  <2>1. DOMAIN v = 1..n
    BY <1>1
  <2> QED BY <2>1 DEF Distinct
<1> HIDE DEF n, o, r
<1>5. DOMAIN o = 1..k /\ DOMAIN r = 1..(n - k) /\ DOMAIN v = 1..n
  <2>1. DOMAIN o = 1..Len(o) /\ DOMAIN r = 1..Len(r)
    BY <1>2, <1>3, LenProperties
  <2> QED BY <1>1, <1>2, <1>3, <2>1
<1>6. Distinct(o)
  <2>1. \A i, j \in 1..k : o[i] = o[j] => i = j
    BY <1>1, <1>2, <1>4
  <2> QED BY <2>1, <1>5 DEF Distinct
<1>7. Distinct(r)
  <2> SUFFICES ASSUME NEW i \in 1..(n - k), NEW j \in 1..(n - k), r[i] = r[j] PROVE i = j
    BY <1>5 DEF Distinct
  <2>1. k + i \in 1..n /\ k + j \in 1..n /\ v[k + i] = v[k + j]
    BY <1>1, <1>3
  <2>2. k + i = k + j
    BY <2>1, <1>4
  <2> QED BY <1>1, <2>2
<1>8. ToSet(o) = {v[i] : i \in 1..k} /\ ToSet(r) = {v[k + i] : i \in 1..(n - k)} /\ ToSet(v) = {v[i] : i \in 1..n}
  <2>1. ToSet(o) = {o[i] : i \in 1..k} /\ ToSet(r) = {r[i] : i \in 1..(n - k)} /\ ToSet(v) = {v[i] : i \in 1..n}
    BY <1>5 DEF ToSet
  <2>2. {o[i] : i \in 1..k} = {v[i] : i \in 1..k}
    BY <1>2
  <2>3. {r[i] : i \in 1..(n - k)} = {v[k + i] : i \in 1..(n - k)}
    BY <1>3
  <2> QED BY <2>1, <2>2, <2>3
<1>9. ToSet(v) = ToSet(o) \cup ToSet(r)
  <2>1. ASSUME NEW i \in 1..n PROVE v[i] \in ToSet(o) \cup ToSet(r)
    <3>1. CASE i <= k
      BY <3>1, <1>1, <1>8
    <3>2. CASE i > k
      <4>1. i - k \in 1..(n - k) /\ k + (i - k) = i
        BY <3>2, <1>1
      <4> QED BY <4>1, <1>8
    <3> QED BY <3>1, <3>2, <1>1
  <2>2. \A i \in 1..k : i \in 1..n
    BY <1>1
  <2>3. \A i \in 1..(n - k) : k + i \in 1..n
    BY <1>1
  <2> QED BY <2>1, <2>2, <2>3, <1>8
<1>10. ToSet(o) \cap ToSet(r) = {}
  <2> SUFFICES ASSUME NEW i \in 1..k, NEW j \in 1..(n - k), v[i] = v[k + j] PROVE FALSE
    BY <1>8
  <2>1. i \in 1..n /\ k + j \in 1..n /\ i # k + j
    BY <1>1
  <2> QED BY <2>1, <1>4
<1>11. Follows(o, r, v)
  <2>1. n = k + (n - k)
    BY <1>1
  <2> QED BY <1>2, <1>3, <2>1 DEF Follows, n
<1>12. Split(v, k, o, r)
  BY <1>2, <1>3, <1>6, <1>7, <1>9, <1>10, <1>11 DEF Split
<1> QED BY <1>12 DEF o, r, n

\* drain moves the first verified blocks from m_readySet to m_drainingSet.
LEMMA FetchFacts ==
    ASSUME NEW s, Sane(s), NEW k \in 0..Len(s.verified)
    PROVE  Sane(Fetch(s, k)) /\ Fetched(s, SubSeq(s.verified, 1, k), Fetch(s, k))
<1> DEFINE v == s.verified
           o == SubSeq(v, 1, k)
           r == SubSeq(v, k + 1, Len(v))
           t == Fetch(s, k)
<1>1. s \in Queue /\ v \in Seq(Block) /\ s.verifying \in Seq(Entry) /\ s.unverified \in Seq(Block) /\ s.knownSize \in Nat
      /\ s.ready \subseteq Block /\ s.draining \subseteq Block /\ Distinct(v) /\ ToSet(v) \subseteq Block
  <2>1. s \in Queue /\ v \in Seq(Block) /\ s.verifying \in Seq(Entry) /\ s.unverified \in Seq(Block) /\ s.knownSize \in Nat
        /\ s.ready \subseteq Block /\ s.draining \subseteq Block /\ Distinct(v)
    BY QueueFields DEF Sane, Apart
  <2> QED BY <2>1, SetOf
<1>2. /\ o \in Seq(Block) /\ Len(o) = k /\ Distinct(o) /\ r \in Seq(Block) /\ Distinct(r)
      /\ ToSet(v) = ToSet(o) \cup ToSet(r) /\ ToSet(o) \cap ToSet(r) = {} /\ Follows(o, r, v)
  <2>1. k \in 0..Len(v)
    OBVIOUS
  <2> HIDE DEF v
  <2>2. Split(v, k, o, r)
    BY <1>1, <2>1, SplitFacts
  <2> HIDE DEF o, r
  <2> QED BY <2>2 DEF Split
<1>3. t = [s EXCEPT !.verified = r, !.draining = s.draining \cup ToSet(o), !.ready = s.ready \ ToSet(o), !.knownSize = s.knownSize - k]
  BY DEF Fetch
<1>4. k \in Nat
  <2>1. Len(v) \in Nat
    BY <1>1, LenProperties
  <2> QED BY <2>1
<1> HIDE DEF t, o, r
<1>5. /\ t.verified = r /\ t.verifying = s.verifying /\ t.unverified = s.unverified /\ t.unknown = s.unknown
      /\ t.bad = s.bad /\ t.ready = s.ready \ ToSet(o) /\ t.draining = s.draining \cup ToSet(o)
      /\ t.knownSize = s.knownSize - k
  BY <1>1, <1>3 DEF Queue
<1>6. Hashes(t) = Hashes(s) /\ Done(t) = Done(s)
  BY <1>5 DEF Hashes, Done
<1>7. OnWay(s) = OnWay(t) \cup ToSet(o) /\ ToSet(o) \cap OnWay(t) = {}
  <2>1. OnWay(s) = OnWay(t) \cup ToSet(o)
    BY <1>2, <1>5, <1>6 DEF OnWay
  <2>2. ToSet(o) \cap Hashes(s) = {} /\ ToSet(o) \cap ToSet(s.unverified) = {}
    BY <1>2 DEF Sane, Apart
  <2> QED BY <2>1, <2>2, <1>2, <1>5, <1>6 DEF OnWay
<1>8. Held(t) <= t.knownSize /\ t.knownSize \in Nat
  <2>1. IsFiniteSet(ToSet(o)) /\ Cardinality(ToSet(o)) = k /\ IsFiniteSet(ToSet(r)) /\ Cardinality(ToSet(r)) \in Nat
    BY <1>2, SetOf
  <2>2. Cardinality(ToSet(o) \cup ToSet(r)) = Cardinality(ToSet(o)) + Cardinality(ToSet(r)) - Cardinality(ToSet(o) \cap ToSet(r))
    BY <2>1, FS_Union
  <2>3. Cardinality(ToSet(o) \cap ToSet(r)) = 0
    BY <1>2, FS_EmptySet
  <2>4. Cardinality(ToSet(s.verified)) = k + Cardinality(ToSet(r))
    BY <1>2, <1>4, <2>1, <2>2, <2>3
  <2>5. Cardinality(ToSet(s.verified)) \in Nat /\ Cardinality(ToSet(s.unverified)) \in Nat /\ Cardinality(Done(s)) \in Nat
    BY <1>1, DoneFacts
  <2>6. Held(t) = Cardinality(ToSet(r)) + Cardinality(ToSet(s.unverified)) + Cardinality(Done(s))
    BY <1>5, <1>6 DEF Held
  <2>7. Held(s) = Cardinality(ToSet(s.verified)) + Cardinality(ToSet(s.unverified)) + Cardinality(Done(s))
    BY DEF Held
  <2>8. Held(s) <= s.knownSize
    BY DEF Sane
  <2>9. Held(s) = Held(t) + k /\ Held(t) \in Nat
    BY <1>4, <2>1, <2>4, <2>5, <2>6, <2>7
  <2> QED BY <1>1, <1>4, <1>5, <2>8, <2>9
<1>9. t \in Queue
  <2>1. s.knownSize - k \in Nat /\ s.draining \cup ToSet(o) \subseteq Block /\ s.ready \ ToSet(o) \subseteq Block
    BY <1>1, <1>2, <1>5, <1>8
  <2>2. [s EXCEPT !.verified = r, !.draining = s.draining \cup ToSet(o), !.ready = s.ready \ ToSet(o), !.knownSize = s.knownSize - k] \in Queue
    BY <1>1, <1>2, <2>1 DEF Queue
  <2> QED BY <1>3, <2>2
<1>10. Apart(t)
  <2>1. ToSet(r) \subseteq ToSet(s.verified) /\ OnWay(t) \subseteq OnWay(s)
    BY <1>2, <1>7
  <2> QED BY <2>1, <1>2, <1>5, <1>6 DEF Sane, Apart
<1>11. Sane(t)
  BY <1>5, <1>7, <1>8, <1>9, <1>10 DEF Sane
<1>12. Follows(o, Pipe(t), Pipe(s))
  <2> DEFINE h == HashSeq(s.verifying)
             x == r \o h
             y == v \o h
  <2>1. Pipe(s) = y \o s.unverified
    BY PipeFacts
  <2>2. Pipe(t) = x \o s.unverified
    BY <1>5, <1>11, PipeFacts
  <2>3. h \in Seq(Block)
    BY <1>1, HashSeqFacts
  <2> HIDE DEF h
  <2>4. Follows(o, x, y) /\ x \in Seq(Block) /\ y \in Seq(Block)
    BY <1>1, <1>2, <2>3, FollowsMore
  <2> HIDE DEF x, y
  <2>5. Follows(o, x \o s.unverified, y \o s.unverified)
    BY <1>1, <1>2, <2>4, FollowsMore
  <2> QED BY <2>1, <2>2, <2>5
<1>13. Fetched(s, o, t)
  BY <1>2, <1>5, <1>7, <1>12 DEF Fetched
<1> QED BY <1>11, <1>13 DEF o, t

\* the verifier of the i-th entry of m_verifying finishes, not first
Finish(s, i) == [s EXCEPT !.verifying[i].done = TRUE, !.knownSize = @ + 1]

\* the entry e is done now
Finished(s, e, t) ==
    /\ ToSet(t.verifying) = (ToSet(s.verifying) \ {e}) \cup {[hash |-> e.hash, done |-> TRUE]}
    /\ t.verified = s.verified /\ t.unverified = s.unverified /\ t.unknown = s.unknown /\ t.ready = s.ready
    /\ t.draining = s.draining /\ t.bad = s.bad /\ OnWay(t) = OnWay(s) /\ Pipe(t) = Pipe(s)

\* A block that is finished but not next keeps its place in m_verifying.
LEMMA FinishFacts ==
    ASSUME NEW s, Sane(s), NEW i \in 1..Len(s.verifying), ~s.verifying[i].done
    PROVE  Sane(Finish(s, i)) /\ Finished(s, s.verifying[i], Finish(s, i))
<1> DEFINE y == s.verifying
           n == Len(y)
           e == y[i]
           d == [hash |-> e.hash, done |-> TRUE]
           z == [y EXCEPT ![i] = d]
           t == Finish(s, i)
<1>1. s \in Queue /\ y \in Seq(Entry) /\ s.knownSize \in Nat
  BY QueueFields DEF Sane
<1>2. n \in Nat /\ i \in 1..n /\ e \in Entry /\ e \in ToSet(y) /\ DOMAIN y = 1..n
  <2>1. i \in 1..n
    OBVIOUS
  <2> HIDE DEF y
  <2>2. n \in Nat /\ DOMAIN y = 1..n /\ y \in [1..n -> Entry]
    BY <1>1, LenProperties
  <2> QED BY <1>1, <2>1, <2>2, Elements
<1>3. d \in Entry /\ d.hash = e.hash /\ d.done /\ e = [hash |-> e.hash, done |-> FALSE] /\ e.hash \in Block
  BY <1>2 DEF Entry
<1>4. \A f, g \in ToSet(y) : f.hash = g.hash => f = g
  BY DEF Sane, Apart
<1>5. t = [s EXCEPT !.verifying = z, !.knownSize = s.knownSize + 1]
  <2>1. [y[i] EXCEPT !.done = TRUE] = d
    BY <1>3
  <2> QED BY <2>1, <1>1 DEF Finish
<1>6. z \in Seq(Entry) /\ Len(z) = n /\ \A j \in 1..n : z[j] = IF j = i THEN d ELSE y[j]
  <2> HIDE DEF d, y
  <2> QED BY <1>1, <1>2, <1>3, ExceptSeq
<1>7. \A j, k \in 1..n : y[j] = y[k] => j = k
  BY <1>2 DEF Sane, Apart, Distinct
<1> HIDE DEF t, z, d
<1>8. /\ t.verifying = z /\ t.verified = s.verified /\ t.unverified = s.unverified /\ t.unknown = s.unknown
      /\ t.ready = s.ready /\ t.draining = s.draining /\ t.bad = s.bad /\ t.knownSize = s.knownSize + 1
  BY <1>1, <1>5 DEF Queue
<1>9. ToSet(z) = (ToSet(y) \ {e}) \cup {d}
  <2>1. DOMAIN z = 1..n
    BY <1>6, LenProperties
  <2>2. ToSet(z) = {z[j] : j \in 1..n} /\ ToSet(y) = {y[j] : j \in 1..n}
    BY <1>2, <2>1 DEF ToSet
  <2>3. \A j \in 1..n : j # i => y[j] # e
    BY <1>2, <1>7
  <2> HIDE DEF e, y, n
  <2> QED BY <1>2, <1>6, <2>2, <2>3 DEF e
<1>10. d \notin ToSet(y) /\ \A f \in ToSet(y) : f # e => f.hash # d.hash
  <2>1. e # d
    BY <1>3
  <2> QED BY <1>2, <1>3, <1>4, <2>1
<1>11. Distinct(z)
  <2> SUFFICES ASSUME NEW j \in 1..n, NEW k \in 1..n, z[j] = z[k] PROVE j = k
    <3>1. DOMAIN z = 1..n
      BY <1>6, LenProperties
    <3> QED BY <3>1 DEF Distinct
  <2>1. y[j] \in ToSet(y) /\ y[k] \in ToSet(y)
    BY <1>1, Elements
  <2> QED BY <2>1, <1>6, <1>7, <1>10
<1>12. \A f, g \in ToSet(z) : f.hash = g.hash => f = g
  BY <1>4, <1>9, <1>10
<1>13. Hashes(t) = Hashes(s)
  BY <1>2, <1>3, <1>8, <1>9 DEF Hashes
<1>14. Done(t) = Done(s) \cup {d} /\ d \notin Done(s)
  BY <1>3, <1>8, <1>9, <1>10 DEF Done
<1>15. OnWay(t) = OnWay(s)
  BY <1>8, <1>13 DEF OnWay
<1>16. Held(t) <= t.knownSize
  <2>1. Cardinality(ToSet(s.verified)) \in Nat /\ Cardinality(ToSet(s.unverified)) \in Nat /\ Cardinality(Done(s)) \in Nat
        /\ IsFiniteSet(Done(s))
    BY <1>1, DoneFacts
  <2>2. Cardinality(Done(s) \cup {d}) = Cardinality(Done(s)) + 1
    BY <1>14, <2>1, FS_AddElement
  <2>3. Held(t) = Cardinality(ToSet(s.verified)) + Cardinality(ToSet(s.unverified)) + (Cardinality(Done(s)) + 1)
    BY <1>8, <1>14, <2>2 DEF Held
  <2>4. Held(s) = Cardinality(ToSet(s.verified)) + Cardinality(ToSet(s.unverified)) + Cardinality(Done(s))
    BY DEF Held
  <2>5. Held(s) <= s.knownSize
    BY DEF Sane
  <2>6. Held(t) = Held(s) + 1 /\ Held(s) \in Nat
    BY <2>1, <2>3, <2>4
  <2> QED BY <1>1, <1>8, <2>5, <2>6
<1>17. t \in Queue
  <2>1. s.knownSize + 1 \in Nat
    BY <1>1
  <2>2. [s EXCEPT !.verifying = z, !.knownSize = s.knownSize + 1] \in Queue
    BY <1>1, <1>6, <2>1 DEF Queue, Entry
  <2> QED BY <1>5, <2>2
<1>18. Apart(t)
  BY <1>8, <1>11, <1>12, <1>13, <1>15 DEF Sane, Apart
<1>19. Sane(t)
  BY <1>8, <1>15, <1>16, <1>17, <1>18 DEF Sane
<1>20. HashSeq(z) = HashSeq(y)
  <2>1. \A j \in 1..n : z[j].hash = y[j].hash
    BY <1>2, <1>3, <1>6
  <2>2. DOMAIN z = DOMAIN y
    BY <1>2, <1>6, LenProperties
  <2> DEFINE a == HashSeq(z)
             b == HashSeq(y)
  <2>3. a = [j \in DOMAIN y |-> z[j].hash]
    BY <2>2 DEF HashSeq
  <2>4. b = [j \in DOMAIN y |-> y[j].hash]
    BY DEF HashSeq
  <2> HIDE DEF y, n, a, b
  <2>5. a = b
    BY <1>2, <2>1, <2>3, <2>4
  <2> QED BY <2>5 DEF a, b
<1>21. Pipe(t) = Pipe(s)
  BY <1>8, <1>19, <1>20, PipeFacts
<1>22. Finished(s, e, t)
  BY <1>8, <1>9, <1>15, <1>21 DEF Finished, d
<1> QED BY <1>19, <1>22 DEF t

\* verifyBlock has refused b: its entry leaves m_verifying, and it is bad
Fail(s, b) == [s EXCEPT !.ready = @ \ {b}, !.bad = @ \cup {b},
                        !.verifying = Without(@, {e \in ToSet(@) : Sha3Uncles(e) = b})]

\* b is bad, and not being verified any more
Failed(s, b, t) ==
    /\ ToSet(t.verifying) = {e \in ToSet(s.verifying) : Sha3Uncles(e) # b}
    /\ t.verified = s.verified /\ t.unverified = s.unverified /\ t.unknown = s.unknown
    /\ t.ready = s.ready \ {b} /\ t.draining = s.draining /\ t.bad = s.bad \cup {b} /\ OnWay(t) \subseteq OnWay(s)

\* A block that fails leaves m_verifying and m_readySet and is known to be bad.
LEMMA FailFacts ==
    ASSUME NEW s, Sane(s), NEW b \in Block
    PROVE  Sane(Fail(s, b)) /\ Failed(s, b, Fail(s, b))
<1> DEFINE y == s.verifying
           gone == {e \in ToSet(y) : Sha3Uncles(e) = b}
           z == Without(y, gone)
           t == Fail(s, b)
<1>1. s \in Queue /\ y \in Seq(Entry) /\ s.ready \subseteq Block /\ s.bad \subseteq Block \cup {Uncles} /\ Distinct(y)
  BY QueueFields DEF Sane, Apart
<1>2. \A e \in gone : ~e.done
  BY ConstantsAssumption DEF Sha3Uncles
<1>3. t = [s EXCEPT !.ready = s.ready \ {b}, !.bad = s.bad \cup {b}, !.verifying = z]
  BY DEF Fail
<1>4. ToSet(y) \ gone = {e \in ToSet(y) : Sha3Uncles(e) # b}
  OBVIOUS
<1> HIDE DEF gone, t
<1>5. z \in Seq(Entry) /\ ToSet(z) = ToSet(y) \ gone /\ Distinct(z)
  <2> HIDE DEF y
  <2> QED BY <1>1, WithoutFacts
<1> HIDE DEF z
<1>6. /\ t.verifying = z /\ t.verified = s.verified /\ t.unverified = s.unverified /\ t.unknown = s.unknown
      /\ t.ready = s.ready \ {b} /\ t.draining = s.draining /\ t.bad = s.bad \cup {b} /\ t.knownSize = s.knownSize
  BY <1>1, <1>3 DEF Queue
<1>7. t \in Queue
  <2>1. s.ready \ {b} \subseteq Block /\ s.bad \cup {b} \subseteq Block \cup {Uncles}
    BY <1>1
  <2>2. [s EXCEPT !.ready = s.ready \ {b}, !.bad = s.bad \cup {b}, !.verifying = z] \in Queue
    BY <1>1, <1>5, <2>1 DEF Queue, Entry
  <2> QED BY <1>3, <2>2
<1>8. Hashes(t) \subseteq Hashes(s) /\ Done(t) = Done(s)
  BY <1>2, <1>5, <1>6 DEF Hashes, Done
<1>9. OnWay(t) \subseteq OnWay(s) /\ Held(t) = Held(s)
  BY <1>6, <1>8 DEF OnWay, Held
<1>10. Apart(t)
  BY <1>5, <1>6, <1>8, <1>9 DEF Sane, Apart
<1>11. Sane(t)
  BY <1>6, <1>7, <1>9, <1>10 DEF Sane
<1>12. Failed(s, b, t)
  BY <1>4, <1>5, <1>6, <1>9 DEF Failed
<1> QED BY <1>11, <1>12 DEF t

\* the elements of a sequence in another order
Shuffle(s, o) == [i \in DOMAIN s |-> s[o[i]]]

\* The elements of a multimap are those that were inserted.
LEMMA ShuffleFacts ==
    ASSUME NEW T, NEW s \in Seq(T), NEW o \in Bijection(DOMAIN s, DOMAIN s)
    PROVE  /\ Shuffle(s, o) \in Seq(T) /\ Len(Shuffle(s, o)) = Len(s) /\ ToSet(Shuffle(s, o)) = ToSet(s)
           /\ Distinct(s) => Distinct(Shuffle(s, o))
<1> DEFINE n == Len(s)
           r == Shuffle(s, o)
<1>1. n \in Nat /\ DOMAIN s = 1..n /\ s \in [1..n -> T]
  BY LenProperties
<1> HIDE DEF n
<1>2. /\ \A i \in 1..n : o[i] \in 1..n
      /\ \A i, j \in 1..n : o[i] = o[j] => i = j
      /\ \A k \in 1..n : \E i \in 1..n : o[i] = k
  BY <1>1 DEF Bijection, Injection, Surjection, IsInjective
<1>3. r = [i \in 1..n |-> s[o[i]]]
  BY <1>1 DEF Shuffle
<1> HIDE DEF r
<1>4. r \in [1..n -> T]
  BY <1>1, <1>2, <1>3
<1>5. r \in Seq(T) /\ Len(r) = n /\ DOMAIN r = 1..n
  BY <1>1, <1>4
<1>6. ToSet(r) = {r[i] : i \in 1..n} /\ ToSet(s) = {s[i] : i \in 1..n}
  BY <1>1, <1>5 DEF ToSet
<1>7. ToSet(r) = ToSet(s)
  <2>1. \A i \in 1..n : r[i] = s[o[i]] /\ o[i] \in 1..n
    BY <1>2, <1>3
  <2>2. \A k \in 1..n : \E i \in 1..n : r[i] = s[k]
    BY <1>2, <2>1
  <2>3. \A x \in ToSet(r) : x \in ToSet(s)
    BY <1>6, <2>1
  <2>4. \A x \in ToSet(s) : x \in ToSet(r)
    <3> SUFFICES ASSUME NEW k \in 1..n PROVE s[k] \in ToSet(r)
      BY <1>6
    <3>1. PICK i \in 1..n : r[i] = s[k]
      BY <2>2
    <3> QED BY <3>1, <1>6
  <2> QED BY <2>3, <2>4
<1>8. Distinct(s) => Distinct(r)
  <2> SUFFICES ASSUME Distinct(s), NEW i \in 1..n, NEW j \in 1..n, r[i] = r[j] PROVE i = j
    BY <1>5 DEF Distinct
  <2>1. s[o[i]] = s[o[j]] /\ o[i] \in 1..n /\ o[j] \in 1..n
    BY <1>2, <1>3
  <2>2. o[i] = o[j]
    BY <1>1, <2>1 DEF Distinct
  <2> QED BY <1>2, <2>2
<1> QED BY <1>5, <1>7, <1>8 DEF r, n

\* the blocks of unknown parents are put to the end of m_unverified
Retry(s, r) == [s EXCEPT !.unverified = @ \o r, !.ready = @ \cup ToSet(s.unknown), !.unknown = <<>>,
                         !.knownSize = @ + Len(s.unknown), !.unknownSize = RemoveSize(@, Len(s.unknown))]

\* all blocks of unknown parents are ready
Retried(s, t) ==
    /\ t.verified = s.verified /\ t.verifying = s.verifying /\ ToSet(t.unverified) = ToSet(s.unverified) \cup ToSet(s.unknown)
    /\ t.ready = s.ready \cup ToSet(s.unknown) /\ ToSet(t.unknown) = {} /\ t.draining = s.draining /\ t.bad = s.bad
    /\ OnWay(t) = OnWay(s) \cup ToSet(s.unknown)

\* retryAllUnknown makes all blocks of unknown parents ready.
LEMMA RetryFacts ==
    ASSUME NEW s, Sane(s), NEW r \in Seq(Block), ToSet(r) = ToSet(s.unknown), Distinct(r), Len(r) = Len(s.unknown)
    PROVE  Sane(Retry(s, r)) /\ Retried(s, Retry(s, r))
<1> DEFINE t == Retry(s, r)
           m == Len(s.unknown)
<1>1. /\ s \in Queue /\ s.unknown \in Seq(Block) /\ s.unverified \in Seq(Block) /\ s.ready \subseteq Block
      /\ s.knownSize \in Nat /\ s.unknownSize \in 0..(Word - 1) /\ Distinct(s.unverified)
  BY QueueFields DEF Sane, Apart
<1>2. m \in Nat /\ ToSet(s.unknown) \subseteq Block /\ IsFiniteSet(ToSet(r)) /\ Cardinality(ToSet(r)) = m
  <2>1. Cardinality(ToSet(r)) = Len(r) /\ IsFiniteSet(ToSet(r))
    BY SetOf
  <2>2. m \in Nat /\ ToSet(s.unknown) \subseteq Block
    BY <1>1, SetOf, LenProperties
  <2> QED BY <2>1, <2>2
<1>3. ToSet(s.unverified) \cap ToSet(r) = {}
  BY DEF Sane, Apart, OnWay
<1>4. /\ s.unverified \o r \in Seq(Block) /\ ToSet(s.unverified \o r) = ToSet(s.unverified) \cup ToSet(r)
      /\ Distinct(s.unverified \o r)
  BY <1>1, <1>3, SetOfConcat
<1> HIDE DEF m
<1>5. RemoveSize(s.unknownSize, m) \in 0..(Word - 1)
  BY <1>1, <1>2, RemoveSizeFacts
<1>6. t = [s EXCEPT !.unverified = s.unverified \o r, !.ready = s.ready \cup ToSet(s.unknown), !.unknown = <<>>,
                    !.knownSize = s.knownSize + m, !.unknownSize = RemoveSize(s.unknownSize, m)]
  BY DEF Retry, m
<1> HIDE DEF t
<1>7. t \in Queue
  <2>1. s.ready \cup ToSet(s.unknown) \subseteq Block /\ s.knownSize + m \in Nat /\ <<>> \in Seq(Block)
    BY <1>1, <1>2
  <2>2. [s EXCEPT !.unverified = s.unverified \o r, !.ready = s.ready \cup ToSet(s.unknown), !.unknown = <<>>,
                    !.knownSize = s.knownSize + m, !.unknownSize = RemoveSize(s.unknownSize, m)] \in Queue
    BY <1>1, <1>4, <1>5, <2>1 DEF Queue
  <2> QED BY <1>6, <2>2
<1>8. /\ t.verified = s.verified /\ t.verifying = s.verifying /\ t.unverified = s.unverified \o r
      /\ t.ready = s.ready \cup ToSet(s.unknown) /\ t.unknown = <<>> /\ t.draining = s.draining /\ t.bad = s.bad
      /\ t.knownSize = s.knownSize + m
  BY <1>1, <1>6 DEF Queue
<1>9. ToSet(t.unknown) = {} /\ Distinct(t.unknown)
  BY <1>8, SetOfEmpty
<1>10. Hashes(t) = Hashes(s) /\ OnWay(t) = OnWay(s) \cup ToSet(s.unknown) /\ Done(t) = Done(s)
  BY <1>4, <1>8 DEF OnWay, Hashes, Done
<1>11. Held(t) <= t.knownSize
  <2>1. IsFiniteSet(ToSet(s.unverified)) /\ Cardinality(ToSet(s.unverified)) \in Nat
    BY <1>1, SetOf
  <2>2. Cardinality(ToSet(s.unverified) \cup ToSet(r)) =
                Cardinality(ToSet(s.unverified)) + Cardinality(ToSet(r)) - Cardinality(ToSet(s.unverified) \cap ToSet(r))
    BY <1>2, <2>1, FS_Union
  <2>3. Cardinality(ToSet(s.unverified) \cap ToSet(r)) = 0
    BY <1>3, FS_EmptySet
  <2>4. Cardinality(ToSet(t.unverified)) = Cardinality(ToSet(s.unverified)) + m
    <3> DEFINE c == Cardinality(ToSet(s.unverified) \cup ToSet(r))
               d == Cardinality(ToSet(s.unverified))
    <3>1. c = d + m - 0 /\ d \in Nat
      BY <1>2, <2>1, <2>2, <2>3
    <3>2. Cardinality(ToSet(t.unverified)) = c
      BY <1>4, <1>8
    <3> HIDE DEF c, d
    <3>3. Cardinality(ToSet(t.unverified)) = d + m
      BY <1>2, <3>1, <3>2
    <3> QED BY <3>3 DEF d
  <2>5. Cardinality(ToSet(s.verified)) \in Nat /\ Cardinality(Done(s)) \in Nat
    BY <1>1, DoneFacts
  <2>6. Held(t) = Cardinality(ToSet(s.verified)) + (Cardinality(ToSet(s.unverified)) + m) + Cardinality(Done(s))
    BY <1>8, <1>10, <2>4 DEF Held
  <2>7. Held(s) = Cardinality(ToSet(s.verified)) + Cardinality(ToSet(s.unverified)) + Cardinality(Done(s))
    BY DEF Held
  <2>8. Held(s) <= s.knownSize
    BY DEF Sane
  <2>9. Held(t) = Held(s) + m /\ Held(s) \in Nat
    BY <1>2, <2>1, <2>5, <2>6, <2>7
  <2> QED BY <1>1, <1>2, <1>8, <2>8, <2>9
<1>12. Apart(t)
  <2>1. ToSet(r) \cap OnWay(s) = {}
    <3>1. ToSet(s.unknown) \cap OnWay(s) = {}
      BY DEF Sane, Apart
    <3> QED BY <3>1
  <2>2. ToSet(t.unverified) = ToSet(s.unverified) \cup ToSet(r) /\ Distinct(t.unverified)
    BY <1>4, <1>8
  <2> QED BY <2>1, <2>2, <1>8, <1>9, <1>10 DEF Apart, Sane, OnWay
<1>13. Sane(t)
  BY <1>7, <1>8, <1>10, <1>11, <1>12 DEF Sane
<1>14. Retried(s, t)
  BY <1>4, <1>8, <1>9, <1>10 DEF Retried
<1> QED BY <1>13, <1>14 DEF t

\* nobody but its verifier has the block: it is not in the queues of blocks, and not done
Busy(s, b) ==
    /\ b \notin ToSet(s.verified) \cup ToSet(s.unverified)
    /\ \A e \in ToSet(s.verifying) : e.hash = b => ~e.done

\* the verifier of b has passed it on or refused it
Passed(s, b, t) ==
    /\ ToSet(t.verifying) \subseteq ToSet(s.verifying) /\ t.unverified = s.unverified
    /\ t.unknown = s.unknown /\ t.draining = s.draining
    /\ t.ready \subseteq s.ready /\ s.ready \subseteq t.ready \cup t.bad
    /\ s.bad \subseteq t.bad /\ t.bad \subseteq s.bad \cup {b} \cup DoneHashes(s)
    /\ ToSet(t.verified) \subseteq ToSet(s.verified) \cup {b} \cup DoneHashes(s)
    /\ Tidy(s) /\ Busy(s, b) => Tidy(t)

\* until a block is bad, the pipeline stays as it is
Unbroken(s, t) == s.bad = {} => t.bad = {} /\ t.ready = s.ready /\ Pipe(t) = Pipe(s)

\* A failed verification keeps the queue sane.
LEMMA FailStep ==
    ASSUME NEW s, Sane(s), NEW b \in Block, NEW t, t = DrainVerified(Fail(s, b))
    PROVE  Sane(t) /\ Passed(s, b, t) /\ b \in t.bad /\ ToSet(t.verified) \subseteq ToSet(s.verified) \cup DoneHashes(s)
<1> DEFINE u == Fail(s, b)
<1>1. Sane(u) /\ Failed(s, b, u)
  BY FailFacts
<1> HIDE DEF u
<1>2. Sane(t) /\ Settled(u, t)
  BY <1>1, DrainVerifiedFacts DEF u
<1>3. DoneHashes(u) \subseteq DoneHashes(s)
  BY <1>1 DEF Failed, DoneHashes, Done
<1>4. ASSUME Tidy(s), Busy(s, b) PROVE Tidy(t)
  <2>1. \A e \in ToSet(u.verifying) : e.hash # b
    BY <1>1, <1>4 DEF Failed, Busy, Sha3Uncles
  <2>2. b \notin OnWay(u)
    BY <1>1, <1>4, <2>1 DEF OnWay, Hashes, Failed, Busy
  <2>3. Tidy(u)
    BY <1>1, <1>4, <2>2 DEF Tidy, Failed
  <2> QED BY <1>2, <2>3 DEF Settled
<1>5. /\ ToSet(t.verifying) \subseteq ToSet(s.verifying) /\ t.unverified = s.unverified
      /\ t.unknown = s.unknown /\ t.draining = s.draining
      /\ t.ready \subseteq s.ready /\ s.ready \subseteq t.ready \cup t.bad
      /\ s.bad \subseteq t.bad /\ t.bad \subseteq s.bad \cup {b} \cup DoneHashes(s)
      /\ ToSet(t.verified) \subseteq ToSet(s.verified) \cup DoneHashes(s) /\ b \in t.bad
  BY <1>1, <1>2, <1>3 DEF Failed, Settled
<1> QED BY <1>2, <1>4, <1>5 DEF Passed

\* Passing on the next block keeps the queue sane and the order of the
\* pipeline.
LEMMA NextStep ==
    ASSUME NEW s, Sane(s), NEW b \in Block, s.verifying # <<>>, Sha3Uncles(Head(s.verifying)) = b,
           NEW t, t = DrainVerified(Settle([s EXCEPT !.verifying = Tail(@)], b))
    PROVE  Sane(t) /\ Passed(s, b, t) /\ Unbroken(s, t) /\ b \in Hashes(s)
<1> DEFINE e == Head(s.verifying)
           u == [s EXCEPT !.verifying = Tail(@)]
           w == Settle(u, b)
<1>1. ~e.done /\ e.hash = b
  BY ConstantsAssumption DEF Sha3Uncles
<1>2. /\ Sane(u) /\ u.verifying = Tail(s.verifying)
      /\ u.verified = s.verified /\ u.unverified = s.unverified /\ u.unknown = s.unknown
      /\ u.draining = s.draining /\ u.future = s.future /\ u.ready = s.ready /\ u.bad = s.bad
      /\ ToSet(s.verifying) = ToSet(u.verifying) \cup {e}
      /\ e \in Entry /\ b \notin OnWay(u) /\ OnWay(s) = OnWay(u) \cup {b}
      /\ b \notin ToSet(s.unknown) /\ b \in s.ready \cup s.bad
  <2>1. u = Leave(s)
    BY <1>1 DEF Leave
  <2> HIDE DEF u
  <2> QED BY <1>1, <2>1, LeaveFacts
<1>3. b \in Hashes(s)
  BY <1>1, <1>2 DEF Hashes
<1>4. t = DrainVerified(w)
  OBVIOUS
<1> HIDE DEF e, u
<1>5. /\ Sane(w) /\ w.verifying = u.verifying /\ w.unverified = u.unverified
      /\ w.unknown = u.unknown /\ w.draining = u.draining /\ w.future = u.future
      /\ Parent[b] \in u.bad => w.verified = u.verified /\ w.ready = u.ready \ {b} /\ w.bad = u.bad \cup {b}
      /\ Parent[b] \notin u.bad => w.verified = Append(u.verified, b) /\ w.ready = u.ready /\ w.bad = u.bad
  BY <1>2, SettleFacts
<1>6. u.verified \in Seq(Block) /\ s.verifying \in Seq(Entry)
  BY <1>2, QueueFields DEF Sane
<1>7. ToSet(Append(u.verified, b)) = ToSet(u.verified) \cup {b}
  BY <1>6, SetOfAppend
<1> HIDE DEF w
<1>8. Sane(t) /\ Settled(w, t)
  BY <1>4, <1>5, DrainVerifiedFacts
<1>9. DoneHashes(w) \subseteq DoneHashes(s)
  BY <1>2, <1>5 DEF DoneHashes, Done
<1>10. Tidy(s) => Tidy(t)
  <2>1. Tidy(s) => Tidy(w)
    BY <1>2, <1>5, <1>7, SettledOnWay
  <2> QED BY <2>1, <1>8 DEF Settled
<1>11. /\ ToSet(w.verifying) \subseteq ToSet(s.verifying) /\ w.unverified = s.unverified
       /\ w.unknown = s.unknown /\ w.draining = s.draining
       /\ w.ready \subseteq s.ready /\ s.ready \subseteq w.ready \cup w.bad
       /\ s.bad \subseteq w.bad /\ w.bad \subseteq s.bad \cup {b}
       /\ ToSet(w.verified) \subseteq ToSet(s.verified) \cup {b}
  BY <1>2, <1>5, <1>7
<1>12. Passed(s, b, t)
  BY <1>8, <1>9, <1>10, <1>11 DEF Settled, Passed
<1>13. ASSUME s.bad = {} PROVE t.bad = {} /\ t.ready = s.ready /\ Pipe(t) = Pipe(s)
  <2>1. w.verified = Append(s.verified, b) /\ w.bad = {} /\ w.ready = s.ready
    BY <1>2, <1>5, <1>13
  <2>2. Pipe(w) = w.verified \o HashSeq(w.verifying) \o w.unverified
    BY <1>5, PipeFacts
  <2>3. Pipe(s) = s.verified \o HashSeq(s.verifying) \o s.unverified
    BY PipeFacts
  <2>4. Append(s.verified, b) \o HashSeq(Tail(s.verifying)) = s.verified \o HashSeq(s.verifying)
    <3>1. Append(s.verified, Head(s.verifying).hash) \o HashSeq(Tail(s.verifying)) = s.verified \o HashSeq(s.verifying)
      BY <1>2, <1>6, PipeSettle
    <3> QED BY <3>1, <1>1 DEF e
  <2>5. w.verifying = Tail(s.verifying) /\ w.unverified = s.unverified
    BY <1>2, <1>5
  <2>6. Pipe(w) = Pipe(s)
    BY <2>1, <2>2, <2>3, <2>4, <2>5
  <2> QED BY <1>8, <2>1, <2>6 DEF Settled
<1> QED BY <1>3, <1>8, <1>12, <1>13 DEF Unbroken

-----------------------------------------------------------------------------
(* The inductive invariant, and what each action does to the queue.        *)

\* The queues hold a block once and account for its size, the verifiers work on
\* blocks, and m_drainingSet is empty but for the time of an import.
BasicInv ==
    /\ TypeOK /\ Sane(q)
    /\ \A v \in Verifier : job[v].pc = "verify" => job[v].hash \in Block
    /\ client.pc = "tick" => client.batch # <<>>
    /\ client.pc # "import" => client.bads = <<>> /\ q.draining = {}

\* clear leaves an empty queue that still knows what is bad.
LEMMA EmptySane ==
    ASSUME NEW bad, bad \subseteq Block \cup {Uncles}, NEW t, t = EmptyQueue(bad)
    PROVE  /\ Sane(t) /\ OnWay(t) = {} /\ t.ready = {} /\ t.draining = {} /\ ToSet(t.unknown) = {} /\ t.bad = bad
           /\ Pipe(t) = <<>>
<1>1. /\ t.unverified = <<>> /\ t.verifying = <<>> /\ t.verified = <<>> /\ t.ready = {} /\ t.draining = {}
      /\ t.unknown = <<>> /\ t.future = <<>> /\ t.bad = bad /\ t.knownSize = 0 /\ t.unknownSize = 0
  BY DEF EmptyQueue
<1>2. t \in Queue
  <2>1. 0 \in 0..(Word - 1)
    BY ConstantsAssumption
  <2>2. <<>> \in Seq(Block) /\ <<>> \in Seq([hash : Block, done : BOOLEAN]) /\ 0 \in Nat
    BY EmptySeq
  <2>3. EmptyQueue(bad) \in Queue
    BY <2>1, <2>2 DEF EmptyQueue, Queue
  <2> QED BY <2>3
<1>3. OnWay(t) = {} /\ Hashes(t) = {} /\ Done(t) = {}
  BY <1>1, SetOfEmpty DEF OnWay, Hashes, Done
<1>4. Held(t) = 0
  <2>1. Cardinality({}) = 0
    BY FS_EmptySet
  <2>2. ToSet(t.verified) = {} /\ ToSet(t.unverified) = {}
    BY <1>1, SetOfEmpty
  <2>3. Held(t) = 0 + 0 + 0
    BY <1>3, <2>1, <2>2 DEF Held
  <2> QED BY <2>3
<1>5. Apart(t)
  BY <1>1, <1>3, SetOfEmpty DEF Apart
<1>6. Sane(t)
  BY <1>1, <1>2, <1>3, <1>4, <1>5 DEF Sane
<1>7. Pipe(t) = <<>>
  <2>1. Pipe(t) \in Seq(Block) /\ ToSet(Pipe(t)) = {}
    BY <1>3, <1>6, PipeFacts
  <2> QED BY <2>1, SetOf
<1> QED BY <1>1, <1>3, <1>6, <1>7, SetOfEmpty

\* the outcomes of import
Arrives(s, b, t) == Postponed(s, b, t) \/ Waits(s, b, t) \/ Refused(s, b, t) \/ Accepted(s, b, t)

\* A block from a peer or from the consensus.
LEMMA ImportBlockStep ==
    ASSUME BasicInv, ImportBlock
    PROVE  Sane(q') /\ \E b \in Block : Arrives(q, b, q')
<1>1. PICK b \in Block, ours \in BOOLEAN : q' = Import(q, b, ours)
  BY DEF ImportBlock
<1> QED BY <1>1, ImportFacts DEF BasicInv, Arrives

\* A block that tick imports when its time has come.
LEMMA TickImportStep ==
    ASSUME BasicInv, TickImport
    PROVE  /\ Sane(q') /\ Head(client.batch) \in Block /\ Arrives(q, Head(client.batch), q')
           /\ client.batch \in Seq(Block) /\ client.batch # <<>>
<1>1. client.batch \in Seq(Block) /\ client.batch # <<>> /\ q' = Import(q, Head(client.batch), FALSE)
  BY DEF BasicInv, TypeOK, TickImport
<1>2. Head(client.batch) \in Block
  BY <1>1, HeadTailProperties
<1> QED BY <1>1, <1>2, ImportFacts DEF BasicInv, Arrives

\* A verifier takes a block.
LEMMA TakeJobStep ==
    ASSUME BasicInv, NEW v \in Verifier, TakeJob(v)
    PROVE  /\ Sane(q') /\ job[v].pc = "idle"
           /\ \E b \in Block : Taken(q, b, q') /\ job' = [job EXCEPT ![v] = [pc |-> "verify", hash |-> b]]
<1> DEFINE b == Head(q.unverified)
<1>1. q.unverified # <<>> /\ q' = Take(q) /\ job' = [job EXCEPT ![v] = [pc |-> "verify", hash |-> b]] /\ job[v].pc = "idle"
  BY DEF TakeJob, Take
<1>2. Sane(Take(q)) /\ Taken(q, b, Take(q))
  BY <1>1, TakeFacts DEF BasicInv
<1> HIDE DEF b
<1>3. b \in Block
  BY <1>2 DEF Taken
<1> QED BY <1>1, <1>2, <1>3

\* A verifier finds its block invalid.
LEMMA VerifyFailsStep ==
    ASSUME BasicInv, NEW v \in Verifier, VerifyFails(v)
    PROVE  /\ Sane(q') /\ job[v].pc = "verify" /\ job[v].hash \in Block /\ Passed(q, job[v].hash, q')
           /\ job[v].hash \in q'.bad /\ ToSet(q'.verified) \subseteq ToSet(q.verified) \cup DoneHashes(q)
           /\ job' = [job EXCEPT ![v] = NoJob]
<1>1. job[v].pc = "verify" /\ q' = DrainVerified(Fail(q, job[v].hash)) /\ job' = [job EXCEPT ![v] = NoJob]
  BY DEF VerifyFails, Fail
<1>2. job[v].hash \in Block
  BY <1>1 DEF BasicInv
<1> QED BY <1>1, <1>2, FailStep DEF BasicInv

\* A verifier passes its block on, and what was waiting behind it.
LEMMA VerifyNextStep ==
    ASSUME BasicInv, NEW v \in Verifier, VerifyNext(v)
    PROVE  /\ Sane(q') /\ job[v].pc = "verify" /\ job[v].hash \in Block /\ Passed(q, job[v].hash, q')
           /\ Unbroken(q, q') /\ job[v].hash \in Hashes(q)
           /\ job' = [job EXCEPT ![v] = [NoJob EXCEPT !.pc = "notify"]]
<1> DEFINE b == job[v].hash
<1>1. /\ job[v].pc = "verify" /\ job' = [job EXCEPT ![v] = [NoJob EXCEPT !.pc = "notify"]]
      /\ q.verifying # <<>> /\ Sha3Uncles(Head(q.verifying)) = b
      /\ q' = DrainVerified(Settle([q EXCEPT !.verifying = Tail(@)], b))
  BY DEF VerifyNext, IsNext
<1>2. b \in Block /\ Sane(q)
  BY <1>1 DEF BasicInv
<1> HIDE DEF b
<1>3. Sane(q') /\ Passed(q, b, q') /\ Unbroken(q, q') /\ b \in Hashes(q)
  BY <1>1, <1>2, NextStep
<1> QED BY <1>1, <1>2, <1>3 DEF b

\* A verifier leaves its block in m_verifying, or does not find it any more.
LEMMA VerifyLaterStep ==
    ASSUME BasicInv, NEW v \in Verifier, VerifyLater(v)
    PROVE  /\ Sane(q') /\ job[v].pc = "verify" /\ job' = [job EXCEPT ![v] = NoJob]
           /\ \/ q' = q
              \/ \E e \in ToSet(q.verifying) : ~e.done /\ e.hash = job[v].hash /\ Finished(q, e, q')
<1> DEFINE b == job[v].hash
           Mine == {i \in DOMAIN q.verifying : Sha3Uncles(q.verifying[i]) = b}
           first == CHOOSE i \in Mine : \A j \in Mine : i <= j
<1>1. /\ job[v].pc = "verify" /\ job' = [job EXCEPT ![v] = NoJob]
      /\ q' = IF Mine = {} THEN q ELSE Finish(q, first)
  BY DEF VerifyLater, Finish
<1>2. b \in Block /\ Sane(q) /\ q.verifying \in Seq(Entry)
  BY <1>1, QueueFields DEF BasicInv, Sane
<1>3. CASE Mine = {}
  BY <1>1, <1>2, <1>3
<1>4. CASE Mine # {}
  <2>1. Mine \subseteq 1..Len(q.verifying) /\ Mine \in SUBSET Nat
    BY <1>2
  <2>2. \E i \in Mine : \A j \in Mine : i <= j
    <3> HIDE DEF Mine
    <3> QED BY <1>4, <2>1, LeastElement
  <2>3. first \in Mine
    <3> HIDE DEF Mine
    <3> QED BY <2>2
  <2> DEFINE e == q.verifying[first]
  <2>4. first \in 1..Len(q.verifying) /\ Sha3Uncles(e) = b
    <3> HIDE DEF first
    <3> QED BY <2>1, <2>3
  <2>5. q' = Finish(q, first)
    BY <1>1, <1>4
  <2> HIDE DEF first, Mine
  <2>6. ~e.done /\ e.hash = b /\ e \in ToSet(q.verifying)
    BY <1>2, <2>4, Elements, ConstantsAssumption DEF Sha3Uncles
  <2>7. Sane(q') /\ Finished(q, e, q')
    BY <1>2, <2>4, <2>5, <2>6, FinishFacts
  <2> HIDE DEF e
  <2> QED BY <1>1, <2>6, <2>7
<1> QED BY <1>3, <1>4

\* The client takes a batch.
LEMMA DrainStep ==
    ASSUME BasicInv, Drain
    PROVE  /\ Sane(q') /\ client.pc = "drain" /\ Fetched(q, client'.batch, q')
           /\ client' = [client EXCEPT !.pc = "import", !.batch = client'.batch]
<1>1. PICK max \in 1 .. Cardinality(Block) :
        LET n   == IF max < Len(q.verified) THEN max ELSE Len(q.verified)
            out == IF q.draining = {} THEN SubSeq(q.verified, 1, n) ELSE <<>>
        IN  /\ q' = [q EXCEPT !.verified  = SubSeq(@, Len(out) + 1, Len(@)),
                              !.draining  = @ \cup ToSet(out),
                              !.ready     = @ \ ToSet(out),
                              !.knownSize = @ - Len(out)]
            /\ client' = [client EXCEPT !.pc = "import", !.batch = out]
  BY DEF Drain
<1> DEFINE m == Len(q.verified)
           n == IF max < m THEN max ELSE m
           out == SubSeq(q.verified, 1, n)
<1>2. Sane(q) /\ q.verified \in Seq(Block) /\ client.pc = "drain" /\ q.draining = {}
  BY QueueFields DEF BasicInv, Sane, Drain
<1>3. m \in Nat /\ n \in 0..m
  <2>1. m \in Nat
    BY <1>2, LenProperties
  <2>2. CASE max < m
    <3>1. max \in 1..Cardinality(Block) /\ max \in Int /\ max >= 1
      OBVIOUS
    <3> HIDE DEF m
    <3> QED BY <2>1, <2>2, <3>1
  <2>3. CASE ~(max < m)
    <3> HIDE DEF m
    <3> QED BY <2>1, <2>3
  <2> QED BY <2>1, <2>2, <2>3
<1>4. Len(out) = n
  <2>1. Distinct(q.verified)
    BY <1>2 DEF Sane, Apart
  <2> HIDE DEF n
  <2>2. Split(q.verified, n, out, SubSeq(q.verified, n + 1, m))
    BY <1>2, <1>3, <2>1, SplitFacts
  <2> HIDE DEF out
  <2> QED BY <2>2 DEF Split
<1>5. /\ q' = [q EXCEPT !.verified  = SubSeq(@, Len(out) + 1, Len(@)), !.draining  = @ \cup ToSet(out),
                        !.ready     = @ \ ToSet(out), !.knownSize = @ - Len(out)]
      /\ client' = [client EXCEPT !.pc = "import", !.batch = out]
  BY <1>1, <1>2
<1> HIDE DEF n
<1>6. q' = Fetch(q, n)
  BY <1>4, <1>5 DEF Fetch
<1>7. Sane(q') /\ Fetched(q, out, q')
  BY <1>2, <1>3, <1>6, FetchFacts
<1>8. client'.batch = out
  BY <1>5 DEF BasicInv, TypeOK
<1> HIDE DEF out
<1> QED BY <1>2, <1>5, <1>7, <1>8

\* Equal queues of blocks have equal pipelines.
LEMMA UntouchedFacts ==
    ASSUME NEW s, NEW t, Untouched(s, t)
    PROVE  OnWay(t) = OnWay(s) /\ Hashes(t) = Hashes(s) /\ Held(t) = Held(s) /\ Pipe(t) = Pipe(s)
<1>1. t.verified = s.verified /\ t.verifying = s.verifying /\ t.unverified = s.unverified
  BY DEF Untouched
<1> QED BY <1>1 DEF OnWay, Hashes, Held, Done, Pipe

\* The client gives the bad blocks of its batch back.
LEMMA DoneDrainStep ==
    ASSUME BasicInv, DoneDrain
    PROVE  /\ Sane(q') /\ client.pc = "import" /\ client.bads \in Seq(Block)
           /\ Cut(q, ToSet(client.bads), q') /\ q'.draining = {}
           /\ client.bads = <<>> => q'.ready = q.ready /\ q'.bad = q.bad /\ OnWay(q') = OnWay(q) /\ Pipe(q') = Pipe(q)
           /\ client' = [client EXCEPT !.pc = "assign", !.bads = <<>>, !.more = (q'.ready # {})]
<1> DEFINE bads == client.bads
           B == ToSet(bads)
           e == Released(q, bads)
<1>1. /\ client.pc = "import" /\ bads \in Seq(Block) /\ q' = Updates(q, bads)[Len(bads)]
      /\ client' = [client EXCEPT !.pc = "assign", !.bads = <<>>, !.more = (q'.ready # {})]
  BY DEF BasicInv, TypeOK, DoneDrain
<1>2. Sane(q) /\ q \in Queue /\ q.bad \subseteq Block \cup {Uncles} /\ B \subseteq Block
  BY <1>1, QueueFields, SetOf DEF BasicInv, Sane
<1>3. /\ e.verified = q.verified /\ e.verifying = q.verifying /\ e.unverified = q.unverified /\ e.unknown = q.unknown
      /\ e.ready = q.ready /\ e.draining = {} /\ e.bad = q.bad \cup B /\ e.knownSize = q.knownSize
  BY <1>2 DEF Released, Queue
<1>4. e \in Queue
  <2>1. q.bad \cup B \subseteq Block \cup {Uncles} /\ {} \subseteq Block
    BY <1>2
  <2>2. [q EXCEPT !.draining = {}, !.bad = @ \cup B] \in Queue
    BY <1>2, <2>1 DEF Queue
  <2> QED BY <2>2 DEF Released
<1> HIDE DEF e
<1>5. OnWay(e) = OnWay(q) /\ Hashes(e) = Hashes(q) /\ Held(e) = Held(q) /\ Pipe(e) = Pipe(q)
  BY <1>3 DEF OnWay, Hashes, Held, Done, Pipe
<1>6. Sane(e)
  BY <1>2, <1>3, <1>4, <1>5 DEF Sane, Apart
<1>7. Sane(q') /\ Purged(e, q') /\ (bads = <<>> => q' = e) /\ (bads # <<>> => Clean(q'))
  <2>1. e = Released(q, bads)
    BY DEF e
  <2> HIDE DEF bads
  <2> QED BY <1>1, <1>6, <2>1, UpdatesFacts
<1>8. q'.draining = {}
  BY <1>3, <1>7 DEF Purged
<1>9. CASE bads # <<>>
  <2>1. Cut(q, B, q')
    <3> HIDE DEF B, bads
    <3> QED BY <1>3, <1>7, <1>9, CutFacts
  <2> QED BY <1>1, <1>7, <1>8, <1>9, <2>1
<1>10. CASE bads = <<>>
  <2>1. B = {} /\ q' = e
    BY <1>7, <1>10, SetOfEmpty
  <2>2. q'.ready = q.ready /\ q'.bad = q.bad /\ OnWay(q') = OnWay(q) /\ Pipe(q') = Pipe(q)
    BY <1>3, <1>5, <2>1
  <2>3. /\ q'.verified = q.verified /\ q'.verifying = q.verifying /\ q'.unverified = q.unverified /\ q'.unknown = q.unknown
    BY <1>3, <2>1
  <2>4. (Tidy(q) => Tidy(q')) /\ (Unmixed(q) => Unmixed(q'))
    BY <2>2, <2>3 DEF Tidy, Unmixed
  <2> HIDE DEF B
  <2>5. Cut(q, B, q')
    BY <2>1, <2>2, <2>3, <2>4 DEF Cut
  <2> QED BY <1>1, <1>7, <1>8, <2>2, <2>5 DEF B
<1> QED BY <1>9, <1>10

\* tick takes the blocks out of m_future whose time has come.
LEMMA TickStep ==
    ASSUME BasicInv, Tick
    PROVE  /\ Sane(q') /\ Untouched(q, q') /\ q'.unknown = q.unknown /\ client.pc = "idle"
           /\ client'.batch \in Seq(Block) /\ client'.batch # <<>>
           /\ client' = [client EXCEPT !.pc = "tick", !.batch = client'.batch]
<1> DEFINE due == Only(q.future, {b \in Block : Time[b] <= clock})
           rest == Without(q.future, ToSet(due))
<1>1. /\ client.pc = "idle" /\ due # <<>>
      /\ \E order \in Orders(due, Time) : client' = [client EXCEPT !.pc = "tick", !.batch = Shuffle(due, order)]
      /\ q' = [q EXCEPT !.future = rest, !.unknownSize = RemoveSize(q.unknownSize, Len(due))]
  BY DEF Tick, Shuffle
<1>2. Sane(q) /\ q \in Queue /\ q.future \in Seq(Block) /\ q.unknownSize \in 0..(Word - 1)
  BY QueueFields DEF BasicInv, Sane
<1>3. due \in Seq(Block) /\ rest \in Seq(Block)
  BY <1>2, OnlyFacts, WithoutFacts
<1> HIDE DEF due, rest
<1>4. RemoveSize(q.unknownSize, Len(due)) \in 0..(Word - 1)
  BY <1>2, <1>3, LenProperties, RemoveSizeFacts
<1>5. q' \in Queue
  <2>1. [q EXCEPT !.future = rest, !.unknownSize = RemoveSize(q.unknownSize, Len(due))] \in Queue
    BY <1>2, <1>3, <1>4 DEF Queue
  <2> QED BY <1>1, <2>1
<1>6. Untouched(q, q') /\ q'.unknown = q.unknown /\ q'.knownSize = q.knownSize
  BY <1>1, <1>2 DEF Queue, Untouched
<1>7. OnWay(q') = OnWay(q) /\ Hashes(q') = Hashes(q) /\ Held(q') = Held(q)
  BY <1>6, UntouchedFacts
<1>8. Sane(q')
  BY <1>2, <1>5, <1>6, <1>7 DEF Sane, Apart, Untouched
<1>9. PICK order \in Bijection(DOMAIN due, DOMAIN due) : client' = [client EXCEPT !.pc = "tick", !.batch = Shuffle(due, order)]
  BY <1>1 DEF Orders, Grouped
<1>10. client'.batch = Shuffle(due, order)
  BY <1>9 DEF BasicInv, TypeOK
<1>11. Shuffle(due, order) \in Seq(Block) /\ Len(Shuffle(due, order)) = Len(due)
  BY <1>3, <1>9, ShuffleFacts
<1>12. Shuffle(due, order) # <<>>
  <2>1. Len(due) # 0
    BY <1>1, <1>3
  <2> QED BY <1>11, <2>1
<1> QED BY <1>1, <1>6, <1>8, <1>9, <1>10, <1>11, <1>12

\* The administrator retries the blocks of unknown parents.
LEMMA RetryStep ==
    ASSUME BasicInv, RetryAllUnknown
    PROVE  Sane(q') /\ Retried(q, q')
<1>1. PICK order \in Bijection(DOMAIN q.unknown, DOMAIN q.unknown) : q' = Retry(q, Shuffle(q.unknown, order))
  BY DEF RetryAllUnknown, Grouped, Retry, Shuffle
<1>2. Sane(q) /\ q.unknown \in Seq(Block) /\ Distinct(q.unknown)
  BY QueueFields DEF BasicInv, Sane, Apart
<1> DEFINE r == Shuffle(q.unknown, order)
<1>3. r \in Seq(Block) /\ Len(r) = Len(q.unknown) /\ ToSet(r) = ToSet(q.unknown) /\ Distinct(r)
  BY <1>1, <1>2, ShuffleFacts
<1> HIDE DEF r
<1> QED BY <1>1, <1>2, <1>3, RetryFacts DEF r

\* BlockChainSync clears the queue.
LEMMA ClearStep ==
    ASSUME BasicInv, Clear
    PROVE  /\ Sane(q') /\ OnWay(q') = {} /\ q'.ready = {} /\ q'.draining = {} /\ ToSet(q'.unknown) = {} /\ q'.bad = q.bad
           /\ Pipe(q') = <<>>
<1>1. q.bad \subseteq Block \cup {Uncles} /\ q' = EmptyQueue(q.bad)
  BY QueueFields DEF BasicInv, Sane, Clear
<1> QED BY <1>1, EmptySane

\* one block of the batch, when BlockChain::import returns
LEMMA ImportNextStep ==
    ASSUME BasicInv, ImportNext
    PROVE  /\ client.pc = "import" /\ client.batch \in Seq(Block) /\ client.batch # <<>> /\ q' = q
           /\ \E b \in Block : /\ b = Head(client.batch)
                               /\ \/ /\ chain' = chain /\ (b \in chain \/ b \in Transient \/ Time[b] > clock)
                                     /\ client' = [client EXCEPT !.batch = Tail(@)]
                                  \/ /\ chain' = chain \cup {b}
                                     /\ client' = [client EXCEPT !.batch = Tail(@)]
                                  \/ /\ chain' = chain /\ b \notin chain /\ (Parent[b] \notin chain \/ b \in Unsound)
                                     /\ client' = [client EXCEPT !.batch = Tail(@), !.bads = Append(@, b)]
<1> DEFINE b == Head(client.batch)
<1>1. client.pc = "import" /\ client.batch \in Seq(Block) /\ client.batch # <<>> /\ q' = q /\ client.bads \in Seq(Block)
  BY DEF BasicInv, TypeOK, ImportNext
<1>2. b \in Block
  BY <1>1, HeadTailProperties
<1>3. PICK r \in Outcomes(b) :
        /\ chain' = IF r = "imported" THEN chain \cup {b} ELSE chain
        /\ client' = [client EXCEPT !.batch = Tail(@),
              !.bads = IF r \in {"unknown parent", "bad"} THEN Append(@, b) ELSE @]
  BY DEF ImportNext
<1> HIDE DEF b
<1>4. \/ r \in {"known", "future time", "transient"} /\ (b \in chain \/ b \in Transient \/ Time[b] > clock)
      \/ r = "imported"
      \/ r \in {"unknown parent", "bad"} /\ b \notin chain /\ (Parent[b] \notin chain \/ b \in Unsound)
  BY <1>3 DEF Outcomes
<1>5. CASE r \in {"known", "future time", "transient"} /\ (b \in chain \/ b \in Transient \/ Time[b] > clock)
  <2>1. client' = [client EXCEPT !.batch = Tail(@), !.bads = client.bads] /\ chain' = chain
    BY <1>3, <1>5
  <2>2. client' = [client EXCEPT !.batch = Tail(@)]
    BY <2>1 DEF BasicInv, TypeOK
  <2> QED BY <1>1, <1>2, <1>5, <2>1, <2>2 DEF b
<1>6. CASE r = "imported"
  <2>1. client' = [client EXCEPT !.batch = Tail(@), !.bads = client.bads] /\ chain' = chain \cup {b}
    BY <1>3, <1>6
  <2>2. client' = [client EXCEPT !.batch = Tail(@)]
    BY <2>1 DEF BasicInv, TypeOK
  <2> QED BY <1>1, <1>2, <2>1, <2>2 DEF b
<1>7. CASE r \in {"unknown parent", "bad"} /\ b \notin chain /\ (Parent[b] \notin chain \/ b \in Unsound)
  <2>1. client' = [client EXCEPT !.batch = Tail(@), !.bads = Append(@, b)] /\ chain' = chain
    BY <1>3, <1>7
  <2> QED BY <1>1, <1>2, <1>7, <2>1 DEF b
<1> QED BY <1>4, <1>5, <1>6, <1>7

-----------------------------------------------------------------------------
(* The basic invariant is inductive.                                       *)

\* import leaves m_drainingSet alone and forgets no bad block.
LEMMA ArrivesBasic ==
    ASSUME NEW s, NEW b, NEW t, Arrives(s, b, t)
    PROVE  t.draining = s.draining /\ s.bad \subseteq t.bad
BY DEF Arrives, Postponed, Waits, Untouched, Refused, Accepted, Cut

\* The queue starts sane.
LEMMA BasicInit == ASSUME Init PROVE BasicInv
<1>1. Sane(q) /\ q.draining = {}
  BY EmptySane DEF Init
<1>2. q \in Queue
  BY <1>1 DEF Sane
<1>3. <<>> \in Seq(Block)
  BY EmptySeq
<1> QED BY <1>1, <1>2, <1>3 DEF Init, BasicInv, TypeOK, NoJob, Idle

\* Every step keeps the basic invariant.
LEMMA BasicNext == ASSUME BasicInv, [Next]_vars PROVE BasicInv'
<1>1. /\ TypeOK /\ Sane(q) /\ (\A v \in Verifier : job[v].pc = "verify" => job[v].hash \in Block)
      /\ (client.pc = "tick" => client.batch # <<>>)
      /\ (client.pc # "import" => client.bads = <<>> /\ q.draining = {})
  BY DEF BasicInv
<1>2. Sane(q') => q' \in Queue
  BY DEF Sane
<1>3. CASE ImportBlock
  <2>1. Sane(q') /\ q'.draining = q.draining
    BY <1>3, ImportBlockStep, ArrivesBasic
  <2>2. UNCHANGED <<chain, job, client, sync>>
    BY <1>3 DEF ImportBlock
  <2> QED BY <1>1, <1>2, <2>1, <2>2 DEF BasicInv, TypeOK
<1>4. ASSUME NEW v \in Verifier, TakeJob(v) PROVE BasicInv'
  <2>1. PICK b \in Block : Taken(q, b, q') /\ job' = [job EXCEPT ![v] = [pc |-> "verify", hash |-> b]]
    BY <1>4, TakeJobStep
  <2>2. Sane(q') /\ q'.draining = q.draining
    BY <1>4, <2>1, TakeJobStep DEF Taken
  <2>3. UNCHANGED <<chain, client, sync>>
    BY <1>4 DEF TakeJob
  <2> QED BY <1>1, <1>2, <2>1, <2>2, <2>3 DEF BasicInv, TypeOK
<1>5. ASSUME NEW v \in Verifier, VerifyFails(v) PROVE BasicInv'
  <2>1. Sane(q') /\ q'.draining = q.draining /\ job' = [job EXCEPT ![v] = NoJob]
    BY <1>5, VerifyFailsStep DEF Passed
  <2>2. UNCHANGED <<chain, client, sync>>
    BY <1>5 DEF VerifyFails
  <2> QED BY <1>1, <1>2, <2>1, <2>2 DEF BasicInv, TypeOK, NoJob
<1>6. ASSUME NEW v \in Verifier, VerifyNext(v) PROVE BasicInv'
  <2>1. Sane(q') /\ q'.draining = q.draining /\ job' = [job EXCEPT ![v] = [NoJob EXCEPT !.pc = "notify"]]
    BY <1>6, VerifyNextStep DEF Passed
  <2>2. UNCHANGED <<chain, client, sync>>
    BY <1>6 DEF VerifyNext
  <2> QED BY <1>1, <1>2, <2>1, <2>2 DEF BasicInv, TypeOK, NoJob
<1>7. ASSUME NEW v \in Verifier, VerifyLater(v) PROVE BasicInv'
  <2>1. Sane(q') /\ q'.draining = q.draining /\ job' = [job EXCEPT ![v] = NoJob]
    BY <1>7, VerifyLaterStep DEF Finished
  <2>2. UNCHANGED <<chain, client, sync>>
    BY <1>7 DEF VerifyLater
  <2> QED BY <1>1, <1>2, <2>1, <2>2 DEF BasicInv, TypeOK, NoJob
<1>8. ASSUME NEW v \in Verifier, OnReady(v) PROVE BasicInv'
  BY <1>1, <1>8 DEF BasicInv, TypeOK, NoJob, OnReady
<1>9. CASE StartSync
  BY <1>1, <1>9 DEF BasicInv, TypeOK, StartSync
<1>10. CASE Drain
  <2>1. /\ Sane(q') /\ client'.batch \in Seq(Block) /\ client' = [client EXCEPT !.pc = "import", !.batch = client'.batch]
    BY <1>10, DrainStep DEF Fetched
  <2>2. UNCHANGED <<chain, job, sync>>
    BY <1>10 DEF Drain
  <2> QED BY <1>1, <1>2, <2>1, <2>2 DEF BasicInv, TypeOK
<1>11. CASE ImportNext
  <2>1. PICK b \in Block : /\ b = Head(client.batch)
                           /\ \/ /\ chain' = chain /\ (b \in chain \/ b \in Transient \/ Time[b] > clock)
                                 /\ client' = [client EXCEPT !.batch = Tail(@)]
                              \/ /\ chain' = chain \cup {b}
                                 /\ client' = [client EXCEPT !.batch = Tail(@)]
                              \/ /\ chain' = chain /\ b \notin chain /\ (Parent[b] \notin chain \/ b \in Unsound)
                                 /\ client' = [client EXCEPT !.batch = Tail(@), !.bads = Append(@, b)]
    BY <1>11, ImportNextStep
  <2>2. client.pc = "import" /\ client.batch \in Seq(Block) /\ client.batch # <<>> /\ q' = q
    BY <1>11, ImportNextStep
  <2>3. Tail(client.batch) \in Seq(Block) /\ Append(client.bads, b) \in Seq(Block)
    BY <1>1, <2>2, HeadTailProperties, AppendProperties DEF TypeOK
  <2>4. UNCHANGED <<job, sync>>
    BY <1>11 DEF ImportNext
  <2> QED BY <1>1, <1>2, <2>1, <2>2, <2>3, <2>4 DEF BasicInv, TypeOK
<1>12. CASE DoneDrain
  <2>1. /\ Sane(q') /\ q'.draining = {} /\ client' = [client EXCEPT !.pc = "assign", !.bads = <<>>, !.more = (q'.ready # {})]
    BY <1>12, DoneDrainStep
  <2>2. UNCHANGED <<chain, job, sync>>
    BY <1>12 DEF DoneDrain
  <2>3. <<>> \in Seq(Block) /\ (q'.ready # {}) \in BOOLEAN
    BY EmptySeq
  <2> QED BY <1>1, <1>2, <2>1, <2>2, <2>3 DEF BasicInv, TypeOK
<1>13. CASE AssignSync
  <2>1. <<>> \in Seq(Block)
    BY EmptySeq
  <2> QED BY <1>1, <1>13, <2>1 DEF BasicInv, TypeOK, AssignSync, Idle
<1>14. CASE Tick
  <2>1. /\ Sane(q') /\ q'.draining = q.draining /\ client'.batch \in Seq(Block) /\ client'.batch # <<>>
        /\ client.pc = "idle" /\ client' = [client EXCEPT !.pc = "tick", !.batch = client'.batch]
    BY <1>14, TickStep DEF Untouched
  <2>2. UNCHANGED <<chain, job, sync>>
    BY <1>14 DEF Tick
  <2> QED BY <1>1, <1>2, <2>1, <2>2 DEF BasicInv, TypeOK
<1>15. CASE TickImport
  <2>1. /\ Sane(q') /\ q'.draining = q.draining /\ client.batch \in Seq(Block) /\ client.batch # <<>>
    BY <1>15, TickImportStep, ArrivesBasic
  <2>2. /\ UNCHANGED <<chain, job, sync>> /\ client.pc = "tick"
        /\ client' = IF Len(client.batch) = 1 THEN Idle ELSE [client EXCEPT !.batch = Tail(@)]
    BY <1>15 DEF TickImport
  <2>3. Tail(client.batch) \in Seq(Block) /\ (Len(client.batch) # 1 => Tail(client.batch) # <<>>)
    <3>1. Tail(client.batch) \in Seq(Block) /\ Len(Tail(client.batch)) = Len(client.batch) - 1 /\ Len(client.batch) \in Nat
      BY <2>1, HeadTailProperties, LenProperties
    <3>2. Len(client.batch) # 1 => Len(Tail(client.batch)) # 0
      BY <3>1
    <3>3. Len(client.batch) # 1 => Tail(client.batch) # <<>>
      BY <3>2, EmptySeq
    <3> QED BY <3>1, <3>3
  <2>4. <<>> \in Seq(Block)
    BY EmptySeq
  <2>5. client' \in [pc : {"idle", "drain", "import", "assign", "tick"}, batch : Seq(Block), bads : Seq(Block), more : BOOLEAN]
        /\ (client'.pc = "tick" => client'.batch # <<>>) /\ client'.bads = <<>> /\ client'.pc # "import"
    BY <1>1, <2>2, <2>3, <2>4 DEF TypeOK, Idle
  <2> QED BY <1>1, <1>2, <2>1, <2>2, <2>5 DEF BasicInv, TypeOK
<1>16. CASE Clear
  <2>1. Sane(q') /\ q'.draining = {}
    BY <1>16, ClearStep
  <2>2. UNCHANGED <<chain, job, client, sync>>
    BY <1>16 DEF Clear
  <2> QED BY <1>1, <1>2, <2>1, <2>2 DEF BasicInv, TypeOK
<1>17. CASE RetryAllUnknown
  <2>1. Sane(q') /\ q'.draining = q.draining
    BY <1>17, RetryStep DEF Retried
  <2>2. UNCHANGED <<chain, job, client, sync>>
    BY <1>17 DEF RetryAllUnknown
  <2> QED BY <1>1, <1>2, <2>1, <2>2 DEF BasicInv, TypeOK
<1>18. CASE Advance
  BY <1>1, <1>18 DEF BasicInv, TypeOK, Advance
<1>19. CASE UNCHANGED vars
  BY <1>1, <1>19 DEF BasicInv, TypeOK, vars
<1> QED BY <1>3, <1>4, <1>5, <1>6, <1>7, <1>8, <1>9, <1>10, <1>11, <1>12, <1>13, <1>14, <1>15, <1>16, <1>17, <1>18, <1>19 DEF Next

\* The basic invariant holds in every reachable state.
LEMMA BasicAlways == Spec => []BasicInv
<1>1. BasicInv /\ [Next]_vars => BasicInv'
  BY BasicNext
<1> QED BY <1>1, BasicInit, PTL DEF Spec

\* The queue and the threads keep their types, whatever is imported, verified,
\* drained, refused, cleared or retried, and in whatever order; in particular
\* knownSize never falls below zero.
THEOREM BlockQueueTypes == Spec => []TypeOK
<1>1. BasicInv => TypeOK
  BY DEF BasicInv
<1> QED BY <1>1, BasicAlways, PTL

\* A block is in m_unverified, m_verifying and m_verified at most once, for any
\* number of verifiers, and although clear, updateBad and retryAllUnknown take
\* blocks out of the sets that import asks.
THEOREM BlockOnItsWayOnce == Spec => []NoDuplicates
<1>1. BasicInv => NoDuplicates
  <2> SUFFICES ASSUME BasicInv PROVE NoDuplicates
    OBVIOUS
  <2>1. Distinct(Pipe(q))
    BY PipeFacts DEF BasicInv
  <2> QED BY <2>1 DEF NoDuplicates, Pipeline, Distinct
<1> QED BY <1>1, BasicAlways, PTL

-----------------------------------------------------------------------------
(* m_readySet, as long as no block is known to be bad.                     *)

\* until a block is bad, m_readySet is what is on its way
ReadyInv == q.bad = {} => q.ready = OnWay(q)

\* import keeps m_readySet exact until a block is bad.
LEMMA ReadyArrives ==
    ASSUME NEW s, NEW b, NEW t, Arrives(s, b, t), s.bad = {} => s.ready = OnWay(s), t.bad = {}
    PROVE  t.ready = OnWay(t)
<1>1. CASE Postponed(s, b, t) \/ Waits(s, b, t)
  <2>1. Untouched(s, t)
    BY <1>1 DEF Postponed, Waits
  <2>2. OnWay(t) = OnWay(s) /\ t.ready = s.ready /\ t.bad = s.bad
    BY <2>1, UntouchedFacts DEF Untouched
  <2> QED BY <2>2
<1>2. CASE Refused(s, b, t)
  BY <1>2 DEF Refused, Cut
<1>3. CASE Accepted(s, b, t)
  BY <1>3 DEF Accepted
<1> QED BY <1>1, <1>2, <1>3 DEF Arrives

\* Every step keeps m_readySet exact until a block is bad.
LEMMA ReadyNext == ASSUME BasicInv, ReadyInv, [Next]_vars PROVE ReadyInv'
<1> SUFFICES ASSUME q'.bad = {} PROVE q'.ready = OnWay(q')
  BY DEF ReadyInv, OnWay, Hashes
<1>1. q.bad = {} => q.ready = OnWay(q)
  BY DEF ReadyInv
<1>2. q' = q => q'.ready = OnWay(q')
  BY <1>1
<1>3. CASE ImportBlock
  <2>1. PICK b \in Block : Arrives(q, b, q')
    BY <1>3, ImportBlockStep
  <2> QED BY <1>1, <2>1, ReadyArrives
<1>4. ASSUME NEW v \in Verifier, TakeJob(v) PROVE q'.ready = OnWay(q')
  <2>1. PICK b \in Block : Taken(q, b, q')
    BY <1>4, TakeJobStep
  <2> QED BY <1>1, <2>1 DEF Taken
<1>5. ASSUME NEW v \in Verifier, VerifyFails(v) PROVE q'.ready = OnWay(q')
  <2>1. job[v].hash \in q'.bad
    BY <1>5, VerifyFailsStep
  <2> QED BY <2>1
<1>6. ASSUME NEW v \in Verifier, VerifyNext(v) PROVE q'.ready = OnWay(q')
  <2>1. Sane(q') /\ Unbroken(q, q') /\ q.bad \subseteq q'.bad
    BY <1>6, VerifyNextStep DEF Passed
  <2>2. q'.ready = q.ready /\ Pipe(q') = Pipe(q)
    BY <2>1 DEF Unbroken
  <2>3. ToSet(Pipe(q)) = OnWay(q) /\ ToSet(Pipe(q')) = OnWay(q')
    BY <2>1, PipeFacts DEF BasicInv
  <2> QED BY <1>1, <2>1, <2>2, <2>3
<1>7. ASSUME NEW v \in Verifier, VerifyLater(v) PROVE q'.ready = OnWay(q')
  <2>1. q' = q \/ \E e \in ToSet(q.verifying) : Finished(q, e, q')
    BY <1>7, VerifyLaterStep
  <2> QED BY <1>1, <1>2, <2>1 DEF Finished
<1>8. ASSUME NEW v \in Verifier, OnReady(v) PROVE q'.ready = OnWay(q')
  BY <1>2, <1>8 DEF OnReady
<1>9. CASE Drain
  <2>1. Fetched(q, client'.batch, q')
    BY <1>9, DrainStep
  <2> QED BY <1>1, <2>1 DEF Fetched
<1>10. CASE DoneDrain
  <2>1. client.bads \in Seq(Block) /\ ToSet(client.bads) \subseteq q'.bad
    BY <1>10, DoneDrainStep DEF Cut
  <2>2. client.bads = <<>>
    BY <2>1, SetOf
  <2>3. q'.ready = q.ready /\ q'.bad = q.bad /\ OnWay(q') = OnWay(q)
    BY <1>10, <2>2, DoneDrainStep
  <2> QED BY <1>1, <2>3
<1>11. CASE Tick
  <2>1. OnWay(q') = OnWay(q) /\ q'.ready = q.ready /\ q'.bad = q.bad
    BY <1>11, TickStep, UntouchedFacts DEF Untouched
  <2> QED BY <1>1, <2>1
<1>12. CASE TickImport
  <2>1. Arrives(q, Head(client.batch), q')
    BY <1>12, TickImportStep
  <2> QED BY <1>1, <2>1, ReadyArrives
<1>13. CASE Clear
  BY <1>13, ClearStep
<1>14. CASE RetryAllUnknown
  <2>1. Retried(q, q')
    BY <1>14, RetryStep
  <2> QED BY <1>1, <2>1 DEF Retried
<1>15. CASE StartSync \/ ImportNext \/ AssignSync \/ Advance \/ UNCHANGED vars
  BY <1>2, <1>15 DEF StartSync, ImportNext, AssignSync, Advance, vars
<1> QED BY <1>3, <1>4, <1>5, <1>6, <1>7, <1>8, <1>9, <1>10, <1>11, <1>12, <1>13, <1>14, <1>15 DEF Next

\* As long as no block is known to be bad, m_readySet holds exactly the blocks
\* of m_unverified, m_verifying and m_verified, which is what
\* BlockQueue::invariants compares by size.
THEOREM ReadySetOfThePipe == Spec => [](q.bad = {} => ReadySetMatches)
<1>1. Init => ReadyInv
  <2> SUFFICES ASSUME Init PROVE ReadyInv
    OBVIOUS
  <2>1. q.ready = {} /\ OnWay(q) = {}
    BY EmptySane DEF Init
  <2> QED BY <2>1 DEF ReadyInv
<1>2. BasicInv /\ ReadyInv /\ [Next]_vars => ReadyInv'
  BY ReadyNext
<1>3. BasicInv /\ ReadyInv => (q.bad = {} => ReadySetMatches)
  <2> SUFFICES ASSUME BasicInv, q.ready = OnWay(q) PROVE ReadySetMatches
    BY DEF ReadyInv
  <2>1. Pipe(q) \in Seq(Block) /\ ToSet(Pipe(q)) = OnWay(q) /\ Distinct(Pipe(q))
    BY PipeFacts DEF BasicInv
  <2>2. Cardinality(ToSet(Pipe(q))) = Len(Pipe(q))
    BY <2>1, SetOf
  <2> QED BY <2>1, <2>2 DEF ReadySetMatches, Pipeline
<1> QED BY <1>1, <1>2, <1>3, BasicAlways, PTL DEF Spec

-----------------------------------------------------------------------------
(* The order of the blocks, as long as no block is known to be bad.        *)

\* the parent of a block of p is in C or ahead of it
Ordered(p, C) == \A i \in 1..Len(p) : Parent[p[i]] \in C \/ \E j \in 1..(i - 1) : p[j] = Parent[p[i]]

\* More blocks on the chain do no harm to the order.
LEMMA OrderedMore == ASSUME NEW p, NEW C, NEW D, Ordered(p, C), C \subseteq D PROVE Ordered(p, D)
BY DEF Ordered

\* w is p, then b, then f
Grown(p, b, f, w) ==
    /\ Len(w) = Len(p) + 1 + Len(f)
    /\ \A i \in 1..Len(p) : w[i] = p[i]
    /\ w[Len(p) + 1] = b
    /\ \A j \in 1..Len(f) : w[Len(p) + 1 + j] = f[j]

\* The pipeline after import: what it was, the block, and its descendants.
LEMMA GrownFacts ==
    ASSUME NEW T, NEW m \in Seq(T), NEW u \in Seq(T), NEW b \in T, NEW f \in Seq(T)
    PROVE  Grown(m \o u, b, f, m \o (Append(u, b) \o f))
<1> DEFINE p == m \o u
           x == Append(u, b)
           y == x \o f
           w == m \o y
           a == Len(m)
           c == Len(u)
           d == Len(f)
<1>1. x \in Seq(T) /\ Len(x) = c + 1 /\ (\A i \in 1..c : x[i] = u[i]) /\ x[c + 1] = b
  BY AppendProperties
<1>2. p \in Seq(T) /\ Len(p) = a + c /\ (\A i \in 1..a : p[i] = m[i]) /\ \A i \in 1..c : p[a + i] = u[i]
  <2>1. p \in Seq(T) /\ Follows(m, u, p)
    BY FollowsConcat
  <2> HIDE DEF p
  <2> QED BY <2>1 DEF Follows
<1>3. y \in Seq(T) /\ Len(y) = Len(x) + d /\ (\A i \in 1..Len(x) : y[i] = x[i]) /\ \A i \in 1..d : y[Len(x) + i] = f[i]
  <2> HIDE DEF x
  <2>1. y \in Seq(T) /\ Follows(x, f, y)
    BY <1>1, FollowsConcat
  <2> HIDE DEF y
  <2> QED BY <2>1 DEF Follows
<1>4. w \in Seq(T) /\ Len(w) = a + Len(y) /\ (\A i \in 1..a : w[i] = m[i]) /\ \A i \in 1..Len(y) : w[a + i] = y[i]
  <2> HIDE DEF y
  <2>1. w \in Seq(T) /\ Follows(m, y, w)
    BY <1>3, FollowsConcat
  <2> HIDE DEF w
  <2> QED BY <2>1 DEF Follows
<1>5. a \in Nat /\ c \in Nat /\ d \in Nat
  BY LenProperties
<1> HIDE DEF p, x, y, w, a, c, d
<1>6. Len(w) = Len(p) + 1 + d
  BY <1>1, <1>2, <1>3, <1>4, <1>5
<1>7. \A i \in 1..Len(p) : w[i] = p[i]
  <2> SUFFICES ASSUME NEW i \in 1..(a + c) PROVE w[i] = p[i]
    BY <1>2
  <2>1. CASE i <= a
    <3>1. i \in 1..a
      BY <2>1, <1>5
    <3> QED BY <3>1, <1>2, <1>4
  <2>2. CASE i > a
    <3>1. i - a \in 1..c /\ a + (i - a) = i /\ i - a \in 1..Len(x) /\ i - a \in 1..Len(y)
      BY <2>2, <1>1, <1>3, <1>5
    <3>2. w[a + (i - a)] = y[i - a] /\ y[i - a] = x[i - a] /\ x[i - a] = u[i - a] /\ p[a + (i - a)] = u[i - a]
      BY <3>1, <1>1, <1>2, <1>3, <1>4
    <3> QED BY <3>1, <3>2
  <2> QED BY <2>1, <2>2, <1>5
<1>8. w[Len(p) + 1] = b
  <2>1. Len(p) + 1 = a + (c + 1) /\ c + 1 \in 1..Len(y) /\ c + 1 \in 1..Len(x)
    BY <1>1, <1>2, <1>3, <1>5
  <2>2. w[a + (c + 1)] = y[c + 1] /\ y[c + 1] = x[c + 1]
    BY <2>1, <1>3, <1>4
  <2> QED BY <2>1, <2>2, <1>1
<1>9. \A j \in 1..d : w[Len(p) + 1 + j] = f[j]
  <2> SUFFICES ASSUME NEW j \in 1..d PROVE w[Len(p) + 1 + j] = f[j]
    OBVIOUS
  <2>1. Len(p) + 1 + j = a + (Len(x) + j) /\ Len(x) + j \in 1..Len(y)
    BY <1>1, <1>2, <1>3, <1>5
  <2>2. w[a + (Len(x) + j)] = y[Len(x) + j] /\ y[Len(x) + j] = f[j]
    BY <2>1, <1>3, <1>4
  <2> QED BY <2>1, <2>2
<1>10. Grown(p, b, f, w)
  BY <1>6, <1>7, <1>8, <1>9 DEF Grown, d
<1> QED BY <1>10 DEF p, w, y, x

\* A block whose parent is there, followed by its descendants, keeps the order.
LEMMA GrownOrder ==
    ASSUME NEW p \in Seq(Block), NEW b \in Block, NEW f \in Seq(Block), NEW w, Grown(p, b, f, w), NEW C,
           Ordered(p, C), Parent[b] \in C \cup ToSet(p),
           \A j \in DOMAIN f : Parent[f[j]] = b \/ \E i \in 1..(j - 1) : f[i] = Parent[f[j]]
    PROVE  Ordered(w, C)
<1> DEFINE n == Len(p)
           d == Len(f)
<1>1. n \in Nat /\ d \in Nat /\ DOMAIN f = 1..d
  BY LenProperties
<1>2. /\ Len(w) = n + 1 + d /\ (\A i \in 1..n : w[i] = p[i]) /\ w[n + 1] = b
      /\ \A j \in 1..d : w[n + 1 + j] = f[j]
  BY DEF Grown
<1>3. \A x \in ToSet(p) : \E i \in 1..n : p[i] = x
  BY Elements
<1>4. \A i \in 1..n : Parent[p[i]] \in C \/ \E j \in 1..(i - 1) : p[j] = Parent[p[i]]
  BY DEF Ordered
<1> HIDE DEF n, d
<1> SUFFICES ASSUME NEW i \in 1..(n + 1 + d) PROVE Parent[w[i]] \in C \/ \E j \in 1..(i - 1) : w[j] = Parent[w[i]]
  BY <1>2 DEF Ordered
<1>5. CASE i <= n
  <2>1. i \in 1..n /\ \A j \in 1..(i - 1) : j \in 1..n
    BY <1>1, <1>5
  <2> QED BY <2>1, <1>2, <1>4
<1>6. CASE i = n + 1
  <2>1. w[i] = b
    BY <1>2, <1>6
  <2>2. CASE Parent[b] \in ToSet(p)
    <3>1. PICK j \in 1..n : p[j] = Parent[b]
      BY <1>3, <2>2
    <3>2. j \in 1..(i - 1) /\ w[j] = p[j]
      BY <1>1, <1>2, <1>6
    <3> QED BY <2>1, <3>1, <3>2
  <2> QED BY <2>1, <2>2
<1>7. CASE i > n + 1
  <2> DEFINE k == i - (n + 1)
  <2>1. k \in 1..d /\ n + 1 + k = i /\ n + 1 \in 1..(i - 1)
    BY <1>1, <1>7
  <2>2. \A j \in 1..(k - 1) : j \in 1..d /\ n + 1 + j \in 1..(i - 1)
    BY <1>1, <2>1
  <2> HIDE DEF k
  <2>3. w[i] = f[k] /\ \A j \in 1..(k - 1) : w[n + 1 + j] = f[j]
    BY <1>2, <2>1, <2>2
  <2>4. Parent[f[k]] = b \/ \E j \in 1..(k - 1) : f[j] = Parent[f[k]]
    BY <1>1, <2>1
  <2>5. CASE Parent[f[k]] = b
    BY <1>2, <2>1, <2>3, <2>5
  <2>6. CASE \E j \in 1..(k - 1) : f[j] = Parent[f[k]]
    <3>1. PICK j \in 1..(k - 1) : f[j] = Parent[f[k]]
      BY <2>6
    <3> QED BY <2>2, <2>3, <3>1
  <2> QED BY <2>4, <2>5, <2>6
<1> QED BY <1>1, <1>5, <1>6, <1>7

\* until a block is bad, the pipeline and the batch are in order, and what is being
\* imported is on the chain or still in the batch
OrderInv ==
    /\ clock \in Nat /\ retries \in Nat
    /\ q.bad = {} /\ client.bads = <<>> =>
        /\ q.draining \subseteq chain \cup Batch
        /\ Ordered(Pipe(q), chain \cup Batch)
        /\ client.pc = "import" => Ordered(client.batch, chain)

\* import keeps the order of the pipeline.
LEMMA OrderArrives ==
    ASSUME NEW s, Sane(s), NEW b \in Block, NEW t, Sane(t), Arrives(s, b, t), NEW C, chain \subseteq C,
           t.bad = {}, s.bad = {} => s.ready = OnWay(s) /\ s.draining \subseteq C /\ Ordered(Pipe(s), C)
    PROVE  t.draining \subseteq C /\ Ordered(Pipe(t), C)
<1>1. CASE Postponed(s, b, t) \/ Waits(s, b, t)
  <2>1. Untouched(s, t)
    BY <1>1 DEF Postponed, Waits
  <2>2. Pipe(t) = Pipe(s) /\ t.draining = s.draining /\ t.bad = s.bad
    BY <2>1, UntouchedFacts DEF Untouched
  <2> QED BY <2>2
<1>2. CASE Refused(s, b, t)
  BY <1>2 DEF Refused, Cut
<1>3. CASE Accepted(s, b, t)
  <2>1. t.verified = s.verified /\ t.verifying = s.verifying /\ t.draining = s.draining /\ s.bad = {}
        /\ Parent[b] \in s.ready \cup s.draining \cup chain
    BY <1>3 DEF Accepted
  <2>2. PICK f \in Seq(Block) : /\ t.unverified = Append(s.unverified, b) \o f
                                /\ \A j \in DOMAIN f : Parent[f[j]] = b \/ \E i \in 1..(j - 1) : f[i] = Parent[f[j]]
    BY <1>3 DEF Accepted
  <2> DEFINE m == s.verified \o HashSeq(s.verifying)
             u == s.unverified
  <2>3. m \in Seq(Block) /\ u \in Seq(Block)
    <3>1. s.verified \in Seq(Block) /\ s.verifying \in Seq(Entry) /\ u \in Seq(Block)
      BY QueueFields DEF Sane
    <3>2. HashSeq(s.verifying) \in Seq(Block)
      BY <3>1, HashSeqFacts
    <3> QED BY <3>1, <3>2, ConcatProperties
  <2>4. Pipe(s) = m \o u
    BY PipeFacts
  <2>5. Pipe(t) = m \o (Append(u, b) \o f)
    BY <2>1, <2>2, PipeFacts
  <2> HIDE DEF m, u
  <2>6. Grown(Pipe(s), b, f, Pipe(t))
    BY <2>3, <2>4, <2>5, GrownFacts
  <2>7. Pipe(s) \in Seq(Block) /\ ToSet(Pipe(s)) = OnWay(s)
    BY PipeFacts
  <2>8. Parent[b] \in C \cup ToSet(Pipe(s)) /\ Ordered(Pipe(s), C) /\ t.draining \subseteq C
    BY <2>1, <2>7
  <2>9. Ordered(Pipe(t), C)
    BY <2>2, <2>6, <2>7, <2>8, GrownOrder
  <2> QED BY <2>8, <2>9
<1> QED BY <1>1, <1>2, <1>3 DEF Arrives

\* the front of an ordered sequence, and what is behind it
LEMMA OrderSplit ==
    ASSUME NEW o \in Seq(Block), NEW p \in Seq(Block), NEW w, Follows(o, p, w), NEW C, Ordered(w, C)
    PROVE  Ordered(o, C) /\ Ordered(p, C \cup ToSet(o))
<1> DEFINE a == Len(o)
           c == Len(p)
<1>1. a \in Nat /\ c \in Nat /\ \A i \in 1..a : o[i] \in ToSet(o)
  BY LenProperties, Elements
<1>2. /\ Len(w) = a + c /\ (\A i \in 1..a : w[i] = o[i]) /\ (\A i \in 1..c : w[a + i] = p[i])
      /\ \A i \in 1..Len(w) : Parent[w[i]] \in C \/ \E j \in 1..(i - 1) : w[j] = Parent[w[i]]
  BY DEF Follows, Ordered
<1> HIDE DEF a, c
<1>3. \A i \in 1..a : Parent[o[i]] \in C \/ \E j \in 1..(i - 1) : o[j] = Parent[o[i]]
  <2> SUFFICES ASSUME NEW i \in 1..a PROVE Parent[o[i]] \in C \/ \E j \in 1..(i - 1) : o[j] = Parent[o[i]]
    OBVIOUS
  <2>1. i \in 1..Len(w) /\ \A j \in 1..(i - 1) : j \in 1..a
    BY <1>1, <1>2
  <2> QED BY <1>2, <2>1
<1>4. \A i \in 1..c : Parent[p[i]] \in C \cup ToSet(o) \/ \E j \in 1..(i - 1) : p[j] = Parent[p[i]]
  <2> SUFFICES ASSUME NEW i \in 1..c PROVE Parent[p[i]] \in C \cup ToSet(o) \/ \E j \in 1..(i - 1) : p[j] = Parent[p[i]]
    OBVIOUS
  <2>1. a + i \in 1..Len(w) /\ w[a + i] = p[i]
    BY <1>1, <1>2
  <2> DEFINE k == a + i
  <2>2. k = a + i /\ k \in 1..Len(w) /\ w[k] = p[i]
    BY <2>1
  <2> HIDE DEF k
  <2>3. Parent[p[i]] \in C \/ \E j \in 1..(k - 1) : w[j] = Parent[p[i]]
    <3>1. Parent[w[k]] \in C \/ \E j \in 1..(k - 1) : w[j] = Parent[w[k]]
      BY <1>2, <2>2
    <3> QED BY <2>2, <3>1
  <2>4. ASSUME NEW j \in 1..(k - 1), w[j] = Parent[p[i]]
        PROVE  Parent[p[i]] \in ToSet(o) \/ \E h \in 1..(i - 1) : p[h] = Parent[p[i]]
    <3>1. CASE j <= a
      <4>1. j \in 1..a
        BY <1>1, <3>1
      <4> QED BY <1>1, <1>2, <2>4, <4>1
    <3>2. CASE j > a
      <4>1. j - a \in 1..(i - 1) /\ j - a \in 1..c /\ a + (j - a) = j
        BY <1>1, <2>2, <3>2
      <4>2. w[a + (j - a)] = p[j - a]
        BY <1>2, <4>1
      <4> QED BY <2>4, <4>1, <4>2
    <3> QED BY <1>1, <2>2, <3>1, <3>2
  <2> QED BY <2>3, <2>4
<1> QED BY <1>3, <1>4 DEF Ordered, a, c

\* the first block of an ordered sequence goes to the chain
LEMMA OrderTail ==
    ASSUME NEW p \in Seq(Block), p # <<>>, NEW C, NEW D, Ordered(p, C), C \cup {Head(p)} \subseteq D
    PROVE  Ordered(Tail(p), D) /\ Parent[Head(p)] \in C
<1> DEFINE r == Tail(p)
           n == Len(p)
<1>1. n \in Nat /\ n >= 1 /\ r \in Seq(Block) /\ Len(r) = n - 1 /\ Head(p) = p[1] /\ \A i \in 1..(n - 1) : r[i] = p[i + 1]
  <2>1. n \in Nat /\ n # 0
    BY EmptySeq
  <2>2. r \in Seq(Block) /\ Len(r) = n - 1 /\ Head(p) = p[1] /\ \A i \in 1..Len(r) : r[i] = p[i + 1]
    BY HeadTailProperties
  <2> HIDE DEF r, n
  <2> QED BY <2>1, <2>2
<1>2. \A i \in 1..n : Parent[p[i]] \in C \/ \E j \in 1..(i - 1) : p[j] = Parent[p[i]]
  BY DEF Ordered
<1> HIDE DEF r, n
<1>3. Parent[Head(p)] \in C
  <2>1. 1 \in 1..n /\ 1..(1 - 1) = {}
    BY <1>1
  <2> QED BY <1>1, <1>2, <2>1
<1>4. \A i \in 1..(n - 1) : Parent[r[i]] \in D \/ \E j \in 1..(i - 1) : r[j] = Parent[r[i]]
  <2> SUFFICES ASSUME NEW i \in 1..(n - 1) PROVE Parent[r[i]] \in D \/ \E j \in 1..(i - 1) : r[j] = Parent[r[i]]
    OBVIOUS
  <2>1. i + 1 \in 1..n /\ r[i] = p[i + 1] /\ (i + 1) - 1 = i
    BY <1>1
  <2>2. Parent[r[i]] \in C \/ \E j \in 1..i : p[j] = Parent[r[i]]
    BY <1>2, <2>1
  <2>3. ASSUME NEW j \in 1..i, p[j] = Parent[r[i]] PROVE Parent[r[i]] \in D \/ \E k \in 1..(i - 1) : r[k] = Parent[r[i]]
    <3>1. CASE j = 1
      BY <1>1, <2>3, <3>1
    <3>2. CASE j # 1
      <4>1. j - 1 \in 1..(i - 1) /\ j - 1 \in 1..(n - 1) /\ (j - 1) + 1 = j
        BY <1>1, <3>2
      <4>2. r[j - 1] = p[(j - 1) + 1]
        BY <1>1, <4>1
      <4> QED BY <2>3, <4>1, <4>2
    <3> QED BY <3>1, <3>2
  <2> QED BY <2>2, <2>3
<1>5. Ordered(r, D)
  BY <1>1, <1>4 DEF Ordered
<1> QED BY <1>3, <1>5 DEF r

\* no import fails for a moment, nobody retries blocks of unknown parents, and no
\* block comes before its time
Steady == Transient = {} /\ MaxRetries = 0 /\ \A b \in Block : Time[b] = 0

\* The clock stays a number, and nothing is retried.
LEMMA CountersNext ==
    ASSUME Steady, [Next]_vars, clock \in Nat, retries \in Nat
    PROVE  clock' \in Nat /\ retries' \in Nat /\ ~RetryAllUnknown
<1>1. ~RetryAllUnknown
  <2>1. RetryAllUnknown => retries < MaxRetries
    BY DEF RetryAllUnknown
  <2>2. MaxRetries = 0
    BY DEF Steady
  <2>3. ~(retries < 0)
    OBVIOUS
  <2> QED BY <2>1, <2>2, <2>3
<1>2. ASSUME NEW v \in Verifier, TakeJob(v) \/ VerifyFails(v) \/ VerifyNext(v) \/ VerifyLater(v) \/ OnReady(v)
      PROVE  clock' = clock /\ retries' = retries
  <2>1. CASE TakeJob(v)
    BY <2>1 DEF TakeJob, env
  <2>2. CASE VerifyFails(v)
    BY <2>2 DEF VerifyFails, env
  <2>3. CASE VerifyNext(v)
    BY <2>3 DEF VerifyNext, env
  <2>4. CASE VerifyLater(v)
    BY <2>4 DEF VerifyLater, env
  <2>5. CASE OnReady(v)
    BY <2>5 DEF OnReady, env
  <2> QED BY <1>2, <2>1, <2>2, <2>3, <2>4, <2>5
<1>3. CASE ImportBlock
  BY <1>1, <1>3 DEF ImportBlock, env
<1>4. CASE StartSync \/ AssignSync
  BY <1>1, <1>4 DEF StartSync, AssignSync, env
<1>5. CASE Drain
  BY <1>1, <1>5 DEF Drain, env
<1>6. CASE ImportNext
  BY <1>1, <1>6 DEF ImportNext, env
<1>7. CASE DoneDrain
  BY <1>1, <1>7 DEF DoneDrain, env
<1>8. CASE Tick
  BY <1>1, <1>8 DEF Tick, env
<1>9. CASE TickImport
  BY <1>1, <1>9 DEF TickImport, env
<1>10. CASE Clear \/ Advance \/ UNCHANGED vars
  BY <1>1, <1>10 DEF Clear, Advance, vars
<1> QED BY <1>1, <1>2, <1>3, <1>4, <1>5, <1>6, <1>7, <1>8, <1>9, <1>10 DEF Next

\* Every step keeps the order of the pipeline and of the batch.
LEMMA OrderNext == ASSUME Steady, BasicInv, ReadyInv, OrderInv, [Next]_vars PROVE OrderInv'
<1>1. clock' \in Nat /\ retries' \in Nat /\ ~RetryAllUnknown
  BY CountersNext DEF OrderInv
<1> DEFINE C == chain \cup Batch
           D == chain' \cup Batch'
           Good == q'.draining \subseteq D /\ Ordered(Pipe(q'), D) /\ (client'.pc = "import" => Ordered(client'.batch, chain'))
<1> SUFFICES ASSUME q'.bad = {}, client'.bads = <<>> PROVE Good
  BY <1>1 DEF OrderInv, Ordered, Pipe
<1>2. q.bad = {} /\ client.bads = <<>> =>
          q.draining \subseteq C /\ Ordered(Pipe(q), C) /\ (client.pc = "import" => Ordered(client.batch, chain))
  BY DEF OrderInv
<1>3. q.bad = {} => q.ready = OnWay(q)
  BY DEF ReadyInv
<1>4. Sane(q) /\ (client.pc # "import" => client.bads = <<>> /\ q.draining = {}) /\ chain \subseteq C
  BY DEF BasicInv
\* the actions that leave the chain and the client alone
<1>5. ASSUME chain' = chain, client' = client, q.bad = {}, Pipe(q') = Pipe(q), q'.draining = q.draining PROVE Good
  <2>1. D = C
    BY <1>5 DEF Batch
  <2> HIDE DEF C, D
  <2> QED BY <1>2, <1>5, <2>1
<1>6. ASSUME NEW b \in Block, Sane(q'), Arrives(q, b, q'), chain' = chain, D = C, client.bads = <<>>,
             client'.pc = "import" => client' = client
      PROVE  Good
  <2>1. q.bad = {}
    BY <1>6, ArrivesBasic
  <2> HIDE DEF C, D
  <2>2. q'.draining \subseteq C /\ Ordered(Pipe(q'), C)
    BY <1>2, <1>3, <1>4, <1>6, OrderArrives
  <2> QED BY <1>2, <1>6, <2>1, <2>2
<1>7. CASE ImportBlock
  <2>1. chain' = chain /\ client' = client
    BY <1>7 DEF ImportBlock
  <2>2. D = C
    BY <2>1 DEF Batch
  <2>3. Sane(q') /\ \E b \in Block : Arrives(q, b, q')
    BY <1>7, ImportBlockStep
  <2> HIDE DEF C, D, Good
  <2> QED BY <1>6, <2>1, <2>2, <2>3
<1>8. ASSUME NEW v \in Verifier, TakeJob(v) PROVE Good
  <2>1. chain' = chain /\ client' = client
    BY <1>8 DEF TakeJob
  <2>2. PICK b \in Block : Taken(q, b, q')
    BY <1>8, TakeJobStep
  <2>3. q.bad = {} /\ Pipe(q') = Pipe(q) /\ q'.draining = q.draining
    BY <2>2 DEF Taken
  <2> HIDE DEF Good
  <2> QED BY <1>5, <2>1, <2>3
<1>9. ASSUME NEW v \in Verifier, VerifyFails(v) PROVE Good
  <2>1. job[v].hash \in q'.bad
    BY <1>9, VerifyFailsStep
  <2> QED BY <2>1
<1>10. ASSUME NEW v \in Verifier, VerifyNext(v) PROVE Good
  <2>1. chain' = chain /\ client' = client
    BY <1>10 DEF VerifyNext
  <2>2. Unbroken(q, q') /\ q.bad \subseteq q'.bad /\ q'.draining = q.draining
    BY <1>10, VerifyNextStep DEF Passed
  <2>3. q.bad = {} /\ Pipe(q') = Pipe(q)
    BY <2>2 DEF Unbroken
  <2> HIDE DEF Good
  <2> QED BY <1>5, <2>1, <2>2, <2>3
<1>11. ASSUME NEW v \in Verifier, VerifyLater(v) PROVE Good
  <2>1. chain' = chain /\ client' = client
    BY <1>11 DEF VerifyLater
  <2>2. q' = q \/ \E e \in ToSet(q.verifying) : Finished(q, e, q')
    BY <1>11, VerifyLaterStep
  <2>3. q.bad = {} /\ Pipe(q') = Pipe(q) /\ q'.draining = q.draining
    BY <2>2 DEF Finished
  <2> HIDE DEF Good
  <2> QED BY <1>5, <2>1, <2>3
<1>12. CASE (\E v \in Verifier : OnReady(v)) \/ Advance \/ UNCHANGED vars
  <2>1. chain' = chain /\ client' = client /\ q' = q
    BY <1>12 DEF OnReady, Advance, vars
  <2> HIDE DEF Good
  <2> QED BY <1>5, <2>1
\* the client is not importing, before and after
<1>13. ASSUME client.pc # "import", client'.pc # "import", chain' = chain PROVE D = C
  BY <1>13 DEF Batch
<1>14. CASE StartSync
  <2>1. /\ chain' = chain /\ q' = q /\ client.pc # "import" /\ client'.pc # "import"
    BY <1>14 DEF StartSync, BasicInv, TypeOK
  <2> HIDE DEF C, D
  <2> QED BY <1>2, <1>4, <1>13, <2>1
<1>15. CASE AssignSync
  <2>1. /\ chain' = chain /\ q' = q /\ client.pc # "import" /\ client'.pc # "import"
    BY <1>15 DEF AssignSync, Idle
  <2> HIDE DEF C, D
  <2> QED BY <1>2, <1>4, <1>13, <2>1
<1>16. CASE Drain
  <2>1. /\ Sane(q') /\ client.pc = "drain" /\ Fetched(q, client'.batch, q') /\ client' = [client EXCEPT !.pc = "import", !.batch = client'.batch]
    BY <1>16, DrainStep
  <2>2. chain' = chain
    BY <1>16 DEF Drain
  <2> DEFINE o == client'.batch
  <2>3. client'.pc = "import"
    BY <2>1 DEF BasicInv, TypeOK
  <2>4. C = chain /\ D = chain \cup ToSet(o)
    BY <2>1, <2>2, <2>3 DEF Batch
  <2>5. o \in Seq(Block) /\ Follows(o, Pipe(q'), Pipe(q)) /\ q.bad = {} /\ q'.draining = q.draining \cup ToSet(o)
    BY <2>1 DEF Fetched
  <2>6. Pipe(q') \in Seq(Block)
    BY <2>1, PipeFacts
  <2> HIDE DEF C, D, o
  <2>7. Ordered(Pipe(q), C) /\ q.draining = {}
    BY <1>2, <1>4, <2>1, <2>5
  <2>8. Ordered(o, C) /\ Ordered(Pipe(q'), C \cup ToSet(o))
    BY <2>5, <2>6, <2>7, OrderSplit
  <2> QED BY <2>2, <2>4, <2>5, <2>7, <2>8 DEF o
<1>17. CASE ImportNext
  <2>1. PICK b \in Block : /\ b = Head(client.batch)
                           /\ \/ /\ chain' = chain /\ (b \in chain \/ b \in Transient \/ Time[b] > clock)
                                 /\ client' = [client EXCEPT !.batch = Tail(@)]
                              \/ /\ chain' = chain \cup {b}
                                 /\ client' = [client EXCEPT !.batch = Tail(@)]
                              \/ /\ chain' = chain /\ b \notin chain /\ (Parent[b] \notin chain \/ b \in Unsound)
                                 /\ client' = [client EXCEPT !.batch = Tail(@), !.bads = Append(@, b)]
    BY <1>17, ImportNextStep
  <2>2. client.pc = "import" /\ client.batch \in Seq(Block) /\ client.batch # <<>> /\ q' = q
    BY <1>17, ImportNextStep
  <2>3. client.bads \in Seq(Block) /\ Append(client.bads, b) # <<>>
    <3>1. client.bads \in Seq(Block)
      BY DEF BasicInv, TypeOK
    <3>2. ToSet(Append(client.bads, b)) = ToSet(client.bads) \cup {b}
      BY <3>1, SetOfAppend
    <3> QED BY <3>1, <3>2, SetOfEmpty
  <2>4. client' = [client EXCEPT !.batch = Tail(@)] /\ b \in chain' /\ chain \subseteq chain'
    <3>1. ~(b \in Transient) /\ ~(Time[b] > clock)
      BY DEF Steady, OrderInv
    <3>2. client' # [client EXCEPT !.batch = Tail(@), !.bads = Append(@, b)]
      BY <2>3 DEF BasicInv, TypeOK
    <3> QED BY <2>1, <3>1, <3>2
  <2>5. client.bads = <<>> /\ client'.pc = "import" /\ client'.batch = Tail(client.batch)
    BY <2>2, <2>4 DEF BasicInv, TypeOK
  <2>6. ToSet(client.batch) \subseteq {b} \cup ToSet(Tail(client.batch))
    BY <2>1, <2>2, SetOfTail
  <2>7. C \subseteq D
    BY <2>2, <2>4, <2>5, <2>6 DEF Batch
  <2> HIDE DEF C, D
  <2>8. q'.draining \subseteq D /\ Ordered(Pipe(q), C) /\ Ordered(client.batch, chain)
    BY <1>2, <2>2, <2>5, <2>7
  <2>9. Ordered(Pipe(q'), D)
    BY <2>2, <2>7, <2>8, OrderedMore
  <2>10. Ordered(Tail(client.batch), chain')
    BY <2>1, <2>2, <2>4, <2>8, OrderTail
  <2> QED BY <2>5, <2>8, <2>9, <2>10
<1>18. CASE DoneDrain
  <2>1. client.bads \in Seq(Block) /\ ToSet(client.bads) \subseteq q'.bad /\ client.pc = "import" /\ q'.draining = {}
        /\ client' = [client EXCEPT !.pc = "assign", !.bads = <<>>, !.more = (q'.ready # {})]
    BY <1>18, DoneDrainStep DEF Cut
  <2>2. client.bads = <<>>
    BY <2>1, SetOf
  <2>3. q'.bad = q.bad /\ Pipe(q') = Pipe(q)
    BY <1>18, <2>2, DoneDrainStep
  <2>4. client'.pc = "assign" /\ chain' = chain /\ client.batch = <<>>
    BY <1>18, <2>1 DEF DoneDrain, BasicInv, TypeOK
  <2>5. C = chain /\ D = chain
    BY <2>1, <2>4, SetOfEmpty DEF Batch
  <2> HIDE DEF C, D
  <2> QED BY <1>2, <2>1, <2>2, <2>3, <2>4, <2>5
<1>19. CASE Tick
  <2>1. /\ Untouched(q, q') /\ client.pc = "idle" /\ client' = [client EXCEPT !.pc = "tick", !.batch = client'.batch]
    BY <1>19, TickStep
  <2>2. chain' = chain
    BY <1>19 DEF Tick
  <2>3. client'.pc = "tick"
    BY <2>1 DEF BasicInv, TypeOK
  <2>4. Pipe(q') = Pipe(q) /\ q'.draining = q.draining /\ q'.bad = q.bad
    BY <2>1, UntouchedFacts DEF Untouched
  <2> HIDE DEF C, D
  <2> QED BY <1>2, <1>4, <1>13, <2>1, <2>2, <2>3, <2>4
<1>20. CASE TickImport
  <2>1. Sane(q') /\ Head(client.batch) \in Block /\ Arrives(q, Head(client.batch), q')
    BY <1>20, TickImportStep
  <2>2. chain' = chain /\ client.pc = "tick" /\ client'.pc # "import"
    BY <1>20 DEF TickImport, Idle, BasicInv, TypeOK
  <2> HIDE DEF C, D, Good
  <2> QED BY <1>4, <1>6, <1>13, <2>1, <2>2
<1>21. CASE Clear
  <2>1. q'.draining = {} /\ Pipe(q') = <<>> /\ q'.bad = q.bad
    BY <1>21, ClearStep
  <2>2. chain' = chain /\ client' = client
    BY <1>21 DEF Clear
  <2>3. Ordered(Pipe(q'), D)
    <3>1. Len(<<>>) = 0
      BY EmptySeq
    <3> HIDE DEF D
    <3> QED BY <2>1, <3>1 DEF Ordered
  <2> HIDE DEF C, D
  <2> QED BY <1>2, <2>1, <2>2, <2>3
<1> HIDE DEF Good
<1> QED BY <1>1, <1>7, <1>8, <1>9, <1>10, <1>11, <1>12, <1>14, <1>15, <1>16, <1>17, <1>18, <1>19, <1>20, <1>21 DEF Next

\* The order, as QueueOrder states it.
LEMMA OrderedQueue == ASSUME BasicInv, Ordered(Pipe(q), chain \cup Batch) PROVE QueueOrder
<1> DEFINE p == Pipe(q)
<1>1. p \in Seq(Block) /\ Distinct(p)
  BY PipeFacts DEF BasicInv
<1>2. Len(p) \in Nat /\ DOMAIN p = 1..Len(p)
  BY <1>1, LenProperties
<1>3. \A i \in 1..Len(p) : Parent[p[i]] \in chain \cup Batch \/ \E j \in 1..(i - 1) : p[j] = Parent[p[i]]
  BY DEF Ordered
<1> HIDE DEF p
<1>4. ASSUME NEW i \in 1..Len(p), NEW j \in 1..(i - 1) PROVE p[j] \in ToSet(SubSeq(p, 1, i - 1))
  <2> DEFINE k == i - 1
             o == SubSeq(p, 1, k)
  <2>1. k \in 0..Len(p) /\ j \in 1..k
    BY <1>2, <1>4
  <2> HIDE DEF k
  <2>2. Split(p, k, o, SubSeq(p, k + 1, Len(p)))
    BY <1>1, <2>1, SplitFacts
  <2> HIDE DEF o
  <2>3. o \in Seq(Block) /\ Len(o) = k /\ \A h \in 1..Len(o) : p[h] = o[h]
    BY <2>2 DEF Split, Follows
  <2>4. p[j] \in ToSet(o)
    BY <2>1, <2>3, Elements
  <2> QED BY <2>4 DEF o, k
<1>5. \A i \in DOMAIN p : Parent[p[i]] \in chain \cup Batch \cup ToSet(SubSeq(p, 1, i - 1))
  BY <1>2, <1>3, <1>4
<1> QED BY <1>5 DEF QueueOrder, Pipeline, p

\* An empty pipeline is in order.
LEMMA OrderInit == ASSUME Init PROVE OrderInv /\ ReadyInv
<1>1. q.ready = {} /\ OnWay(q) = {} /\ q.draining = {} /\ Pipe(q) = <<>>
  BY EmptySane DEF Init
<1>2. Len(<<>>) = 0 /\ client.pc = "idle"
  BY EmptySeq DEF Init, Idle
<1>3. Ordered(Pipe(q), chain \cup Batch)
  BY <1>1, <1>2 DEF Ordered
<1>4. clock \in Nat /\ retries \in Nat
  BY DEF Init
<1> QED BY <1>1, <1>2, <1>3, <1>4 DEF ReadyInv, OrderInv

\* drain gives the client blocks whose parents are on the chain or ahead of them,
\* until a block is bad: whatever the blocks, the verifiers and the calls of clear,
\* when no import fails for a moment, nothing is retried and no block is early.
THEOREM ParentsComeFirst ==
    ASSUME Transient = {}, MaxRetries = 0, \A b \in Block : Time[b] = 0
    PROVE  Spec => [](q.bad = {} /\ client.bads = <<>> => QueueOrder)
<1>1. Init => OrderInv /\ ReadyInv
  BY OrderInit
<1>2. Steady
  BY DEF Steady
<1>3. BasicInv /\ ReadyInv /\ OrderInv /\ [Next]_vars => ReadyInv' /\ OrderInv'
  BY <1>2, ReadyNext, OrderNext
<1>4. BasicInv /\ OrderInv => (q.bad = {} /\ client.bads = <<>> => QueueOrder)
  BY OrderedQueue DEF OrderInv
<1> QED BY <1>1, <1>3, <1>4, BasicAlways, PTL DEF Spec

\* no block is bad
GoodInv == q.bad = {} /\ client.bads = <<>>

\* With good blocks only, no step finds a bad one: a batch in order meets no
\* unknown parent.
LEMMA GoodNext ==
    ASSUME Steady, Invalid = {}, Unsound = {}, BasicInv, OrderInv, GoodInv, [Next]_vars
    PROVE  GoodInv'
<1>1. q.bad = {} /\ client.bads = <<>> /\ (client.pc = "import" => Ordered(client.batch, chain)) /\ ~RetryAllUnknown
  BY CountersNext DEF GoodInv, OrderInv
<1>2. ASSUME NEW b, Arrives(q, b, q') PROVE q'.bad = {}
  BY <1>1, <1>2 DEF Arrives, Postponed, Waits, Untouched, Refused, Accepted
<1> SUFFICES q'.bad = {} /\ client'.bads = <<>>
  BY DEF GoodInv
<1>3. CASE ImportBlock
  <2>1. \E b \in Block : Arrives(q, b, q')
    BY <1>3, ImportBlockStep
  <2>2. client' = client
    BY <1>3 DEF ImportBlock
  <2> QED BY <1>1, <1>2, <2>1, <2>2
<1>4. ASSUME NEW v \in Verifier, TakeJob(v) PROVE q'.bad = {} /\ client'.bads = <<>>
  <2>1. \E b \in Block : Taken(q, b, q')
    BY <1>4, TakeJobStep
  <2>2. client' = client
    BY <1>4 DEF TakeJob
  <2> QED BY <1>1, <2>1, <2>2 DEF Taken
<1>5. ASSUME NEW v \in Verifier, VerifyFails(v) PROVE q'.bad = {} /\ client'.bads = <<>>
  BY <1>5 DEF VerifyFails
<1>6. ASSUME NEW v \in Verifier, VerifyNext(v) PROVE q'.bad = {} /\ client'.bads = <<>>
  <2>1. Unbroken(q, q')
    BY <1>6, VerifyNextStep
  <2>2. client' = client
    BY <1>6 DEF VerifyNext
  <2> QED BY <1>1, <2>1, <2>2 DEF Unbroken
<1>7. ASSUME NEW v \in Verifier, VerifyLater(v) PROVE q'.bad = {} /\ client'.bads = <<>>
  <2>1. q' = q \/ \E e \in ToSet(q.verifying) : Finished(q, e, q')
    BY <1>7, VerifyLaterStep
  <2>2. client' = client
    BY <1>7 DEF VerifyLater
  <2> QED BY <1>1, <2>1, <2>2 DEF Finished
<1>8. CASE (\E v \in Verifier : OnReady(v)) \/ Advance \/ UNCHANGED vars
  BY <1>1, <1>8 DEF OnReady, Advance, vars
<1>9. CASE StartSync \/ AssignSync
  BY <1>1, <1>9 DEF StartSync, AssignSync, Idle, BasicInv, TypeOK
<1>10. CASE Drain
  <2>1. Fetched(q, client'.batch, q') /\ client' = [client EXCEPT !.pc = "import", !.batch = client'.batch]
    BY <1>10, DrainStep
  <2> QED BY <1>1, <2>1 DEF Fetched, BasicInv, TypeOK
<1>11. CASE ImportNext
  <2>1. PICK b \in Block : /\ b = Head(client.batch)
                           /\ \/ /\ chain' = chain /\ (b \in chain \/ b \in Transient \/ Time[b] > clock)
                                 /\ client' = [client EXCEPT !.batch = Tail(@)]
                              \/ /\ chain' = chain \cup {b}
                                 /\ client' = [client EXCEPT !.batch = Tail(@)]
                              \/ /\ chain' = chain /\ b \notin chain /\ (Parent[b] \notin chain \/ b \in Unsound)
                                 /\ client' = [client EXCEPT !.batch = Tail(@), !.bads = Append(@, b)]
    BY <1>11, ImportNextStep
  <2>2. client.pc = "import" /\ client.batch \in Seq(Block) /\ client.batch # <<>> /\ q' = q
    BY <1>11, ImportNextStep
  <2>3. Parent[b] \in chain
    BY <1>1, <2>1, <2>2, OrderTail
  <2>4. client' = [client EXCEPT !.batch = Tail(@)]
    BY <2>1, <2>3
  <2> QED BY <1>1, <2>2, <2>4 DEF BasicInv, TypeOK
<1>12. CASE DoneDrain
  <2>1. q'.bad = q.bad /\ client' = [client EXCEPT !.pc = "assign", !.bads = <<>>, !.more = (q'.ready # {})]
    BY <1>1, <1>12, DoneDrainStep
  <2> QED BY <1>1, <2>1 DEF BasicInv, TypeOK
<1>13. CASE Tick
  <2>1. Untouched(q, q') /\ client' = [client EXCEPT !.pc = "tick", !.batch = client'.batch]
    BY <1>13, TickStep
  <2> QED BY <1>1, <2>1 DEF Untouched, BasicInv, TypeOK
<1>14. CASE TickImport
  <2>1. Arrives(q, Head(client.batch), q')
    BY <1>14, TickImportStep
  <2>2. client'.bads = <<>>
    BY <1>1, <1>14 DEF TickImport, Idle, BasicInv, TypeOK
  <2> QED BY <1>2, <2>1, <2>2
<1>15. CASE Clear
  <2>1. q'.bad = q.bad
    BY <1>15, ClearStep
  <2>2. client' = client
    BY <1>15 DEF Clear
  <2> QED BY <1>1, <2>1, <2>2
<1> QED BY <1>1, <1>3, <1>4, <1>5, <1>6, <1>7, <1>8, <1>9, <1>10, <1>11, <1>12, <1>13, <1>14, <1>15 DEF Next

\* A queue that only ever gets good blocks never takes one for bad, although the
\* client may import a batch while clear empties the queue and the same blocks come
\* again: m_readySet stays exact and the parents come first.
THEOREM GoodBlocksStayGood ==
    ASSUME Transient = {}, MaxRetries = 0, \A b \in Block : Time[b] = 0, Invalid = {}, Unsound = {}
    PROVE  Spec => [](q.bad = {} /\ QueueOrder /\ ReadySetMatches)
<1>1. Init => OrderInv /\ ReadyInv
  BY OrderInit
<1>2. Steady
  BY DEF Steady
<1>3. Init => GoodInv
  BY DEF Init, GoodInv, EmptyQueue, Idle
<1>4. BasicInv /\ ReadyInv /\ OrderInv /\ [Next]_vars => ReadyInv' /\ OrderInv'
  BY <1>2, ReadyNext, OrderNext
<1>5. BasicInv /\ OrderInv /\ GoodInv /\ [Next]_vars => GoodInv'
  BY <1>2, GoodNext
<1>6. BasicInv /\ OrderInv /\ GoodInv => q.bad = {} /\ QueueOrder
  BY OrderedQueue DEF OrderInv, GoodInv
<1>7. (q.bad = {} => ReadySetMatches) /\ q.bad = {} /\ QueueOrder => q.bad = {} /\ QueueOrder /\ ReadySetMatches
  OBVIOUS
<1> QED BY <1>1, <1>3, <1>4, <1>5, <1>6, <1>7, BasicAlways, ReadySetOfThePipe, PTL DEF Spec

-----------------------------------------------------------------------------
(* The sets that import asks, as long as clear has not emptied them.       *)

\* nothing on its way or of an unknown parent is bad, none of it is on the chain or
\* being imported, and who waits in m_unknown waits for a block that is not there
KeepsOut(s, c) ==
    /\ Tidy(s) /\ Unmixed(s)
    /\ (OnWay(s) \cup ToSet(s.unknown) \cup s.bad) \cap (c \cup s.draining) = {}
    /\ \A b \in ToSet(s.unknown) : Parent[b] \notin s.ready \cup s.draining \cup c

\* the block of a verifier, which import knows and nobody else has
Alone(s, h, c) ==
    h \in s.ready \cup s.bad /\ Busy(s, h) /\ h \notin ToSet(s.unknown) \cup s.draining \cup c

\* the client's batch and its bad blocks are apart, and in m_drainingSet
Importing ==
    client.pc = "import" =>
        /\ ToSet(client.batch) \cup ToSet(client.bads) \subseteq q.draining
        /\ Distinct(client.batch) /\ ToSet(client.batch) \cap ToSet(client.bads) = {}
        /\ ToSet(client.bads) \cap chain = {}

\* every verifier has a block of its own
Working ==
    /\ \A v \in Verifier : job[v].pc = "verify" => Alone(q, job[v].hash, chain)
    /\ \A v, w \in Verifier :
        job[v].pc = "verify" /\ job[w].pc = "verify" /\ job[v].hash = job[w].hash => v = w

\* the sets that import asks, until clear is called
KnownInv == clears \in Nat /\ (clears = 0 => KeepsOut(q, chain) /\ Working /\ Importing)

\* updateBad has taken blocks of B out, none of which is on its way
LEMMA CutKept ==
    ASSUME NEW s, Sane(s), NEW B, NEW t, Cut(s, B, t), NEW c, KeepsOut(s, c), c \subseteq Block \cup {Genesis},
           B \subseteq Block, B \cap OnWay(s) = {}, B \cap ToSet(s.unknown) = {}, t.draining \subseteq s.draining,
           B \cap (c \cup t.draining) = {}
    PROVE  KeepsOut(t, c) /\ \A h : Alone(s, h, c) => Alone(t, h, c)
<1>1. Tidy(t) /\ Unmixed(t)
  BY DEF Cut, KeepsOut
<1>2. Uncles \notin c \cup t.draining
  <2>1. s.draining \subseteq Block
    BY QueueFields DEF Sane
  <2> QED BY <2>1, ConstantsAssumption
<1>3. /\ OnWay(t) \subseteq OnWay(s) /\ ToSet(t.unknown) \subseteq ToSet(s.unknown) /\ t.ready \subseteq s.ready
      /\ t.bad \subseteq s.bad \cup B \cup OnWay(s) \cup ToSet(s.unknown) \cup {Uncles}
      /\ s.ready \subseteq t.ready \cup t.bad /\ s.bad \subseteq t.bad
  BY DEF Cut
<1>4. (OnWay(s) \cup ToSet(s.unknown) \cup s.bad) \cap (c \cup s.draining) = {}
      /\ \A b \in ToSet(s.unknown) : Parent[b] \notin s.ready \cup s.draining \cup c
  BY DEF KeepsOut
<1>5. (OnWay(t) \cup ToSet(t.unknown) \cup t.bad) \cap (c \cup t.draining) = {}
  BY <1>2, <1>3, <1>4
<1>6. \A b \in ToSet(t.unknown) : Parent[b] \notin t.ready \cup t.draining \cup c
  BY <1>3, <1>4
<1>7. ASSUME NEW h, Alone(s, h, c) PROVE Alone(t, h, c)
  <2>1. Busy(t, h)
    BY <1>7 DEF Alone, Busy, Cut
  <2> QED BY <1>3, <1>7, <2>1 DEF Alone
<1> QED BY <1>1, <1>5, <1>6, <1>7 DEF KeepsOut

\* import keeps the sets apart, and the verifiers their blocks.
LEMMA ArrivesKept ==
    ASSUME NEW s, Sane(s), NEW b \in Block, NEW t, Arrives(s, b, t), KeepsOut(s, chain), chain \subseteq Block \cup {Genesis}
    PROVE  KeepsOut(t, chain) /\ \A h : Alone(s, h, chain) => Alone(t, h, chain)
<1>1. /\ Tidy(s) /\ Unmixed(s) /\ (OnWay(s) \cup ToSet(s.unknown) \cup s.bad) \cap (chain \cup s.draining) = {}
      /\ \A x \in ToSet(s.unknown) : Parent[x] \notin s.ready \cup s.draining \cup chain
  BY DEF KeepsOut
<1>2. ASSUME Untouched(s, t) PROVE OnWay(t) = OnWay(s) /\ \A h : Busy(s, h) => Busy(t, h)
  BY <1>2, UntouchedFacts DEF Busy, Untouched
<1>3. CASE Postponed(s, b, t)
  <2>1. Untouched(s, t) /\ t.unknown = s.unknown
    BY <1>3 DEF Postponed
  <2>2. OnWay(t) = OnWay(s) /\ t.ready = s.ready /\ t.draining = s.draining /\ t.bad = s.bad
    BY <1>2, <2>1 DEF Untouched
  <2>3. KeepsOut(t, chain)
    BY <1>1, <2>1, <2>2 DEF KeepsOut, Tidy, Unmixed
  <2>4. \A h : Alone(s, h, chain) => Alone(t, h, chain)
    BY <1>2, <2>1, <2>2 DEF Alone
  <2> QED BY <2>3, <2>4
<1>4. CASE Waits(s, b, t)
  <2>1. /\ Untouched(s, t) /\ ToSet(t.unknown) = ToSet(s.unknown) \cup {b}
        /\ b \notin s.ready \cup s.draining \cup s.bad \cup chain /\ Parent[b] \notin s.ready \cup s.draining \cup chain
    BY <1>4 DEF Waits, Known
  <2>2. OnWay(t) = OnWay(s) /\ t.ready = s.ready /\ t.draining = s.draining /\ t.bad = s.bad
    BY <1>2, <2>1 DEF Untouched
  <2>3. Tidy(t) /\ Unmixed(t)
    BY <1>1, <2>1, <2>2 DEF Tidy, Unmixed
  <2>4. KeepsOut(t, chain)
    BY <1>1, <2>1, <2>2, <2>3 DEF KeepsOut
  <2>5. \A h : Alone(s, h, chain) => Alone(t, h, chain)
    BY <1>2, <2>1, <2>2 DEF Alone
  <2> QED BY <2>4, <2>5
<1>5. CASE Refused(s, b, t)
  <2>1. Cut(s, {b}, t) /\ t.draining = s.draining /\ b \notin s.ready \cup s.draining \cup ToSet(s.unknown) \cup s.bad \cup chain
    BY <1>5 DEF Refused, Known
  <2>2. {b} \cap OnWay(s) = {}
    BY <2>1 DEF Sane
  <2>3. {b} \subseteq Block /\ {b} \cap ToSet(s.unknown) = {} /\ {b} \cap (chain \cup t.draining) = {}
    BY <2>1
  <2> QED BY <2>1, <2>2, <2>3, CutKept
<1>6. CASE Accepted(s, b, t)
  <2>1. /\ t.verified = s.verified /\ t.verifying = s.verifying /\ t.draining = s.draining /\ t.bad = s.bad
        /\ b \notin s.ready \cup s.draining \cup ToSet(s.unknown) \cup s.bad \cup chain
    BY <1>6 DEF Accepted, Known
  <2>2. PICK f \in Seq(Block) :
        /\ t.unverified = Append(s.unverified, b) \o f /\ ToSet(f) \subseteq ToSet(s.unknown)
        /\ t.ready = s.ready \cup {b} \cup ToSet(f) /\ ToSet(t.unknown) = ToSet(s.unknown) \ ToSet(f)
        /\ OnWay(t) = OnWay(s) \cup {b} \cup ToSet(f)
        /\ \A x \in ToSet(s.unknown) : Parent[x] \in ToSet(f) \cup {b} => x \in ToSet(f)
    BY <1>6 DEF Accepted
  <2>3. ToSet(t.unverified) = ToSet(s.unverified) \cup {b} \cup ToSet(f)
    <3>1. s.unverified \in Seq(Block)
      BY QueueFields DEF Sane
    <3> DEFINE u == Append(s.unverified, b)
    <3>2. u \in Seq(Block) /\ ToSet(u) = ToSet(s.unverified) \cup {b} /\ t.unverified = u \o f
      BY <2>2, <3>1, SetOfAppend
    <3> HIDE DEF u
    <3>3. ToSet(u \o f) = ToSet(u) \cup ToSet(f)
      BY <3>2, SetOfConcat
    <3> QED BY <3>2, <3>3
  <2>4. Tidy(t) /\ Unmixed(t)
    BY <1>1, <2>1, <2>2 DEF Tidy, Unmixed
  <2>5. (OnWay(t) \cup ToSet(t.unknown) \cup t.bad) \cap (chain \cup t.draining) = {}
    BY <1>1, <2>1, <2>2
  <2>6. \A x \in ToSet(t.unknown) : Parent[x] \notin t.ready \cup t.draining \cup chain
    BY <1>1, <2>1, <2>2
  <2>7. ASSUME NEW h, Alone(s, h, chain) PROVE Alone(t, h, chain)
    <3>1. h # b /\ h \notin ToSet(f)
      BY <2>1, <2>2, <2>7 DEF Alone
    <3>2. Busy(t, h)
      BY <2>1, <2>3, <2>7, <3>1 DEF Alone, Busy
    <3> QED BY <2>1, <2>2, <2>7, <3>1, <3>2 DEF Alone
  <2> QED BY <2>4, <2>5, <2>6, <2>7 DEF KeepsOut
<1> QED BY <1>3, <1>4, <1>5, <1>6 DEF Arrives

\* So does a verifier that takes a block, which is then its own.
LEMMA TakenKept ==
    ASSUME NEW s, Sane(s), NEW b, NEW t, Taken(s, b, t), NEW c, KeepsOut(s, c)
    PROVE  /\ KeepsOut(t, c) /\ Alone(t, b, c)
           /\ \A h : Alone(s, h, c) => Alone(t, h, c) /\ h # b
<1>1. /\ b \in ToSet(s.unverified) /\ b \notin ToSet(t.unverified)
      /\ ToSet(t.unverified) \subseteq ToSet(s.unverified)
      /\ ToSet(t.verifying) = ToSet(s.verifying) \cup {[hash |-> b, done |-> FALSE]}
      /\ t.verified = s.verified /\ t.unknown = s.unknown /\ t.ready = s.ready /\ t.draining = s.draining
      /\ t.bad = s.bad /\ OnWay(t) = OnWay(s)
  BY DEF Taken
<1>2. KeepsOut(t, c)
  BY <1>1 DEF KeepsOut, Tidy, Unmixed
<1>3. b \in OnWay(s) /\ b \notin ToSet(s.verified) /\ b \notin Hashes(s) /\ b \notin ToSet(s.unknown)
  BY <1>1 DEF Sane, Apart, OnWay
<1>4. \A e \in ToSet(s.verifying) : e.hash # b
  BY <1>3 DEF Hashes
<1>5. Busy(t, b)
  BY <1>1, <1>3, <1>4 DEF Busy
<1>6. b \in s.ready \cup s.bad /\ b \notin s.draining \cup c
  BY <1>3 DEF Sane, KeepsOut
<1>7. Alone(t, b, c)
  BY <1>1, <1>3, <1>5, <1>6 DEF Alone
<1>8. ASSUME NEW h, Alone(s, h, c) PROVE Alone(t, h, c) /\ h # b
  <2>1. Busy(t, h) /\ h # b
    BY <1>1, <1>8 DEF Alone, Busy
  <2> QED BY <1>1, <1>8, <2>1 DEF Alone
<1> QED BY <1>2, <1>7, <1>8

\* So does a verifier that passes its block on or refuses it.
LEMMA PassedKept ==
    ASSUME NEW s, Sane(s), NEW b, NEW t, Passed(s, b, t), NEW c, KeepsOut(s, c), Alone(s, b, c)
    PROVE  KeepsOut(t, c) /\ \A h : Alone(s, h, c) /\ h # b => Alone(t, h, c)
<1>1. Busy(s, b) /\ b \notin ToSet(s.unknown) \cup s.draining \cup c
  BY DEF Alone
<1>2. Tidy(t)
  BY <1>1 DEF Passed, KeepsOut
<1>3. DoneHashes(s) \subseteq Hashes(s) /\ Hashes(s) \subseteq OnWay(s)
  BY DEF DoneHashes, Done, Hashes, OnWay
<1>4. /\ ToSet(t.verifying) \subseteq ToSet(s.verifying) /\ t.unverified = s.unverified
      /\ t.unknown = s.unknown /\ t.draining = s.draining
      /\ t.ready \subseteq s.ready /\ s.ready \subseteq t.ready \cup t.bad
      /\ s.bad \subseteq t.bad /\ t.bad \subseteq s.bad \cup {b} \cup DoneHashes(s)
      /\ ToSet(t.verified) \subseteq ToSet(s.verified) \cup {b} \cup DoneHashes(s)
  BY DEF Passed
<1>5. OnWay(t) \subseteq OnWay(s) \cup {b}
  <2>1. Hashes(t) \subseteq Hashes(s)
    BY <1>4 DEF Hashes
  <2> QED BY <1>3, <1>4, <2>1 DEF OnWay
<1>6. ToSet(s.unknown) \cap OnWay(s) = {}
  BY DEF Sane, Apart
<1>7. Unmixed(t)
  BY <1>1, <1>3, <1>4, <1>6 DEF Unmixed, KeepsOut
<1>8. /\ (OnWay(s) \cup ToSet(s.unknown) \cup s.bad) \cap (c \cup s.draining) = {}
      /\ \A x \in ToSet(s.unknown) : Parent[x] \notin s.ready \cup s.draining \cup c
  BY DEF KeepsOut
<1>9. (OnWay(t) \cup ToSet(t.unknown) \cup t.bad) \cap (c \cup t.draining) = {}
  BY <1>1, <1>3, <1>4, <1>5, <1>8
<1>10. \A x \in ToSet(t.unknown) : Parent[x] \notin t.ready \cup t.draining \cup c
  BY <1>4, <1>8
<1>11. ASSUME NEW h, Alone(s, h, c), h # b PROVE Alone(t, h, c)
  <2>1. h \notin DoneHashes(s)
    BY <1>11 DEF Alone, Busy, DoneHashes, Done
  <2>2. Busy(t, h)
    BY <1>4, <1>11, <2>1 DEF Alone, Busy
  <2> QED BY <1>4, <1>11, <2>2 DEF Alone
<1> QED BY <1>2, <1>7, <1>9, <1>10, <1>11 DEF KeepsOut

\* So does a verifier that leaves its block where it is.
LEMMA FinishedKept ==
    ASSUME NEW s, NEW e, NEW t, Finished(s, e, t), NEW c, KeepsOut(s, c)
    PROVE  KeepsOut(t, c) /\ \A h : Alone(s, h, c) /\ h # e.hash => Alone(t, h, c)
<1>1. /\ ToSet(t.verifying) = (ToSet(s.verifying) \ {e}) \cup {[hash |-> e.hash, done |-> TRUE]}
      /\ t.verified = s.verified /\ t.unverified = s.unverified /\ t.unknown = s.unknown /\ t.ready = s.ready
      /\ t.draining = s.draining /\ t.bad = s.bad /\ OnWay(t) = OnWay(s)
  BY DEF Finished
<1>2. KeepsOut(t, c)
  BY <1>1 DEF KeepsOut, Tidy, Unmixed
<1>3. ASSUME NEW h, Alone(s, h, c), h # e.hash PROVE Alone(t, h, c)
  <2>1. Busy(t, h)
    BY <1>1, <1>3 DEF Alone, Busy
  <2> QED BY <1>1, <1>3, <2>1 DEF Alone
<1> QED BY <1>2, <1>3

\* So does drain: what it takes was ready, and bad nowhere.
LEMMA FetchedKept ==
    ASSUME NEW s, Sane(s), NEW out, NEW t, Fetched(s, out, t), NEW c, KeepsOut(s, c)
    PROVE  KeepsOut(t, c) /\ \A h : Alone(s, h, c) => Alone(t, h, c)
<1>1. /\ ToSet(out) \subseteq ToSet(s.verified) /\ ToSet(out) \cap OnWay(t) = {}
      /\ ToSet(t.verified) \subseteq ToSet(s.verified) /\ t.verifying = s.verifying /\ t.unverified = s.unverified
      /\ t.unknown = s.unknown /\ t.bad = s.bad /\ t.ready = s.ready \ ToSet(out) /\ t.draining = s.draining \cup ToSet(out)
      /\ OnWay(s) = OnWay(t) \cup ToSet(out)
  BY DEF Fetched
<1>2. /\ OnWay(s) \cap s.bad = {} /\ ToSet(s.unknown) \cap s.bad = {} /\ OnWay(s) \subseteq s.ready \cup s.bad
      /\ (OnWay(s) \cup ToSet(s.unknown) \cup s.bad) \cap (c \cup s.draining) = {}
      /\ \A x \in ToSet(s.unknown) : Parent[x] \notin s.ready \cup s.draining \cup c
      /\ ToSet(s.unknown) \cap OnWay(s) = {}
  BY DEF KeepsOut, Tidy, Unmixed, Sane, Apart
<1>3. Tidy(t) /\ Unmixed(t)
  BY <1>1, <1>2 DEF Tidy, Unmixed
<1>4. ToSet(out) \subseteq s.ready /\ ToSet(out) \cap s.bad = {} /\ ToSet(out) \cap ToSet(s.unknown) = {}
  BY <1>1, <1>2
<1>5. (OnWay(t) \cup ToSet(t.unknown) \cup t.bad) \cap (c \cup t.draining) = {}
  BY <1>1, <1>2, <1>4
<1>6. \A x \in ToSet(t.unknown) : Parent[x] \notin t.ready \cup t.draining \cup c
  BY <1>1, <1>2, <1>4
<1>7. ASSUME NEW h, Alone(s, h, c) PROVE Alone(t, h, c)
  <2>1. h \notin ToSet(out)
    BY <1>1, <1>7 DEF Alone, Busy
  <2>2. Busy(t, h)
    BY <1>1, <1>7 DEF Alone, Busy
  <2> QED BY <1>1, <1>7, <2>1, <2>2 DEF Alone
<1> QED BY <1>3, <1>5, <1>6, <1>7 DEF KeepsOut

\* So does a retry of the blocks of unknown parents.
LEMMA RetriedKept ==
    ASSUME NEW s, Sane(s), NEW t, Retried(s, t), NEW c, KeepsOut(s, c)
    PROVE  KeepsOut(t, c) /\ \A h : Alone(s, h, c) => Alone(t, h, c)
<1>1. /\ t.verified = s.verified /\ t.verifying = s.verifying /\ ToSet(t.unverified) = ToSet(s.unverified) \cup ToSet(s.unknown)
      /\ t.ready = s.ready \cup ToSet(s.unknown) /\ ToSet(t.unknown) = {} /\ t.draining = s.draining /\ t.bad = s.bad
      /\ OnWay(t) = OnWay(s) \cup ToSet(s.unknown)
  BY DEF Retried
<1>2. KeepsOut(t, c)
  BY <1>1 DEF KeepsOut, Tidy, Unmixed
<1>3. ASSUME NEW h, Alone(s, h, c) PROVE Alone(t, h, c)
  <2>1. Busy(t, h)
    BY <1>1, <1>3 DEF Alone, Busy
  <2> QED BY <1>1, <1>3, <2>1 DEF Alone
<1> QED BY <1>2, <1>3

\* Every step but clear keeps the sets apart.
LEMMA KnownNext == ASSUME BasicInv, KnownInv, [Next]_vars PROVE KnownInv'
<1>1. CASE Clear
  <2>1. clears' = clears + 1 /\ clears \in Nat
    BY <1>1 DEF Clear, KnownInv
  <2>2. clears' \in Nat /\ clears' # 0
    BY <2>1
  <2> QED BY <2>2 DEF KnownInv
<1> DEFINE Good == KeepsOut(q', chain') /\ Working' /\ Importing'
<1>2. ASSUME clears' = clears, clears = 0 => Good PROVE KnownInv'
  BY <1>2 DEF KnownInv, KeepsOut, Tidy, Unmixed, OnWay, Hashes
<1>3. clears = 0 => KeepsOut(q, chain) /\ Working /\ Importing
  BY DEF KnownInv
<1>4. /\ Sane(q) /\ chain \subseteq Block \cup {Genesis} /\ (client.pc # "import" => client.bads = <<>> /\ q.draining = {})
      /\ job \in [Verifier -> [pc : {"idle", "verify", "notify"}, hash : Block \cup {Genesis}]]
  BY DEF BasicInv, TypeOK
\* the block of a verifier stays its own
<1>5. ASSUME Working, job' = job, \A h : Alone(q, h, chain) => Alone(q', h, chain') PROVE Working'
  BY <1>5 DEF Working, Alone, Busy
\* a verifier has done with its block
<1>6. ASSUME Working, NEW v \in Verifier, job[v].pc = "verify", NEW r, r.pc # "verify", job' = [job EXCEPT ![v] = r],
             \A h : Alone(q, h, chain) /\ h # job[v].hash => Alone(q', h, chain')
      PROVE  Working'
  <2>1. \A w \in Verifier : job'[w].pc = "verify" => w # v /\ job'[w] = job[w]
    BY <1>4, <1>6
  <2>2. \A w \in Verifier : job'[w].pc = "verify" => Alone(q', job'[w].hash, chain')
    BY <1>6, <2>1 DEF Working
  <2>3. \A u, w \in Verifier : job'[u].pc = "verify" /\ job'[w].pc = "verify" /\ job'[u].hash = job'[w].hash => u = w
    BY <1>6, <2>1 DEF Working
  <2> QED BY <2>2, <2>3 DEF Working, Alone, Busy
<1>7. ASSUME Importing, chain' = chain, client' = client, q'.draining = q.draining PROVE Importing'
  BY <1>7 DEF Importing
<1>8. ASSUME client'.pc # "import" PROVE Importing'
  BY <1>8 DEF Importing
<1>9. CASE ImportBlock
  <2>1. PICK b \in Block : Arrives(q, b, q')
    BY <1>9, ImportBlockStep
  <2>2. chain' = chain /\ client' = client /\ job' = job /\ clears' = clears
    BY <1>9 DEF ImportBlock, env
  <2>3. q'.draining = q.draining
    BY <2>1, ArrivesBasic
  <2>4. clears = 0 => KeepsOut(q', chain) /\ \A h : Alone(q, h, chain) => Alone(q', h, chain)
    BY <1>3, <1>4, <2>1, ArrivesKept
  <2> QED BY <1>2, <1>3, <1>5, <1>7, <2>2, <2>3, <2>4
<1>10. ASSUME NEW v \in Verifier, TakeJob(v) PROVE KnownInv'
  <2>1. PICK b \in Block : Taken(q, b, q') /\ job' = [job EXCEPT ![v] = [pc |-> "verify", hash |-> b]]
    BY <1>10, TakeJobStep
  <2>2. chain' = chain /\ client' = client /\ clears' = clears
    BY <1>10 DEF TakeJob, env
  <2>3. q'.draining = q.draining
    BY <2>1 DEF Taken
  <2>4. ASSUME clears = 0 PROVE Good
    <3>1. KeepsOut(q', chain) /\ Alone(q', b, chain) /\ \A h : Alone(q, h, chain) => Alone(q', h, chain) /\ h # b
      BY <1>3, <1>4, <2>1, <2>4, TakenKept
    <3>2. job'[v] = [pc |-> "verify", hash |-> b] /\ \A w \in Verifier : w # v => job'[w] = job[w]
      BY <1>4, <2>1
    <3>3. \A w \in Verifier : w # v /\ job'[w].pc = "verify" => Alone(q', job'[w].hash, chain) /\ job'[w].hash # b
      BY <1>3, <2>4, <3>1, <3>2 DEF Working
    <3>4. \A w \in Verifier : job'[w].pc = "verify" => Alone(q', job'[w].hash, chain')
      BY <2>2, <3>1, <3>2, <3>3
    <3>5. \A u, w \in Verifier : job'[u].pc = "verify" /\ job'[w].pc = "verify" /\ job'[u].hash = job'[w].hash => u = w
      <4> SUFFICES ASSUME NEW u \in Verifier, NEW w \in Verifier, job'[u].pc = "verify", job'[w].pc = "verify",
                          job'[u].hash = job'[w].hash
                   PROVE  u = w
        OBVIOUS
      <4>1. CASE u = v \/ w = v
        BY <3>2, <3>3, <4>1
      <4>2. CASE u # v /\ w # v
        BY <1>3, <2>4, <3>2, <4>2 DEF Working
      <4> QED BY <4>1, <4>2
    <3>6. Working'
      BY <3>4, <3>5 DEF Working, Alone, Busy
    <3>7. Importing'
      BY <1>3, <1>7, <2>2, <2>3, <2>4
    <3> QED BY <2>2, <3>1, <3>6, <3>7
  <2> QED BY <1>2, <2>2, <2>4
<1>11. ASSUME NEW v \in Verifier, VerifyFails(v) PROVE KnownInv'
  <2>1. job[v].pc = "verify" /\ Passed(q, job[v].hash, q') /\ job' = [job EXCEPT ![v] = NoJob]
    BY <1>11, VerifyFailsStep
  <2>2. chain' = chain /\ client' = client /\ clears' = clears
    BY <1>11 DEF VerifyFails, env
  <2>3. q'.draining = q.draining /\ NoJob.pc # "verify"
    BY <2>1 DEF Passed, NoJob
  <2>4. ASSUME clears = 0 PROVE Good
    <3>1. Alone(q, job[v].hash, chain)
      BY <1>3, <2>1, <2>4 DEF Working
    <3>2. KeepsOut(q', chain) /\ \A h : Alone(q, h, chain) /\ h # job[v].hash => Alone(q', h, chain)
      BY <1>3, <1>4, <2>1, <2>4, <3>1, PassedKept
    <3>3. Working'
      BY <1>3, <1>6, <2>1, <2>2, <2>3, <2>4, <3>2
    <3> QED BY <1>3, <1>7, <2>2, <2>3, <2>4, <3>2, <3>3
  <2> QED BY <1>2, <2>2, <2>4
<1>12. ASSUME NEW v \in Verifier, VerifyNext(v) PROVE KnownInv'
  <2> DEFINE r == [NoJob EXCEPT !.pc = "notify"]
  <2>1. job[v].pc = "verify" /\ Passed(q, job[v].hash, q') /\ job' = [job EXCEPT ![v] = r]
    BY <1>12, VerifyNextStep
  <2>2. chain' = chain /\ client' = client /\ clears' = clears
    BY <1>12 DEF VerifyNext, env
  <2>3. q'.draining = q.draining /\ r.pc # "verify"
    BY <2>1 DEF Passed, NoJob
  <2> HIDE DEF r
  <2>4. ASSUME clears = 0 PROVE Good
    <3>1. Alone(q, job[v].hash, chain)
      BY <1>3, <2>1, <2>4 DEF Working
    <3>2. KeepsOut(q', chain) /\ \A h : Alone(q, h, chain) /\ h # job[v].hash => Alone(q', h, chain)
      BY <1>3, <1>4, <2>1, <2>4, <3>1, PassedKept
    <3>3. Working'
      BY <1>3, <1>6, <2>1, <2>2, <2>3, <2>4, <3>2
    <3> QED BY <1>3, <1>7, <2>2, <2>3, <2>4, <3>2, <3>3
  <2> QED BY <1>2, <2>2, <2>4
<1>13. ASSUME NEW v \in Verifier, VerifyLater(v) PROVE KnownInv'
  <2>1. /\ job[v].pc = "verify" /\ job' = [job EXCEPT ![v] = NoJob]
        /\ q' = q \/ \E e \in ToSet(q.verifying) : ~e.done /\ e.hash = job[v].hash /\ Finished(q, e, q')
    BY <1>13, VerifyLaterStep
  <2>2. chain' = chain /\ client' = client /\ clears' = clears
    BY <1>13 DEF VerifyLater, env
  <2>3. q'.draining = q.draining /\ NoJob.pc # "verify"
    BY <2>1 DEF Finished, NoJob
  <2>4. ASSUME clears = 0 PROVE Good
    <3>1. KeepsOut(q, chain)
      BY <1>3, <2>4
    <3>2. KeepsOut(q', chain) /\ \A h : Alone(q, h, chain) /\ h # job[v].hash => Alone(q', h, chain)
      <4>1. CASE q' = q
        BY <3>1, <4>1
      <4>2. ASSUME NEW e \in ToSet(q.verifying), e.hash = job[v].hash, Finished(q, e, q')
            PROVE  KeepsOut(q', chain) /\ \A h : Alone(q, h, chain) /\ h # job[v].hash => Alone(q', h, chain)
        BY <3>1, <4>2, FinishedKept
      <4> QED BY <2>1, <4>1, <4>2
    <3>3. Working'
      BY <1>3, <1>6, <2>1, <2>2, <2>3, <2>4, <3>2
    <3> QED BY <1>3, <1>7, <2>2, <2>3, <2>4, <3>2, <3>3
  <2> QED BY <1>2, <2>2, <2>4
<1>14. ASSUME NEW v \in Verifier, OnReady(v) PROVE KnownInv'
  <2>1. /\ q' = q /\ chain' = chain /\ client' = client /\ clears' = clears
        /\ job[v].pc = "notify" /\ job' = [job EXCEPT ![v] = NoJob]
    BY <1>14 DEF OnReady, env
  <2>2. \A w \in Verifier : job'[w].pc = "verify" => job'[w] = job[w]
    BY <1>4, <2>1 DEF NoJob
  <2>3. ASSUME clears = 0 PROVE Working'
    <3>1. \A w \in Verifier : job'[w].pc = "verify" => Alone(q', job'[w].hash, chain')
      BY <1>3, <2>1, <2>2, <2>3 DEF Working
    <3>2. \A u, w \in Verifier : job'[u].pc = "verify" /\ job'[w].pc = "verify" /\ job'[u].hash = job'[w].hash => u = w
      BY <1>3, <2>2, <2>3 DEF Working
    <3> QED BY <3>1, <3>2 DEF Working, Alone, Busy
  <2> QED BY <1>2, <1>3, <1>7, <2>1, <2>3
<1>15. CASE StartSync \/ AssignSync
  <2>1. /\ q' = q /\ chain' = chain /\ job' = job /\ clears' = clears /\ client'.pc # "import"
    BY <1>15 DEF StartSync, AssignSync, Idle, env, BasicInv, TypeOK
  <2> QED BY <1>2, <1>3, <1>5, <1>8, <2>1
<1>16. CASE Drain
  <2>1. /\ client.pc = "drain" /\ Fetched(q, client'.batch, q')
        /\ client' = [client EXCEPT !.pc = "import", !.batch = client'.batch]
    BY <1>16, DrainStep
  <2>2. chain' = chain /\ job' = job /\ clears' = clears
    BY <1>16 DEF Drain, env
  <2>3. clears = 0 => KeepsOut(q', chain) /\ \A h : Alone(q, h, chain) => Alone(q', h, chain)
    BY <1>3, <1>4, <2>1, FetchedKept
  <2>4. client'.bads = <<>>
    BY <1>4, <2>1 DEF BasicInv, TypeOK
  <2>5. ToSet(client'.batch) \subseteq q'.draining /\ Distinct(client'.batch)
    BY <2>1 DEF Fetched
  <2>6. Importing'
    BY <2>4, <2>5, SetOfEmpty DEF Importing
  <2> QED BY <1>2, <1>3, <1>5, <2>2, <2>3, <2>6
<1>17. CASE ImportNext
  <2>1. PICK b \in Block : /\ b = Head(client.batch)
                           /\ \/ /\ chain' = chain /\ (b \in chain \/ b \in Transient \/ Time[b] > clock)
                                 /\ client' = [client EXCEPT !.batch = Tail(@)]
                              \/ /\ chain' = chain \cup {b}
                                 /\ client' = [client EXCEPT !.batch = Tail(@)]
                              \/ /\ chain' = chain /\ b \notin chain /\ (Parent[b] \notin chain \/ b \in Unsound)
                                 /\ client' = [client EXCEPT !.batch = Tail(@), !.bads = Append(@, b)]
    BY <1>17, ImportNextStep
  <2>2. client.pc = "import" /\ client.batch \in Seq(Block) /\ client.batch # <<>> /\ q' = q /\ client.bads \in Seq(Block)
    BY <1>17, ImportNextStep DEF BasicInv, TypeOK
  <2>3. job' = job /\ clears' = clears
    BY <1>17 DEF ImportNext, env
  <2>4. ASSUME clears = 0 PROVE Good
    <3>1. KeepsOut(q, chain) /\ Working /\ Importing
      BY <1>3, <2>4
    <3>2. /\ ToSet(client.batch) \cup ToSet(client.bads) \subseteq q.draining
          /\ Distinct(client.batch) /\ ToSet(client.batch) \cap ToSet(client.bads) = {} /\ ToSet(client.bads) \cap chain = {}
      BY <2>2, <3>1 DEF Importing
    <3>3. ToSet(client.batch) = {b} \cup ToSet(Tail(client.batch)) /\ Distinct(Tail(client.batch)) /\ b \notin ToSet(Tail(client.batch))
      BY <2>1, <2>2, <3>2, SetOfTail
    <3>4. chain' \cup q.draining = chain \cup q.draining
      BY <2>1, <3>2, <3>3
    <3>5. KeepsOut(q', chain')
      <4>1. (OnWay(q) \cup ToSet(q.unknown) \cup q.bad) \cap (chain' \cup q.draining) = {}
        BY <3>1, <3>4 DEF KeepsOut
      <4>2. \A x \in ToSet(q.unknown) : Parent[x] \notin q.ready \cup q.draining \cup chain'
        BY <3>1, <3>4 DEF KeepsOut
      <4> QED BY <2>2, <3>1, <4>1, <4>2 DEF KeepsOut
    <3>6. \A h : Alone(q, h, chain) => Alone(q', h, chain')
      BY <2>2, <3>4 DEF Alone
    <3>7. Working'
      BY <1>5, <2>3, <3>1, <3>6
    <3>8. client'.batch = Tail(client.batch)
      BY <2>1, <2>2 DEF BasicInv, TypeOK
    <3>9. \/ chain' \subseteq chain \cup {b} /\ client'.bads = client.bads
          \/ chain' = chain /\ b \notin chain /\ ToSet(client'.bads) = ToSet(client.bads) \cup {b}
      <4>1. ToSet(Append(client.bads, b)) = ToSet(client.bads) \cup {b}
        BY <2>2, SetOfAppend
      <4> QED BY <2>1, <4>1 DEF BasicInv, TypeOK
    <3>10. /\ ToSet(client'.batch) \cup ToSet(client'.bads) \subseteq q'.draining
           /\ Distinct(client'.batch) /\ ToSet(client'.batch) \cap ToSet(client'.bads) = {}
           /\ ToSet(client'.bads) \cap chain' = {}
      BY <2>2, <3>2, <3>3, <3>8, <3>9
    <3>11. Importing'
      BY <3>10 DEF Importing
    <3> QED BY <3>5, <3>7, <3>11
  <2> QED BY <1>2, <2>3, <2>4
<1>18. CASE DoneDrain
  <2> DEFINE B == ToSet(client.bads)
  <2>1. /\ client.pc = "import" /\ client.bads \in Seq(Block) /\ Cut(q, B, q') /\ q'.draining = {}
        /\ client' = [client EXCEPT !.pc = "assign", !.bads = <<>>, !.more = (q'.ready # {})]
    BY <1>18, DoneDrainStep
  <2>2. chain' = chain /\ job' = job /\ clears' = clears
    BY <1>18 DEF DoneDrain, env
  <2>3. client'.pc # "import"
    BY <2>1 DEF BasicInv, TypeOK
  <2>4. ASSUME clears = 0 PROVE Good
    <3>1. KeepsOut(q, chain) /\ Working /\ B \subseteq q.draining /\ B \cap chain = {} /\ B \subseteq Block
      BY <1>3, <2>1, <2>4, SetOf DEF Importing
    <3> HIDE DEF B
    <3>2. B \cap OnWay(q) = {} /\ B \cap ToSet(q.unknown) = {} /\ B \cap (chain \cup q'.draining) = {} /\ q'.draining \subseteq q.draining
      BY <2>1, <3>1 DEF KeepsOut
    <3>3. KeepsOut(q', chain) /\ \A h : Alone(q, h, chain) => Alone(q', h, chain)
      BY <1>4, <2>1, <3>1, <3>2, CutKept
    <3> QED BY <1>5, <1>8, <2>2, <2>3, <3>1, <3>3
  <2> QED BY <1>2, <2>2, <2>4
<1>19. CASE Tick
  <2>1. /\ Untouched(q, q') /\ q'.unknown = q.unknown /\ client' = [client EXCEPT !.pc = "tick", !.batch = client'.batch]
    BY <1>19, TickStep
  <2>2. chain' = chain /\ job' = job /\ clears' = clears
    BY <1>19 DEF Tick, env
  <2>3. client'.pc # "import"
    BY <2>1 DEF BasicInv, TypeOK
  <2>4. PICK b \in Block : Arrives(q, b, q')
    <3>1. \E b \in Block : TRUE
      <4>1. client'.batch \in Seq(Block) /\ client'.batch # <<>>
        BY <1>19, TickStep
      <4> QED BY <4>1, SetOf
    <3> QED BY <2>1, <3>1 DEF Arrives, Postponed
  <2>5. clears = 0 => KeepsOut(q', chain) /\ \A h : Alone(q, h, chain) => Alone(q', h, chain)
    BY <1>3, <1>4, <2>4, ArrivesKept
  <2> QED BY <1>2, <1>3, <1>5, <1>8, <2>2, <2>3, <2>5
<1>20. CASE TickImport
  <2>1. Head(client.batch) \in Block /\ Arrives(q, Head(client.batch), q')
    BY <1>20, TickImportStep
  <2>2. chain' = chain /\ job' = job /\ clears' = clears /\ client'.pc # "import"
    BY <1>20 DEF TickImport, Idle, env, BasicInv, TypeOK
  <2>3. clears = 0 => KeepsOut(q', chain) /\ \A h : Alone(q, h, chain) => Alone(q', h, chain)
    BY <1>3, <1>4, <2>1, ArrivesKept
  <2> QED BY <1>2, <1>3, <1>5, <1>8, <2>2, <2>3
<1>21. CASE RetryAllUnknown
  <2>1. Retried(q, q')
    BY <1>21, RetryStep
  <2>2. chain' = chain /\ client' = client /\ job' = job /\ clears' = clears
    BY <1>21 DEF RetryAllUnknown
  <2>3. clears = 0 => KeepsOut(q', chain) /\ \A h : Alone(q, h, chain) => Alone(q', h, chain)
    BY <1>3, <1>4, <2>1, RetriedKept
  <2>4. q'.draining = q.draining
    BY <2>1 DEF Retried
  <2> QED BY <1>2, <1>3, <1>5, <1>7, <2>2, <2>3, <2>4
<1>22. CASE Advance \/ UNCHANGED vars
  <2>1. q' = q /\ chain' = chain /\ client' = client /\ job' = job /\ clears' = clears
    BY <1>22 DEF Advance, vars
  <2> QED BY <1>2, <1>3, <1>5, <1>7, <2>1
<1> QED BY <1>1, <1>9, <1>10, <1>11, <1>12, <1>13, <1>14, <1>15, <1>16, <1>17, <1>18, <1>19, <1>20, <1>21, <1>22 DEF Next

\* The sets are apart in every state that no call of clear precedes.
LEMMA KnownAlways == Spec => []KnownInv
<1>1. Init => KnownInv
  <2> SUFFICES ASSUME Init PROVE KnownInv
    OBVIOUS
  <2>1. OnWay(q) = {} /\ ToSet(q.unknown) = {} /\ q.bad = {}
    BY EmptySane DEF Init
  <2>2. KeepsOut(q, chain)
    BY <2>1 DEF KeepsOut, Tidy, Unmixed
  <2>3. Working /\ Importing /\ clears \in Nat
    BY DEF Init, Working, Importing, NoJob, Idle
  <2> QED BY <2>2, <2>3 DEF KnownInv
<1>2. BasicInv /\ KnownInv /\ [Next]_vars => KnownInv'
  BY KnownNext
<1> QED BY <1>1, <1>2, BasicAlways, PTL DEF Spec

\* As long as clear is not called, a block waits in m_unknown only for a parent that
\* is neither ready nor being imported nor on the chain: noteReady takes all the
\* descendants of a block along, and what updateBad and drain take out of m_readySet
\* is bad or in m_drainingSet.
THEOREM UnknownBlocksWait == Spec => [](clears = 0 => UnknownWaits)
<1>1. KnownInv => (clears = 0 => UnknownWaits)
  BY DEF KnownInv, KeepsOut, UnknownWaits
<1> QED BY <1>1, KnownAlways, PTL

\* As long as clear is not called, no block of the chain is in m_knownBad: a block is
\* imported once, as m_drainingSet and m_readySet keep a second copy of it out, so it
\* is not found bad after it has been found good.
THEOREM BadBlocksStayOut == Spec => [](clears = 0 => BadStaysOut)
<1>1. KnownInv => (clears = 0 => BadStaysOut)
  BY DEF KnownInv, KeepsOut, BadStaysOut
<1> QED BY <1>1, KnownAlways, PTL
=============================================================================

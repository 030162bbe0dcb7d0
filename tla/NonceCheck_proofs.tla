-------------------------- MODULE NonceCheck_proofs --------------------------
(***************************************************************************)
(* What the operators of the nonce check compute: the facts that the       *)
(* proofs about the client and about the chain share.                      *)
(***************************************************************************)
EXTENDS NonceCheck, TLAPS, FiniteSetTheorems, SequenceTheorems

\* the keys of the blocks lo..hi, by their blocks
LEMMA KeysInMember ==
    ASSUME NEW c, NEW lo, NEW hi, NEW k
    PROVE  k \in KeysIn(c, lo, hi) <=>
              \E j \in DOMAIN c : lo <= j /\ j <= hi /\ \E t \in c[j] : k = Key[t]
BY DEF KeysIn, GenerateKeys

\* where the window of a chain of n blocks starts
LEMMA StartBlkType ==
    ASSUME NEW n \in Nat
    PROVE  /\ StartBlk(n) \in Nat /\ StartBlk(n) <= n
           /\ StartBlk(n) > 0 => StartBlk(n) = n - MaxBlockSize
           /\ n - MaxBlockSize <= StartBlk(n)
BY NonceCheckAssumption DEF StartBlk

\* the window only moves forward
LEMMA StartBlkGrows ==
    ASSUME NEW m \in Nat, NEW n \in Nat, m <= n
    PROVE  StartBlk(m) <= StartBlk(n)
BY NonceCheckAssumption DEF StartBlk

\* the keys of a chain are keys
LEMMA KeysInType ==
    ASSUME NEW c \in Seq(SUBSET Tx), NEW lo, NEW hi
    PROVE  KeysIn(c, lo, hi) \subseteq Keys
BY KeysInMember, ElementOfSeq, LenProperties DEF Keys

\* a new block does not change the keys below it
LEMMA KeysInAppend ==
    ASSUME NEW c \in Seq(SUBSET Tx), NEW b \in SUBSET Tx, NEW lo \in Nat, NEW hi \in Nat,
           hi <= Len(c)
    PROVE  KeysIn(Append(c, b), lo, hi) = KeysIn(c, lo, hi)
<1>1. DOMAIN c = 1..Len(c) /\ DOMAIN Append(c, b) = 1..(Len(c) + 1)
      /\ Len(c) \in Nat /\ \A j \in 1..Len(c) : Append(c, b)[j] = c[j]
  BY LenProperties
<1>2. ASSUME NEW k PROVE k \in KeysIn(Append(c, b), lo, hi) <=> k \in KeysIn(c, lo, hi)
  <2> DEFINE d == Append(c, b)
  <2>1. \A j \in DOMAIN d : j <= hi => j \in DOMAIN c /\ d[j] = c[j]
    BY <1>1
  <2>2. \A j \in DOMAIN c : j \in DOMAIN d /\ d[j] = c[j]
    BY <1>1
  <2> HIDE DEF d
  <2>3. k \in KeysIn(d, lo, hi) <=> k \in KeysIn(c, lo, hi)
    BY <2>1, <2>2, KeysInMember
  <2> QED BY <2>3 DEF d
<1> QED BY <1>2, Zenon

\* NonceCheck::init builds an exact window
LEMMA RebuiltExact ==
    ASSUME NEW c \in Seq(SUBSET Tx)
    PROVE  Rebuilt(c) = [cache |-> KeysIn(c, StartBlk(Len(c)), Len(c)),
                         startblk |-> StartBlk(Len(c)), endblk |-> Len(c)]
<1> DEFINE n == Len(c)
           e == StartBlk(n)
           f == IF 1 > e THEN 1 ELSE e
<1>1. n \in Nat /\ DOMAIN c = 1..n
  BY LenProperties
<1>2. e \in Nat
  BY <1>1, StartBlkType
<1>3. Rebuilt(c) = [cache |-> {} \cup KeysIn(c, f, n), startblk |-> e, endblk |-> n]
  BY DEF Rebuilt, UpdateCache
<1>4. \A k : k \in KeysIn(c, f, n) <=> k \in KeysIn(c, e, n)
  <2>1. \A j \in DOMAIN c : f <= j <=> e <= j
    BY <1>1, <1>2
  <2> HIDE DEF f, e, n
  <2> QED BY <2>1, KeysInMember
<1>5. KeysIn(c, f, n) = KeysIn(c, e, n)
  BY <1>4, Zenon
<1> QED BY <1>3, <1>5
=============================================================================

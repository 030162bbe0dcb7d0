---------------------------- MODULE Client_proofs ----------------------------
(***************************************************************************)
(* What the client and its queue keep, for every set of transactions,      *)
(* every size of the window, the queue and the block, and every length of  *)
(* the chain.  The steps of an import, the threads that bring transactions *)
(* and the working block are tied together by one inductive invariant.     *)
(***************************************************************************)
EXTENDS Client, NonceCheck_proofs

-----------------------------------------------------------------------------
(* The inductive invariant.                                                *)

\* the number of the last block the nonce check has seen
Height == IF Importing THEN Len(chain) - 1 ELSE Len(chain)

\* the client thread and the chain: the last block changes inside an import,
\* which keeps the transactions of its block at hand
ThreadInv ==
    /\ number = IF pc \in {"written", "deleted"} THEN Len(chain) - 1 ELSE Len(chain)
    /\ Importing => chain # <<>> /\ todo = chain[Len(chain)]

\* the nonce check holds the window below the block that is imported
WindowInv ==
    /\ nc.endblk = Height /\ nc.startblk = StartBlk(Height)
    /\ nc.cache = KeysIn(chain, StartBlk(Height), Height)

\* block j repeats no key of the window below it and keeps to the block limits
SoundAt(c, j) ==
    /\ \A t \in c[j] : IsBlockLimitOk(j - 1, t)
    /\ GenerateKeys(c[j]) \cap KeysIn(c, StartBlk(j - 1), j - 1) = {}
ChainInv == \A j \in DOMAIN chain : SoundAt(chain, j)

\* what may go into a block on top of the last one
FreshTxs(txs) ==
    /\ \A t \in txs : IsBlockLimitOk(number, t) /\ Key[t] \notin nc.cache
    /\ \A t, u \in txs : Key[t] = Key[u] => t = u
WorkingInv ==
    /\ pre <= number /\ working.base <= number
    /\ pc = "best" => working.base < number
    /\ ~Importing /\ working.base = number => FreshTxs(working.txs)

\* the indexes of the queue
QueueGood(q) ==
    /\ q \in Queue /\ IsFiniteSet(q.current) /\ q.known = q.current
    /\ \A k \in Keys : q.byNonce[k] # NoTx => Key[q.byNonce[k]] = k /\ q.byNonce[k] \in q.current
    /\ \A t \in q.current : q.byNonce[Key[t]] = t
    /\ Cardinality(q.current) <= Limit

\* the window is no shorter than the time for which a transaction is acceptable:
\* both lengths are 1000 unless the system contract says otherwise
LimitsFit == MaxBlockLimit <= MaxBlockSize + 2

\* what is on the chain has left the queue, but for what the client thread is
\* about to drop
Pending == IF Importing \/ pc = "dropGood" THEN todo ELSE {}
LeavesInv == LimitsFit => tq.current \cap OnChain \subseteq Pending

IndInv == /\ TypeOK /\ ThreadInv /\ WindowInv /\ ChainInv /\ WorkingInv
          /\ QueueGood(tq) /\ LeavesInv

-----------------------------------------------------------------------------
(* The window of the nonce check.                                          *)

\* updateCache moves an exact window to an exact window: no key that is evicted
\* is in a block that stays, because the chain is sound
LEMMA WindowMoves ==
    ASSUME NEW c \in Seq(SUBSET Tx), NEW n \in Nat, n = Len(c), n > 0,
           \A j \in DOMAIN c : SoundAt(c, j),
           NEW w, w.endblk = n - 1, w.startblk = StartBlk(n - 1),
           w.cache = KeysIn(c, StartBlk(n - 1), n - 1)
    PROVE  UpdateCache(w, c, n, FALSE) =
              [cache |-> KeysIn(c, StartBlk(n), n), startblk |-> StartBlk(n), endblk |-> n]
<1> DEFINE s == StartBlk(n - 1)
           e == StartBlk(n)
           new == (w.cache \ KeysIn(c, s, e - 1)) \cup KeysIn(c, IF n > e THEN n ELSE e, n)
<1>1. s \in Nat /\ e \in Nat /\ s <= n - 1 /\ e <= n /\ s <= e
  BY StartBlkType, StartBlkGrows
<1>2. DOMAIN c = 1..n
  BY LenProperties
<1>3. UpdateCache(w, c, n, FALSE) = [cache |-> new, startblk |-> e, endblk |-> n]
  <2>1. w.endblk + 1 = n
    OBVIOUS
  <2> QED BY <2>1 DEF UpdateCache
<1>4. ASSUME NEW k, k \in new PROVE k \in KeysIn(c, e, n)
  <2>1. CASE k \in w.cache \ KeysIn(c, s, e - 1)
    <3>1. PICK j \in DOMAIN c : s <= j /\ j <= n - 1 /\ \E t \in c[j] : k = Key[t]
      BY <2>1, KeysInMember
    <3>2. ~(j <= e - 1)
      BY <2>1, <3>1, KeysInMember
    <3> QED BY <1>1, <1>2, <3>1, <3>2, KeysInMember
  <2>2. CASE k \in KeysIn(c, IF n > e THEN n ELSE e, n)
    <3>1. PICK j \in DOMAIN c : (IF n > e THEN n ELSE e) <= j /\ j <= n /\ \E t \in c[j] : k = Key[t]
      BY <2>2, KeysInMember
    <3>2. e <= j
      BY <1>1, <1>2, <3>1
    <3> QED BY <3>1, <3>2, KeysInMember
  <2> QED BY <1>4, <2>1, <2>2
<1>5. ASSUME NEW k, k \in KeysIn(c, e, n) PROVE k \in new
  <2>1. PICK j \in DOMAIN c : e <= j /\ j <= n /\ \E t \in c[j] : k = Key[t]
    BY <1>5, KeysInMember
  <2>2. CASE j = n
    <3>1. (IF n > e THEN n ELSE e) <= j
      BY <1>1, <2>1, <2>2
    <3> QED BY <2>1, <3>1, KeysInMember
  <2>3. CASE j # n
    <3>1. j \in Nat /\ j <= n - 1 /\ s <= j
      BY <1>1, <1>2, <2>1, <2>3
    <3>2. k \in w.cache
      BY <2>1, <3>1, KeysInMember
    <3>3. k \notin KeysIn(c, s, e - 1)
      <4> SUFFICES ASSUME NEW i \in DOMAIN c, s <= i, i <= e - 1, \E t \in c[i] : k = Key[t]
                   PROVE  FALSE
        BY KeysInMember
      <4>1. i \in Nat /\ i <= j - 1
        BY <1>1, <1>2, <2>1, <3>1
      <4>2. StartBlk(j - 1) <= i
        <5>1. j - 1 \in Nat /\ n - 1 \in Nat /\ j - 1 <= n - 1
          BY <3>1, <4>1
        <5>2. StartBlk(j - 1) \in Nat /\ StartBlk(j - 1) <= s
          BY <5>1, StartBlkGrows, StartBlkType
        <5> QED BY <1>1, <4>1, <5>2
      <4>3. k \in KeysIn(c, StartBlk(j - 1), j - 1)
        BY <4>1, <4>2, KeysInMember
      <4>4. k \in GenerateKeys(c[j])
        BY <2>1 DEF GenerateKeys
      <4> QED BY <4>3, <4>4 DEF SoundAt
    <3> QED BY <3>2, <3>3
  <2> QED BY <2>2, <2>3
<1>6. new = KeysIn(c, e, n)
  <2> HIDE DEF new, e
  <2> QED BY <1>4, <1>5
<1> QED BY <1>3, <1>6

\* a transaction of a sound chain is refused for good: by the nonce check while
\* its block is in the window below n, by its block limit afterwards
LEMMA RefusedForGood ==
    ASSUME LimitsFit, NEW c \in Seq(SUBSET Tx), \A j \in DOMAIN c : SoundAt(c, j),
           NEW n \in Nat, NEW m \in Nat, n <= m, n <= Len(c),
           NEW t \in Tx, Key[t] \notin KeysIn(c, StartBlk(n), n), IsBlockLimitOk(m, t),
           NEW i \in DOMAIN c, i <= n
    PROVE  t \notin c[i]
<1> SUFFICES ASSUME t \in c[i] PROVE FALSE
  OBVIOUS
<1>1. i \in Nat /\ i > 0
  BY LenProperties
<1>2. i < StartBlk(n)
  <2>1. ~(StartBlk(n) <= i)
    BY KeysInMember
  <2> QED BY <1>1, <2>1, StartBlkType
<1>3. i < n - MaxBlockSize
  <2>1. StartBlk(n) \in Nat /\ StartBlk(n) > 0
    BY <1>1, <1>2, StartBlkType
  <2>2. StartBlk(n) = n - MaxBlockSize
    BY <2>1, StartBlkType
  <2> QED BY <1>1, <1>2, <2>2, NonceCheckAssumption
<1>4. BlockLimit[t] \in Nat /\ BlockLimit[t] <= i - 1 + MaxBlockLimit
  BY <1>1, NonceCheckAssumption DEF SoundAt, IsBlockLimitOk
<1>5. m < BlockLimit[t]
  BY DEF IsBlockLimitOk
<1> QED BY <1>1, <1>3, <1>4, <1>5, NonceCheckAssumption DEF LimitsFit

-----------------------------------------------------------------------------
(* The methods of the transaction queue keep its indexes.                  *)

LEMMA KeyInKeys == ASSUME NEW t \in Tx PROVE Key[t] \in Keys
BY DEF Keys

\* remove_WITH_LOCK
LEMMA RemoveGood ==
    ASSUME NEW q, QueueGood(q), NEW t \in Tx
    PROVE  LET r == RemoveWithLock(q, t)
           IN  /\ QueueGood(r) /\ r.current = q.current \ {t} /\ r.dropped = q.dropped
               /\ t \in q.current => r.byNonce[Key[t]] = NoTx
               /\ t \in q.current => Cardinality(r.current) = Cardinality(q.current) - 1
<1> DEFINE r == RemoveWithLock(q, t)
<1>1. CASE t \notin q.current
  <2>1. r = q
    BY <1>1 DEF RemoveWithLock
  <2>2. q.current \ {t} = q.current
    BY <1>1
  <2> QED BY <1>1, <2>1, <2>2
<1>2. CASE t \in q.current
  <2>1. r = [q EXCEPT !.current = @ \ {t}, !.byNonce[Key[t]] = NoTx, !.known = @ \ {t}]
    BY <1>2 DEF RemoveWithLock
  <2>2. /\ r.current = q.current \ {t} /\ r.known = q.known \ {t} /\ r.dropped = q.dropped
        /\ r.byNonce = [q.byNonce EXCEPT ![Key[t]] = NoTx]
        /\ r = [known |-> r.known, dropped |-> r.dropped, current |-> r.current, byNonce |-> r.byNonce]
    BY <2>1 DEF QueueGood, Queue
  <2>3. IsFiniteSet(r.current) /\ Cardinality(r.current) = Cardinality(q.current) - 1
    BY <1>2, <2>2, FS_RemoveElement DEF QueueGood
  <2>4. q.byNonce \in [Keys -> Tx \cup {NoTx}] /\ Key[t] \in Keys
    BY KeyInKeys DEF QueueGood, Queue
  <2>5. r \in Queue
    BY <2>2, <2>4 DEF QueueGood, Queue
  <2>6. \A k \in Keys : r.byNonce[k] # NoTx => Key[r.byNonce[k]] = k /\ r.byNonce[k] \in r.current
    BY <1>2, <2>2, <2>4 DEF QueueGood
  <2>7. \A u \in r.current : r.byNonce[Key[u]] = u
    BY <1>2, <2>2, <2>4 DEF QueueGood
  <2>8. Cardinality(r.current) <= Limit
    BY <2>3, FS_CardinalityType, QueueAssumption DEF QueueGood
  <2>9. r.known = r.current
    BY <2>2 DEF QueueGood
  <2>10. r.byNonce[Key[t]] = NoTx
    BY <2>2, <2>4
  <2> HIDE DEF r
  <2> QED BY <1>2, <2>2, <2>3, <2>5, <2>6, <2>7, <2>8, <2>9, <2>10 DEF QueueGood, r
<1> QED BY <1>1, <1>2

\* drop and dropGood
LEMMA DropsGood ==
    ASSUME NEW q, QueueGood(q), NEW t \in Tx
    PROVE  /\ QueueGood(Drop(q, t)) /\ Drop(q, t).current = q.current \ {t}
           /\ QueueGood(DropGood(q, t)) /\ DropGood(q, t).current = q.current \ {t}
<1> DEFINE d == [q EXCEPT !.dropped = @ \cup {t}]
<1>1. QueueGood(d) /\ d.current = q.current
  BY DEF QueueGood, Queue
<1>2. CASE t \notin q.known
  <2>1. Drop(q, t) = q /\ DropGood(q, t) = q
    BY <1>2 DEF Drop, DropGood
  <2>2. q.current \ {t} = q.current
    BY <1>2 DEF QueueGood
  <2> QED BY <2>1, <2>2
<1>3. CASE t \in q.known
  <2>1. Drop(q, t) = RemoveWithLock(d, t) /\ DropGood(q, t) = RemoveWithLock(q, t)
    BY <1>3 DEF Drop, DropGood
  <2> HIDE DEF d
  <2> QED BY <1>1, <2>1, RemoveGood
<1> QED BY <1>2, <1>3

\* the indexes of a queue that may be too long: what insertCurrent_WITH_LOCK leaves
Indexed(q) ==
    /\ q \in Queue /\ IsFiniteSet(q.current) /\ q.known = q.current
    /\ \A k \in Keys : q.byNonce[k] # NoTx => Key[q.byNonce[k]] = k /\ q.byNonce[k] \in q.current
    /\ \A t \in q.current : q.byNonce[Key[t]] = t

\* insertCurrent_WITH_LOCK of a transaction whose key is free
LEMMA InsertIndexed ==
    ASSUME NEW q, QueueGood(q), NEW t \in Tx, t \notin q.current, q.byNonce[Key[t]] = NoTx
    PROVE  LET r == InsertCurrentWithLock(q, t)
           IN  Indexed(r) /\ r.current = q.current \cup {t}
<1> DEFINE r == InsertCurrentWithLock(q, t)
<1>1. r = [q EXCEPT !.current = @ \cup {t}, !.byNonce[Key[t]] = t, !.known = @ \cup {t}]
  BY DEF InsertCurrentWithLock
<1>2. /\ r.current = q.current \cup {t} /\ r.known = q.known \cup {t} /\ r.dropped = q.dropped
      /\ r.byNonce = [q.byNonce EXCEPT ![Key[t]] = t]
      /\ r = [known |-> r.known, dropped |-> r.dropped, current |-> r.current, byNonce |-> r.byNonce]
  BY <1>1 DEF QueueGood, Queue
<1>3. q.byNonce \in [Keys -> Tx \cup {NoTx}] /\ Key[t] \in Keys /\ q.current \subseteq Tx
  BY KeyInKeys DEF QueueGood, Queue
<1>4. r \in Queue
  BY <1>2, <1>3 DEF QueueGood, Queue
<1>5. IsFiniteSet(r.current)
  BY <1>2, FS_AddElement DEF QueueGood
<1>6. \A k \in Keys : r.byNonce[k] # NoTx => Key[r.byNonce[k]] = k /\ r.byNonce[k] \in r.current
  BY <1>2, <1>3 DEF QueueGood
<1>7. \A u \in r.current : r.byNonce[Key[u]] = u
  <2> TAKE u \in r.current
  <2>1. CASE u = t
    BY <1>2, <1>3, <2>1
  <2>2. CASE u # t
    <3>1. u \in q.current /\ u \in Tx /\ q.byNonce[Key[u]] = u
      BY <1>2, <1>3, <2>2 DEF QueueGood
    <3>2. Key[u] # Key[t] /\ Key[u] \in Keys
      BY <3>1, KeyInKeys, QueueAssumption
    <3> QED BY <1>2, <1>3, <3>1, <3>2
  <2> QED BY <2>1, <2>2
<1>8. r.known = r.current
  BY <1>2 DEF QueueGood
<1> HIDE DEF r
<1> QED BY <1>2, <1>4, <1>5, <1>6, <1>7, <1>8 DEF Indexed, r

\* the transactions that are too many leave every index
LEMMA BoundsGood ==
    ASSUME NEW q, Indexed(q), NEW out \in OutOfBounds(q)
    PROVE  LET r == DropOutOfBounds(q, out)
           IN  QueueGood(r) /\ r.current = q.current \ out
<1> DEFINE r == DropOutOfBounds(q, out)
<1>1. out \subseteq q.current /\ q.current \subseteq Tx /\ q.byNonce \in [Keys -> Tx \cup {NoTx}]
  BY DEF OutOfBounds, Indexed, Queue
<1>2. /\ r.current = q.current \ out /\ r.known = q.known \ out /\ r.dropped = q.dropped
      /\ r.byNonce = [k \in Keys |-> IF q.byNonce[k] \in out THEN NoTx ELSE q.byNonce[k]]
      /\ r = [known |-> r.known, dropped |-> r.dropped, current |-> r.current, byNonce |-> r.byNonce]
  <2> DEFINE f == [k \in Keys |-> IF q.byNonce[k] \in out THEN NoTx ELSE q.byNonce[k]]
  <2>1. r = [q EXCEPT !.current = @ \ out, !.known = @ \ out, !.byNonce = f]
    BY DEF DropOutOfBounds
  <2>2. q = [known |-> q.known, dropped |-> q.dropped, current |-> q.current, byNonce |-> q.byNonce]
    BY DEF Indexed, Queue
  <2> HIDE DEF r, f
  <2>3. r.current = q.current \ out /\ r.known = q.known \ out /\ r.dropped = q.dropped /\ r.byNonce = f
        /\ r = [known |-> r.known, dropped |-> r.dropped, current |-> r.current, byNonce |-> r.byNonce]
    BY <2>1, <2>2
  <2> QED BY <2>3 DEF f
<1> HIDE DEF r
<1>3. r \in Queue
  BY <1>1, <1>2 DEF Indexed, Queue
<1>4. IsFiniteSet(r.current) /\ Cardinality(r.current) <= Limit
  <2>1. IsFiniteSet(q.current)
    BY DEF Indexed
  <2>2. q.current \cap out = out
    BY <1>1
  <2>3. /\ IsFiniteSet(q.current \ out)
        /\ Cardinality(q.current \ out) = Cardinality(q.current) - Cardinality(out)
    BY <2>1, <2>2, FS_Difference
  <2>4. Cardinality(q.current) \in Nat /\ Limit \in Nat
    BY <2>1, FS_CardinalityType, QueueAssumption
  <2>5. Cardinality(q.current) > Limit => Cardinality(out) = Cardinality(q.current) - Limit
    BY <2>4 DEF OutOfBounds
  <2>6. Cardinality(q.current) <= Limit => Cardinality(out) = 0
    BY <2>4 DEF OutOfBounds
  <2>7. Cardinality(q.current \ out) <= Limit
    BY <2>3, <2>4, <2>5, <2>6
  <2> QED BY <1>2, <2>3, <2>7
<1>5. \A k \in Keys : r.byNonce[k] # NoTx => Key[r.byNonce[k]] = k /\ r.byNonce[k] \in r.current
  BY <1>1, <1>2 DEF Indexed
<1>6. \A u \in r.current : r.byNonce[Key[u]] = u
  BY <1>1, <1>2, KeyInKeys DEF Indexed
<1>7. r.known = r.current
  BY <1>2 DEF Indexed
<1> QED BY <1>2, <1>3, <1>4, <1>5, <1>6, <1>7 DEF QueueGood, r

\* import: the indexes stay, and only a transaction that passes the nonce check
\* and the block limit gets in
LEMMA ImportGood ==
    ASSUME NEW q, QueueGood(q), NEW t \in Tx, NEW retry \in BOOLEAN, NEW w, NEW n,
           NEW i \in Import(q, t, retry, w, n)
    PROVE  /\ QueueGood(i.queue) /\ i.replaced \in BOOLEAN
           /\ i.queue.current \subseteq q.current \cup {t}
           /\ t \in i.queue.current \ q.current => IsNonceOk(w, t) /\ IsBlockLimitOk(n, t)
<1> DEFINE check  == CheckWithLock(q, t, retry)
           result == IF check # "Success" THEN check ELSE ImportResult(q, t, w, n)
<1>1. CASE result # "Success"
  <2>1. i = [queue |-> q, result |-> result, replaced |-> FALSE, out |-> {}]
    BY <1>1 DEF Import
  <2> QED BY <2>1
<1>2. CASE result = "Success"
  <2> DEFINE prior == q.byNonce[Key[t]]
             p == IF prior = NoTx THEN q ELSE RemoveWithLock(q, prior)
             r == InsertCurrentWithLock(p, t)
  <2>1. PICK out \in OutOfBounds(r) :
           i = [queue |-> DropOutOfBounds(r, out), result |-> result, replaced |-> prior # NoTx, out |-> out]
    BY <1>2 DEF Import, ManageImportWithLock
  <2>2. check = "Success" /\ ImportResult(q, t, w, n) = "Success"
    BY <1>2
  <2>3. t \notin q.known
    BY <2>2 DEF CheckWithLock
  <2>4. IsNonceOk(w, t) /\ IsBlockLimitOk(n, t)
    BY <2>2 DEF ImportResult
  <2>5. prior \in Tx \cup {NoTx} /\ (prior # NoTx => Key[prior] = Key[t] /\ prior \in q.current)
    BY KeyInKeys DEF QueueGood, Queue
  <2>6. QueueGood(p) /\ p.current \subseteq q.current /\ t \notin p.current /\ p.byNonce[Key[t]] = NoTx
    <3>1. CASE prior = NoTx
      BY <2>3, <3>1 DEF QueueGood
    <3>2. CASE prior # NoTx
      <4>1. p = RemoveWithLock(q, prior) /\ prior \in Tx /\ prior \in q.current /\ Key[prior] = Key[t]
        BY <2>5, <3>2
      <4>2. QueueGood(p) /\ p.current = q.current \ {prior} /\ p.byNonce[Key[prior]] = NoTx
        BY <4>1, RemoveGood
      <4> HIDE DEF p, prior
      <4> QED BY <2>3, <4>1, <4>2 DEF QueueGood
    <3> QED BY <3>1, <3>2
  <2> HIDE DEF p
  <2>7. Indexed(r) /\ r.current = p.current \cup {t}
    BY <2>6, InsertIndexed
  <2> HIDE DEF r
  <2>8. QueueGood(DropOutOfBounds(r, out)) /\ DropOutOfBounds(r, out).current = r.current \ out
    BY <2>7, BoundsGood
  <2> QED BY <2>1, <2>4, <2>6, <2>7, <2>8
<1> QED BY <1>1, <1>2

-----------------------------------------------------------------------------
(* The steps keep the invariant.                                           *)

LEMMA ChainFacts ==
    ASSUME IndInv
    PROVE  /\ chain \in Seq(SUBSET Tx) /\ Len(chain) \in Nat /\ DOMAIN chain = 1..Len(chain)
           /\ \A j \in DOMAIN chain : chain[j] \in SUBSET Tx
           /\ number \in Nat /\ Height \in Nat /\ Height <= number /\ number <= Len(chain)
           /\ Importing => Height = Len(chain) - 1 /\ Len(chain) > 0
           /\ ~Importing => Height = Len(chain) /\ number = Len(chain)
<1>1. chain \in Seq(SUBSET Tx)
  BY DEF IndInv, TypeOK
<1>2. Len(chain) \in Nat /\ DOMAIN chain = 1..Len(chain) /\ \A j \in DOMAIN chain : chain[j] \in SUBSET Tx
  BY <1>1, LenProperties, ElementOfSeq
<1>3. chain # <<>> => Len(chain) > 0
  BY <1>1, <1>2, EmptySeq
<1>4. ThreadInv
  BY DEF IndInv
<1>5. CASE Importing
  <2>1. Len(chain) > 0 /\ Height = Len(chain) - 1
    BY <1>3, <1>4, <1>5 DEF ThreadInv, Height
  <2>2. number = Len(chain) \/ number = Len(chain) - 1
    BY <1>4 DEF ThreadInv
  <2> QED BY <1>1, <1>2, <1>5, <2>1, <2>2
<1>6. CASE ~Importing
  <2>1. number = Len(chain) /\ Height = Len(chain)
    BY <1>4, <1>6 DEF ThreadInv, Height, Importing
  <2>2. number \in Nat /\ Height \in Nat /\ Height <= number /\ number <= Len(chain)
    BY <1>2, <2>1
  <2> QED BY <1>1, <1>2, <1>6, <2>1, <2>2, Zenon
<1> QED BY <1>5, <1>6

\* the parts about the chain stay while the client thread is in one and the same
\* step of an import or outside of one
LEMMA ChainFrame ==
    ASSUME IndInv, UNCHANGED chainVars,
           (pc' = pc /\ todo' = todo) \/ (~Importing /\ ~Importing')
    PROVE  ThreadInv' /\ WindowInv' /\ ChainInv' /\ Height' = Height /\ OnChain' = OnChain
<1>1. chain' = chain /\ number' = number /\ nc' = nc
  BY DEF chainVars
<1>2. Importing' = Importing
  BY DEF Importing
<1>3. Height' = Height
  BY <1>1, <1>2 DEF Height
<1>4. ThreadInv'
  BY <1>1, <1>2 DEF IndInv, ThreadInv, Importing
<1>5. WindowInv'
  BY <1>1, <1>3 DEF IndInv, WindowInv
<1>6. ChainInv'
  BY <1>1 DEF IndInv, ChainInv
<1> QED BY <1>1, <1>3, <1>4, <1>5, <1>6 DEF OnChain

\* a transaction of the chain does not get into the queue
LEMMA ImportLeaves ==
    ASSUME IndInv, NEW t \in Tx, NEW retry \in BOOLEAN, NEW i \in Import(tq, t, retry, nc, number)
    PROVE  QueueGood(i.queue) /\ (LimitsFit => i.queue.current \cap OnChain \subseteq Pending)
<1>1. QueueGood(tq)
  BY DEF IndInv
<1>2. /\ QueueGood(i.queue) /\ i.queue.current \subseteq tq.current \cup {t}
      /\ t \in i.queue.current \ tq.current => IsNonceOk(nc, t) /\ IsBlockLimitOk(number, t)
  BY <1>1, ImportGood
<1>3. ASSUME LimitsFit, NEW u \in i.queue.current, u \in OnChain PROVE u \in Pending
  <2>1. CASE u \in tq.current
    BY <1>3, <2>1 DEF IndInv, LeavesInv
  <2>2. CASE u \notin tq.current
    <3>1. u = t /\ IsNonceOk(nc, t) /\ IsBlockLimitOk(number, t)
      BY <1>2, <1>3, <2>2
    <3>2. PICK j \in DOMAIN chain : t \in chain[j]
      BY <1>3, <3>1 DEF OnChain
    <3>3. Key[t] \notin KeysIn(chain, StartBlk(Height), Height)
      BY <3>1 DEF IsNonceOk, Ok, IndInv, WindowInv
    <3>4. ~(j <= Height)
      BY <1>3, <3>1, <3>2, <3>3, ChainFacts, RefusedForGood DEF IndInv, ChainInv
    <3>5. Importing /\ j = Len(chain)
      BY <3>2, <3>4, ChainFacts
    <3> QED BY <3>1, <3>2, <3>5 DEF Pending, IndInv, ThreadInv
  <2> QED BY <2>1, <2>2
<1> QED BY <1>2, <1>3

LEMMA ImportTransactionKeeps ==
    ASSUME IndInv, NEW t \in Tx, NEW retry \in BOOLEAN, ImportTransaction(t, retry),
           UNCHANGED chainVars, (pc' = pc /\ todo' = todo) \/ (~Importing /\ pc' = pc /\ pc # "dropGood")
    PROVE  QueueGood(tq') /\ LeavesInv' /\ ready' \in BOOLEAN /\ needReset' \in BOOLEAN
<1>1. PICK i \in Import(tq, t, retry, nc, number) :
         tq' = i.queue /\ ready' = (ready \/ i.result = "Success") /\ needReset' = (needReset \/ i.replaced)
  BY DEF ImportTransaction
<1>2. QueueGood(i.queue) /\ (LimitsFit => i.queue.current \cap OnChain \subseteq Pending)
  BY ImportLeaves
<1>3. Pending' = Pending /\ OnChain' = OnChain
  BY DEF Pending, Importing, OnChain, chainVars
<1>4. LeavesInv'
  BY <1>1, <1>2, <1>3 DEF LeavesInv
<1> QED BY <1>1, <1>2, <1>4

\* the working block stays
LEMMA WorkingFrame ==
    ASSUME IndInv, UNCHANGED <<number, nc, pre, working>>,
           pc' = pc \/ (~Importing /\ ~Importing')
    PROVE  WorkingInv'
<1>1. number' = number /\ nc' = nc /\ pre' = pre /\ working' = working
  OBVIOUS
<1>2. Importing' = Importing /\ (pc' = "best" => pc = "best")
  BY DEF Importing
<1>3. \A txs : FreshTxs(txs)' <=> FreshTxs(txs)
  BY <1>1 DEF FreshTxs
<1> QED BY <1>1, <1>2, <1>3 DEF IndInv, WorkingInv

\* the queue stays
LEMMA QueueFrame ==
    ASSUME IndInv, tq' = tq, chain' = chain,
           (pc' = pc /\ todo' = todo) \/ (~Importing /\ pc # "dropGood" /\ ~Importing')
    PROVE  QueueGood(tq') /\ LeavesInv'
<1>1. Pending \subseteq Pending' /\ OnChain' = OnChain
  BY DEF Pending, Importing, OnChain
<1> QED BY <1>1 DEF IndInv, LeavesInv

\* the threads that bring transactions
LEMMA SubmitKeeps ==
    ASSUME IndInv, NEW t \in Tx, SubmitTransaction(t)
    PROVE  IndInv'
<1>1. /\ UNCHANGED chainVars /\ UNCHANGED blockVars /\ UNCHANGED envVars
      /\ pc' = pc /\ todo' = todo /\ unverified' = unverified /\ job' = job
      /\ ImportTransaction(t, FALSE)
  BY DEF SubmitTransaction
<1>2. QueueGood(tq') /\ LeavesInv' /\ ready' \in BOOLEAN /\ needReset' \in BOOLEAN
  BY <1>1, ImportTransactionKeeps
<1>3. ThreadInv' /\ WindowInv' /\ ChainInv'
  BY <1>1, ChainFrame
<1>4. WorkingInv'
  BY <1>1, WorkingFrame DEF chainVars, blockVars
<1>5. TypeOK'
  BY <1>1, <1>2 DEF IndInv, TypeOK, chainVars, blockVars, envVars, QueueGood
<1> QED BY <1>2, <1>3, <1>4, <1>5 DEF IndInv

LEMMA EnqueueKeeps ==
    ASSUME IndInv, NEW t \in Tx, Enqueue(t)
    PROVE  IndInv'
<1>1. /\ UNCHANGED chainVars /\ UNCHANGED blockVars /\ UNCHANGED envVars /\ tq' = tq
      /\ pc' = pc /\ todo' = todo /\ unverified' = Append(unverified, t) /\ job' = job
      /\ ready' = ready /\ needReset' = needReset
  BY DEF Enqueue
<1>2. QueueGood(tq') /\ LeavesInv'
  BY <1>1, QueueFrame DEF chainVars
<1>3. ThreadInv' /\ WindowInv' /\ ChainInv'
  BY <1>1, ChainFrame
<1>4. WorkingInv'
  BY <1>1, WorkingFrame DEF chainVars, blockVars
<1>5. TypeOK'
  BY <1>1 DEF IndInv, TypeOK, chainVars, blockVars, envVars
<1> QED BY <1>2, <1>3, <1>4, <1>5 DEF IndInv

LEMMA VerifierTakeKeeps ==
    ASSUME IndInv, NEW v \in Verifier, VerifierTake(v)
    PROVE  IndInv'
<1>1. /\ UNCHANGED chainVars /\ UNCHANGED blockVars /\ UNCHANGED envVars /\ tq' = tq
      /\ pc' = pc /\ todo' = todo /\ unverified # <<>> /\ unverified' = Tail(unverified)
      /\ job' = [job EXCEPT ![v] = Head(unverified)]
      /\ ready' = ready /\ needReset' = needReset
  BY DEF VerifierTake
<1>2. QueueGood(tq') /\ LeavesInv'
  BY <1>1, QueueFrame DEF chainVars
<1>3. ThreadInv' /\ WindowInv' /\ ChainInv'
  BY <1>1, ChainFrame
<1>4. WorkingInv'
  BY <1>1, WorkingFrame DEF chainVars, blockVars
<1>5. Head(unverified) \in Tx /\ Tail(unverified) \in Seq(Tx)
  BY <1>1, HeadTailProperties DEF IndInv, TypeOK
<1>6. TypeOK'
  BY <1>1, <1>5 DEF IndInv, TypeOK, chainVars, blockVars, envVars
<1> QED BY <1>2, <1>3, <1>4, <1>6 DEF IndInv

LEMMA VerifierImportKeeps ==
    ASSUME IndInv, NEW v \in Verifier, VerifierImport(v)
    PROVE  IndInv'
<1>1. /\ UNCHANGED chainVars /\ UNCHANGED blockVars /\ UNCHANGED envVars
      /\ pc' = pc /\ todo' = todo /\ unverified' = unverified
      /\ job[v] # NoTx /\ job' = [job EXCEPT ![v] = NoTx]
      /\ ImportTransaction(job[v], FALSE)
  BY DEF VerifierImport
<1>2. job[v] \in Tx
  BY <1>1 DEF IndInv, TypeOK
<1>3. QueueGood(tq') /\ LeavesInv' /\ ready' \in BOOLEAN /\ needReset' \in BOOLEAN
  BY <1>1, <1>2, ImportTransactionKeeps
<1>4. ThreadInv' /\ WindowInv' /\ ChainInv'
  BY <1>1, ChainFrame
<1>5. WorkingInv'
  BY <1>1, WorkingFrame DEF chainVars, blockVars
<1>6. TypeOK'
  BY <1>1, <1>3 DEF IndInv, TypeOK, chainVars, blockVars, envVars, QueueGood
<1> QED BY <1>3, <1>4, <1>5, <1>6 DEF IndInv

\* every block that is imported keeps to the limits and repeats no key of the window
LEMMA NextBlockFresh ==
    ASSUME IndInv, pc = "idle", NEW b \in OtherBlocks \cup OwnBlocks
    PROVE  /\ b \in SUBSET Tx
           /\ \A t \in b : IsBlockLimitOk(number, t) /\ Key[t] \notin nc.cache
<1>1. ~Importing
  BY DEF Importing
<1>2. CASE b \in OtherBlocks
  <2>1. Rebuilt(chain).cache = nc.cache
    BY <1>1, ChainFacts, RebuiltExact DEF IndInv, WindowInv
  <2> QED BY <1>2, <2>1 DEF OtherBlocks, Packable, IsNonceOk, Ok
<1>3. CASE b \in OwnBlocks
  <2>1. b = working.txs /\ working.base = number
    BY <1>3 DEF OwnBlocks
  <2>2. FreshTxs(b) /\ b \in SUBSET Tx
    BY <1>1, <2>1 DEF IndInv, WorkingInv, TypeOK, BlockState
  <2> QED BY <2>2 DEF FreshTxs
<1> QED BY <1>2, <1>3

LEMMA ImportBlockKeeps ==
    ASSUME IndInv, ImportBlock
    PROVE  IndInv'
<1>1. PICK b \in OtherBlocks \cup OwnBlocks : chain' = Append(chain, b) /\ todo' = b
  BY DEF ImportBlock
<1>2. /\ UNCHANGED queueVars /\ UNCHANGED blockVars /\ UNCHANGED envVars /\ UNCHANGED <<number, nc>>
      /\ pc = "idle" /\ pc' = "written" /\ ready' = ready /\ needReset' = needReset
  BY DEF ImportBlock
<1>3. b \in SUBSET Tx /\ \A t \in b : IsBlockLimitOk(number, t) /\ Key[t] \notin nc.cache
  BY <1>2, NextBlockFresh
<1> DEFINE n == Len(chain)
<1>4. /\ chain \in Seq(SUBSET Tx) /\ n \in Nat /\ DOMAIN chain = 1..n
      /\ ~Importing /\ number = n /\ Height = n
  BY <1>2, ChainFacts DEF Importing
<1>5. /\ chain' \in Seq(SUBSET Tx) /\ Len(chain') = n + 1 /\ DOMAIN chain' = 1..(n + 1)
      /\ chain'[n + 1] = b /\ \A j \in 1..n : chain'[j] = chain[j]
  BY <1>1, <1>3, <1>4
<1>6. Importing' /\ Height' = n
  BY <1>2, <1>4, <1>5 DEF Importing, Height
<1>7. \A lo, hi \in Nat : hi <= n => KeysIn(chain', lo, hi) = KeysIn(chain, lo, hi)
  BY <1>1, <1>3, <1>4, KeysInAppend
<1>8. StartBlk(n) \in Nat /\ nc' = nc
  BY <1>2, <1>4, StartBlkType
<1>9. WindowInv'
  <2>1. KeysIn(chain', StartBlk(n), n) = KeysIn(chain, StartBlk(n), n)
    BY <1>4, <1>7, <1>8
  <2> QED BY <1>4, <1>6, <1>8, <2>1 DEF IndInv, WindowInv
<1>10. ChainInv'
  <2> SUFFICES ASSUME NEW j \in 1..(n + 1) PROVE SoundAt(chain', j)
    BY <1>5 DEF ChainInv
  <2>1. j - 1 \in Nat /\ j - 1 <= n
    BY <1>4
  <2>2. KeysIn(chain', StartBlk(j - 1), j - 1) = KeysIn(chain, StartBlk(j - 1), j - 1)
    BY <1>7, <2>1, StartBlkType
  <2>3. CASE j \in 1..n
    <3>1. SoundAt(chain, j) /\ chain'[j] = chain[j]
      BY <1>4, <1>5, <2>3 DEF IndInv, ChainInv
    <3> QED BY <2>2, <3>1 DEF SoundAt
  <2>4. CASE j = n + 1
    <3>1. chain'[j] = b /\ j - 1 = n
      BY <1>4, <1>5, <2>4
    <3>2. GenerateKeys(b) \cap KeysIn(chain, StartBlk(n), n) = {}
      BY <1>3, <1>4 DEF GenerateKeys, IndInv, WindowInv
    <3> QED BY <1>3, <1>4, <2>2, <3>1, <3>2 DEF SoundAt
  <2> QED BY <1>4, <2>3, <2>4
<1>11. ThreadInv'
  <2>1. chain' # <<>>
    BY <1>4, <1>5
  <2> QED BY <1>1, <1>2, <1>4, <1>5, <2>1 DEF ThreadInv
<1>12. WorkingInv'
  BY <1>2, <1>6 DEF IndInv, WorkingInv, blockVars
<1>13. QueueGood(tq') /\ LeavesInv'
  <2>1. tq' = tq /\ Pending' = b /\ Pending = {}
    BY <1>1, <1>2, <1>4, <1>6 DEF Pending, queueVars
  <2>2. OnChain' \subseteq OnChain \cup b
    BY <1>4, <1>5 DEF OnChain
  <2> QED BY <2>1, <2>2 DEF IndInv, LeavesInv
<1>14. TypeOK'
  BY <1>1, <1>2, <1>3, <1>5 DEF IndInv, TypeOK, queueVars, blockVars, envVars, Thread
<1> QED BY <1>9, <1>10, <1>11, <1>12, <1>13, <1>14 DEF IndInv

\* delCache removes nothing: the new block shares no key with the window
LEMMA ImportDelCacheKeeps ==
    ASSUME IndInv, ImportDelCache
    PROVE  IndInv' /\ nc' = nc
<1>1. /\ UNCHANGED queueVars /\ UNCHANGED blockVars /\ UNCHANGED envVars /\ UNCHANGED <<chain, number, todo>>
      /\ pc = "written" /\ pc' = "deleted" /\ ready' = ready /\ needReset' = needReset
      /\ nc' = DelCache(nc, todo)
  BY DEF ImportDelCache
<1>2. Importing /\ Importing'
  BY <1>1 DEF Importing
<1>3. /\ Len(chain) \in DOMAIN chain /\ todo = chain[Len(chain)] /\ Height = Len(chain) - 1
      /\ Height' = Height
  BY <1>1, <1>2, ChainFacts DEF IndInv, ThreadInv, Height
<1>4. GenerateKeys(todo) \cap nc.cache = {}
  BY <1>3 DEF IndInv, ChainInv, WindowInv, SoundAt
<1>5. nc' = nc
  <2>1. nc.cache \ GenerateKeys(todo) = nc.cache
    BY <1>4
  <2> QED BY <1>1, <2>1 DEF DelCache, IndInv, TypeOK, NonceCache
<1>6. ThreadInv'
  BY <1>1, <1>2 DEF IndInv, ThreadInv
<1>7. WindowInv'
  BY <1>1, <1>3, <1>5 DEF IndInv, WindowInv
<1>8. ChainInv'
  BY <1>1 DEF IndInv, ChainInv
<1>9. WorkingInv'
  BY <1>1, <1>2 DEF IndInv, WorkingInv, blockVars
<1>10. QueueGood(tq') /\ LeavesInv'
  <2>1. tq' = tq /\ Pending' = Pending /\ OnChain' = OnChain
    BY <1>1, <1>2 DEF Pending, OnChain, queueVars
  <2> QED BY <2>1 DEF IndInv, LeavesInv
<1>11. TypeOK'
  BY <1>1, <1>5 DEF IndInv, TypeOK, queueVars, blockVars, envVars, Thread
<1> QED BY <1>5, <1>6, <1>7, <1>8, <1>9, <1>10, <1>11 DEF IndInv

LEMMA ImportBestKeeps ==
    ASSUME IndInv, ImportBest
    PROVE  IndInv'
<1>1. /\ UNCHANGED queueVars /\ UNCHANGED blockVars /\ UNCHANGED envVars /\ UNCHANGED <<chain, nc, todo>>
      /\ pc = "deleted" /\ pc' = "best" /\ ready' = ready /\ needReset' = needReset
      /\ number' = Len(chain)
  BY DEF ImportBest
<1>2. Importing /\ Importing' /\ Height' = Height
  BY <1>1 DEF Importing, Height
<1>3. /\ number = Len(chain) - 1 /\ Len(chain) \in Nat /\ number \in Nat
  BY <1>1, <1>2, ChainFacts DEF IndInv, ThreadInv
<1>4. ThreadInv'
  BY <1>1, <1>2 DEF IndInv, ThreadInv
<1>5. WindowInv'
  BY <1>1, <1>2 DEF IndInv, WindowInv
<1>6. ChainInv'
  BY <1>1 DEF IndInv, ChainInv
<1>7. WorkingInv'
  <2>1. pre \in Nat /\ working.base \in Nat /\ pre <= number /\ working.base <= number
    BY DEF IndInv, WorkingInv, TypeOK, BlockState
  <2> QED BY <1>1, <1>2, <1>3, <2>1 DEF WorkingInv, blockVars
<1>8. QueueGood(tq') /\ LeavesInv'
  <2>1. tq' = tq /\ Pending' = Pending /\ OnChain' = OnChain
    BY <1>1, <1>2 DEF Pending, OnChain, queueVars
  <2> QED BY <2>1 DEF IndInv, LeavesInv
<1>9. TypeOK'
  BY <1>1, <1>3 DEF IndInv, TypeOK, queueVars, blockVars, envVars, Thread
<1> QED BY <1>4, <1>5, <1>6, <1>7, <1>8, <1>9 DEF IndInv

LEMMA ImportUpdateCacheKeeps ==
    ASSUME IndInv, ImportUpdateCache
    PROVE  IndInv'
<1> DEFINE n == Len(chain)
<1>1. /\ UNCHANGED queueVars /\ UNCHANGED blockVars /\ UNCHANGED envVars /\ UNCHANGED <<chain, number, todo>>
      /\ pc = "best" /\ pc' = "dropGood" /\ ready' = ready /\ needReset' = needReset
      /\ nc' = UpdateCache(nc, chain, number, FALSE)
  BY DEF ImportUpdateCache
<1>2. Importing /\ ~Importing'
  BY <1>1 DEF Importing
<1>3. /\ number = n /\ n \in Nat /\ n > 0 /\ Height = n - 1 /\ Height' = n /\ chain \in Seq(SUBSET Tx)
  BY <1>1, <1>2, ChainFacts DEF IndInv, ThreadInv, Height
<1>4. nc' = [cache |-> KeysIn(chain, StartBlk(n), n), startblk |-> StartBlk(n), endblk |-> n]
  BY <1>1, <1>3, WindowMoves DEF IndInv, WindowInv, ChainInv
<1>5. ThreadInv'
  BY <1>1, <1>2, <1>3 DEF IndInv, ThreadInv
<1>6. WindowInv'
  <2>1. nc'.cache = KeysIn(chain, StartBlk(n), n) /\ nc'.startblk = StartBlk(n) /\ nc'.endblk = n
    BY <1>4
  <2>2. chain' = chain /\ Height' = n
    BY <1>1, <1>3
  <2> HIDE DEF n
  <2> QED BY <2>1, <2>2 DEF WindowInv
<1>7. ChainInv'
  BY <1>1 DEF IndInv, ChainInv
<1>8. WorkingInv'
  <2>1. pre' <= number' /\ working'.base < number' /\ working.base \in Nat
    BY <1>1 DEF IndInv, WorkingInv, TypeOK, BlockState, blockVars
  <2>2. working'.base <= number' /\ working'.base # number'
    BY <1>1, <1>3, <2>1 DEF blockVars
  <2> QED BY <1>1, <2>1, <2>2 DEF WorkingInv
<1>9. QueueGood(tq') /\ LeavesInv'
  <2>1. tq' = tq /\ Pending' = Pending /\ OnChain' = OnChain
    BY <1>1, <1>2 DEF Pending, OnChain, queueVars
  <2> QED BY <2>1 DEF IndInv, LeavesInv
<1>10. nc' \in NonceCache
  <2>1. KeysIn(chain, StartBlk(n), n) \in SUBSET Keys
    BY <1>3, KeysInType
  <2>2. StartBlk(n) \in Nat /\ n \in Nat
    BY <1>3, StartBlkType
  <2> HIDE DEF n
  <2> QED BY <1>4, <2>1, <2>2 DEF NonceCache
<1>11. TypeOK'
  BY <1>1, <1>10 DEF IndInv, TypeOK, queueVars, blockVars, envVars, Thread
<1> QED BY <1>5, <1>6, <1>7, <1>8, <1>9, <1>11 DEF IndInv

\* the working block is emptied, or changed in nothing but its seal
LEMMA WorkingChanges ==
    ASSUME IndInv, number' = number, nc' = nc, pre' <= number,
           pc' = pc \/ (~Importing /\ ~Importing'),
           \/ working'.base = working.base
           \/ ~Importing /\ working'.base <= number,
           \/ working'.txs = {}
           \/ working'.base = working.base /\ working'.txs = working.txs
    PROVE  WorkingInv'
<1>1. Importing' = Importing /\ (pc' = "best" => pc = "best") /\ (pc = "best" => Importing)
  BY DEF Importing
<1>2. \A txs : FreshTxs(txs)' <=> FreshTxs(txs)
  BY DEF FreshTxs
<1>3. FreshTxs({})
  BY DEF FreshTxs
<1>4. WorkingInv
  BY DEF IndInv
<1>5. working'.base <= number' /\ (pc' = "best" => working'.base < number')
  BY <1>1, <1>4 DEF WorkingInv
<1>6. ~Importing' /\ working'.base = number' => FreshTxs(working'.txs)
  BY <1>1, <1>3, <1>4 DEF WorkingInv
<1> QED BY <1>2, <1>5, <1>6 DEF WorkingInv

LEMMA ResetFacts ==
    ASSUME NEW b \in BlockState
    PROVE  /\ ResetCurrent(b) \in BlockState /\ ResetCurrent(b).base = b.base /\ ResetCurrent(b).txs = {}
           /\ ResetStale(b) \in BlockState /\ ResetStale(b).base = b.base
           /\ ResetStale(b).txs = {} \/ ResetStale(b) = b
<1>1. ResetCurrent(b) \in BlockState /\ ResetCurrent(b).base = b.base /\ ResetCurrent(b).txs = {}
  BY DEF ResetCurrent, BlockState
<1>2. ResetStale(b) = ResetCurrent(b) \/ ResetStale(b) = b
  BY DEF ResetStale
<1> QED BY <1>1, <1>2

LEMMA FreshFacts ==
    ASSUME NEW n \in Nat
    PROVE  Fresh(n) \in BlockState /\ Fresh(n).base = n /\ Fresh(n).txs = {}
BY DEF Fresh, BlockState

\* onChainChanged
LEMMA OnChainChangedKeeps ==
    ASSUME IndInv, NEW t \in Tx, OnChainChanged(t)
    PROVE  IndInv'
<1>1. /\ UNCHANGED chainVars /\ UNCHANGED blockVars /\ UNCHANGED envVars /\ unverified' = unverified
      /\ job' = job /\ pc = "dropGood" /\ pc' = pc /\ t \in todo /\ todo' = todo \ {t}
      /\ ready' = ready /\ needReset' = needReset /\ tq' = DropGood(tq, t)
  BY DEF OnChainChanged
<1>2. ~Importing /\ ~Importing'
  BY <1>1 DEF Importing
<1>3. ThreadInv' /\ WindowInv' /\ ChainInv' /\ OnChain' = OnChain
  BY <1>1, <1>2, ChainFrame
<1>4. WorkingInv'
  BY <1>1, WorkingFrame DEF chainVars, blockVars
<1>5. QueueGood(tq') /\ tq'.current = tq.current \ {t}
  BY <1>1, DropsGood DEF IndInv
<1>6. LeavesInv'
  <2>1. Pending = todo /\ Pending' = todo \ {t}
    BY <1>1 DEF Pending
  <2> QED BY <1>3, <1>5, <2>1 DEF IndInv, LeavesInv
<1>7. TypeOK'
  BY <1>1, <1>5 DEF IndInv, TypeOK, chainVars, blockVars, envVars, QueueGood
<1> QED BY <1>3, <1>4, <1>5, <1>6, <1>7 DEF IndInv

\* resyncStateFromChain: nothing of the block is left to drop
LEMMA ResyncKeeps ==
    ASSUME IndInv, ResyncStateFromChain
    PROVE  IndInv'
<1>1. /\ UNCHANGED chainVars /\ UNCHANGED queueVars /\ UNCHANGED envVars /\ post' = post
      /\ pc = "dropGood" /\ todo = {} /\ ready' = ready /\ needReset' = needReset
  BY DEF ResyncStateFromChain
<1>2. pc' \in {"reset", "resubmit"} /\ ~Importing /\ ~Importing' /\ pc' # "dropGood"
  BY <1>1 DEF ResyncStateFromChain, Importing
<1>3. ThreadInv' /\ WindowInv' /\ ChainInv' /\ OnChain' = OnChain
  BY <1>1, <1>2, ChainFrame
<1>4. number \in Nat /\ working \in BlockState /\ post \in BlockState /\ pre \in Nat
  BY DEF IndInv, TypeOK
<1>5. /\ pre' \in Nat /\ pre' <= number /\ working' \in BlockState /\ todo' \in SUBSET Tx
      /\ working'.base <= number
      /\ \/ working'.txs = {}
         \/ working'.base = working.base /\ working'.txs = working.txs
  <2>1. CASE major
    <3>1. pre' = pre /\ todo' = todo /\ working' = ResetStale(working)
      BY <2>1 DEF ResyncStateFromChain
    <3>2. pre <= number /\ working.base <= number
      BY DEF IndInv, WorkingInv
    <3>3. working' \in BlockState /\ working'.base = working.base /\ (working'.txs = {} \/ working' = working)
      BY <1>4, <3>1, ResetFacts
    <3> QED BY <1>1, <1>4, <3>1, <3>2, <3>3
  <2>2. CASE ~major
    <3>1. pre' = number /\ working' = Fresh(number) /\ todo' = (IF IsLast(post) THEN {} ELSE post.txs)
      BY <2>2 DEF ResyncStateFromChain
    <3>2. post.txs \in SUBSET Tx
      BY <1>4 DEF BlockState
    <3> QED BY <1>4, <3>1, <3>2, FreshFacts
  <2> QED BY <2>1, <2>2
<1>6. WorkingInv'
  BY <1>1, <1>2, <1>5, WorkingChanges DEF chainVars
<1>7. QueueGood(tq') /\ LeavesInv'
  <2>1. Pending = {} /\ tq' = tq
    BY <1>1 DEF Pending, queueVars
  <2> QED BY <1>3, <2>1 DEF IndInv, LeavesInv
<1>8. TypeOK'
  BY <1>1, <1>2, <1>5 DEF IndInv, TypeOK, chainVars, queueVars, envVars, Thread
<1> QED BY <1>3, <1>6, <1>7, <1>8 DEF IndInv

LEMMA ResubmitKeeps ==
    ASSUME IndInv, NEW t \in Tx, ResubmitPostSeal(t)
    PROVE  IndInv'
<1>1. /\ UNCHANGED chainVars /\ UNCHANGED blockVars /\ UNCHANGED envVars /\ unverified' = unverified
      /\ job' = job /\ pc = "resubmit" /\ pc' = pc /\ todo' = todo \ {t}
      /\ ImportTransaction(t, TRUE)
  BY DEF ResubmitPostSeal
<1>2. ~Importing /\ ~Importing' /\ pc # "dropGood"
  BY <1>1 DEF Importing
<1>3. QueueGood(tq') /\ LeavesInv' /\ ready' \in BOOLEAN /\ needReset' \in BOOLEAN
  BY <1>1, <1>2, ImportTransactionKeeps
<1>4. ThreadInv' /\ WindowInv' /\ ChainInv'
  BY <1>1, <1>2, ChainFrame
<1>5. WorkingInv'
  BY <1>1, WorkingFrame DEF chainVars, blockVars
<1>6. TypeOK'
  BY <1>1, <1>3 DEF IndInv, TypeOK, chainVars, blockVars, envVars, QueueGood
<1> QED BY <1>3, <1>4, <1>5, <1>6 DEF IndInv

\* a step of the client thread after an import: the queue only loses transactions
Outside == {"idle", "resubmit", "reset", "clearing", "rejig", "fill", "seal"}
LEMMA OutsideKeeps ==
    ASSUME IndInv, UNCHANGED chainVars, UNCHANGED envVars, UNCHANGED <<unverified, job, pre>>,
           pc \in Outside, pc' \in Outside, QueueGood(tq'), tq'.current \subseteq tq.current,
           working' \in BlockState, post' \in BlockState, todo' \in SUBSET Tx,
           ready' \in BOOLEAN, needReset' \in BOOLEAN, WorkingInv'
    PROVE  IndInv'
<1>1. ~Importing /\ ~Importing' /\ pc # "dropGood"
  BY DEF Importing, Outside
<1>2. ThreadInv' /\ WindowInv' /\ ChainInv' /\ OnChain' = OnChain
  BY <1>1, ChainFrame
<1>3. LeavesInv'
  <2>1. Pending = {}
    BY <1>1 DEF Pending
  <2> QED BY <1>2, <2>1 DEF IndInv, LeavesInv
<1>4. TypeOK'
  BY DEF IndInv, TypeOK, chainVars, envVars, Thread, Outside, QueueGood
<1> QED BY <1>2, <1>3, <1>4 DEF IndInv

LEMMA EndResyncKeeps ==
    ASSUME IndInv, EndResync
    PROVE  IndInv'
<1>1. /\ UNCHANGED chainVars /\ UNCHANGED envVars /\ UNCHANGED queueVars /\ pre' = pre
      /\ pc = "resubmit" /\ pc' = "reset" /\ todo' = todo /\ ready' = TRUE /\ needReset' = needReset
      /\ post' = working /\ working' = ResetStale(working)
  BY DEF EndResync
<1>2. working \in BlockState /\ todo \in SUBSET Tx /\ needReset \in BOOLEAN
  BY DEF IndInv, TypeOK
<1>3. working' \in BlockState /\ working'.base = working.base /\ (working'.txs = {} \/ working' = working)
  BY <1>1, <1>2, ResetFacts
<1>4. WorkingInv'
  BY <1>1, <1>3, WorkingChanges DEF Importing, IndInv, WorkingInv, chainVars
<1> QED BY <1>1, <1>2, <1>3, <1>4, OutsideKeeps DEF IndInv, Outside, queueVars

LEMMA ResetStateKeeps ==
    ASSUME IndInv, ResetState
    PROVE  IndInv'
<1>1. /\ UNCHANGED chainVars /\ UNCHANGED envVars /\ UNCHANGED queueVars /\ pre' = pre
      /\ pc \in {"idle", "reset"} /\ todo' = todo /\ needReset' = needReset
  BY DEF ResetState
<1>2. /\ working \in BlockState /\ post \in BlockState /\ todo \in SUBSET Tx /\ pre \in Nat
      /\ needReset \in BOOLEAN /\ ready \in BOOLEAN
  BY DEF IndInv, TypeOK
<1>3. pc' \in {"clearing", "rejig"} /\ ready' \in BOOLEAN
      /\ \/ working' = Fresh(pre) /\ post' = Fresh(pre)
         \/ working' = working /\ post' = post
  BY <1>2 DEF ResetState
<1>4. /\ working' \in BlockState /\ post' \in BlockState
      /\ \/ working'.base = pre /\ working'.txs = {}
         \/ working' = working
  BY <1>2, <1>3, FreshFacts
<1>5. ~Importing /\ ~Importing' /\ pre <= number /\ working.base <= number
  BY <1>1, <1>3 DEF Importing, IndInv, WorkingInv
<1>6. WorkingInv'
  BY <1>1, <1>4, <1>5, WorkingChanges DEF chainVars
<1> QED BY <1>1, <1>2, <1>3, <1>4, <1>6, OutsideKeeps DEF IndInv, Outside, queueVars

LEMMA SealKeeps ==
    ASSUME IndInv, Seal
    PROVE  IndInv'
<1>1. /\ UNCHANGED chainVars /\ UNCHANGED envVars /\ UNCHANGED queueVars /\ pre' = pre
      /\ pc = "seal" /\ pc' = "idle" /\ todo' = todo /\ ready' = ready /\ needReset' = needReset
      /\ working' = [working EXCEPT !.sealed = TRUE] /\ post' = working'
  BY DEF Seal
<1>2. working \in BlockState /\ todo \in SUBSET Tx /\ needReset \in BOOLEAN /\ ready \in BOOLEAN
  BY DEF IndInv, TypeOK
<1>3. working' \in BlockState /\ working'.base = working.base /\ working'.txs = working.txs
  BY <1>1, <1>2 DEF BlockState
<1>4. WorkingInv'
  BY <1>1, <1>3, WorkingChanges DEF Importing, IndInv, WorkingInv, chainVars
<1> QED BY <1>1, <1>2, <1>3, <1>4, OutsideKeeps DEF IndInv, Outside, queueVars

LEMMA SealFailsKeeps ==
    ASSUME IndInv, SealFails
    PROVE  IndInv'
<1>1. /\ UNCHANGED chainVars /\ UNCHANGED envVars /\ UNCHANGED <<unverified, job>> /\ pre' = pre
      /\ pc = "seal" /\ pc' = "idle" /\ todo' = todo /\ ready' = ready /\ needReset' = needReset
      /\ working' = ResetCurrent(working) /\ post' = post
      /\ tq' \in {tq} \cup {Drop(tq, t) : t \in working.txs}
  BY DEF SealFails
<1>2. /\ working \in BlockState /\ post \in BlockState /\ todo \in SUBSET Tx
      /\ needReset \in BOOLEAN /\ ready \in BOOLEAN
  BY DEF IndInv, TypeOK
<1>3. working' \in BlockState /\ working'.base = working.base /\ working'.txs = {}
  BY <1>1, <1>2, ResetFacts
<1>4. WorkingInv'
  BY <1>1, <1>3, WorkingChanges DEF Importing, IndInv, WorkingInv, chainVars
<1>5. QueueGood(tq') /\ tq'.current \subseteq tq.current
  <2>1. CASE tq' = tq
    BY <2>1 DEF IndInv
  <2>2. ASSUME NEW t \in working.txs, tq' = Drop(tq, t)
        PROVE  QueueGood(tq') /\ tq'.current \subseteq tq.current
    <3>1. t \in Tx
      BY <1>2 DEF BlockState
    <3> QED BY <2>2, <3>1, DropsGood DEF IndInv
  <2> QED BY <1>1, <2>1, <2>2
<1> QED BY <1>1, <1>2, <1>3, <1>4, <1>5, OutsideKeeps DEF Outside

\* Block::sync puts a transaction in that fits what is there, or drops it
LEMMA FillKeeps ==
    ASSUME IndInv, NEW t \in Tx, Fill(t)
    PROVE  IndInv'
<1>1. /\ UNCHANGED chainVars /\ UNCHANGED envVars /\ UNCHANGED <<unverified, job>> /\ pre' = pre
      /\ pc = "fill" /\ pc' = pc /\ todo' = todo \ {t} /\ ready' = ready /\ needReset' = needReset
      /\ post' = post
  BY DEF Fill
<1>2. /\ working \in BlockState /\ post \in BlockState /\ todo \in SUBSET Tx
      /\ needReset \in BOOLEAN /\ ready \in BOOLEAN
  BY DEF IndInv, TypeOK
<1>3. CASE Packable(t, nc, number, working.txs)
  <2>1. working' = [working EXCEPT !.txs = @ \cup {t}] /\ tq' = tq
    BY <1>3 DEF Fill
  <2>2. working' \in BlockState /\ working'.base = working.base /\ working'.txs = working.txs \cup {t}
    BY <1>2, <2>1 DEF BlockState
  <2>3. FreshTxs(working.txs) => FreshTxs(working.txs \cup {t})
    BY <1>3 DEF FreshTxs, Packable, IsNonceOk, Ok, GenerateKeys
  <2>4. WorkingInv'
    <3>1. ~Importing /\ ~Importing' /\ pc # "best" /\ pc' # "best"
      BY <1>1 DEF Importing
    <3>2. \A txs : FreshTxs(txs)' <=> FreshTxs(txs)
      BY <1>1 DEF FreshTxs, chainVars
    <3> QED BY <1>1, <2>2, <2>3, <3>1, <3>2 DEF IndInv, WorkingInv, chainVars
  <2> QED BY <1>1, <1>2, <2>1, <2>2, <2>4, OutsideKeeps DEF IndInv, Outside
<1>4. CASE ~Packable(t, nc, number, working.txs)
  <2>1. tq' = Drop(tq, t) /\ working' = working
    BY <1>4 DEF Fill
  <2>2. QueueGood(tq') /\ tq'.current \subseteq tq.current
    BY <2>1, DropsGood DEF IndInv
  <2>3. WorkingInv'
    BY <1>1, <2>1, WorkingFrame DEF chainVars
  <2> QED BY <1>1, <1>2, <2>1, <2>2, <2>3, OutsideKeeps DEF Outside
<1> QED BY <1>3, <1>4

\* the steps that move flags and the program counter
LEMMA FlagsKeep ==
    ASSUME IndInv, ClearNeedReset \/ NotSealing \/ SyncTransactionQueue \/ EndFill \/ Wait
    PROVE  IndInv'
<1>1. /\ working \in BlockState /\ post \in BlockState /\ todo \in SUBSET Tx
      /\ needReset \in BOOLEAN /\ ready \in BOOLEAN /\ tq.current \in SUBSET Tx
  BY DEF IndInv, TypeOK, Queue
<1>2. /\ UNCHANGED chainVars /\ UNCHANGED envVars /\ UNCHANGED queueVars /\ UNCHANGED blockVars
      /\ pc \in Outside /\ pc' \in Outside
      /\ todo' \in SUBSET Tx /\ ready' \in BOOLEAN /\ needReset' \in BOOLEAN
  <2>1. CASE ClearNeedReset
    BY <1>1, <2>1 DEF ClearNeedReset, Outside
  <2>2. CASE NotSealing
    BY <1>1, <2>2 DEF NotSealing, Outside
  <2>3. CASE SyncTransactionQueue
    BY <1>1, <2>3 DEF SyncTransactionQueue, Outside
  <2>4. CASE EndFill
    BY <1>1, <2>4 DEF EndFill, Outside, Full
  <2>5. CASE Wait
    BY <1>1, <2>5 DEF Wait, Outside
  <2> QED BY <2>1, <2>2, <2>3, <2>4, <2>5
<1>3. WorkingInv'
  BY <1>2, WorkingFrame DEF chainVars, blockVars, Outside, Importing
<1> QED BY <1>1, <1>2, <1>3, OutsideKeeps DEF IndInv, queueVars, blockVars

LEMMA OnViewChangeKeeps ==
    ASSUME IndInv, OnViewChange
    PROVE  IndInv'
<1>1. /\ UNCHANGED chainVars /\ UNCHANGED queueVars /\ pre' = pre /\ post' = post
      /\ pc' = pc /\ todo' = todo /\ ready' = ready /\ needReset' = needReset
      /\ working' = ResetCurrent(working) /\ views' = views + 1 /\ major' = major /\ syncs' = syncs
  BY DEF OnViewChange
<1>2. working' \in BlockState /\ working'.base = working.base /\ working'.txs = {}
  BY <1>1, ResetFacts DEF IndInv, TypeOK
<1>3. ThreadInv' /\ WindowInv' /\ ChainInv'
  BY <1>1, ChainFrame
<1>4. WorkingInv'
  BY <1>1, <1>2, WorkingChanges DEF chainVars, IndInv, WorkingInv
<1>5. QueueGood(tq') /\ LeavesInv'
  BY <1>1, QueueFrame DEF queueVars, chainVars
<1>6. TypeOK'
  BY <1>1, <1>2 DEF IndInv, TypeOK, chainVars, queueVars
<1> QED BY <1>3, <1>4, <1>5, <1>6 DEF IndInv

LEMMA MajorSyncKeeps ==
    ASSUME IndInv, MajorSync
    PROVE  IndInv'
<1>1. /\ UNCHANGED chainVars /\ UNCHANGED queueVars /\ UNCHANGED blockVars
      /\ pc' = pc /\ todo' = todo /\ ready' = ready /\ needReset' = needReset
      /\ major' = ~major /\ views' = views /\ syncs' \in {syncs, syncs + 1}
  BY DEF MajorSync
<1>2. ThreadInv' /\ WindowInv' /\ ChainInv'
  BY <1>1, ChainFrame
<1>3. WorkingInv'
  BY <1>1, WorkingFrame DEF chainVars, blockVars
<1>4. QueueGood(tq') /\ LeavesInv'
  BY <1>1, QueueFrame DEF queueVars, chainVars
<1>5. TypeOK'
  BY <1>1 DEF IndInv, TypeOK, chainVars, queueVars, blockVars
<1> QED BY <1>2, <1>3, <1>4, <1>5 DEF IndInv

LEMMA InitKeeps == Init => IndInv
<1> SUFFICES ASSUME Init PROVE IndInv
  OBVIOUS
<1>1. /\ tq = EmptyQueue /\ unverified = <<>> /\ job = [v \in Verifier |-> NoTx]
      /\ chain = <<>> /\ number = 0 /\ nc = Rebuilt(<<>>)
      /\ pre = 0 /\ working = Fresh(0) /\ post = Fresh(0)
      /\ ready = FALSE /\ needReset = FALSE /\ major = FALSE
      /\ pc = "idle" /\ todo = {} /\ views = 0 /\ syncs = 0
  BY DEF Init
<1>2. <<>> \in Seq(SUBSET Tx) /\ Len(<<>>) = 0 /\ DOMAIN chain = {} /\ <<>> \in Seq(Tx)
  BY <1>1
<1>3. ~Importing /\ Height = 0
  BY <1>1, <1>2 DEF Importing, Height
<1>4. nc = [cache |-> KeysIn(chain, StartBlk(0), 0), startblk |-> StartBlk(0), endblk |-> 0]
  BY <1>1, <1>2, RebuiltExact
<1>5. StartBlk(0) \in Nat /\ KeysIn(chain, StartBlk(0), 0) \in SUBSET Keys
  BY <1>1, <1>2, StartBlkType, KeysInType
<1>6. nc \in NonceCache
  BY <1>4, <1>5 DEF NonceCache
<1>7. working \in BlockState /\ post \in BlockState /\ working.base = 0 /\ working.txs = {}
  BY <1>1, FreshFacts
<1>8. QueueGood(tq)
  <2>1. /\ tq.known = {} /\ tq.dropped = {} /\ tq.current = {} /\ tq.byNonce = [k \in Keys |-> NoTx]
        /\ tq = [known |-> tq.known, dropped |-> tq.dropped, current |-> tq.current, byNonce |-> tq.byNonce]
    BY <1>1 DEF EmptyQueue
  <2>2. tq \in Queue
    BY <2>1 DEF Queue
  <2>3. Limit \in Nat /\ Cardinality(tq.current) = 0 /\ IsFiniteSet(tq.current)
    BY <2>1, FS_EmptySet, QueueAssumption
  <2> QED BY <2>1, <2>2, <2>3 DEF QueueGood
<1>9. TypeOK
  BY <1>1, <1>2, <1>6, <1>7, <1>8 DEF TypeOK, QueueGood, Thread
<1>10. ThreadInv
  BY <1>1, <1>2, <1>3 DEF ThreadInv
<1>11. WindowInv
  BY <1>3, <1>4 DEF WindowInv
<1>12. ChainInv
  BY <1>2 DEF ChainInv
<1>13. WorkingInv
  BY <1>1, <1>7 DEF WorkingInv, FreshTxs
<1>14. LeavesInv
  BY <1>2 DEF LeavesInv, OnChain
<1> QED BY <1>8, <1>9, <1>10, <1>11, <1>12, <1>13, <1>14 DEF IndInv

LEMMA StutterKeeps ==
    ASSUME IndInv, UNCHANGED vars
    PROVE  IndInv'
<1>1. /\ UNCHANGED chainVars /\ UNCHANGED queueVars /\ UNCHANGED blockVars /\ UNCHANGED envVars
      /\ pc' = pc /\ todo' = todo /\ ready' = ready /\ needReset' = needReset
  BY DEF vars
<1>2. ThreadInv' /\ WindowInv' /\ ChainInv'
  BY <1>1, ChainFrame
<1>3. WorkingInv'
  BY <1>1, WorkingFrame DEF chainVars, blockVars
<1>4. QueueGood(tq') /\ LeavesInv'
  BY <1>1, QueueFrame DEF queueVars, chainVars
<1>5. TypeOK'
  BY <1>1 DEF IndInv, TypeOK, chainVars, queueVars, blockVars, envVars
<1> QED BY <1>2, <1>3, <1>4, <1>5 DEF IndInv

\* The invariant behind the theorems below: the client thread, the chain, the
\* nonce check, the working block and the queue fit together after every step.
THEOREM ClientInvariance == Spec => []IndInv
<1>1. Init => IndInv
  BY InitKeeps
<1>2. IndInv /\ [Next]_vars => IndInv'
  <2> SUFFICES ASSUME IndInv, [Next]_vars PROVE IndInv'
    OBVIOUS
  <2>1. ASSUME NEW t \in Tx, SubmitTransaction(t) \/ Enqueue(t) PROVE IndInv'
    BY <2>1, SubmitKeeps, EnqueueKeeps
  <2>2. ASSUME NEW v \in Verifier, VerifierTake(v) \/ VerifierImport(v) PROVE IndInv'
    BY <2>2, VerifierTakeKeeps, VerifierImportKeeps
  <2>3. CASE ImportBlock \/ ImportDelCache \/ ImportBest \/ ImportUpdateCache
    BY <2>3, ImportBlockKeeps, ImportDelCacheKeeps, ImportBestKeeps, ImportUpdateCacheKeeps
  <2>4. ASSUME NEW t \in Tx, OnChainChanged(t) \/ ResubmitPostSeal(t) \/ Fill(t) PROVE IndInv'
    BY <2>4, OnChainChangedKeeps, ResubmitKeeps, FillKeeps
  <2>5. CASE ResyncStateFromChain \/ EndResync \/ ResetState \/ Seal \/ SealFails
    BY <2>5, ResyncKeeps, EndResyncKeeps, ResetStateKeeps, SealKeeps, SealFailsKeeps
  <2>6. CASE ClearNeedReset \/ NotSealing \/ SyncTransactionQueue \/ EndFill \/ Wait
    BY <2>6, FlagsKeep
  <2>7. CASE OnViewChange \/ MajorSync
    BY <2>7, OnViewChangeKeeps, MajorSyncKeeps
  <2>8. CASE UNCHANGED vars
    BY <2>8, StutterKeeps
  <2> QED BY <2>1, <2>2, <2>3, <2>4, <2>5, <2>6, <2>7, <2>8 DEF Next, ClientThread
<1> QED BY <1>1, <1>2, PTL DEF Spec

-----------------------------------------------------------------------------
\* Every variable of the client, its queue and its nonce check keeps its type.
THEOREM ClientTypes == Spec => []TypeOK
<1>1. IndInv => TypeOK
  BY DEF IndInv
<1> QED BY <1>1, ClientInvariance, PTL

\* The nonce check refuses exactly the keys of the last blocks whenever no block
\* is being imported (NonceCheck::updateCache, BlockChain::import).
THEOREM WindowStaysExact == Spec => []WindowExact
<1>1. ASSUME IndInv PROVE WindowExact
  <2>1. ~Importing => Height = number
    BY <1>1, ChainFacts DEF IndInv, ThreadInv
  <2> QED BY <1>1, <2>1 DEF IndInv, WindowInv, WindowExact
<1> QED BY <1>1, ClientInvariance, PTL

\* The indexes of the transaction queue agree and keep to the limit.
THEOREM QueueStaysIndexed == Spec => []QueueIndexed
<1>1. IndInv => QueueIndexed
  BY DEF IndInv, QueueGood, QueueIndexed
<1> QED BY <1>1, ClientInvariance, PTL

\* The block this node seals on the last block repeats no key of the window and
\* none of its own (Block::sync, PBFTClient::rejigSealing).
THEOREM SealedStaysFresh == Spec => []SealedIsFresh
<1>1. IndInv => SealedIsFresh
  BY DEF IndInv, WorkingInv, FreshTxs, SealedIsFresh, GenerateKeys
<1> QED BY <1>1, ClientInvariance, PTL

\* With limits that fit, a transaction of the chain that was dropped from the
\* queue does not come back.
THEOREM CommittedStaysOut == ASSUME LimitsFit PROVE Spec => []CommittedLeavesQueue
<1>1. IndInv => CommittedLeavesQueue
  BY DEF IndInv, LeavesInv, Pending, CommittedLeavesQueue
<1> QED BY <1>1, ClientInvariance, PTL

\* With limits that fit, no transaction is on the chain twice.
THEOREM NoTransactionReplayed == ASSUME LimitsFit PROVE Spec => []NoReplay
<1>1. ASSUME IndInv PROVE NoReplay
  <2>1. ASSUME NEW i \in DOMAIN chain, NEW j \in DOMAIN chain, i < j, NEW t \in chain[i], t \in chain[j]
        PROVE  FALSE
    <3>1. t \in Tx /\ i \in Nat /\ j - 1 \in Nat /\ i <= j - 1 /\ j - 1 <= Len(chain)
      BY <1>1, <2>1, ChainFacts
    <3>2. SoundAt(chain, j)
      BY <1>1, <2>1, ChainFacts DEF IndInv, ChainInv
    <3>3. Key[t] \notin KeysIn(chain, StartBlk(j - 1), j - 1) /\ IsBlockLimitOk(j - 1, t)
      BY <2>1, <3>2 DEF SoundAt, GenerateKeys
    <3>4. t \notin chain[i]
      BY <1>1, <2>1, <3>1, <3>3, ChainFacts, RefusedForGood DEF IndInv, ChainInv
    <3> QED BY <2>1, <3>4
  <2>2. \A i, j \in DOMAIN chain : i # j => i < j \/ j < i
    BY <1>1, ChainFacts
  <2> QED BY <2>1, <2>2 DEF NoReplay
<1> QED BY <1>1, ClientInvariance, PTL
=============================================================================

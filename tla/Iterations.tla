----------------------------- MODULE Iterations -----------------------------
(***************************************************************************)
(* Induction on numbers, and functions defined by it: what the proofs need *)
(* about the loops of the code, which the models write as recursive        *)
(* functions on 0..n.                                                      *)
(***************************************************************************)
EXTENDS Integers, TLAPS, WellFoundedInduction

\* A non-empty set of numbers has a least element.
LEMMA LeastElement ==
    ASSUME NEW S \in SUBSET Nat, S # {}
    PROVE  \E v \in S : \A w \in S : v <= w
<1> DEFINE R == {p \in Nat \X Nat : p[1] < p[2]}
<1>1. R = OpToRel(<, Nat)
  BY Zenon DEF OpToRel
<1>2. IsWellFoundedOn(R, Nat)
  BY <1>1, NatLessThanWellFounded, Zenon
<1>3. \E v \in S : \A w \in S : ~(<<w, v>> \in R)
  BY <1>2, WFMin
<1>4. \A v, w \in S : ~(<<w, v>> \in R) => v <= w
  OBVIOUS
<1> QED BY <1>3, <1>4

\* What holds of 0 and of k when it holds of k - 1 holds up to n.
LEMMA UpTo ==
    ASSUME NEW n \in Nat, NEW S, 0 \in S, \A k \in 1..n : k - 1 \in S => k \in S
    PROVE  \A k \in 0..n : k \in S
<1> DEFINE Out == {k \in 0..n : k \notin S}
<1> SUFFICES ASSUME Out # {} PROVE FALSE
  OBVIOUS
<1>1. PICK k \in Out : \A w \in Out : k <= w
  <2>1. Out \in SUBSET Nat
    OBVIOUS
  <2> HIDE DEF Out
  <2> QED BY <2>1, LeastElement
<1>2. k \in 1..n /\ k - 1 \in 0..n
  BY <1>1
<1>3. k - 1 \in S
  BY <1>1, <1>2
<1> QED BY <1>1, <1>2, <1>3

\* A function may be defined by its first value and a step.
LEMMA Iteration ==
    ASSUME NEW T, NEW a \in T, NEW n \in Nat, NEW F \in [1..n -> [T -> T]]
    PROVE  \E g \in [0..n -> T] : g[0] = a /\ \A k \in 1..n : g[k] = F[k][g[k - 1]]
<1> DEFINE Good(m, g) == g \in [0..m -> T] /\ g[0] = a /\ \A k \in 1..m : g[k] = F[k][g[k - 1]]
           S == {m \in 0..n : \E g : Good(m, g)}
<1>1. 0 \in S
  <2>1. Good(0, [k \in 0..0 |-> a])
    OBVIOUS
  <2> HIDE DEF Good
  <2> QED BY <2>1
<1>2. ASSUME NEW k \in 1..n, k - 1 \in S PROVE k \in S
  <2>1. PICK g : Good(k - 1, g)
    BY <1>2
  <2>2. g[k - 1] \in T /\ F[k][g[k - 1]] \in T
    BY <2>1
  <2> DEFINE h == [j \in 0..k |-> IF j = k THEN F[k][g[k - 1]] ELSE g[j]]
  <2>3. h \in [0..k -> T]
    BY <2>1, <2>2
  <2>4. h[0] = a
    BY <2>1
  <2>5. ASSUME NEW j \in 1..k PROVE h[j] = F[j][h[j - 1]]
    <3>1. CASE j = k
      BY <3>1
    <3>2. CASE j # k
      <4>1. j \in 1..(k - 1) /\ h[j] = g[j] /\ h[j - 1] = g[j - 1]
        BY <3>2
      <4> QED BY <4>1, <2>1
    <3> QED BY <3>1, <3>2
  <2>6. Good(k, h)
    BY <2>3, <2>4, <2>5
  <2> HIDE DEF Good
  <2> QED BY <2>6
<1>3. n \in S
  <2> HIDE DEF S
  <2>1. \A k \in 0..n : k \in S
    BY <1>1, <1>2, UpTo
  <2> QED BY <2>1
<1> QED BY <1>3

\* What holds first and is kept by every step of a bounded iteration holds all
\* along.
LEMMA StaysIn ==
    ASSUME NEW T, NEW n \in Nat, NEW g, g[0] \in T, \A k \in 1..n : g[k - 1] \in T => g[k] \in T
    PROVE  \A k \in 0..n : g[k] \in T
<1> DEFINE S == {k \in 0..n : g[k] \in T}
<1>1. 0 \in S
  OBVIOUS
<1>2. \A k \in 1..n : k - 1 \in S => k \in S
  OBVIOUS
<1>3. \A k \in 0..n : k \in S
  <2> HIDE DEF S
  <2> QED BY <1>1, <1>2, UpTo
<1> QED BY <1>3
=============================================================================

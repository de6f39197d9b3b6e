---------------------------- MODULE SharedLemmas ----------------------------
(***************************************************************************)
(* Facts that the proofs of several components rest on: remainders, which  *)
(* the clocks of the bench and of the measurement tool show; induction     *)
(* over the naturals; what a fold over a sequence computes; and sums as    *)
(* cardinalities.                                                          *)
(***************************************************************************)
EXTENDS Integers, FiniteSetsExt, NaturalsInduction, WellFoundedInduction,
        FiniteSetTheorems, TLAPS

-----------------------------------------------------------------------------
(* Remainders.                                                             *)

\* Euclidean division, as the provers need it.
LEMMA RemainderOf ==
  ASSUME NEW a \in Int, NEW b \in Nat \ {0}
  PROVE  /\ a % b \in 0 .. b - 1
         /\ a = b * (a \div b) + (a % b)
         /\ a \div b \in Int
  OBVIOUS

\* A number has one remainder.
LEMMA RemainderUnique ==
  ASSUME NEW b \in Nat \ {0}, NEW q \in Int, NEW r \in 0 .. b - 1
  PROVE  (b * q + r) % b = r
PROOF
  <1> DEFINE a == b * q + r
             p == a \div b
             k == a % b
  <1>1. a \in Int
    OBVIOUS
  <1>2. k \in 0 .. b - 1 /\ a = b * p + k /\ p \in Int
    BY <1>1, RemainderOf
  <1>3. a = b * q + r
    OBVIOUS
  <1> HIDE DEF a, p, k
  <1>4. b * (p - q) = r - k
    BY <1>1, <1>2, <1>3
  <1>5. p - q = 0
    <2>1. CASE p - q >= 1
      <3>1. b * (p - q) >= b
        BY <2>1, <1>2
      <3> QED BY <3>1, <1>2, <1>4
    <2>2. CASE p - q <= -1
      <3>1. b * (p - q) <= -b
        BY <2>2, <1>2
      <3> QED BY <3>1, <1>2, <1>4
    <2> QED BY <2>1, <2>2, <1>2
  <1>6. k = r
    BY <1>2, <1>3, <1>5
  <1> QED BY <1>6 DEF k, a

\* Two instants less than a turn of the clock apart: the difference of the
\* readings, modulo the turn, is the time that passed.
THEOREM DifferenceOfRemainders ==
  ASSUME NEW m \in Nat \ {0}, NEW s \in Nat, NEW d \in 0 .. m - 1
  PROVE  (((s + d) % m) - (s % m)) % m = d
PROOF
  <1> DEFINE p == s \div m
             q == (s + d) \div m
             a == s % m
             e == (s + d) % m
  <1>1. /\ a \in 0 .. m - 1 /\ p \in Int
        /\ s = m * p + a
    BY RemainderOf
  <1>2. /\ e \in 0 .. m - 1 /\ q \in Int
        /\ s + d = m * q + e
    <2>1. s + d \in Int
      OBVIOUS
    <2> QED BY <2>1, RemainderOf
  <1> HIDE DEF p, q, a, e
  <1>3. e - a = m * (p - q) + d
    BY <1>1, <1>2
  <1>4. (m * (p - q) + d) % m = d
    BY <1>1, <1>2, RemainderUnique
  <1>5. (e - a) % m = d
    BY <1>3, <1>4
  <1> QED BY <1>5 DEF a, e

-----------------------------------------------------------------------------
(* Induction, and folds over a sequence: FoldLeft recurs over the sets of  *)
(* positions, and what it computes is a list of intermediate results, from *)
(* the first position to the last.                                         *)

LEMMA Induction ==
  ASSUME NEW S, 0 \in S, \A n \in Nat : n \in S => n + 1 \in S
  PROVE  Nat \subseteq S
PROOF
  <1> DEFINE R == {ss \in Nat \X Nat : ss[1] < ss[2]}
             T == Nat \ S
  <1>1. R = OpToRel(<, Nat)
    BY DEF OpToRel
  <1>2. IsWellFoundedOn(R, Nat)
    BY <1>1, NatLessThanWellFounded
  <1> SUFFICES ASSUME T # {} PROVE FALSE
    OBVIOUS
  <1>3. PICK x \in T : \A y \in T : ~(<<y, x>> \in R)
    <2> HIDE DEF R, T
    <2> T \subseteq Nat
      BY DEF T
    <2> QED BY <1>2, WFMin
  <1>4. x \in Nat /\ x # 0
    OBVIOUS
  <1>5. x - 1 \in Nat /\ x - 1 \in S
    <2>1. x - 1 \in Nat /\ x - 1 < x
      BY <1>4
    <2>2. <<x - 1, x>> \in R
      BY <1>4, <2>1
    <2> HIDE DEF R
    <2> QED BY <1>3, <2>1, <2>2
  <1>6. (x - 1) + 1 \in S /\ (x - 1) + 1 = x
    BY <1>4, <1>5
  <1>7. x \notin S
    OBVIOUS
  <1> QED BY <1>6, <1>7

LEMMA MaxExists ==
  ASSUME NEW n \in Nat, NEW t \in SUBSET (1 .. n), t # {}
  PROVE  Max(t) \in t /\ \A y \in t : Max(t) >= y
PROOF
  <1> DEFINE S == {k \in Nat : \A u \in SUBSET (1 .. k) :
                                 u # {} => \E x \in u : \A y \in u : x >= y}
  <1>1. 0 \in S
    <2>1. 1 .. 0 = {}
      OBVIOUS
    <2> QED BY <2>1
  <1>2. ASSUME NEW k \in Nat, k \in S PROVE k + 1 \in S
    <2> SUFFICES ASSUME NEW u \in SUBSET (1 .. k + 1), u # {}
                 PROVE  \E x \in u : \A y \in u : x >= y
      OBVIOUS
    <2>1. CASE k + 1 \in u
      BY <2>1
    <2>2. CASE k + 1 \notin u
      BY <1>2, <2>2
    <2> QED BY <2>1, <2>2
  <1> HIDE DEF S
  <1>3. n \in S
    BY <1>1, <1>2, Induction
  <1>4. \E x \in t : \A y \in t : x >= y
    BY <1>3 DEF S
  <1> QED BY <1>4 DEF Max

\* A function that folds F over the sets of positions up to k.
Folding(g, k, base, F) ==
  \A t \in SUBSET (1 .. k) :
    g[t] = IF t = {} THEN base ELSE F[<<g[t \ {Max(t)}], Max(t)>>]

Foldings(k, A) == [SUBSET (1 .. k) -> A]

LEMMA FoldExtends ==
  ASSUME NEW n \in Nat, NEW A, NEW base \in A, NEW F \in [A \X (1 .. n) -> A],
         NEW k \in Nat, k + 1 \in 1 .. n,
         NEW g \in Foldings(k, A), Folding(g, k, base, F)
  PROVE  \E h \in Foldings(k + 1, A) : Folding(h, k + 1, base, F)
PROOF
  <1>1. ASSUME NEW t \in SUBSET (1 .. k + 1), t # {}
        PROVE  Max(t) \in t /\ t \ {Max(t)} \in SUBSET (1 .. k) /\ Max(t) \in 1 .. n
    <2>1. Max(t) \in t /\ \A y \in t : Max(t) >= y
      <3>1. k + 1 \in Nat
        OBVIOUS
      <3> QED BY <1>1, <3>1, MaxExists
    <2>2. PICK m : m = Max(t)
      OBVIOUS
    <2>3. m \in t /\ m \in 1 .. k + 1
      BY <2>1, <2>2
    <2>4. m \in 1 .. n
      BY <2>3
    <2>5. \A y \in t \ {m} : y \in 1 .. k + 1 /\ y <= m /\ y # m
      BY <2>1, <2>2, <2>3
    <2>6. \A y \in t \ {m} : y \in 1 .. k
      BY <2>3, <2>5
    <2> QED BY <2>1, <2>2, <2>4, <2>6
  <1> DEFINE h == [t \in SUBSET (1 .. k + 1) |->
                     IF t = {} THEN base ELSE F[<<g[t \ {Max(t)}], Max(t)>>]]
  <1>2. h \in Foldings(k + 1, A)
    <2>1. ASSUME NEW t \in SUBSET (1 .. k + 1), t # {}
          PROVE  F[<<g[t \ {Max(t)}], Max(t)>>] \in A
      BY <1>1, <2>1 DEF Foldings
    <2> QED BY <2>1 DEF Foldings
  <1>3. \A t \in SUBSET (1 .. k) : h[t] = g[t]
    <2>1. SUBSET (1 .. k) \subseteq SUBSET (1 .. k + 1)
      OBVIOUS
    <2> QED BY <2>1 DEF Folding
  <1>4. ASSUME NEW t \in SUBSET (1 .. k + 1)
        PROVE  h[t] = IF t = {} THEN base ELSE F[<<h[t \ {Max(t)}], Max(t)>>]
    <2>1. h[t] = IF t = {} THEN base ELSE F[<<g[t \ {Max(t)}], Max(t)>>]
      OBVIOUS
    <2>2. t # {} => h[t \ {Max(t)}] = g[t \ {Max(t)}]
      BY <1>1, <1>3
    <2> HIDE DEF h
    <2> QED BY <2>1, <2>2
  <1> HIDE DEF h
  <1>5. Folding(h, k + 1, base, F)
    BY <1>4 DEF Folding
  <1> QED BY <1>2, <1>5

LEMMA FoldExists ==
  ASSUME NEW n \in Nat, NEW A, NEW base \in A, NEW F \in [A \X (1 .. n) -> A]
  PROVE  \E g \in Foldings(n, A) : Folding(g, n, base, F)
PROOF
  <1> DEFINE S == {k \in Nat : k <= n =>
                     \E g \in Foldings(k, A) : Folding(g, k, base, F)}
  <1>1. 0 \in S
    <2>1. 1 .. 0 = {} /\ SUBSET (1 .. 0) = {{}}
      OBVIOUS
    <2> DEFINE g == [t \in {{}} |-> base]
    <2>2. g \in Foldings(0, A)
      BY <2>1 DEF Foldings
    <2>3. Folding(g, 0, base, F)
      BY <2>1 DEF Folding
    <2> HIDE DEF g
    <2> QED BY <2>2, <2>3
  <1>2. ASSUME NEW k \in Nat, k \in S PROVE k + 1 \in S
    <2>1. CASE k + 1 <= n
      <3>1. k <= n /\ k + 1 \in 1 .. n
        BY <2>1
      <3>2. PICK g \in Foldings(k, A) : Folding(g, k, base, F)
        BY <1>2, <3>1
      <3>3. \E h \in Foldings(k + 1, A) : Folding(h, k + 1, base, F)
        BY <3>1, <3>2, FoldExtends
      <3> QED BY <3>3
    <2>2. CASE ~(k + 1 <= n)
      BY <2>2
    <2> QED BY <2>1, <2>2
  <1> HIDE DEF S
  <1>3. n \in S
    BY <1>1, <1>2, Induction
  <1>4. n <= n
    OBVIOUS
  <1> QED BY <1>3, <1>4 DEF S

\* The first positions of a sequence are a set of positions.
LEMMA FirstPositions ==
  ASSUME NEW n \in Nat, NEW k \in 1 .. n
  PROVE  /\ Max(1 .. k) = k
         /\ (1 .. k) \ {k} = 1 .. k - 1
         /\ 1 .. k \in SUBSET (1 .. n) /\ 1 .. k # {}
PROOF
  <1>1. 1 .. k \in SUBSET (1 .. n) /\ k \in 1 .. k
    OBVIOUS
  <1>2. Max(1 .. k) \in 1 .. k /\ \A y \in 1 .. k : Max(1 .. k) >= y
    BY <1>1, MaxExists
  <1>3. Max(1 .. k) >= k /\ Max(1 .. k) \in 1 .. k
    BY <1>1, <1>2
  <1>4. Max(1 .. k) = k
    BY <1>3
  <1>5. (1 .. k) \ {k} = 1 .. k - 1
    OBVIOUS
  <1> QED BY <1>1, <1>4, <1>5
-----------------------------------------------------------------------------
(* Sums as cardinalities: a summand n of index k is n pairs (k, 1 .. n).   *)

\* The pairs of one summand.
LEMMA PairsOf ==
  ASSUME NEW k, NEW n \in Nat
  PROVE  IsFiniteSet({k} \X (1 .. n)) /\ Cardinality({k} \X (1 .. n)) = n
PROOF
  <1>1. IsFiniteSet({k}) /\ Cardinality({k}) = 1
    BY FS_Singleton
  <1>2. IsFiniteSet(1 .. n) /\ Cardinality(1 .. n) = n
    BY FS_Interval
  <1>3. /\ IsFiniteSet({k} \X (1 .. n))
        /\ Cardinality({k} \X (1 .. n)) = Cardinality({k}) * Cardinality(1 .. n)
    BY <1>1, <1>2, FS_Product
  <1> QED BY <1>1, <1>2, <1>3

=============================================================================

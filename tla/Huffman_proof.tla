---------------------------- MODULE Huffman_proof ----------------------------
(***************************************************************************)
(* Proofs, for every input, alphabet and width of codes, of the claims of  *)
(* HuffmanInv: the codes that compressFile assigns are an optimal prefix   *)
(* code, the decoder finds them from their lengths alone, and what is      *)
(* written with them is what is read.  Sums over sets are cardinalities    *)
(* here, so that they need no recursion; a code is the room that the codes *)
(* before it take on its level.                                            *)
(***************************************************************************)
EXTENDS HuffmanInv, FiniteSetTheorems, SequenceTheorems, FunctionTheorems, TLAPS

-----------------------------------------------------------------------------
(* Induction over numbers and over finite sets, and recursion. *)

\* A set of numbers that is not empty has a least element.
LEMMA Least == \A T \in SUBSET Nat : T # {} => \E m \in T : \A k \in T : m <= k
<1> SUFFICES ASSUME NEW T \in SUBSET Nat, T # {}
             PROVE  \E m \in T : \A k \in T : m <= k
  OBVIOUS
<1> DEFINE F == {0 .. k : k \in T}
<1>1. IsWellFoundedOn(StrictSubsetOrdering(Nat), FiniteSubsetsOf(Nat))
  BY FS_StrictSubsetOrderingWellFounded
<1>2. F \subseteq FiniteSubsetsOf(Nat) /\ F # {}
  <2>1. \A k \in T : 0 .. k \in SUBSET Nat /\ IsFiniteSet(0 .. k)
    <3> TAKE k \in T
    <3>1. IsFiniteSet(0 .. k)
      <4>1. 0 \in Int /\ k \in Int
        OBVIOUS
      <4> QED BY <4>1, FS_Interval
    <3> QED BY <3>1
  <2> QED BY <2>1 DEF FiniteSubsetsOf
<1>3. PICK x \in F : \A y \in F : ~(<<y, x>> \in StrictSubsetOrdering(Nat))
  <2> HIDE DEF F
  <2> QED BY <1>1, <1>2, WFMin
<1>4. PICK m \in T : x = 0 .. m
  OBVIOUS
<1>5. ASSUME NEW k \in T, k < m PROVE FALSE
  <2>1. 0 .. k \in F /\ 0 .. k \subseteq x /\ 0 .. k # x
    BY <1>4, <1>5
  <2>2. x \in SUBSET Nat
    BY <1>4
  <2>3. <<0 .. k, x>> \in StrictSubsetOrdering(Nat)
    BY <2>1, <2>2 DEF StrictSubsetOrdering
  <2> QED BY <1>3, <2>1, <2>3
<1> QED BY <1>5

\* Induction over the numbers, for a set of them.
LEMMA Induct ==
  ASSUME NEW S \in SUBSET Nat, 0 \in S, \A n \in S : n + 1 \in S
  PROVE  S = Nat
<1> SUFFICES ASSUME Nat \ S # {}
             PROVE  FALSE
  OBVIOUS
<1>1. PICK m \in Nat \ S : \A k \in Nat \ S : m <= k
  BY Least
<1>2. m # 0 /\ m - 1 \in Nat /\ ~(m <= m - 1)
  <2>1. m \in Nat /\ m # 0
    OBVIOUS
  <2> QED BY <2>1
<1>3. m - 1 \in S
  BY <1>1, <1>2
<1> QED BY <1>2, <1>3

\* A family of sets that holds the empty set and, with a set, every set with one
\* element more holds every finite set.
LEMMA InductSet ==
  ASSUME NEW S, IsFiniteSet(S), NEW P \in SUBSET SUBSET S, {} \in P,
         \A T \in P : \A x \in S \ T : T \union {x} \in P
  PROVE  S \in P
<1> DEFINE G == {n \in Nat : \A T \in SUBSET S : Cardinality(T) = n => T \in P}
<1>1. \A T \in SUBSET S : IsFiniteSet(T) /\ Cardinality(T) \in Nat
  BY FS_Subset, FS_CardinalityType
<1>2. G = Nat
  <2>1. 0 \in G
    BY <1>1, FS_EmptySet
  <2>2. ASSUME NEW n \in G
        PROVE  n + 1 \in G
    <3> SUFFICES ASSUME NEW T \in SUBSET S, Cardinality(T) = n + 1
                 PROVE  T \in P
      OBVIOUS
    <3>1. T # {}
      BY <1>1, FS_EmptySet
    <3>2. PICK x \in T : TRUE
      BY <3>1
    <3>3. Cardinality(T \ {x}) = n
      BY <1>1, <3>2, FS_RemoveElement
    <3>4. T \ {x} \in P
      BY <3>3
    <3>5. (T \ {x}) \union {x} = T /\ x \in S \ (T \ {x})
      BY <3>2
    <3> QED BY <3>4, <3>5
  <2>3. G \in SUBSET Nat
    OBVIOUS
  <2> HIDE DEF G
  <2> QED BY <2>1, <2>2, <2>3, Induct
<1> QED BY <1>1, <1>2
 
\* Recursion.
\* A step of a recursion over the naturals, and its values up to N.
StepOf(g, A) == g \in [Nat \X A -> A]

ValuesOf(f, N, A, a, g) ==
  f \in [0 .. N -> A] /\ f[0] = a /\ \A n \in 1 .. N : f[n] = g[<<n, f[n - 1]>>]

\* A function that is given by its first value and by the step from one value to the next exists.
LEMMA Recursion ==
  ASSUME NEW A, NEW a, a \in A, NEW g, StepOf(g, A), NEW N \in Nat
  PROVE  \E f : ValuesOf(f, N, A, a, g)
<1> DEFINE G == {m \in Nat : \E f : ValuesOf(f, m, A, a, g)}
<1>1. 0 \in G
  <2>1. [n \in 0 .. 0 |-> a] \in [0 .. 0 -> A] /\ [n \in 0 .. 0 |-> a][0] = a
    OBVIOUS
  <2>2. \A n \in 1 .. 0 : FALSE
    OBVIOUS
  <2>3. ValuesOf([n \in 0 .. 0 |-> a], 0, A, a, g)
    BY <2>1, <2>2 DEF ValuesOf
  <2> QED BY <2>3
<1>2. ASSUME NEW m \in G
      PROVE  m + 1 \in G
  <2>1. PICK f : ValuesOf(f, m, A, a, g)
    OBVIOUS
  <2>2. f \in [0 .. m -> A] /\ f[0] = a /\ \A n \in 1 .. m : f[n] = g[<<n, f[n - 1]>>]
    BY <2>1 DEF ValuesOf
  <2> DEFINE h == [n \in 0 .. m + 1 |-> IF n = m + 1 THEN g[<<m + 1, f[m]>>] ELSE f[n]]
  <2>3. f[m] \in A /\ m \in Nat
    BY <2>2
  <2>4. h \in [0 .. m + 1 -> A]
    <3>1. g[<<m + 1, f[m]>>] \in A
      BY <2>3 DEF StepOf
    <3> QED BY <2>2, <2>3, <3>1
  <2>5. h[0] = a
    BY <2>2
  <2>6. \A n \in 1 .. m + 1 : h[n] = g[<<n, h[n - 1]>>]
    <3> TAKE n \in 1 .. m + 1
    <3>1. h[n - 1] = f[n - 1]
      BY <2>3
    <3>2. CASE n = m + 1
      <4>1. h[m + 1] = g[<<m + 1, f[m]>>]
        BY <2>3
      <4>2. n - 1 = m
        BY <2>3, <3>2
      <4> HIDE DEF h
      <4> QED BY <3>1, <3>2, <4>1, <4>2
    <3>3. CASE n # m + 1
      BY <3>1, <3>3, <2>2, <2>3
    <3> QED BY <3>2, <3>3
  <2> HIDE DEF h
  <2>7. ValuesOf(h, m + 1, A, a, g)
    BY <2>4, <2>5, <2>6 DEF ValuesOf
  <2> QED BY <2>3, <2>7
<1>3. G = Nat
  <2>1. G \in SUBSET Nat
    OBVIOUS
  <2> HIDE DEF G
  <2> QED BY <1>1, <1>2, <2>1, Induct
<1> QED BY <1>3

\* Powers of two are numbers, each twice the one before.
LEMMA PowerType == \A n \in Nat : 2^n \in Nat /\ 2^n > 0 /\ 2^(n + 1) = 2 * 2^n
<1>1. \A n \in Nat : IsFiniteSet(SUBSET (1 .. n)) /\ Cardinality(SUBSET (1 .. n)) = 2^n
  <2> TAKE n \in Nat
  <2>1. IsFiniteSet(1 .. n) /\ Cardinality(1 .. n) = n
    BY FS_Interval
  <2> QED BY <2>1, FS_SUBSET
<1>2. \A n \in Nat : 2^n \in Nat
  BY <1>1, FS_CardinalityType
<1>3. ASSUME NEW n \in Nat
      PROVE  2^(n + 1) = 2 * 2^n
  <2> DEFINE A == SUBSET (1 .. n)
             B == {x \union {n + 1} : x \in A}
             f == [x \in A |-> x \union {n + 1}]
  <2>1. \A x \in A : n + 1 \notin x
    OBVIOUS
  <2>2. SUBSET (1 .. n + 1) = A \union B
    <3>1. ASSUME NEW y \in SUBSET (1 .. n + 1) PROVE y \in A \union B
      <4>1. CASE n + 1 \in y
        <5>1. y \ {n + 1} \in A /\ y = (y \ {n + 1}) \union {n + 1}
          BY <4>1
        <5> QED BY <5>1
      <4>2. CASE n + 1 \notin y
        <5>1. y \subseteq 1 .. n
          BY <4>2
        <5> QED BY <5>1
      <4> QED BY <4>1, <4>2
    <3>2. ASSUME NEW y \in A PROVE y \in SUBSET (1 .. n + 1) /\ y \union {n + 1} \in SUBSET (1 .. n + 1)
      <4>1. y \subseteq 1 .. n
        OBVIOUS
      <4> QED BY <4>1
    <3> HIDE DEF A
    <3> QED BY <3>1, <3>2
  <2>3. A \cap B = {}
    BY <2>1
  <2>4. f \in Bijection(A, B)
    <3>1. \A x, y \in A : f[x] = f[y] => x = y
      <4> TAKE x, y \in A
      <4>1. n + 1 \notin x /\ n + 1 \notin y
        BY <2>1
      <4> QED BY <4>1
    <3> HIDE DEF A
    <3>2. f \in [A -> B] /\ \A y \in B : \E x \in A : f[x] = y
      OBVIOUS
    <3> HIDE DEF B, f
    <3> QED BY <3>1, <3>2 DEF Bijection, Injection, Surjection, IsInjective
  <2>5. IsFiniteSet(A) /\ Cardinality(A) = 2^n
    BY <1>1
  <2>6. IsFiniteSet(B) /\ Cardinality(B) = 2^n
    <3> HIDE DEF A, B, f
    <3>1. ExistsBijection(A, B)
      BY <2>4 DEF ExistsBijection
    <3> QED BY <2>5, <3>1, FS_Bijection
  <2>7. Cardinality(A \union B) = 2^n + 2^n - Cardinality(A \cap B)
    <3> HIDE DEF A, B
    <3> QED BY <2>5, <2>6, FS_Union
  <2>8. Cardinality(SUBSET (1 .. n + 1)) = 2^(n + 1)
    <3>1. n + 1 \in Nat
      OBVIOUS
    <3> HIDE DEF A, B
    <3> QED BY <3>1, <1>1
  <2> HIDE DEF A, B
  <2> DEFINE p == 2^n   q == 2^(n + 1)
  <2>9. p \in Nat /\ q = p + p - 0
    BY <1>2, <2>2, <2>3, <2>7, <2>8, FS_EmptySet
  <2> HIDE DEF p, q
  <2>10. q = 2 * p
    BY <2>9
  <2> QED BY <2>10 DEF p, q
<1>4. \A n \in Nat : 2^n > 0
  <2> DEFINE G == {n \in Nat : 2^n > 0}
  <2>1. 0 \in G
    OBVIOUS
  <2>2. ASSUME NEW n \in G PROVE n + 1 \in G
    <3> DEFINE p == 2^n   q == 2^(n + 1)
    <3>1. p \in Nat /\ q = 2 * p /\ p > 0
      BY <1>2, <1>3
    <3> HIDE DEF p, q
    <3>2. q > 0
      BY <3>1
    <3> QED BY <3>2 DEF q
  <2>3. G = Nat
    <3>1. G \in SUBSET Nat
      OBVIOUS
    <3> HIDE DEF G
    <3> QED BY <2>1, <2>2, <3>1, Induct
  <2> QED BY <2>3
<1> QED BY <1>2, <1>3, <1>4

-----------------------------------------------------------------------------
(* Powers, and sums of powers. *)

\* A power of a sum is a product of powers.
LEMMA PowerAdds == \A m, n \in Nat : 2^(m + n) = 2^m * 2^n
<1> SUFFICES ASSUME NEW m \in Nat
             PROVE  \A n \in Nat : 2^(m + n) = 2^m * 2^n
  OBVIOUS
<1> DEFINE G == {n \in Nat : 2^(m + n) = 2^m * 2^n}
<1>1. 0 \in G
  <2>1. 2^m \in Nat
    BY PowerType
  <2>2. 2^0 = 1 /\ m + 0 = m
    OBVIOUS
  <2> DEFINE p == 2^m
  <2>3. p * 1 = p
    <3> HIDE DEF p
    <3> QED BY <2>1 DEF p
  <2> QED BY <2>2, <2>3
<1>2. ASSUME NEW n \in G
      PROVE  n + 1 \in G
  <2> DEFINE p == 2^m  q == 2^n  r == 2^(m + n)  q2 == 2^(n + 1)  r2 == 2^(m + n + 1)
  <2>1. p \in Nat /\ q \in Nat /\ r \in Nat /\ q2 = 2 * q /\ r2 = 2 * r
    BY PowerType
  <2>2. r = p * q
    OBVIOUS
  <2>3. m + (n + 1) = m + n + 1
    OBVIOUS
  <2> HIDE DEF p, q, r, q2, r2
  <2>4. r2 = p * q2
    BY <2>1, <2>2
  <2> USE DEF p, q, r, q2, r2
  <2>5. 2^(m + (n + 1)) = 2^m * 2^(n + 1)
    BY <2>3, <2>4
  <2> QED BY <2>5
<1>3. G = Nat
  <2>1. G \in SUBSET Nat
    OBVIOUS
  <2> HIDE DEF G
  <2> QED BY <1>1, <1>2, <2>1, Induct
<1> QED BY <1>3

\* Powers of two grow.
LEMMA PowersGrow == \A m, n \in Nat : m <= n => 2^m <= 2^n
<1> SUFFICES ASSUME NEW m \in Nat, NEW n \in Nat, m <= n
             PROVE  2^m <= 2^n
  OBVIOUS
<1> DEFINE d == n - m
<1>1. d \in Nat /\ m + d = n
  OBVIOUS
<1>2. 2^(m + d) = 2^m * 2^d
  <2> HIDE DEF d
  <2> QED BY <1>1, PowerAdds
<1>3. 2^m \in Nat /\ 2^d \in Nat /\ 2^d > 0
  BY <1>1, PowerType
<1> DEFINE a == 2^m   b == 2^d
<1>4. a <= a * b
  <2>1. a \in Nat /\ b \in Nat /\ b >= 1
    BY <1>3
  <2> HIDE DEF a, b
  <2>2. PICK c \in Nat : b = 1 + c
    <3>1. b - 1 \in Nat /\ b = 1 + (b - 1)
      BY <2>1
    <3> QED BY <3>1
  <2>3. a * b = a + a * c /\ a * c \in Nat
    BY <2>1, <2>2
  <2> QED BY <2>1, <2>3
<1> HIDE DEF d
<1> QED BY <1>1, <1>2, <1>4

\* What a division gives when quotient and remainder are known.
LEMMA Quotient ==
  ASSUME NEW c \in Nat, c > 0, NEW q \in Nat, NEW r \in Nat, r < c
  PROVE  (c * q + r) \div c = q /\ (c * q + r) % c = r
<1> DEFINE a == c * q + r
<1>1. a \in Nat
  OBVIOUS
<1>2. a \div c \in Nat /\ a % c \in Nat /\ a % c < c /\ a = c * (a \div c) + (a % c)
  <2> HIDE DEF a
  <2> QED BY <1>1
<1> DEFINE d == a \div c   e == a % c
<1>3. c * q + r = c * d + e /\ d \in Nat /\ e \in Nat /\ e < c
  BY <1>2
<1> HIDE DEF a, d, e
<1>4. ~(d < q)
  <2> SUFFICES ASSUME d + 1 <= q PROVE FALSE
    BY <1>3
  <2>1. c * (d + 1) <= c * q
    BY <1>3
  <2> QED BY <1>3, <2>1
<1>5. ~(q < d)
  <2> SUFFICES ASSUME q + 1 <= d PROVE FALSE
    BY <1>3
  <2>1. c * (q + 1) <= c * d
    BY <1>3
  <2> QED BY <1>3, <2>1
<1>6. d = q
  BY <1>3, <1>4, <1>5
<1>7. e = r
  BY <1>3, <1>6
<1> QED BY <1>6, <1>7 DEF a, d, e

-----------------------------------------------------------------------------
\* Sums.
Cells(f, S) == {x \in S \X Nat : x[2] < f[x[1]]}
SumOf(f, S) == Cardinality(Cells(f, S))

Naturals(f, S) == \A s \in S : f[s] \in Nat

\* One summand more, for a sum that is known to be finite.
LEMMA SumAdd1 ==
  ASSUME NEW f, NEW S, NEW x, x \notin S, f[x] \in Nat, IsFiniteSet(Cells(f, S))
  PROVE  IsFiniteSet(Cells(f, S \union {x})) /\ SumOf(f, S \union {x}) = SumOf(f, S) + f[x]
<1> DEFINE n == f[x]
           C == Cells(f, {x})
           g == [j \in 1 .. n |-> <<x, j - 1>>]
<1>1. n \in Nat
  OBVIOUS
<1>2. C = {<<x, j>> : j \in {j \in Nat : j < n}}
  BY DEF Cells
<1>3. g \in Bijection(1 .. n, C)
  <2>1. \A j \in 1 .. n : g[j] = <<x, j - 1>> /\ j - 1 \in Nat /\ j - 1 < n
    BY <1>1
  <2>2. \A j \in 1 .. n : g[j] \in C
    BY <2>1, <1>2
  <2>3. \A j, k \in 1 .. n : g[j] = g[k] => j = k
    BY <2>1
  <2>4. \A y \in C : \E j \in 1 .. n : g[j] = y
    <3> TAKE y \in C
    <3>1. PICK j \in Nat : j < n /\ y = <<x, j>>
      BY <1>2
    <3>2. j + 1 \in 1 .. n /\ (j + 1) - 1 = j
      BY <1>1, <3>1
    <3> QED BY <2>1, <3>1, <3>2
  <2>5. g \in [1 .. n -> C]
    <3> HIDE DEF C
    <3> QED BY <2>2
  <2> HIDE DEF g, C, n
  <2> QED BY <2>3, <2>4, <2>5 DEF Bijection, Injection, Surjection, IsInjective
<1>4. IsFiniteSet(C) /\ Cardinality(C) = n
  <2>1. IsFiniteSet(1 .. n) /\ Cardinality(1 .. n) = n
    <3> HIDE DEF n
    <3> QED BY <1>1, FS_Interval
  <2> HIDE DEF g, C, n
  <2>2. ExistsBijection(1 .. n, C)
    BY <1>3 DEF ExistsBijection
  <2> QED BY <2>1, <2>2, FS_Bijection
<1>5. Cells(f, S \union {x}) = Cells(f, S) \union C /\ Cells(f, S) \cap C = {}
  BY DEF Cells
<1> DEFINE D == Cells(f, S)
<1>6. IsFiniteSet(D \union C) /\ Cardinality(D \union C) = Cardinality(D) + Cardinality(C) - Cardinality(D \cap C)
  <2> HIDE DEF C, D, n
  <2>1. IsFiniteSet(D)
    BY DEF D
  <2> QED BY <1>4, <2>1, FS_Union
<1>7. Cardinality(D) \in Nat
  <2> HIDE DEF D
  <2>1. IsFiniteSet(D)
    BY DEF D
  <2> QED BY <2>1, FS_CardinalityType
<1>8. Cardinality(D \cap C) = 0
  BY <1>5, FS_EmptySet
<1>9. Cardinality(D \union C) = Cardinality(D) + n
  <2> HIDE DEF C, D, n
  <2> QED BY <1>1, <1>4, <1>6, <1>7, <1>8
<1> HIDE DEF C, n
<1>10. Cells(f, S \union {x}) = D \union C
  BY <1>5
<1> HIDE DEF D
<1> QED BY <1>6, <1>9, <1>10 DEF SumOf, n, D

\* The sum of nothing.
LEMMA SumEmpty == \A f : IsFiniteSet(Cells(f, {})) /\ SumOf(f, {}) = 0
<1> TAKE f
<1>1. Cells(f, {}) = {}
  BY DEF Cells
<1> QED BY <1>1, FS_EmptySet DEF SumOf

\* The sum of numbers over a finite set is a number.
LEMMA SumType ==
  ASSUME NEW f, NEW S, IsFiniteSet(S), \A s \in S : f[s] \in Nat
  PROVE  IsFiniteSet(Cells(f, S)) /\ SumOf(f, S) \in Nat
<1> DEFINE P == {T \in SUBSET S : IsFiniteSet(Cells(f, T))}
<1>1. {} \in P
  BY SumEmpty
<1>2. \A T \in P : \A x \in S \ T : T \union {x} \in P
  BY SumAdd1
<1>3. S \in P
  <2>1. P \in SUBSET SUBSET S
    OBVIOUS
  <2> HIDE DEF P
  <2> QED BY <1>1, <1>2, <2>1, InductSet
<1>4. IsFiniteSet(Cells(f, S))
  BY <1>3
<1> QED BY <1>4, FS_CardinalityType DEF SumOf

\* One summand more.
LEMMA SumAdd ==
  ASSUME NEW f, NEW S, NEW x, IsFiniteSet(S), x \notin S, \A s \in S \union {x} : f[s] \in Nat
  PROVE  SumOf(f, S \union {x}) = SumOf(f, S) + f[x]
<1>1. IsFiniteSet(Cells(f, S)) /\ f[x] \in Nat
  BY SumType
<1> QED BY <1>1, SumAdd1

\* The sum over two sets that have nothing in common.
LEMMA SumUnion ==
  ASSUME NEW f, NEW S, NEW T, IsFiniteSet(S), IsFiniteSet(T), S \cap T = {},
         \A s \in S \union T : f[s] \in Nat
  PROVE  SumOf(f, S \union T) = SumOf(f, S) + SumOf(f, T)
<1> DEFINE C == Cells(f, S)  D == Cells(f, T)
<1>1. Cells(f, S \union T) = C \union D /\ C \cap D = {}
  BY DEF Cells
<1>2. IsFiniteSet(C) /\ IsFiniteSet(D)
  BY SumType
<1>3. Cardinality(C) \in Nat /\ Cardinality(D) \in Nat
  BY <1>2, FS_CardinalityType
<1>4. Cardinality(C \union D) = Cardinality(C) + Cardinality(D) - Cardinality(C \cap D)
  BY <1>2, FS_Union
<1>5. Cardinality(C \cap D) = 0
  BY <1>1, FS_EmptySet
<1> QED BY <1>1, <1>3, <1>4, <1>5 DEF SumOf

\* Equal summands have equal sums.
LEMMA SumEqual ==
  ASSUME NEW f, NEW g, NEW S, \A s \in S : f[s] = g[s]
  PROVE  SumOf(f, S) = SumOf(g, S)
<1>1. Cells(f, S) = Cells(g, S)
  BY DEF Cells
<1> QED BY <1>1 DEF SumOf

\* Fewer and smaller summands have no greater sum.
LEMMA SumMono ==
  ASSUME NEW f, NEW g, NEW S, IsFiniteSet(S), NEW T \in SUBSET S, \A s \in S : g[s] \in Nat,
         \A s \in T : f[s] \in Nat /\ f[s] <= g[s]
  PROVE  SumOf(f, T) <= SumOf(g, S)
<1>1. Cells(f, T) \in SUBSET Cells(g, S)
  <2> SUFFICES ASSUME NEW s \in T, NEW j \in Nat, j < f[s]
               PROVE  j < g[s]
    BY DEF Cells
  <2>1. s \in S /\ f[s] \in Nat /\ g[s] \in Nat /\ f[s] <= g[s]
    OBVIOUS
  <2> QED BY <2>1
<1>2. IsFiniteSet(Cells(g, S))
  BY SumType
<1> QED BY <1>1, <1>2, FS_Subset DEF SumOf

\* A common factor can be taken out of a sum.
LEMMA SumScale ==
  ASSUME NEW f, NEW g, NEW c \in Nat, NEW S, IsFiniteSet(S),
         \A s \in S : g[s] \in Nat /\ f[s] = c * g[s]
  PROVE  SumOf(f, S) = c * SumOf(g, S)
<1> DEFINE P == {T \in SUBSET S : SumOf(f, T) = c * SumOf(g, T)}
<1>1. \A s \in S : f[s] \in Nat
  OBVIOUS
<1>2. {} \in P
  <2>1. SumOf(f, {}) = 0 /\ SumOf(g, {}) = 0
    BY SumEmpty
  <2> QED BY <2>1
<1>3. \A T \in P : \A x \in S \ T : T \union {x} \in P
  <2> TAKE T \in P
  <2> TAKE x \in S \ T
  <2>1. IsFiniteSet(T) /\ \A s \in T \union {x} : s \in S
    BY FS_Subset
  <2>2. SumOf(f, T \union {x}) = SumOf(f, T) + f[x]
    BY <1>1, <2>1, SumAdd
  <2>3. SumOf(g, T \union {x}) = SumOf(g, T) + g[x]
    BY <2>1, SumAdd
  <2>4. SumOf(g, T) \in Nat /\ g[x] \in Nat /\ f[x] = c * g[x]
    BY <2>1, SumType
  <2>5. SumOf(f, T) = c * SumOf(g, T)
    OBVIOUS
  <2> DEFINE a == SumOf(f, T)  b == SumOf(g, T)  u == f[x]  v == g[x]
  <2>6. a + u = c * (b + v)
    <3>1. b \in Nat /\ v \in Nat /\ u = c * v /\ a = c * b
      BY <2>4, <2>5
    <3> HIDE DEF a, b, u, v
    <3> QED BY <3>1
  <2> QED BY <2>2, <2>3, <2>6
<1>4. S \in P
  <2>1. P \in SUBSET SUBSET S
    OBVIOUS
  <2> HIDE DEF P
  <2> QED BY <1>2, <1>3, <2>1, InductSet
<1> QED BY <1>4

\* Sums are added summand by summand.
LEMMA SumOfSums ==
  ASSUME NEW f, NEW g, NEW h, NEW S, IsFiniteSet(S),
         \A s \in S : f[s] \in Nat /\ g[s] \in Nat /\ h[s] = f[s] + g[s]
  PROVE  SumOf(h, S) = SumOf(f, S) + SumOf(g, S)
<1> DEFINE P == {T \in SUBSET S : SumOf(h, T) = SumOf(f, T) + SumOf(g, T)}
<1>1. \A s \in S : h[s] \in Nat
  OBVIOUS
<1>2. {} \in P
  <2>1. SumOf(f, {}) = 0 /\ SumOf(g, {}) = 0 /\ SumOf(h, {}) = 0
    BY SumEmpty
  <2> QED BY <2>1
<1>3. \A T \in P : \A x \in S \ T : T \union {x} \in P
  <2> TAKE T \in P
  <2> TAKE x \in S \ T
  <2>1. IsFiniteSet(T) /\ \A s \in T \union {x} : s \in S
    BY FS_Subset
  <2>2. SumOf(h, T \union {x}) = SumOf(h, T) + h[x]
    BY <1>1, <2>1, SumAdd
  <2>3. SumOf(g, T \union {x}) = SumOf(g, T) + g[x]
    BY <2>1, SumAdd
  <2>4. SumOf(f, T \union {x}) = SumOf(f, T) + f[x]
    BY <2>1, SumAdd
  <2>5. SumOf(g, T) \in Nat /\ SumOf(f, T) \in Nat
    BY <2>1, SumType
  <2>6. g[x] \in Nat /\ f[x] \in Nat /\ h[x] = f[x] + g[x]
    OBVIOUS
  <2>7. SumOf(h, T) = SumOf(f, T) + SumOf(g, T)
    OBVIOUS
  <2>8. SumOf(h, T \union {x}) = SumOf(f, T \union {x}) + SumOf(g, T \union {x})
    BY <2>2, <2>3, <2>4, <2>5, <2>6, <2>7
  <2> QED BY <2>8
<1>4. S \in P
  <2>1. P \in SUBSET SUBSET S
    OBVIOUS
  <2> HIDE DEF P
  <2> QED BY <1>2, <1>3, <2>1, InductSet
<1> QED BY <1>4

\* The sum of ones counts.
LEMMA SumOnes ==
  ASSUME NEW f, NEW S, IsFiniteSet(S), \A s \in S : f[s] = 1
  PROVE  SumOf(f, S) = Cardinality(S)
<1> DEFINE P == {T \in SUBSET S : SumOf(f, T) = Cardinality(T)}
<1>1. {} \in P
  BY SumEmpty, FS_EmptySet
<1>2. \A T \in P : \A x \in S \ T : T \union {x} \in P
  <2> TAKE T \in P
  <2> TAKE x \in S \ T
  <2>1. IsFiniteSet(T) /\ \A s \in T \union {x} : s \in S
    BY FS_Subset
  <2>2. \A s \in T \union {x} : f[s] \in Nat
    BY <2>1
  <2>3. SumOf(f, T \union {x}) = SumOf(f, T) + 1
    <3>1. SumOf(f, T \union {x}) = SumOf(f, T) + f[x]
      BY <2>1, <2>2, SumAdd
    <3> QED BY <3>1
  <2>4. Cardinality(T \union {x}) = Cardinality(T) + 1
    BY <2>1, FS_AddElement
  <2> QED BY <2>3, <2>4
<1>3. S \in P
  <2>1. P \in SUBSET SUBSET S
    OBVIOUS
  <2> HIDE DEF P
  <2> QED BY <1>1, <1>2, <2>1, InductSet
<1> QED BY <1>3

-----------------------------------------------------------------------------
(* The room that codes of given lengths take. *)

\* Finitely many lengths have a bound.
LEMMA BoundExists ==
  ASSUME NEW S, IsFiniteSet(S), NEW f, \A s \in S : f[s] \in Nat
  PROVE  \E b \in Nat : \A s \in S : f[s] <= b
<1> DEFINE P == {T \in SUBSET S : \E b \in Nat : \A s \in T : f[s] <= b}
<1>1. {} \in P
  OBVIOUS
<1>2. \A T \in P : \A x \in S \ T : T \union {x} \in P
  <2> TAKE T \in P
  <2> TAKE x \in S \ T
  <2>1. PICK b \in Nat : \A s \in T : f[s] <= b
    OBVIOUS
  <2>2. b + f[x] \in Nat /\ \A s \in T \union {x} : f[s] <= b + f[x]
    <3>1. f[x] \in Nat
      OBVIOUS
    <3>2. \A s \in T : f[s] \in Nat /\ f[s] <= b
      BY <2>1
    <3> QED BY <3>1, <3>2
  <2> QED BY <2>2
<1>3. S \in P
  <2>1. P \in SUBSET SUBSET S
    OBVIOUS
  <2> HIDE DEF P
  <2> QED BY <1>1, <1>2, <2>1, InductSet
<1> QED BY <1>3

\* The longest length.
LEMMA Longest ==
  ASSUME NEW lens \in [Symbol -> Nat]
  PROVE  /\ LongestOf(lens) \in Nat
         /\ \A s \in Symbol : lens[s] <= LongestOf(lens)
         /\ LongestOf(lens) # 0 => \E s \in Symbol : lens[s] = LongestOf(lens)
<1> DEFINE B == {b \in Nat : \A s \in Symbol : lens[s] <= b}
           T == {lens[s] : s \in Symbol} \union {0}
<1>1. PICK b \in Nat : \A s \in Symbol : lens[s] <= b
  <2>1. IsFiniteSet(Symbol) /\ \A s \in Symbol : lens[s] \in Nat
    BY CodeAssumption
  <2> QED BY <2>1, BoundExists
<1>2. PICK m \in B : \A k \in B : m <= k
  <2>1. B \in SUBSET Nat /\ B # {}
    BY <1>1
  <2> HIDE DEF B
  <2> QED BY <2>1, Least
<1>3. m \in T
  <2> SUFFICES ASSUME m \notin T
               PROVE  FALSE
    OBVIOUS
  <2>1. m # 0 /\ m - 1 \in Nat
    OBVIOUS
  <2>2. \A s \in Symbol : lens[s] \in Nat /\ lens[s] <= m /\ lens[s] # m
    OBVIOUS
  <2>3. m - 1 \in B
    BY <2>1, <2>2
  <2>4. m \in Nat /\ ~(m <= m - 1)
    OBVIOUS
  <2> QED BY <1>2, <2>3, <2>4
<1>4. \A k \in T : k \in Nat /\ m >= k
  OBVIOUS
<1> DEFINE M == CHOOSE x \in T : \A y \in T : x >= y
<1>5. M \in T /\ \A y \in T : M >= y
  <2> HIDE DEF T
  <2> QED BY <1>3, <1>4
<1>6. LongestOf(lens) = M
  BY DEF LongestOf, Max
<1>7. \A s \in Symbol : lens[s] \in T
  OBVIOUS
<1>8. M \in Nat /\ \A s \in Symbol : lens[s] \in Nat /\ lens[s] <= M
  <2> HIDE DEF M, T
  <2>1. M \in Nat
    BY <1>4, <1>5
  <2> QED BY <1>4, <1>5, <1>7, <2>1
<1>9. M # 0 => \E s \in Symbol : lens[s] = M
  <2> HIDE DEF M
  <2> QED BY <1>5
<1> HIDE DEF M
<1> QED BY <1>6, <1>8, <1>9

-----------------------------------------------------------------------------
\* Places of level n that the codes of the symbols of T take.
Taken(lens, n, T) == SumOf([s \in T |-> 2^(n - lens[s])], T)

Within(lens, n, T) == \A s \in T : lens[s] \in Nat /\ lens[s] <= n

\* The leaves below a code are a power of two.
LEMMA Places ==
  ASSUME NEW T, NEW lens, NEW n \in Nat, Within(lens, n, T)
  PROVE  \A s \in T : 2^(n - lens[s]) \in Nat /\ 2^(n - lens[s]) >= 1
<1> TAKE s \in T
<1>1. n - lens[s] \in Nat
  BY DEF Within
<1> DEFINE p == 2^(n - lens[s])
<1>2. p \in Nat /\ p > 0
  BY <1>1, PowerType
<1> HIDE DEF p
<1>3. p >= 1
  BY <1>2
<1> QED BY <1>2, <1>3 DEF p

\* What codes take is a number.
LEMMA TakenType ==
  ASSUME NEW T, IsFiniteSet(T), NEW lens, NEW n \in Nat, Within(lens, n, T)
  PROVE  Taken(lens, n, T) \in Nat
<1> DEFINE f == [s \in T |-> 2^(n - lens[s])]
<1>1. \A s \in T : f[s] \in Nat
  BY Places
<1> HIDE DEF f
<1>2. SumOf(f, T) \in Nat
  BY <1>1, SumType
<1> QED BY <1>2 DEF Taken, f

\* No codes take nothing.
LEMMA TakenNothing == \A lens, n : Taken(lens, n, {}) = 0
BY SumEmpty DEF Taken

\* On a level that is d deeper there are 2^d times as many.
LEMMA TakenDeeper ==
  ASSUME NEW T, IsFiniteSet(T), NEW lens, NEW n \in Nat, Within(lens, n, T), NEW d \in Nat
  PROVE  Taken(lens, n + d, T) = 2^d * Taken(lens, n, T)
<1>1. PICK c \in Nat : c = 2^d
  BY PowerType
<1> DEFINE f == [s \in T |-> 2^((n + d) - lens[s])]
           g == [s \in T |-> 2^(n - lens[s])]
<1>2. \A s \in T : g[s] \in Nat /\ f[s] = c * g[s]
  <2> TAKE s \in T
  <2>1. n - lens[s] \in Nat /\ (n + d) - lens[s] = d + (n - lens[s])
    BY DEF Within
  <2>2. 2^(d + (n - lens[s])) = 2^d * 2^(n - lens[s])
    BY <2>1, PowerAdds
  <2>3. 2^(n - lens[s]) \in Nat
    BY Places
  <2> QED BY <1>1, <2>1, <2>2, <2>3
<1>3. SumOf(f, T) = c * SumOf(g, T)
  <2> HIDE DEF f, g
  <2> QED BY <1>2, SumScale
<1>4. SumOf(f, T) = Taken(lens, n + d, T) /\ SumOf(g, T) = Taken(lens, n, T)
  BY DEF Taken
<1> HIDE DEF f, g
<1> QED BY <1>1, <1>3, <1>4

\* What two sets of codes take together.
LEMMA TakenUnion ==
  ASSUME NEW S, NEW T, IsFiniteSet(S), IsFiniteSet(T), S \cap T = {},
         NEW lens, NEW n \in Nat, Within(lens, n, S \union T)
  PROVE  Taken(lens, n, S \union T) = Taken(lens, n, S) + Taken(lens, n, T)
<1> DEFINE h == [s \in S \union T |-> 2^(n - lens[s])]
           f == [s \in S |-> 2^(n - lens[s])]
           g == [s \in T |-> 2^(n - lens[s])]
<1>1. \A s \in S \union T : h[s] \in Nat
  BY Places
<1>2. (\A s \in S : h[s] = f[s]) /\ (\A s \in T : h[s] = g[s])
  OBVIOUS
<1> HIDE DEF f, g, h
<1>3. SumOf(h, S) = SumOf(f, S) /\ SumOf(h, T) = SumOf(g, T)
  BY <1>2, SumEqual
<1>4. SumOf(h, S \union T) = SumOf(h, S) + SumOf(h, T)
  BY <1>1, SumUnion
<1> QED BY <1>3, <1>4 DEF Taken, f, g, h

\* What one code takes.
LEMMA TakenOne ==
  ASSUME NEW s, NEW lens, NEW n \in Nat, lens[s] \in Nat, lens[s] <= n
  PROVE  Taken(lens, n, {s}) = 2^(n - lens[s])
<1> DEFINE f == [t \in {s} |-> 2^(n - lens[t])]
<1>1. Within(lens, n, {s})
  BY DEF Within
<1>2. \A t \in {s} : f[t] \in Nat
  BY <1>1, Places
<1>3. f[s] = 2^(n - lens[s])
  OBVIOUS
<1> HIDE DEF f
<1>4. SumOf(f, {} \union {s}) = SumOf(f, {}) + f[s]
  BY <1>2, FS_EmptySet, SumAdd
<1>5. {} \union {s} = {s} /\ SumOf(f, {}) = 0 /\ f[s] \in Nat
  BY <1>2, SumEmpty
<1>6. SumOf(f, {s}) = f[s]
  BY <1>4, <1>5
<1> QED BY <1>3, <1>6 DEF Taken, f

\* What a set of codes takes with one code more.
LEMMA TakenAdd ==
  ASSUME NEW S, IsFiniteSet(S), NEW x, x \notin S, NEW lens, NEW n \in Nat, Within(lens, n, S \union {x})
  PROVE  Taken(lens, n, S \union {x}) = Taken(lens, n, S) + 2^(n - lens[x])
<1>1. IsFiniteSet({x}) /\ S \cap {x} = {}
  BY FS_Singleton
<1>2. lens[x] \in Nat /\ lens[x] <= n
  BY DEF Within
<1>3. Taken(lens, n, S \union {x}) = Taken(lens, n, S) + Taken(lens, n, {x})
  BY <1>1, TakenUnion
<1>4. Taken(lens, n, {x}) = 2^(n - lens[x])
  BY <1>2, TakenOne
<1> QED BY <1>3, <1>4

\* A code of x beside those of S.
AddsCode(lens, n, S, x) == IsFiniteSet(S) /\ x \notin S /\ n \in Nat /\ Within(lens, n, S \union {x})

\* The same, for a known set and its sum.
LEMMA TakenGrows ==
  ASSUME NEW S, NEW x, NEW lens, NEW n, AddsCode(lens, n, S, x)
  PROVE  Taken(lens, n, S \union {x}) = Taken(lens, n, S) + 2^(n - lens[x])
<1>1. IsFiniteSet(S) /\ IsFiniteSet({x}) /\ S \cap {x} = {}
  BY FS_Singleton DEF AddsCode
<1>2. n \in Nat /\ lens[x] \in Nat /\ lens[x] <= n /\ Within(lens, n, S \union {x})
  BY DEF AddsCode, Within
<1>3. Taken(lens, n, S \union {x}) = Taken(lens, n, S) + Taken(lens, n, {x})
  BY <1>1, <1>2, TakenUnion
<1>4. Taken(lens, n, {x}) = 2^(n - lens[x])
  BY <1>2, TakenOne
<1> QED BY <1>3, <1>4

\* Fewer codes take no more.
LEMMA TakenMono ==
  ASSUME NEW S, IsFiniteSet(S), NEW T \in SUBSET S, NEW lens, NEW n \in Nat, Within(lens, n, S)
  PROVE  Taken(lens, n, T) <= Taken(lens, n, S)
<1>1. IsFiniteSet(T) /\ IsFiniteSet(S \ T) /\ T \cap (S \ T) = {} /\ T \union (S \ T) = S
  BY FS_Subset
<1>2. Taken(lens, n, S) = Taken(lens, n, T) + Taken(lens, n, S \ T)
  BY <1>1, TakenUnion
<1>3. Within(lens, n, T) /\ Within(lens, n, S \ T)
  BY DEF Within
<1>4. Taken(lens, n, T) \in Nat /\ Taken(lens, n, S \ T) \in Nat
  BY <1>1, <1>3, TakenType
<1> QED BY <1>2, <1>4

\* Kraft's inequality.
Kraft(lens, S) == \A n \in Nat : Within(lens, n, S) => Taken(lens, n, S) <= 2^n

\* Some symbols leave room on their level, if they are not all.
LEMMA Room ==
  ASSUME NEW S, IsFiniteSet(S), NEW lens, \A s \in S : lens[s] \in Nat, Kraft(lens, S),
         NEW T \in SUBSET S, NEW n \in Nat, Within(lens, n, T)
  PROVE  Taken(lens, n, T) <= 2^n /\ (T # S => Taken(lens, n, T) < 2^n)
<1>1. PICK b \in Nat : \A s \in S : lens[s] <= b
  BY BoundExists
<1> DEFINE m == n + b
<1>2. m \in Nat /\ Within(lens, m, S) /\ Within(lens, m, T) /\ IsFiniteSet(T)
  <2>1. \A s \in S : lens[s] \in Nat /\ lens[s] <= n + b
    BY <1>1
  <2> QED BY <2>1, FS_Subset DEF Within
<1> DEFINE p == 2^b  q == Taken(lens, n, T)  r == 2^n
<1>3. p \in Nat /\ r \in Nat /\ q \in Nat /\ p > 0
  BY <1>2, PowerType, TakenType
<1>4. Taken(lens, m, T) = p * q /\ 2^m = p * r
  <2>1. 2^(b + n) = 2^b * 2^n /\ b + n = n + b
    BY PowerAdds
  <2> QED BY <1>2, <2>1, TakenDeeper
<1>5. Taken(lens, m, S) <= p * r
  <2>1. Taken(lens, m, S) <= 2^m
    BY <1>2 DEF Kraft
  <2> QED BY <1>4, <2>1
<1>6. p * q <= p * r
  <2>1. Taken(lens, m, T) <= Taken(lens, m, S)
    BY <1>2, TakenMono
  <2>2. Taken(lens, m, T) \in Nat /\ Taken(lens, m, S) \in Nat
    BY <1>2, TakenType
  <2> DEFINE pq == p * q  pr == p * r
  <2>3. pr \in Nat /\ Taken(lens, m, T) = pq /\ Taken(lens, m, S) <= pr
    <3>1. pr \in Nat
      <4> HIDE DEF p, q, r
      <4> QED BY <1>3
    <3> QED BY <3>1, <1>4, <1>5
  <2> HIDE DEF pq, pr
  <2>4. pq <= pr
    BY <2>1, <2>2, <2>3
  <2> QED BY <2>4 DEF pq, pr
<1>7. ASSUME T # S
      PROVE  p * q < p * r
  <2>1. PICK x \in S : x \notin T
    BY <1>7
  <2>2. Within(lens, m, T \union {x}) /\ T \union {x} \in SUBSET S /\ Within(lens, m, {x})
    BY <1>2, <2>1 DEF Within
  <2>3. Taken(lens, m, T \union {x}) = Taken(lens, m, T) + 2^(m - lens[x])
    BY <1>2, <2>1, <2>2, TakenAdd
  <2>4. 2^(m - lens[x]) \in Nat /\ 2^(m - lens[x]) >= 1
    BY <1>2, <2>2, Places
  <2>5. Taken(lens, m, T \union {x}) <= Taken(lens, m, S)
    BY <1>2, <2>2, TakenMono
  <2>6. Taken(lens, m, T) \in Nat /\ Taken(lens, m, S) \in Nat
    BY <1>2, TakenType
  <2> DEFINE pq == p * q  pr == p * r
  <2>7. pr \in Nat /\ Taken(lens, m, T) = pq /\ Taken(lens, m, S) <= pr
    <3>1. pr \in Nat
      <4> HIDE DEF p, q, r
      <4> QED BY <1>3
    <3> QED BY <3>1, <1>4, <1>5
  <2> HIDE DEF pq, pr
  <2>8. pq < pr
    BY <2>3, <2>4, <2>5, <2>6, <2>7
  <2> QED BY <2>8 DEF pq, pr
<1> HIDE DEF p, q, r
<1>8. q <= r
  <2> SUFFICES ASSUME r + 1 <= q PROVE FALSE
    BY <1>3
  <2>1. p * (r + 1) <= p * q
    BY <1>3
  <2>2. p * (r + 1) = p * r + p
    BY <1>3
  <2>3. p * r \in Nat /\ p * q \in Nat
    BY <1>3
  <2> QED BY <1>3, <1>6, <2>1, <2>2, <2>3
<1>9. T # S => q < r
  <2> SUFFICES ASSUME T # S PROVE q # r
    BY <1>3, <1>8
  <2>1. p * q < p * r /\ p * r \in Nat
    BY <1>3, <1>7
  <2> QED BY <2>1
<1> QED BY <1>8, <1>9 DEF q, r

-----------------------------------------------------------------------------
(* Entries in the order of compareEntries. *)

\* The symbols whose entries come before that of s.
Earlier(lens, s) == {t \in Coded(lens) : EntryBefore(lens, t, s)}

\* The coded symbols are finitely many numbers, with lengths above 0.
LEMMA CodedFinite ==
  ASSUME NEW lens \in [Symbol -> Nat]
  PROVE  /\ IsFiniteSet(Coded(lens)) /\ Cardinality(Coded(lens)) \in Nat
         /\ Coded(lens) \subseteq Symbol /\ Symbol \subseteq Nat
         /\ \A s \in Coded(lens) : lens[s] \in Nat /\ lens[s] > 0
<1>1. Coded(lens) \in SUBSET Symbol /\ IsFiniteSet(Symbol) /\ Symbol \subseteq Nat
  BY CodeAssumption DEF Coded
<1>2. IsFiniteSet(Coded(lens))
  BY <1>1, FS_Subset
<1> QED BY <1>1, <1>2, FS_CardinalityType DEF Coded

\* The order of the entries is strict and total.
LEMMA EntryOrder ==
  ASSUME NEW lens \in [Symbol -> Nat]
  PROVE  /\ \A s \in Symbol : ~EntryBefore(lens, s, s)
         /\ \A s, t \in Symbol : s = t \/ EntryBefore(lens, s, t) \/ EntryBefore(lens, t, s)
         /\ \A s, t \in Symbol : ~(EntryBefore(lens, s, t) /\ EntryBefore(lens, t, s))
         /\ \A s, t, u \in Symbol :
              EntryBefore(lens, s, t) /\ EntryBefore(lens, t, u) => EntryBefore(lens, s, u)
<1>1. \A s \in Symbol : s \in Nat /\ lens[s] \in Nat
  BY CodeAssumption
<1> QED BY <1>1 DEF EntryBefore

\* There is a sorted table of the coded symbols.
LEMMA SortedExists ==
  ASSUME NEW lens \in [Symbol -> Nat]
  PROVE  \E e \in [1 .. Cardinality(Coded(lens)) -> Coded(lens)] :
           \A i, j \in DOMAIN e : i < j => EntryBefore(lens, e[i], e[j])
<1> DEFINE C == Coded(lens)
           n == Cardinality(C)
           place == [s \in C |-> Cardinality(Earlier(lens, s)) + 1]
<1>1. IsFiniteSet(C) /\ n \in Nat /\ C \subseteq Symbol
  BY CodedFinite
<1>2. \A s \in C : /\ Earlier(lens, s) \subseteq C /\ s \notin Earlier(lens, s)
                   /\ IsFiniteSet(Earlier(lens, s)) /\ Cardinality(Earlier(lens, s)) \in Nat
                   /\ Cardinality(Earlier(lens, s)) < n
  <2> TAKE s \in C
  <2>1. Earlier(lens, s) \in SUBSET C /\ s \notin Earlier(lens, s)
    BY <1>1, EntryOrder DEF Earlier
  <2>2. IsFiniteSet(Earlier(lens, s))
    BY <1>1, <2>1, FS_Subset
  <2>3. Cardinality(Earlier(lens, s)) <= n /\ Cardinality(Earlier(lens, s)) # n
    BY <1>1, <2>1, FS_Subset
  <2>4. Cardinality(Earlier(lens, s)) \in Nat
    BY <2>2, FS_CardinalityType
  <2> HIDE DEF n
  <2> QED BY <1>1, <2>1, <2>2, <2>3, <2>4
<1>3. \A s, t \in C : EntryBefore(lens, s, t) => place[s] < place[t]
  <2> SUFFICES ASSUME NEW s \in C, NEW t \in C, EntryBefore(lens, s, t)
               PROVE  Cardinality(Earlier(lens, s)) < Cardinality(Earlier(lens, t))
    BY <1>2
  <2>1. Earlier(lens, s) \union {s} \in SUBSET Earlier(lens, t)
    BY <1>1, EntryOrder DEF Earlier
  <2>2. Cardinality(Earlier(lens, s) \union {s}) <= Cardinality(Earlier(lens, t))
    BY <1>2, <2>1, FS_Subset
  <2>3. Cardinality(Earlier(lens, s) \union {s}) = Cardinality(Earlier(lens, s)) + 1
    BY <1>2, FS_AddElement
  <2> QED BY <1>2, <2>2, <2>3
<1>4. \A s \in C : place[s] \in 1 .. n
  <2>1. \A s \in C : place[s] = Cardinality(Earlier(lens, s)) + 1
    OBVIOUS
  <2> HIDE DEF n, place
  <2> QED BY <1>1, <1>2, <2>1
<1>5. place \in Injection(C, 1 .. n)
  <2>1. \A s, t \in C : place[s] = place[t] => s = t
    <3> SUFFICES ASSUME NEW s \in C, NEW t \in C, place[s] = place[t], s # t
                 PROVE  FALSE
      OBVIOUS
    <3>1. EntryBefore(lens, s, t) \/ EntryBefore(lens, t, s)
      BY <1>1, EntryOrder
    <3>2. place[s] < place[t] \/ place[t] < place[s]
      BY <1>3, <3>1
    <3> HIDE DEF place
    <3> QED BY <1>4, <3>2
  <2>2. place \in [C -> 1 .. n]
    <3>1. place = [s \in C |-> place[s]]
      OBVIOUS
    <3> HIDE DEF C, n, place
    <3> QED BY <1>4, <3>1
  <2> HIDE DEF C, n, place
  <2> QED BY <2>1, <2>2 DEF Injection, IsInjective
<1>6. \A i \in 1 .. n : \E s \in C : place[s] = i
  <2>1. IsFiniteSet(1 .. n) /\ Cardinality(1 .. n) = n
    BY <1>1, FS_Interval
  <2>2. n = Cardinality(C)
    OBVIOUS
  <2> HIDE DEF C, n, place
  <2>3. place \in Surjection(C, 1 .. n)
    BY <1>5, <2>1, <2>2, FS_Injection
  <2> QED BY <2>3 DEF Surjection
<1> DEFINE e == [i \in 1 .. n |-> CHOOSE s \in C : place[s] = i]
<1>7. \A i \in 1 .. n : e[i] \in C /\ place[e[i]] = i
  <2> HIDE DEF C, n, place
  <2> QED BY <1>6
<1>8. e \in [1 .. n -> C] /\ DOMAIN e = 1 .. n
  <2>1. e = [i \in 1 .. n |-> e[i]]
    OBVIOUS
  <2> HIDE DEF C, n, e
  <2> QED BY <1>7, <2>1
<1>9. \A i, j \in 1 .. n : i < j => EntryBefore(lens, e[i], e[j])
  <2> SUFFICES ASSUME NEW i \in 1 .. n, NEW j \in 1 .. n, i < j, ~EntryBefore(lens, e[i], e[j])
               PROVE  FALSE
    OBVIOUS
  <2>1. e[i] \in C /\ e[j] \in C /\ place[e[i]] = i /\ place[e[j]] = j
    BY <1>7
  <2> HIDE DEF C, n, e, place
  <2>2. e[i] # e[j]
    BY <2>1
  <2>3. EntryBefore(lens, e[j], e[i])
    BY <1>1, <2>1, <2>2, EntryOrder
  <2>4. j < i
    BY <1>3, <2>1, <2>3
  <2> QED BY <2>4
<1>10. DOMAIN e = 1 .. n
  BY <1>8
<1> HIDE DEF e
<1> QED BY <1>8, <1>9, <1>10

Sorted(lens, e) ==
  /\ e \in [1 .. Cardinality(Coded(lens)) -> Coded(lens)]
  /\ \A i, j \in 1 .. Cardinality(Coded(lens)) : i < j => EntryBefore(lens, e[i], e[j])

\* The decoder's entries are the coded symbols in the order of compareEntries.
LEMMA EntriesSorted ==
  ASSUME NEW lens \in [Symbol -> Nat]
  PROVE  Sorted(lens, Entries(lens))
<1> DEFINE n == Cardinality(Coded(lens))
           Ok(e) == \A i, j \in DOMAIN e : i < j => EntryBefore(lens, e[i], e[j])
           e == CHOOSE f \in [1 .. n -> Coded(lens)] : Ok(f)
<1>1. \E f \in [1 .. n -> Coded(lens)] : Ok(f)
  BY SortedExists
<1>2. e \in [1 .. n -> Coded(lens)] /\ Ok(e)
  <2> HIDE DEF Ok, n
  <2> QED BY <1>1
<1>3. Entries(lens) = e
  BY DEF Entries
<1>4. DOMAIN e = 1 .. n
  <2> HIDE DEF n, e
  <2> QED BY <1>2
<1> HIDE DEF e
<1> QED BY <1>2, <1>3, <1>4 DEF Sorted

\* A sorted table has every coded symbol, once, behind those that come before it.
LEMMA SortedTable ==
  ASSUME NEW lens \in [Symbol -> Nat], NEW e, Sorted(lens, e)
  PROVE  LET n == Cardinality(Coded(lens))
         IN  /\ n \in Nat /\ Len(e) = n /\ DOMAIN e = 1 .. n
             /\ \A i \in 1 .. n : e[i] \in Coded(lens)
             /\ \A s \in Coded(lens) : \E i \in 1 .. n : e[i] = s
             /\ \A i, j \in 1 .. n : EntryBefore(lens, e[i], e[j]) <=> i < j
             /\ \A i, j \in 1 .. n : e[i] = e[j] => i = j
<1> DEFINE C == Coded(lens)
           n == Cardinality(C)
<1>1. IsFiniteSet(C) /\ n \in Nat /\ C \subseteq Symbol
  BY CodedFinite
<1>2. e \in [1 .. n -> C] /\ \A i, j \in 1 .. n : i < j => EntryBefore(lens, e[i], e[j])
  BY DEF Sorted
<1>3. \A i, j \in 1 .. n : EntryBefore(lens, e[i], e[j]) <=> i < j
  <2> SUFFICES ASSUME NEW i \in 1 .. n, NEW j \in 1 .. n, EntryBefore(lens, e[i], e[j]), ~(i < j)
               PROVE  FALSE
    BY <1>2
  <2>1. e[i] \in Symbol /\ e[j] \in Symbol
    BY <1>1, <1>2
  <2>2. i = j \/ j < i
    OBVIOUS
  <2>3. e[i] = e[j] \/ EntryBefore(lens, e[j], e[i])
    BY <1>2, <2>2
  <2> QED BY <2>1, <2>3, EntryOrder
<1>4. \A i, j \in 1 .. n : e[i] = e[j] => i = j
  <2> SUFFICES ASSUME NEW i \in 1 .. n, NEW j \in 1 .. n, e[i] = e[j], i # j
               PROVE  FALSE
    OBVIOUS
  <2>1. i < j \/ j < i
    OBVIOUS
  <2>2. EntryBefore(lens, e[i], e[j]) \/ EntryBefore(lens, e[j], e[i])
    BY <1>2, <2>1
  <2>3. e[i] \in Symbol
    BY <1>1, <1>2
  <2> QED BY <2>2, <2>3, EntryOrder
<1>5. \A s \in C : \E i \in 1 .. n : e[i] = s
  <2>1. e \in Injection(1 .. n, C)
    <3>1. DOMAIN e = 1 .. n
      BY <1>2
    <3> HIDE DEF C, n
    <3> QED BY <1>2, <1>4, <3>1 DEF Injection, IsInjective
  <2>2. Cardinality(1 .. n) = Cardinality(C)
    BY <1>1, FS_Interval
  <2> HIDE DEF C, n
  <2>3. e \in Surjection(1 .. n, C)
    BY <1>1, <2>1, <2>2, FS_Injection
  <2> QED BY <2>3 DEF Surjection
<1>6. DOMAIN e = 1 .. n /\ Len(e) = n
  <2> HIDE DEF C, n
  <2>1. e \in Seq(C)
    BY <1>1, <1>2
  <2> QED BY <1>1, <1>2, <2>1
<1>7. \A i \in 1 .. n : e[i] \in C
  BY <1>2
<1> HIDE DEF n
<1> QED BY <1>1, <1>3, <1>4, <1>5, <1>6, <1>7 DEF n

-----------------------------------------------------------------------------
(* Canonical codes. *)

\* The code of a symbol: the places that the earlier ones take on its level.
CodeOf(lens, s) == Taken(lens, lens[s], Earlier(lens, s))

\* A table of lengths that some prefix code has.
Fits(lens) == lens \in [Symbol -> Nat] /\ Kraft(lens, Coded(lens))

\* The symbols before s are finitely many, and their codes are no longer than that of s.
LEMMA EarlierIsFinite ==
  ASSUME NEW lens \in [Symbol -> Nat], NEW s \in Coded(lens)
  PROVE  /\ Earlier(lens, s) \in SUBSET Coded(lens) /\ IsFiniteSet(Earlier(lens, s))
         /\ s \notin Earlier(lens, s)
         /\ Earlier(lens, s) \union {s} \in SUBSET Coded(lens)
         /\ IsFiniteSet(Earlier(lens, s) \union {s})
         /\ Within(lens, lens[s], Earlier(lens, s) \union {s})
         /\ Within(lens, lens[s], Earlier(lens, s))
<1>1. s \in Symbol /\ lens[s] \in Nat
  BY CodedFinite
<1>2. Earlier(lens, s) \in SUBSET Coded(lens) /\ Earlier(lens, s) \union {s} \in SUBSET Coded(lens)
  BY DEF Earlier
<1>3. IsFiniteSet(Earlier(lens, s)) /\ IsFiniteSet(Earlier(lens, s) \union {s})
  BY <1>2, CodedFinite, FS_Subset
<1>4. s \notin Earlier(lens, s)
  BY <1>1, EntryOrder DEF Earlier
<1>5. \A t \in Earlier(lens, s) \union {s} : lens[t] \in Nat /\ lens[t] <= lens[s]
  <2> TAKE t \in Earlier(lens, s) \union {s}
  <2>1. t \in Coded(lens)
    BY <1>2
  <2>2. lens[t] \in Nat
    BY <2>1, CodedFinite
  <2> QED BY <1>1, <2>2 DEF Earlier, EntryBefore
<1> QED BY <1>2, <1>3, <1>4, <1>5 DEF Within

\* With the code of the symbol itself it is one place more.
LEMMA NextPlace ==
  ASSUME NEW lens, Fits(lens), NEW s \in Coded(lens)
  PROVE  Taken(lens, lens[s], Earlier(lens, s) \union {s}) = CodeOf(lens, s) + 1
<1>1. lens \in [Symbol -> Nat]
  BY DEF Fits
<1>2. PICK n \in Nat : n = lens[s]
  BY <1>1, CodedFinite
<1>3. Taken(lens, n, Earlier(lens, s) \union {s}) = Taken(lens, n, Earlier(lens, s)) + 2^(n - lens[s])
  <2>1. PICK E : E = Earlier(lens, s)
    OBVIOUS
  <2>2. AddsCode(lens, n, E, s)
    BY <1>1, <1>2, <2>1, EarlierIsFinite DEF AddsCode
  <2>3. Taken(lens, n, E \union {s}) = Taken(lens, n, E) + 2^(n - lens[s])
    BY <2>2, TakenGrows
  <2> QED BY <2>1, <2>3
<1>4. n - lens[s] = 0 /\ 2^0 = 1
  BY <1>2
<1> QED BY <1>2, <1>3, <1>4 DEF CodeOf

\* A code fits into its length.
LEMMA CodeFits ==
  ASSUME NEW lens, Fits(lens), NEW s \in Coded(lens)
  PROVE  CodeOf(lens, s) \in Nat /\ CodeOf(lens, s) + 1 <= 2^lens[s]
<1>1. lens \in [Symbol -> Nat] /\ Kraft(lens, Coded(lens))
  BY DEF Fits
<1>2. lens[s] \in Nat /\ IsFiniteSet(Coded(lens)) /\ \A t \in Coded(lens) : lens[t] \in Nat
  BY <1>1, CodedFinite
<1> DEFINE T == Earlier(lens, s) \union {s}  n == lens[s]
<1>3. Taken(lens, n, T) <= 2^n
  BY <1>1, <1>2, EarlierIsFinite, Room
<1>4. Taken(lens, n, Earlier(lens, s)) \in Nat
  BY <1>1, <1>2, EarlierIsFinite, TakenType
<1>5. Taken(lens, n, T) = Taken(lens, n, Earlier(lens, s)) + 1
  BY <1>1, NextPlace DEF CodeOf
<1> QED BY <1>3, <1>4, <1>5 DEF CodeOf

\* Behind a code, the next one and all that begin with it.
LEMMA CodesApart ==
  ASSUME NEW lens, Fits(lens), NEW s \in Coded(lens), NEW t \in Coded(lens), EntryBefore(lens, s, t)
  PROVE  lens[t] - lens[s] \in Nat /\ 2^(lens[t] - lens[s]) * (CodeOf(lens, s) + 1) <= CodeOf(lens, t)
<1>1. lens \in [Symbol -> Nat] /\ s \in Symbol /\ t \in Symbol
  BY CodedFinite DEF Fits
<1>2. lens[s] \in Nat /\ lens[t] \in Nat
  BY <1>1
<1> DEFINE T == Earlier(lens, s) \union {s}  n == lens[s]  d == lens[t] - lens[s]
<1>3. T \in SUBSET Earlier(lens, t)
  BY <1>1, CodedFinite, EntryOrder DEF Earlier
<1>4. d \in Nat /\ n + d = lens[t]
  BY <1>2 DEF EntryBefore
<1>5. Taken(lens, n, T) = CodeOf(lens, s) + 1
  BY <1>1, NextPlace
<1>6. Taken(lens, lens[t], T) = 2^d * Taken(lens, n, T)
  <2>1. IsFiniteSet(T) /\ Within(lens, n, T)
    BY <1>1, EarlierIsFinite
  <2>2. Taken(lens, n + d, T) = 2^d * Taken(lens, n, T)
    <3> HIDE DEF T, d
    <3> QED BY <1>2, <1>4, <2>1, TakenDeeper
  <2> HIDE DEF T
  <2> QED BY <1>4, <2>2
<1>7. Taken(lens, lens[t], T) <= Taken(lens, lens[t], Earlier(lens, t))
  <2>1. IsFiniteSet(Earlier(lens, t)) /\ Within(lens, lens[t], Earlier(lens, t))
    BY <1>1, EarlierIsFinite
  <2> HIDE DEF T
  <2> QED BY <1>2, <1>3, <2>1, TakenMono
<1> HIDE DEF T
<1> QED BY <1>4, <1>5, <1>6, <1>7 DEF CodeOf

-----------------------------------------------------------------------------
\* The encoder.

\* Symbols with shorter codes.
Shorter(lens, n) == {t \in Coded(lens) : lens[t] < n}

SameLength(lens, n) == {t \in Coded(lens) : lens[t] = n}

\* The symbols with codes shorter than n, and those with codes of length n.
LEMMA ShorterIsFinite ==
  ASSUME NEW lens \in [Symbol -> Nat], NEW n \in Nat
  PROVE  /\ Shorter(lens, n) \in SUBSET Coded(lens) /\ IsFiniteSet(Shorter(lens, n))
         /\ SameLength(lens, n) \in SUBSET Coded(lens) /\ IsFiniteSet(SameLength(lens, n))
         /\ Shorter(lens, n) \cap SameLength(lens, n) = {}
         /\ Shorter(lens, n + 1) = Shorter(lens, n) \union SameLength(lens, n)
         /\ Within(lens, n, Shorter(lens, n)) /\ Within(lens, n, Shorter(lens, n + 1))
         /\ Within(lens, n, SameLength(lens, n))
<1>1. \A t \in Coded(lens) : lens[t] \in Nat
  BY CodedFinite
<1>2. Shorter(lens, n) \in SUBSET Coded(lens) /\ SameLength(lens, n) \in SUBSET Coded(lens)
  BY DEF Shorter, SameLength
<1>3. IsFiniteSet(Shorter(lens, n)) /\ IsFiniteSet(SameLength(lens, n))
  BY <1>2, CodedFinite, FS_Subset
<1>4. /\ Shorter(lens, n) \cap SameLength(lens, n) = {}
      /\ Shorter(lens, n + 1) = Shorter(lens, n) \union SameLength(lens, n)
  BY <1>1 DEF Shorter, SameLength
<1>5. /\ Within(lens, n, Shorter(lens, n)) /\ Within(lens, n, Shorter(lens, n + 1))
      /\ Within(lens, n, SameLength(lens, n))
  BY <1>1 DEF Shorter, SameLength, Within
<1> QED BY <1>2, <1>3, <1>4, <1>5

\* Codes of length n take one place each on level n.
LEMMA TakenSameLength ==
  ASSUME NEW lens \in [Symbol -> Nat], NEW n \in Nat, NEW T \in SUBSET SameLength(lens, n)
  PROVE  Taken(lens, n, T) = Cardinality(T)
<1> DEFINE f == [s \in T |-> 2^(n - lens[s])]
<1>1. IsFiniteSet(T)
  BY ShorterIsFinite, FS_Subset
<1>2. \A s \in T : f[s] = 1
  <2> TAKE s \in T
  <2>1. n - lens[s] = 0 /\ 2^0 = 1
    BY DEF SameLength
  <2> QED BY <2>1
<1>3. SumOf(f, T) = Cardinality(T)
  <2> HIDE DEF f
  <2> QED BY <1>1, <1>2, SumOnes
<1> QED BY <1>3 DEF Taken

\* Where the codes of the next length begin.
LEMMA NextLengthBegins ==
  ASSUME NEW lens \in [Symbol -> Nat], NEW n \in Nat
  PROVE  /\ Taken(lens, n, Shorter(lens, n)) \in Nat
         /\ CountOf(lens, n) \in Nat
         /\ Taken(lens, n, Shorter(lens, n + 1)) = Taken(lens, n, Shorter(lens, n)) + CountOf(lens, n)
         /\ Taken(lens, n + 1, Shorter(lens, n + 1))
              = (Taken(lens, n, Shorter(lens, n)) + CountOf(lens, n)) * 2
<1>1. Taken(lens, n, Shorter(lens, n + 1)) = Taken(lens, n, Shorter(lens, n)) + Taken(lens, n, SameLength(lens, n))
  BY ShorterIsFinite, TakenUnion
<1>2. Taken(lens, n, SameLength(lens, n)) = CountOf(lens, n)
  BY TakenSameLength DEF CountOf, SameLength
<1>3. IsFiniteSet(Shorter(lens, n + 1))
  BY ShorterIsFinite
<1>4. Taken(lens, n + 1, Shorter(lens, n + 1)) = 2^1 * Taken(lens, n, Shorter(lens, n + 1))
  BY <1>3, ShorterIsFinite, TakenDeeper
<1>5. Taken(lens, n, Shorter(lens, n)) \in Nat /\ Taken(lens, n, SameLength(lens, n)) \in Nat
  BY ShorterIsFinite, TakenType
<1>6. 2^1 = 2
  OBVIOUS
<1> QED BY <1>1, <1>2, <1>4, <1>5, <1>6

\* A code of length n: those of shorter symbols, then of smaller ones.
LEMMA CodeByRank ==
  ASSUME NEW lens \in [Symbol -> Nat], NEW s \in Coded(lens)
  PROVE  /\ Rank(lens, s) \in Nat
         /\ CodeOf(lens, s) = Taken(lens, lens[s], Shorter(lens, lens[s])) + Rank(lens, s)
<1> DEFINE n == lens[s]
           T == {t \in Coded(lens) : lens[t] = n /\ t < s}
<1>1. n \in Nat
  BY CodedFinite
<1>2. Earlier(lens, s) = Shorter(lens, n) \union T /\ Shorter(lens, n) \cap T = {}
  BY <1>1, CodedFinite DEF Earlier, EntryBefore, Shorter
<1>3. T \in SUBSET SameLength(lens, n) /\ IsFiniteSet(T)
  <2>1. T \in SUBSET Coded(lens)
    OBVIOUS
  <2>2. IsFiniteSet(T)
    <3> HIDE DEF T
    <3> QED BY <2>1, CodedFinite, FS_Subset
  <2> QED BY <2>2 DEF SameLength
<1>4. Within(lens, n, Shorter(lens, n) \union T)
  BY <1>2, EarlierIsFinite DEF Within
<1>5. IsFiniteSet(Shorter(lens, n))
  BY <1>1, ShorterIsFinite
<1> HIDE DEF T
<1>6. Taken(lens, n, Shorter(lens, n) \union T) = Taken(lens, n, Shorter(lens, n)) + Taken(lens, n, T)
  <2> HIDE DEF n
  <2> QED BY <1>1, <1>2, <1>3, <1>4, <1>5, TakenUnion
<1>7. Taken(lens, n, T) = Cardinality(T)
  <2> HIDE DEF n
  <2> QED BY <1>1, <1>3, TakenSameLength
<1>8. Cardinality(T) \in Nat
  BY <1>3, FS_CardinalityType
<1>9. Rank(lens, s) = Cardinality(T)
  BY DEF Rank, T
<1> QED BY <1>2, <1>6, <1>7, <1>8, <1>9 DEF CodeOf

\* Where the codes of the lengths begin, as long as no code is too long for
\* first_code: what wraps around in the code does not.
LEMMA FirstCodeSteps ==
  ASSUME NEW lens, Fits(lens), \A s \in Symbol : lens[s] <= CodeWidth
  PROVE  /\ Taken(lens, 0, Shorter(lens, 0)) = 0
         /\ \A n \in 0 .. LongestOf(lens) : n # 0 =>
              Taken(lens, n, Shorter(lens, n))
                = ((Taken(lens, n - 1, Shorter(lens, n - 1)) + CountOf(lens, n - 1)) * 2) % 2^CodeWidth
<1> DEFINE N == LongestOf(lens)
           B(n) == Taken(lens, n, Shorter(lens, n))
<1>1. lens \in [Symbol -> Nat] /\ Kraft(lens, Coded(lens))
  BY DEF Fits
<1>2. N \in Nat /\ (\A s \in Symbol : lens[s] <= N) /\ (N # 0 => \E s \in Symbol : lens[s] = N)
  BY <1>1, Longest
<1>3. B(0) = 0
  <2>1. Shorter(lens, 0) = {}
    BY <1>1, CodedFinite DEF Shorter
  <2> QED BY <2>1, TakenNothing
<1>4. \A n \in 0 .. N : n # 0 => B(n) = ((B(n - 1) + CountOf(lens, n - 1)) * 2) % 2^CodeWidth
  <2> SUFFICES ASSUME NEW n \in 0 .. N, n # 0
               PROVE  B(n) = ((B(n - 1) + CountOf(lens, n - 1)) * 2) % 2^CodeWidth
    OBVIOUS
  <2>1. n \in Nat /\ n - 1 \in Nat /\ (n - 1) + 1 = n /\ n <= N
    BY <1>2
  <2>2. B(n) = (B(n - 1) + CountOf(lens, n - 1)) * 2
    BY <1>1, <2>1, NextLengthBegins
  <2>3. B(n) < 2^n
    <3>1. PICK s \in Symbol : lens[s] = N
      BY <1>2, <2>1
    <3>2. s \in Coded(lens) /\ s \notin Shorter(lens, n)
      BY <1>2, <2>1, <3>1 DEF Coded, Shorter
    <3>3. Shorter(lens, n) # Coded(lens)
      BY <3>2
    <3>4. Shorter(lens, n) \in SUBSET Coded(lens) /\ Within(lens, n, Shorter(lens, n))
      BY <1>1, <2>1, ShorterIsFinite
    <3>5. IsFiniteSet(Coded(lens)) /\ \A t \in Coded(lens) : lens[t] \in Nat
      BY <1>1, CodedFinite
    <3> QED BY <1>1, <2>1, <3>3, <3>4, <3>5, Room
  <2>4. n <= CodeWidth
    <3>1. PICK s \in Symbol : lens[s] = N
      BY <1>2, <2>1
    <3> QED BY <1>2, <2>1, <3>1, CodeAssumption
  <2>5. 2^n <= 2^CodeWidth /\ 2^n \in Nat /\ 2^CodeWidth \in Nat
    BY <2>1, <2>4, PowersGrow, PowerType, CodeAssumption
  <2>6. B(n) \in Nat
    BY <1>1, <2>1, NextLengthBegins
  <2>7. B(n) < 2^CodeWidth
    <3> DEFINE u == B(n)  v == 2^n  w == 2^CodeWidth
    <3>1. u \in Nat /\ v \in Nat /\ w \in Nat /\ u < v /\ v <= w
      BY <2>3, <2>5, <2>6
    <3> HIDE DEF u, v, w
    <3>2. u < w
      BY <3>1
    <3> QED BY <3>2 DEF u, w
  <2>8. B(n) % 2^CodeWidth = B(n)
    <3> DEFINE u == B(n)  w == 2^CodeWidth
    <3>1. u \in Nat /\ w \in Nat /\ u < w
      BY <2>5, <2>6, <2>7
    <3> HIDE DEF u, w
    <3>2. u % w = u
      BY <3>1
    <3> QED BY <3>2 DEF u, w
  <2> HIDE DEF B
  <2> QED BY <2>2, <2>8
<1> QED BY <1>3, <1>4

\* That is first_code.
LEMMA FirstCodes ==
  ASSUME NEW lens, Fits(lens), \A s \in Symbol : lens[s] <= CodeWidth
  PROVE  \A n \in 0 .. LongestOf(lens) : FirstCode(lens)[n] = Taken(lens, n, Shorter(lens, n))
<1> DEFINE N == LongestOf(lens)
           B(n) == Taken(lens, n, Shorter(lens, n))
           body(f) == [n \in 0 .. N |-> IF n = 0 THEN 0 ELSE ((f[n - 1] + CountOf(lens, n - 1)) * 2) % 2^CodeWidth]
           first == CHOOSE f : f = body(f)
<1>1. N \in Nat
  BY Longest DEF Fits
<1>2. B(0) = 0 /\ \A n \in 0 .. N : n # 0 => B(n) = ((B(n - 1) + CountOf(lens, n - 1)) * 2) % 2^CodeWidth
  BY FirstCodeSteps
<1>3. \E f : f = body(f)
  <2> DEFINE f == [n \in 0 .. N |-> B(n)]
  <2>1. \A n \in 0 .. N : f[n] = IF n = 0 THEN 0 ELSE ((f[n - 1] + CountOf(lens, n - 1)) * 2) % 2^CodeWidth
    <3> TAKE n \in 0 .. N
    <3>1. f[n] = B(n) /\ (n # 0 => f[n - 1] = B(n - 1))
      <4>1. n # 0 => n - 1 \in 0 .. N
        BY <1>1
      <4> HIDE DEF B
      <4> QED BY <4>1
    <3> HIDE DEF B, f, N
    <3> QED BY <3>1, <1>2
  <2>2. f = body(f)
    <3>1. f = [n \in 0 .. N |-> f[n]]
      OBVIOUS
    <3> HIDE DEF B, f, N
    <3> QED BY <2>1, <3>1
  <2> HIDE DEF f, body
  <2> QED BY <2>2
<1>4. first = body(first)
  <2> HIDE DEF body
  <2> QED BY <1>3
<1>5. \A n \in 0 .. N : first[n] = IF n = 0 THEN 0 ELSE ((first[n - 1] + CountOf(lens, n - 1)) * 2) % 2^CodeWidth
  <2> HIDE DEF first, N
  <2> QED BY <1>4
<1> DEFINE G == {n \in Nat : n <= N => first[n] = B(n)}
<1>6. G = Nat
  <2> HIDE DEF first, B, N
  <2>1. 0 \in G
    BY <1>1, <1>2, <1>5
  <2>2. ASSUME NEW n \in G
        PROVE  n + 1 \in G
    <3> SUFFICES ASSUME n + 1 <= N
                 PROVE  first[n + 1] = B(n + 1)
      OBVIOUS
    <3>1. n + 1 \in 0 .. N /\ n + 1 # 0 /\ (n + 1) - 1 = n /\ n <= N
      BY <1>1
    <3> QED BY <1>2, <1>5, <3>1
  <2>3. G \in SUBSET Nat
    OBVIOUS
  <2> HIDE DEF G
  <2> QED BY <2>1, <2>2, <2>3, Induct
<1>7. FirstCode(lens) = first
  BY DEF FirstCode
<1>8. \A n \in 0 .. N : first[n] = B(n)
  <2> HIDE DEF first, B, N
  <2> TAKE n \in 0 .. N
  <2>1. n \in Nat /\ n <= N
    BY <1>1
  <2> QED BY <1>6, <2>1
<1> HIDE DEF first
<1> QED BY <1>7, <1>8

\* What buildCanonicalCodes assigns.
LEMMA EncoderCodes ==
  ASSUME NEW lens, Fits(lens), \A s \in Symbol : lens[s] <= CodeWidth
  PROVE  \A s \in Symbol : CanonicalBits(lens)[s] = IF lens[s] = 0 THEN 0 ELSE CodeOf(lens, s)
<1>1. lens \in [Symbol -> Nat]
  BY DEF Fits
<1> TAKE s \in Symbol
<1>2. CanonicalBits(lens)[s]
        = IF lens[s] = 0 THEN 0 ELSE (FirstCode(lens)[lens[s]] + Rank(lens, s)) % 2^CodeWidth
  BY DEF CanonicalBits
<1>3. ASSUME lens[s] # 0
      PROVE  (FirstCode(lens)[lens[s]] + Rank(lens, s)) % 2^CodeWidth = CodeOf(lens, s)
  <2>1. s \in Coded(lens) /\ lens[s] \in Nat /\ lens[s] \in 0 .. LongestOf(lens)
    BY <1>1, <1>3, Longest DEF Coded
  <2>2. FirstCode(lens)[lens[s]] + Rank(lens, s) = CodeOf(lens, s)
    BY <1>1, <2>1, FirstCodes, CodeByRank
  <2>3. CodeOf(lens, s) \in Nat /\ CodeOf(lens, s) + 1 <= 2^lens[s]
    BY <2>1, CodeFits
  <2>4. 2^lens[s] <= 2^CodeWidth /\ 2^lens[s] \in Nat /\ 2^CodeWidth \in Nat
    BY <2>1, PowersGrow, PowerType, CodeAssumption
  <2> DEFINE u == CodeOf(lens, s)  v == 2^lens[s]  w == 2^CodeWidth
  <2>5. u \in Nat /\ v \in Nat /\ w \in Nat /\ u + 1 <= v /\ v <= w
    BY <2>3, <2>4
  <2>6. u % w = u
    <3> HIDE DEF u, v, w
    <3> QED BY <2>5
  <2> QED BY <2>2, <2>6
<1> QED BY <1>2, <1>3

-----------------------------------------------------------------------------
(* The codes that the decoder computes. *)

\* From one entry to the next.
LEMMA NextEntry ==
  ASSUME NEW lens, Fits(lens), NEW e, Sorted(lens, e), NEW i \in 2 .. Len(e)
  PROVE  /\ i \in 1 .. Len(e) /\ i - 1 \in 1 .. Len(e)
         /\ e[i] \in Coded(lens) /\ e[i - 1] \in Coded(lens)
         /\ Longer(lens, e, i) \in Nat /\ Longer(lens, e, i) < lens[e[i]]
         /\ CodeOf(lens, e[i]) = (CodeOf(lens, e[i - 1]) + 1) * 2^Longer(lens, e, i)
<1> DEFINE n == Cardinality(Coded(lens))
<1>1. lens \in [Symbol -> Nat]
  BY DEF Fits
<1>2. /\ n \in Nat /\ Len(e) = n
      /\ \A j \in 1 .. n : e[j] \in Coded(lens)
      /\ \A s \in Coded(lens) : \E j \in 1 .. n : e[j] = s
      /\ \A j, k \in 1 .. n : EntryBefore(lens, e[j], e[k]) <=> j < k
  BY <1>1, SortedTable
<1>3. i \in 1 .. n /\ i - 1 \in 1 .. n /\ i - 1 < i /\ i \in Nat
  <2> HIDE DEF n
  <2> QED BY <1>2
<1> DEFINE s == e[i - 1]  t == e[i]  m == lens[s]  d == lens[t] - lens[s]
<1>4. s \in Coded(lens) /\ t \in Coded(lens) /\ EntryBefore(lens, s, t)
  <2> HIDE DEF n
  <2> QED BY <1>2, <1>3
<1>5. m \in Nat /\ m > 0 /\ lens[t] \in Nat
  <2> HIDE DEF s, t
  <2> QED BY <1>1, <1>4, CodedFinite
<1>6. Longer(lens, e, i) = d /\ d \in Nat /\ m + d = lens[t] /\ d < lens[t]
  BY <1>4, <1>5 DEF Longer, EntryBefore
<1>7. Earlier(lens, t) = Earlier(lens, s) \union {s}
  <2>1. ASSUME NEW u \in Coded(lens)
        PROVE  u \in Earlier(lens, t) <=> u \in Earlier(lens, s) \/ u = s
    <3>1. PICK k \in 1 .. n : e[k] = u
      BY <1>2
    <3>2. (EntryBefore(lens, u, t) <=> k < i) /\ (EntryBefore(lens, u, s) <=> k < i - 1)
      <4> HIDE DEF n
      <4> QED BY <1>2, <1>3, <3>1
    <3>3. u = s <=> k = i - 1
      <4>1. ASSUME u = s, k # i - 1 PROVE FALSE
        <5>1. k < i - 1 \/ i - 1 < k
          BY <4>1, <1>2, <1>3
        <5>2. EntryBefore(lens, s, s)
          <6> HIDE DEF n
          <6> QED BY <4>1, <5>1, <1>2, <1>3, <3>1
        <5>3. s \in Symbol
          BY <1>1, <1>4, CodedFinite
        <5> QED BY <1>1, <5>2, <5>3, EntryOrder
      <4> QED BY <3>1, <4>1
    <3>4. k < i <=> k < i - 1 \/ k = i - 1
      BY <1>2, <1>3
    <3> HIDE DEF s, t
    <3> QED BY <3>2, <3>3, <3>4 DEF Earlier
  <2>2. Earlier(lens, t) \subseteq Coded(lens) /\ Earlier(lens, s) \subseteq Coded(lens)
    BY DEF Earlier
  <2> HIDE DEF s, t
  <2> QED BY <1>4, <2>1, <2>2
<1> HIDE DEF s, t
<1>8. Taken(lens, m, Earlier(lens, t)) = CodeOf(lens, s) + 1
  BY <1>1, <1>4, <1>7, NextPlace
<1>9. CodeOf(lens, t) = 2^d * Taken(lens, m, Earlier(lens, t))
  <2>1. IsFiniteSet(Earlier(lens, t))
    BY <1>1, <1>4, EarlierIsFinite
  <2>2. Within(lens, m, Earlier(lens, t))
    BY <1>1, <1>4, <1>7, EarlierIsFinite
  <2>3. Taken(lens, m + d, Earlier(lens, t)) = 2^d * Taken(lens, m, Earlier(lens, t))
    <3> HIDE DEF m, d
    <3> QED BY <1>5, <1>6, <2>1, <2>2, TakenDeeper
  <2> QED BY <1>6, <2>3 DEF CodeOf
<1>10. CodeOf(lens, t) = (CodeOf(lens, s) + 1) * 2^d
  <2>1. CodeOf(lens, s) \in Nat /\ 2^d \in Nat
    BY <1>4, <1>6, CodeFits, PowerType
  <2> DEFINE a == CodeOf(lens, s) + 1  b == 2^d
  <2>2. a \in Nat /\ b \in Nat
    BY <2>1
  <2>3. b * a = a * b
    <3> HIDE DEF a, b
    <3> QED BY <2>2
  <2> QED BY <1>8, <1>9, <2>3
<1>11. i \in 1 .. Len(e) /\ i - 1 \in 1 .. Len(e)
  <2> HIDE DEF n
  <2> QED BY <1>2, <1>3
<1> HIDE DEF d
<1> QED BY <1>4, <1>6, <1>10, <1>11 DEF s, t

\* The first entry has the code 0.
LEMMA FirstEntry ==
  ASSUME NEW lens, Fits(lens), NEW e, Sorted(lens, e), Len(e) > 0
  PROVE  CodeOf(lens, e[1]) = 0
<1> DEFINE n == Cardinality(Coded(lens))
<1>1. lens \in [Symbol -> Nat]
  BY DEF Fits
<1>2. /\ n \in Nat /\ Len(e) = n
      /\ \A s \in Coded(lens) : \E j \in 1 .. n : e[j] = s
      /\ \A j, k \in 1 .. n : EntryBefore(lens, e[j], e[k]) <=> j < k
  BY <1>1, SortedTable
<1>3. Earlier(lens, e[1]) = {}
  <2> SUFFICES ASSUME NEW u \in Coded(lens), EntryBefore(lens, u, e[1])
               PROVE  FALSE
    BY DEF Earlier
  <2>1. PICK k \in 1 .. n : e[k] = u
    BY <1>2
  <2>2. 1 \in 1 .. n /\ ~(k < 1)
    <3> HIDE DEF n
    <3> QED BY <1>2
  <2> HIDE DEF n
  <2> QED BY <1>2, <2>1, <2>2
<1> QED BY <1>3, TakenNothing DEF CodeOf

\* What decompressFile reconstructs, without an undefined shift and without
\* running over.
LEMMA DecoderCodes ==
  ASSUME NEW lens, Fits(lens), \A s \in Symbol : lens[s] <= CodeWidth
  PROVE  /\ ShiftsDefined(lens)
         /\ \A s \in Symbol : Reconstructed(lens)[s] = IF lens[s] = 0 THEN 0 ELSE CodeOf(lens, s)
         /\ Reconstructed(lens) = [s \in Symbol |-> Reconstructed(lens)[s]]
<1> DEFINE e == Entries(lens)
           N == Len(e)
           body(f) == [i \in 1 .. N |-> IF i = 1 THEN 0 ELSE ((f[i - 1] + 1) * 2^Longer(lens, e, i)) % 2^WideWidth]
           code == CHOOSE f : f = body(f)
           B(i) == CodeOf(lens, e[i])
<1>1. lens \in [Symbol -> Nat]
  BY DEF Fits
<1>2. Sorted(lens, e)
  BY <1>1, EntriesSorted
<1> HIDE DEF e
<1>3. /\ N \in Nat /\ N = Cardinality(Coded(lens))
      /\ \A i \in 1 .. N : e[i] \in Coded(lens)
      /\ \A s \in Coded(lens) : \E i \in 1 .. N : e[i] = s
      /\ \A i, j \in 1 .. N : e[i] = e[j] => i = j
  BY <1>1, <1>2, SortedTable
<1>4. \A s \in Coded(lens) : s \in Symbol /\ lens[s] \in Nat /\ lens[s] <= CodeWidth
  BY <1>1, CodedFinite
<1>5. ShiftsDefined(lens)
  <2>1. ASSUME NEW i \in 2 .. Len(e)
        PROVE  Longer(lens, e, i) < WideWidth
    <3>1. Longer(lens, e, i) \in Nat /\ Longer(lens, e, i) < lens[e[i]] /\ e[i] \in Coded(lens)
      BY <1>2, NextEntry
    <3> QED BY <1>4, <3>1, CodeAssumption
  <2> QED BY <2>1 DEF ShiftsDefined, e
<1>6. \A i \in 1 .. N : i # 1 => B(i) = ((B(i - 1) + 1) * 2^Longer(lens, e, i)) % 2^WideWidth
  <2> SUFFICES ASSUME NEW i \in 1 .. N, i # 1
               PROVE  B(i) = ((B(i - 1) + 1) * 2^Longer(lens, e, i)) % 2^WideWidth
    OBVIOUS
  <2>1. i \in 2 .. Len(e)
    BY <1>3
  <2>2. B(i) = (B(i - 1) + 1) * 2^Longer(lens, e, i) /\ e[i] \in Coded(lens)
    BY <1>2, <2>1, NextEntry
  <2>3. B(i) \in Nat /\ B(i) + 1 <= 2^lens[e[i]]
    BY <2>2, CodeFits
  <2>4. 2^lens[e[i]] <= 2^WideWidth /\ 2^lens[e[i]] \in Nat /\ 2^WideWidth \in Nat
    <3>1. lens[e[i]] \in Nat /\ lens[e[i]] <= WideWidth /\ WideWidth \in Nat
      BY <1>4, <2>2, CodeAssumption
    <3> QED BY <3>1, PowersGrow, PowerType
  <2> DEFINE u == B(i)  v == 2^lens[e[i]]  w == 2^WideWidth
  <2>5. u \in Nat /\ v \in Nat /\ w \in Nat /\ u + 1 <= v /\ v <= w
    BY <2>3, <2>4
  <2>6. u % w = u
    <3> HIDE DEF u, v, w
    <3> QED BY <2>5
  <2> QED BY <2>2, <2>6
<1>7. 1 \in 1 .. N => B(1) = 0
  <2>1. 1 \in 1 .. N => Len(e) > 0
    BY <1>3
  <2> QED BY <1>2, <2>1, FirstEntry
<1>8. \E f : f = body(f)
  <2> DEFINE f == [i \in 1 .. N |-> B(i)]
  <2>1. \A i \in 1 .. N : f[i] = IF i = 1 THEN 0 ELSE ((f[i - 1] + 1) * 2^Longer(lens, e, i)) % 2^WideWidth
    <3> TAKE i \in 1 .. N
    <3>1. f[i] = B(i) /\ (i # 1 => f[i - 1] = B(i - 1))
      <4>1. i # 1 => i - 1 \in 1 .. N
        BY <1>3
      <4> HIDE DEF B
      <4> QED BY <4>1
    <3> HIDE DEF B, f, N
    <3> QED BY <3>1, <1>6, <1>7
  <2>2. f = body(f)
    <3>1. f = [i \in 1 .. N |-> f[i]]
      OBVIOUS
    <3> HIDE DEF B, f, N
    <3> QED BY <2>1, <3>1
  <2> HIDE DEF f, body
  <2> QED BY <2>2
<1>9. code = body(code)
  <2> HIDE DEF body
  <2> QED BY <1>8
<1>10. \A i \in 1 .. N : code[i] = IF i = 1 THEN 0 ELSE ((code[i - 1] + 1) * 2^Longer(lens, e, i)) % 2^WideWidth
  <2> HIDE DEF code, N
  <2> QED BY <1>9
<1> DEFINE G == {i \in Nat : i + 1 <= N => code[i + 1] = B(i + 1)}
<1>11. G = Nat
  <2> HIDE DEF code, B, N
  <2>1. 0 \in G
    <3>1. 0 + 1 = 1 /\ (1 <= N => 1 \in 1 .. N)
      BY <1>3
    <3> QED BY <1>7, <1>10, <3>1
  <2>2. ASSUME NEW i \in G
        PROVE  i + 1 \in G
    <3> SUFFICES ASSUME (i + 1) + 1 <= N
                 PROVE  code[(i + 1) + 1] = B((i + 1) + 1)
      OBVIOUS
    <3>1. (i + 1) + 1 \in 1 .. N /\ (i + 1) + 1 # 1 /\ ((i + 1) + 1) - 1 = i + 1 /\ i + 1 <= N
      BY <1>3
    <3>2. code[i + 1] = B(i + 1)
      BY <3>1
    <3> QED BY <1>6, <1>10, <3>1, <3>2
  <2>3. G \in SUBSET Nat
    OBVIOUS
  <2> HIDE DEF G
  <2> QED BY <2>1, <2>2, <2>3, Induct
<1>12. \A i \in 1 .. N : code[i] = CodeOf(lens, e[i])
  <2> TAKE i \in 1 .. N
  <2> HIDE DEF code, N
  <2>1. i - 1 \in Nat /\ (i - 1) + 1 = i /\ i <= N
    BY <1>3
  <2>2. i - 1 \in G
    BY <1>11, <2>1
  <2> QED BY <2>1, <2>2
<1>13. Reconstructed(lens)
         = [s \in Symbol |-> IF lens[s] = 0 THEN 0 ELSE code[CHOOSE i \in 1 .. N : e[i] = s]]
  BY DEF Reconstructed, e
<1>14. \A s \in Coded(lens) : code[CHOOSE i \in 1 .. N : e[i] = s] = CodeOf(lens, s)
  <2> TAKE s \in Coded(lens)
  <2> DEFINE j == CHOOSE i \in 1 .. N : e[i] = s
  <2> HIDE DEF code, N
  <2>1. j \in 1 .. N /\ e[j] = s
    BY <1>3
  <2> HIDE DEF j
  <2> QED BY <1>12, <2>1 DEF j
<1>15. \A s \in Symbol : lens[s] # 0 => s \in Coded(lens)
  BY <1>1 DEF Coded
<1> HIDE DEF code, N
<1> QED BY <1>5, <1>13, <1>14, <1>15

-----------------------------------------------------------------------------
(* The beginnings of codes. *)

\* Quotient and remainder.
LEMMA Divide ==
  ASSUME NEW a \in Nat, NEW c \in Nat, c > 0
  PROVE  /\ a \div c \in Nat /\ a % c \in Nat /\ a % c < c
         /\ a = c * (a \div c) + (a % c)
OBVIOUS

\* Halving a quotient.
LEMMA HalfQuotient ==
  ASSUME NEW a \in Nat, NEW c \in Nat, c > 0
  PROVE  a \div (2 * c) = (a \div c) \div 2
<1>1. PICK q \in Nat, r \in Nat : r < c /\ a = c * q + r /\ q = a \div c
  BY Divide
<1>2. PICK h \in Nat, b \in Nat : b < 2 /\ q = 2 * h + b /\ h = q \div 2
  <2>1. 2 \in Nat /\ 2 > 0
    OBVIOUS
  <2> QED BY <2>1, Divide
<1>3. a = (2 * c) * h + (c * b + r)
  <2>1. c * (2 * h + b) = (2 * c) * h + c * b
    OBVIOUS
  <2>2. (2 * c) * h \in Nat /\ c * b \in Nat
    OBVIOUS
  <2> QED BY <1>1, <1>2, <2>1, <2>2
<1>4. c * b + r \in Nat /\ c * b + r < 2 * c
  <2>1. b = 0 \/ b = 1
    BY <1>2
  <2>2. CASE b = 0
    <3>1. c * b = 0
      BY <2>2
    <3> QED BY <1>1, <3>1
  <2>3. CASE b = 1
    <3>1. c * b = c
      BY <2>3
    <3> QED BY <1>1, <3>1
  <2> QED BY <2>1, <2>2, <2>3
<1>5. PICK r2 \in Nat, c2 \in Nat : r2 = c * b + r /\ c2 = 2 * c /\ c2 > 0 /\ r2 < c2
  BY <1>4
<1>6. (c2 * h + r2) \div c2 = h
  BY <1>5, Quotient
<1> QED BY <1>1, <1>2, <1>3, <1>5, <1>6

\* A quotient is not less than what it is known to hold.
LEMMA QuotientAtLeast ==
  ASSUME NEW a \in Nat, NEW c \in Nat, c > 0, NEW q \in Nat, c * q <= a
  PROVE  q <= a \div c
<1>1. PICK h \in Nat, r \in Nat : r < c /\ a = c * h + r /\ h = a \div c
  BY Divide
<1> SUFFICES ASSUME h + 1 <= q
             PROVE  FALSE
  BY <1>1
<1>2. c * (h + 1) <= c * q
  OBVIOUS
<1>3. c * (h + 1) = c * h + c /\ c * h \in Nat /\ c * q \in Nat
  OBVIOUS
<1> QED BY <1>1, <1>2, <1>3

\* The first k of the n bits of x, as a number.
Upper(x, n, k) == x \div 2^(n - k)

\* The upper k bits of a code, which the decoder has after k bits, and how the next bit joins them.
LEMMA UpperBits ==
  ASSUME NEW n \in Nat, NEW x \in Nat, x < 2^n
  PROVE  /\ Upper(x, n, 0) = 0 /\ Upper(x, n, n) = x
         /\ \A k \in 0 .. n : Upper(x, n, k) \in Nat
         /\ \A k \in 0 .. n - 1 : Upper(x, n, k + 1) = 2 * Upper(x, n, k) + BitsOf(x, n)[k + 1]
         /\ BitsOf(x, n) \in [1 .. n -> {0, 1}]
<1>1. \A k \in 0 .. n : n - k \in Nat /\ 2^(n - k) \in Nat /\ 2^(n - k) > 0
  <2> TAKE k \in 0 .. n
  <2>1. n - k \in Nat
    OBVIOUS
  <2> QED BY <2>1, PowerType
<1>2. \A k \in 0 .. n : Upper(x, n, k) \in Nat
  BY <1>1, Divide DEF Upper
<1>3. Upper(x, n, 0) = 0
  <2>1. n - 0 = n /\ 0 \in 0 .. n
    OBVIOUS
  <2>2. 2^n \in Nat /\ 2^n > 0
    BY PowerType
  <2> DEFINE c == 2^n
  <2>3. x \div c = 0
    <3>1. c \in Nat /\ x < c
      BY <2>2
    <3> HIDE DEF c
    <3> QED BY <3>1
  <2> QED BY <2>1, <2>3 DEF Upper
<1>4. Upper(x, n, n) = x
  <2>1. n - n = 0 /\ 2^0 = 1 /\ x \div 1 = x
    OBVIOUS
  <2> QED BY <2>1 DEF Upper
<1>5. \A k \in 1 .. n : BitsOf(x, n)[k] = Upper(x, n, k) % 2
  BY DEF BitsOf, Upper
<1>6. ASSUME NEW k \in 0 .. n - 1
      PROVE  Upper(x, n, k + 1) = 2 * Upper(x, n, k) + BitsOf(x, n)[k + 1]
  <2>1. k \in 0 .. n /\ k + 1 \in 0 .. n /\ k + 1 \in 1 .. n
    OBVIOUS
  <2>2. PICK m \in Nat : m = n - (k + 1) /\ n - k = m + 1
    <3>1. n - (k + 1) \in Nat /\ n - k = (n - (k + 1)) + 1
      OBVIOUS
    <3> QED BY <3>1
  <2>3. PICK c \in Nat : c = 2^m /\ c > 0 /\ 2^(m + 1) = 2 * c
    BY PowerType
  <2>4. x \div (2 * c) = (x \div c) \div 2
    BY <2>3, HalfQuotient
  <2>5. Upper(x, n, k) = Upper(x, n, k + 1) \div 2
    BY <2>2, <2>3, <2>4 DEF Upper
  <2> DEFINE u == Upper(x, n, k + 1)
  <2>6. u \in Nat
    BY <1>2, <2>1
  <2>7. u = 2 * (u \div 2) + (u % 2)
    <3> HIDE DEF u
    <3> QED BY <2>6
  <2> QED BY <1>5, <2>1, <2>5, <2>7
<1>7. BitsOf(x, n) \in [1 .. n -> {0, 1}]
  <2>1. \A k \in 1 .. n : BitsOf(x, n)[k] \in {0, 1}
    <3> TAKE k \in 1 .. n
    <3>1. Upper(x, n, k) \in Nat
      BY <1>2
    <3> DEFINE u == Upper(x, n, k)
    <3>2. u % 2 \in {0, 1}
      <4>1. u \in Nat /\ 2 \in Nat /\ 2 > 0
        BY <3>1
      <4> HIDE DEF u
      <4>2. u % 2 \in Nat /\ u % 2 < 2
        BY <4>1
      <4> QED BY <4>2
    <3> QED BY <1>5, <3>2
  <2>2. BitsOf(x, n) = [k \in 1 .. n |-> BitsOf(x, n)[k]]
    BY DEF BitsOf
  <2> QED BY <2>1, <2>2
<1> QED BY <1>2, <1>3, <1>4, <1>6, <1>7

\* Numbers whose first bits agree.
LEMMA SameBits ==
  ASSUME NEW m \in Nat, NEW n \in Nat, m <= n, NEW x \in Nat, x < 2^m, NEW y \in Nat, y < 2^n,
         \A k \in 1 .. m : BitsOf(x, m)[k] = BitsOf(y, n)[k]
  PROVE  Upper(y, n, m) = x
<1>1. /\ Upper(x, m, 0) = 0 /\ Upper(x, m, m) = x
      /\ \A k \in 0 .. m - 1 : Upper(x, m, k + 1) = 2 * Upper(x, m, k) + BitsOf(x, m)[k + 1]
  BY UpperBits
<1>2. /\ Upper(y, n, 0) = 0
      /\ \A k \in 0 .. n - 1 : Upper(y, n, k + 1) = 2 * Upper(y, n, k) + BitsOf(y, n)[k + 1]
  BY UpperBits
<1> DEFINE G == {k \in Nat : k <= m => Upper(x, m, k) = Upper(y, n, k)}
<1>3. 0 \in G
  BY <1>1, <1>2
<1>4. ASSUME NEW k \in G
      PROVE  k + 1 \in G
  <2> SUFFICES ASSUME k + 1 <= m
               PROVE  Upper(x, m, k + 1) = Upper(y, n, k + 1)
    OBVIOUS
  <2>1. k \in 0 .. m - 1 /\ k \in 0 .. n - 1 /\ k + 1 \in 1 .. m
    OBVIOUS
  <2>2. Upper(x, m, k) = Upper(y, n, k)
    BY <2>1
  <2> QED BY <1>1, <1>2, <2>1, <2>2
<1>5. G = Nat
  <2>1. G \in SUBSET Nat
    OBVIOUS
  <2> HIDE DEF G
  <2> QED BY <1>3, <1>4, <2>1, Induct
<1>6. Upper(x, m, m) = Upper(y, n, m)
  <2>1. m \in G
    <3> HIDE DEF G
    <3> QED BY <1>5
  <2> QED BY <2>1
<1> QED BY <1>1, <1>6

\* What a later code begins with is behind an earlier one.
LEMMA UpperBehind ==
  ASSUME NEW lens, Fits(lens), NEW s \in Coded(lens), NEW t \in Coded(lens), EntryBefore(lens, s, t)
  PROVE  CodeOf(lens, s) + 1 <= Upper(CodeOf(lens, t), lens[t], lens[s])
<1>1. CodeOf(lens, s) \in Nat /\ CodeOf(lens, t) \in Nat
  BY CodeFits
<1>2. lens[t] - lens[s] \in Nat /\ 2^(lens[t] - lens[s]) * (CodeOf(lens, s) + 1) <= CodeOf(lens, t)
  BY CodesApart
<1>3. PICK c \in Nat : c > 0 /\ c = 2^(lens[t] - lens[s])
  BY <1>2, PowerType
<1>4. PICK q \in Nat : q = CodeOf(lens, s) + 1
  BY <1>1
<1>5. PICK a \in Nat : a = CodeOf(lens, t)
  BY <1>1
<1>6. q <= a \div c
  BY <1>2, <1>3, <1>4, <1>5, QuotientAtLeast
<1> QED BY <1>3, <1>4, <1>5, <1>6 DEF Upper

\* No code is the beginning of another one.
LEMMA NoPrefix ==
  ASSUME NEW lens, Fits(lens), NEW s \in Coded(lens), NEW t \in Coded(lens), s # t
  PROVE  ~IsPrefix(BitsOf(CodeOf(lens, s), lens[s]), BitsOf(CodeOf(lens, t), lens[t]))
<1>1. PICK m \in Nat, n \in Nat, x \in Nat, y \in Nat :
        /\ m = lens[s] /\ n = lens[t] /\ x = CodeOf(lens, s) /\ y = CodeOf(lens, t)
        /\ x < 2^m /\ y < 2^n
  <2>1. lens[s] \in Nat /\ lens[t] \in Nat
    BY CodedFinite DEF Fits
  <2>2. CodeOf(lens, s) \in Nat /\ CodeOf(lens, s) < 2^lens[s]
    <3>1. CodeOf(lens, s) \in Nat /\ CodeOf(lens, s) + 1 <= 2^lens[s]
      BY CodeFits
    <3>2. 2^lens[s] \in Nat
      BY <2>1, PowerType
    <3> QED BY <3>1, <3>2
  <2>3. CodeOf(lens, t) \in Nat /\ CodeOf(lens, t) < 2^lens[t]
    <3>1. CodeOf(lens, t) \in Nat /\ CodeOf(lens, t) + 1 <= 2^lens[t]
      BY CodeFits
    <3>2. 2^lens[t] \in Nat
      BY <2>1, PowerType
    <3> QED BY <3>1, <3>2
  <2> QED BY <2>1, <2>2, <2>3
<1> DEFINE p == BitsOf(x, m)  q == BitsOf(y, n)
<1> SUFFICES ASSUME IsPrefix(p, q)
             PROVE  FALSE
  BY <1>1
<1>2. p \in [1 .. m -> {0, 1}] /\ q \in [1 .. n -> {0, 1}]
  BY <1>1, UpperBits
<1>3. m <= n /\ \A k \in 1 .. m : p[k] = q[k]
  <2> HIDE DEF p, q
  <2>1. p \in Seq({0, 1}) /\ q \in Seq({0, 1}) /\ Len(p) = m /\ Len(q) = n
    BY <1>2
  <2>2. m <= n /\ SubSeq(p, 1, m) = SubSeq(q, 1, m)
    BY <2>1 DEF IsPrefix
  <2>3. \A k \in 1 .. m : SubSeq(p, 1, m)[k] = p[k] /\ SubSeq(q, 1, m)[k] = q[k]
    BY <2>1, <2>2
  <2> QED BY <2>2, <2>3
<1>4. Upper(y, n, m) = x
  <2>1. \A k \in 1 .. m : BitsOf(x, m)[k] = BitsOf(y, n)[k]
    BY <1>3
  <2>2. m <= n
    BY <1>3
  <2>3. x < 2^m /\ y < 2^n
    BY <1>1
  <2> HIDE DEF p, q
  <2> QED BY <2>1, <2>2, <2>3, SameBits
<1>5. EntryBefore(lens, s, t) \/ EntryBefore(lens, t, s)
  BY CodedFinite, EntryOrder DEF Fits
<1>6. CASE EntryBefore(lens, s, t)
  <2>1. x + 1 <= Upper(y, n, m)
    BY <1>1, <1>6, UpperBehind
  <2> QED BY <1>4, <2>1
<1>7. CASE EntryBefore(lens, t, s)
  <2>1. y + 1 <= Upper(x, m, n) /\ m - n \in Nat
    BY <1>1, <1>7, UpperBehind, CodesApart
  <2>2. m = n
    BY <1>3, <2>1
  <2>3. Upper(x, m, n) = x /\ Upper(y, n, m) = y
    BY <1>1, <2>2, UpperBits
  <2> QED BY <1>4, <2>1, <2>3
<1> QED BY <1>5, <1>6, <1>7

-----------------------------------------------------------------------------
(* The entries that the decoder looks up. *)

\* A set of naturals with a bound has a least and a greatest element.
LEMMA Greatest ==
  ASSUME NEW T \in SUBSET Nat, T # {}, NEW b \in Nat, \A k \in T : k <= b
  PROVE  \E m \in T : \A k \in T : k <= m
<1> DEFINE U == {b - k : k \in T}
<1>1. U \in SUBSET Nat /\ U # {}
  <2>1. \A k \in T : b - k \in Nat
    OBVIOUS
  <2>2. PICK k \in T : TRUE
    OBVIOUS
  <2>3. b - k \in U
    OBVIOUS
  <2>4. \A u \in U : u \in Nat
    BY <2>1
  <2> HIDE DEF U
  <2> QED BY <2>3, <2>4
<1>2. PICK u \in U : \A v \in U : u <= v
  <2> HIDE DEF U
  <2> QED BY <1>1, Least
<1>3. PICK m \in T : u = b - m
  OBVIOUS
<1>4. \A k \in T : k <= m
  <2> TAKE k \in T
  <2>1. b - k \in U /\ k \in Nat /\ m \in Nat
    OBVIOUS
  <2>2. b - m <= b - k
    BY <1>2, <1>3, <2>1
  <2> QED BY <2>1, <2>2
<1> QED BY <1>4

\* The least number of a set is one of the set.
LEMMA MinOf ==
  ASSUME NEW T \in SUBSET Nat, T # {}
  PROVE  Min(T) \in T /\ \A k \in T : Min(T) <= k
<1>1. \E m \in T : \A k \in T : m <= k
  BY Least
<1> QED BY <1>1 DEF Min

\* Lengths do not decrease.
LEMMA LengthsAscend ==
  ASSUME NEW lens \in [Symbol -> Nat], NEW e, Sorted(lens, e),
         NEW k \in 1 .. Len(e), NEW m \in 1 .. Len(e), k <= m
  PROVE  lens[e[k]] <= lens[e[m]]
<1>1. /\ Len(e) \in Nat /\ \A i \in 1 .. Len(e) : e[i] \in Coded(lens)
      /\ \A i, j \in 1 .. Len(e) : EntryBefore(lens, e[i], e[j]) <=> i < j
  BY SortedTable
<1>2. lens[e[k]] \in Nat /\ lens[e[m]] \in Nat
  BY <1>1, CodedFinite
<1>3. CASE k = m
  BY <1>2, <1>3
<1>4. CASE k # m
  <2>1. EntryBefore(lens, e[k], e[m])
    BY <1>1, <1>4
  <2> QED BY <1>2, <2>1 DEF EntryBefore
<1> QED BY <1>3, <1>4

\* The codes of a row are consecutive.
LEMMA RowCodes ==
  ASSUME NEW lens, Fits(lens), NEW e, Sorted(lens, e),
         NEW i \in 1 .. Len(e), NEW j \in 1 .. Len(e), i <= j, lens[e[i]] = lens[e[j]]
  PROVE  CodeOf(lens, e[j]) = CodeOf(lens, e[i]) + (j - i)
<1> DEFINE N == Len(e)
<1>1. lens \in [Symbol -> Nat]
  BY DEF Fits
<1>2. /\ N \in Nat /\ \A k \in 1 .. N : e[k] \in Coded(lens)
      /\ \A k, m \in 1 .. N : EntryBefore(lens, e[k], e[m]) <=> k < m
  BY <1>1, SortedTable
<1> HIDE DEF N
<1>3. \A k \in 1 .. N : lens[e[k]] \in Nat /\ CodeOf(lens, e[k]) \in Nat
  BY <1>1, <1>2, CodedFinite, CodeFits
<1>4. \A k, m \in 1 .. N : k <= m => lens[e[k]] <= lens[e[m]]
  BY <1>1, LengthsAscend DEF N
<1>5. i \in 1 .. N /\ j \in 1 .. N
  BY DEF N
<1> DEFINE G == {d \in Nat : i + d <= j => CodeOf(lens, e[i + d]) = CodeOf(lens, e[i]) + d}
<1>6. 0 \in G
  <2>1. i + 0 = i /\ CodeOf(lens, e[i]) \in Nat
    BY <1>3, <1>5
  <2> QED BY <2>1
<1>7. ASSUME NEW d \in G
      PROVE  d + 1 \in G
  <2> SUFFICES ASSUME i + (d + 1) <= j
               PROVE  CodeOf(lens, e[i + (d + 1)]) = CodeOf(lens, e[i]) + (d + 1)
    OBVIOUS
  <2>1. PICK k \in 1 .. N : k = i + (d + 1)
    BY <1>2, <1>5
  <2>2. k \in 2 .. N /\ k - 1 = i + d /\ k - 1 \in 1 .. N /\ i <= k - 1 /\ k <= j /\ i + d <= j
    BY <1>2, <1>5, <2>1
  <2>3. CodeOf(lens, e[k - 1]) = CodeOf(lens, e[i]) + d
    BY <2>2
  <2>4. lens[e[k]] = lens[e[k - 1]]
    <3>1. /\ lens[e[i]] <= lens[e[k - 1]] /\ lens[e[k - 1]] <= lens[e[k]] /\ lens[e[k]] <= lens[e[j]]
          /\ lens[e[i]] \in Nat /\ lens[e[k]] \in Nat /\ lens[e[k - 1]] \in Nat
      <4>1. k - 1 <= k
        BY <1>2, <2>1
      <4> QED BY <1>3, <1>4, <1>5, <2>1, <2>2, <4>1
    <3> QED BY <3>1
  <2>5. Longer(lens, e, k) = 0
    <3>1. lens[e[k]] \in Nat
      BY <1>3
    <3> QED BY <2>4, <3>1 DEF Longer
  <2>6. CodeOf(lens, e[k]) = (CodeOf(lens, e[k - 1]) + 1) * 2^Longer(lens, e, k)
    BY <2>2, NextEntry DEF N
  <2>7. 2^0 = 1 /\ CodeOf(lens, e[i]) \in Nat /\ CodeOf(lens, e[k - 1]) \in Nat
    BY <1>3, <1>5, <2>2
  <2>8. CodeOf(lens, e[k]) = CodeOf(lens, e[k - 1]) + 1
    BY <2>5, <2>6, <2>7
  <2> QED BY <2>1, <2>3, <2>7, <2>8
<1>8. G = Nat
  <2>1. G \in SUBSET Nat
    OBVIOUS
  <2> HIDE DEF G
  <2> QED BY <1>6, <1>7, <2>1, Induct
<1>9. j - i \in G
  <2>1. j - i \in Nat
    BY <1>2, <1>5
  <2> HIDE DEF G
  <2> QED BY <1>8, <2>1
<1>10. i + (j - i) = j
  BY <1>2, <1>5
<1> QED BY <1>9, <1>10, <1>2, <1>5

\* A beginning of a longer code is not in the row of its length,
LEMMA BeginningMisses ==
  ASSUME NEW lens, Fits(lens), NEW e, Sorted(lens, e), NEW codes_, \A t \in Coded(lens) : codes_[t] = CodeOf(lens, t),
         NEW s \in Coded(lens), NEW n \in Nat, n < lens[s]
  PROVE  ~Hit(lens, e, codes_, Upper(CodeOf(lens, s), lens[s], n), n)
<1> DEFINE row == Row(lens, e, n)
           first == Min(row)
           current == Upper(CodeOf(lens, s), lens[s], n)
<1> SUFFICES ASSUME row # {}
             PROVE  ~(current - codes_[e[first]] < Cardinality(row))
  BY DEF Hit
<1>1. lens \in [Symbol -> Nat]
  BY DEF Fits
<1>2. /\ Len(e) \in Nat /\ \A k \in 1 .. Len(e) : e[k] \in Coded(lens)
  BY <1>1, SortedTable
<1>3. row \in SUBSET Nat /\ \A k \in row : k <= Len(e)
  BY <1>2 DEF Row
<1>4. first \in row /\ \A k \in row : first <= k
  <2> HIDE DEF row
  <2> QED BY <1>3, MinOf
<1>5. PICK last \in row : \A k \in row : k <= last
  <2> HIDE DEF row
  <2> QED BY <1>2, <1>3, Greatest
<1> HIDE DEF first
<1>6. /\ first \in 1 .. Len(e) /\ last \in 1 .. Len(e) /\ first <= last
      /\ lens[e[first]] = n /\ lens[e[last]] = n
  BY <1>4, <1>5 DEF Row
<1>7. Cardinality(row) <= last - first + 1 /\ Cardinality(row) \in Nat
  <2>1. row \in SUBSET (first .. last)
    <3> HIDE DEF row
    <3> QED BY <1>3, <1>4, <1>5
  <2>2. IsFiniteSet(first .. last) /\ Cardinality(first .. last) = last - first + 1
    <3>1. first \in Int /\ last \in Int /\ ~(first > last)
      BY <1>2, <1>6
    <3> QED BY <3>1, FS_Interval
  <2> HIDE DEF row
  <2>3. IsFiniteSet(row) /\ Cardinality(row) <= Cardinality(first .. last)
    BY <2>1, <2>2, FS_Subset
  <2> QED BY <2>2, <2>3, FS_CardinalityType
<1>8. CodeOf(lens, e[last]) = CodeOf(lens, e[first]) + (last - first)
  <2>1. lens[e[first]] = lens[e[last]]
    BY <1>6
  <2> QED BY <1>6, <2>1, RowCodes
<1>9. CodeOf(lens, e[last]) + 1 <= current
  <2>1. e[last] \in Coded(lens) /\ EntryBefore(lens, e[last], s)
    BY <1>2, <1>6 DEF EntryBefore
  <2> QED BY <1>6, <2>1, UpperBehind
<1>10. /\ CodeOf(lens, e[first]) \in Nat /\ CodeOf(lens, e[last]) \in Nat
       /\ codes_[e[first]] = CodeOf(lens, e[first])
  BY <1>2, <1>6, CodeFits
<1>11. current \in Nat
  <2>1. CodeOf(lens, s) \in Nat /\ lens[s] \in Nat
    BY <1>1, CodeFits, CodedFinite
  <2>2. lens[s] - n \in Nat
    BY <2>1
  <2>3. 2^(lens[s] - n) \in Nat /\ 2^(lens[s] - n) > 0
    BY <2>2, PowerType
  <2> QED BY <2>1, <2>3, Divide DEF Upper
<1> HIDE DEF row, current
<1> QED BY <1>2, <1>6, <1>7, <1>8, <1>9, <1>10, <1>11

\* and a whole code is, at the place of its symbol.
LEMMA CodeHits ==
  ASSUME NEW lens, Fits(lens), NEW e, Sorted(lens, e), NEW codes_, \A t \in Coded(lens) : codes_[t] = CodeOf(lens, t),
         NEW s \in Coded(lens)
  PROVE  /\ Hit(lens, e, codes_, CodeOf(lens, s), lens[s])
         /\ Found(lens, e, codes_, CodeOf(lens, s), lens[s]) = s
<1> DEFINE row == Row(lens, e, lens[s])
           first == Min(row)
<1>1. lens \in [Symbol -> Nat]
  BY DEF Fits
<1>2. /\ Len(e) \in Nat /\ Len(e) = Cardinality(Coded(lens)) /\ \A k \in 1 .. Len(e) : e[k] \in Coded(lens)
      /\ \A t \in Coded(lens) : \E k \in 1 .. Len(e) : e[k] = t
  BY <1>1, SortedTable
<1>3. PICK i \in 1 .. Len(e) : e[i] = s
  BY <1>2
<1>4. row \in SUBSET Nat /\ i \in row
  BY <1>2, <1>3 DEF Row
<1>5. first \in row /\ \A k \in row : first <= k
  <2>1. row # {}
    BY <1>4
  <2> HIDE DEF row
  <2> QED BY <1>4, <2>1, MinOf
<1> HIDE DEF first
<1>6. first \in 1 .. Len(e) /\ first <= i /\ lens[e[first]] = lens[s]
  BY <1>4, <1>5 DEF Row
<1>7. CodeOf(lens, s) = CodeOf(lens, e[first]) + (i - first)
  <2>1. lens[e[first]] = lens[e[i]]
    BY <1>3, <1>6
  <2>2. CodeOf(lens, e[i]) = CodeOf(lens, e[first]) + (i - first)
    BY <1>3, <1>6, <2>1, RowCodes
  <2> QED BY <1>3, <2>2
<1>8. CodeOf(lens, e[first]) \in Nat /\ codes_[e[first]] = CodeOf(lens, e[first])
  BY <1>2, <1>6, CodeFits
<1>9. i - first \in Nat /\ CodeOf(lens, s) - codes_[e[first]] = i - first /\ CodeOf(lens, s) >= codes_[e[first]]
  <2>1. i \in Nat /\ first \in Nat
    BY <1>2, <1>6
  <2> QED BY <1>6, <1>7, <1>8, <2>1
<1>10. i - first < Cardinality(row)
  <2>1. first .. i \in SUBSET row
    <3> SUFFICES ASSUME NEW k \in first .. i
                 PROVE  k \in 1 .. Len(e) /\ lens[e[k]] = lens[s]
      BY DEF Row
    <3>1. k \in 1 .. Len(e) /\ first <= k /\ k <= i
      BY <1>2, <1>6
    <3>2. lens[e[first]] <= lens[e[k]] /\ lens[e[k]] <= lens[e[i]]
      BY <1>1, <1>6, <3>1, LengthsAscend
    <3>3. lens[s] \in Nat /\ lens[e[k]] \in Nat
      BY <1>1, <1>2, <3>1, CodedFinite
    <3> QED BY <1>3, <1>6, <3>1, <3>2, <3>3
  <2>2. IsFiniteSet(first .. i) /\ Cardinality(first .. i) = i - first + 1
    <3>1. first \in Int /\ i \in Int /\ ~(first > i)
      BY <1>2, <1>6
    <3> QED BY <3>1, FS_Interval
  <2>3. IsFiniteSet(row) /\ Cardinality(row) \in Nat
    <3>1. row \in SUBSET (1 .. Len(e))
      BY DEF Row
    <3>2. IsFiniteSet(1 .. Len(e))
      BY <1>2, FS_Interval
    <3> HIDE DEF row
    <3> QED BY <3>1, <3>2, FS_Subset, FS_CardinalityType
  <2> HIDE DEF row
  <2>4. Cardinality(first .. i) <= Cardinality(row)
    BY <2>1, <2>3, FS_Subset
  <2> QED BY <2>2, <2>3, <2>4, <1>9
<1>11. Hit(lens, e, codes_, CodeOf(lens, s), lens[s])
  <2>1. row # {}
    BY <1>4
  <2> QED BY <1>9, <1>10, <2>1 DEF Hit, first
<1>12. Found(lens, e, codes_, CodeOf(lens, s), lens[s]) = s
  <2>1. Found(lens, e, codes_, CodeOf(lens, s), lens[s]) = e[first + (CodeOf(lens, s) - codes_[e[first]])]
    BY DEF Found, first
  <2>2. first + (i - first) = i
    BY <1>2, <1>6
  <2> QED BY <1>3, <1>9, <2>1, <2>2
<1> QED BY <1>11, <1>12

-----------------------------------------------------------------------------
(* The stream of codes. *)

\* Where the parts of a flattened sequence begin, given their lengths.
Off(f, m) == SumOf(f, 1 .. m)

\* Offsets grow by the parts they skip.
LEMMA OffSteps ==
  ASSUME NEW N \in Nat, NEW f, \A k \in 1 .. N : f[k] \in Nat
  PROVE  /\ Off(f, 0) = 0
         /\ \A m \in 0 .. N : Off(f, m) \in Nat
         /\ \A m \in 1 .. N : Off(f, m) = Off(f, m - 1) + f[m]
         /\ \A m \in 0 .. N : Off(f, m) <= Off(f, N)
<1>1. \A m \in 0 .. N : IsFiniteSet(1 .. m) /\ 1 .. m \in SUBSET (1 .. N)
  BY FS_Interval
<1>2. Off(f, 0) = 0
  <2>1. 1 .. 0 = {}
    OBVIOUS
  <2> QED BY <2>1, SumEmpty DEF Off
<1>3. \A m \in 0 .. N : Off(f, m) \in Nat
  <2> TAKE m \in 0 .. N
  <2>1. IsFiniteSet(1 .. m) /\ \A k \in 1 .. m : f[k] \in Nat
    BY <1>1
  <2> QED BY <2>1, SumType DEF Off
<1>4. \A m \in 1 .. N : Off(f, m) = Off(f, m - 1) + f[m]
  <2> TAKE m \in 1 .. N
  <2>1. 1 .. m = (1 .. m - 1) \union {m} /\ m \notin 1 .. m - 1 /\ m - 1 \in 0 .. N
    OBVIOUS
  <2>2. IsFiniteSet(1 .. m - 1) /\ \A k \in (1 .. m - 1) \union {m} : f[k] \in Nat
    BY <1>1, <2>1
  <2>3. SumOf(f, (1 .. m - 1) \union {m}) = SumOf(f, 1 .. m - 1) + f[m]
    BY <2>1, <2>2, SumAdd
  <2> QED BY <2>1, <2>3 DEF Off
<1>5. \A m \in 0 .. N : Off(f, m) <= Off(f, N)
  <2> TAKE m \in 0 .. N
  <2>1. \A k \in 1 .. m : f[k] \in Nat /\ f[k] <= f[k]
    OBVIOUS
  <2>2. IsFiniteSet(1 .. N) /\ 1 .. m \in SUBSET (1 .. N)
    BY <1>1
  <2> QED BY <2>1, <2>2, SumMono DEF Off
<1> QED BY <1>2, <1>3, <1>4, <1>5

\* Every place is in one of the parts.
LEMMA OffCovers ==
  ASSUME NEW N \in Nat, NEW f, \A k \in 1 .. N : f[k] \in Nat
  PROVE  \A p \in 1 .. Off(f, N) : \E m \in 1 .. N : \E j \in 1 .. f[m] : p = Off(f, m - 1) + j
<1>1. /\ Off(f, 0) = 0
      /\ \A m \in 0 .. N : Off(f, m) \in Nat
      /\ \A m \in 1 .. N : Off(f, m) = Off(f, m - 1) + f[m]
  BY OffSteps
<1> TAKE p \in 1 .. Off(f, N)
<1> DEFINE T == {m \in 1 .. N : p <= Off(f, m)}
<1>2. N \in T
  <2>1. N # 0
    BY <1>1
  <2>2. Off(f, N) \in Nat
    BY <1>1
  <2> QED BY <2>1, <2>2
<1>3. PICK m \in T : \A k \in T : m <= k
  <2>1. T \in SUBSET Nat /\ T # {}
    BY <1>2
  <2> HIDE DEF T
  <2> QED BY <2>1, Least
<1>4. m \in 1 .. N /\ p <= Off(f, m) /\ m - 1 \in 0 .. N
  OBVIOUS
<1>5. Off(f, m - 1) < p
  <2>1. CASE m = 1
    BY <1>1, <2>1
  <2>2. CASE m # 1
    <3>1. m - 1 \notin T /\ m - 1 \in 1 .. N
      BY <1>3, <2>2
    <3>2. Off(f, m - 1) \in Nat /\ p \in Nat
      BY <1>1, <1>4
    <3> QED BY <3>1, <3>2
  <2> QED BY <2>1, <2>2
<1>6. p - Off(f, m - 1) \in 1 .. f[m] /\ p = Off(f, m - 1) + (p - Off(f, m - 1))
  <2>1. Off(f, m - 1) \in Nat /\ Off(f, m) \in Nat /\ p \in Nat /\ f[m] \in Nat /\ Off(f, m) = Off(f, m - 1) + f[m]
    BY <1>1, <1>4
  <2> QED BY <1>4, <1>5, <2>1
<1> QED BY <1>4, <1>6

\* N sequences over B and their lengths; a sequence made of them.
PartsOf(q, f, N, B) == q \in [1 .. N -> Seq(B)] /\ \A k \in 1 .. N : f[k] = Len(q[k])

MadeOf(s, q, f, N, B) ==
  /\ s \in Seq(B) /\ Len(s) = Off(f, N)
  /\ \A m \in 1 .. N : \A j \in 1 .. f[m] : s[Off(f, m - 1) + j] = q[m][j]

\* What FlattenSeq returns.
LEMMA Flatten ==
  ASSUME NEW B, NEW N \in Nat, NEW q, NEW f, PartsOf(q, f, N, B)
  PROVE  MadeOf(FlattenSeq(q), q, f, N, B)
<1> SUFFICES /\ FlattenSeq(q) \in Seq(B) /\ Len(FlattenSeq(q)) = Off(f, N)
             /\ \A m \in 1 .. N : \A j \in 1 .. f[m] : FlattenSeq(q)[Off(f, m - 1) + j] = q[m][j]
  BY DEF MadeOf
<1>1. q \in [1 .. N -> Seq(B)] /\ \A k \in 1 .. N : f[k] = Len(q[k])
  BY DEF PartsOf
<1>2. Len(q) = N
  BY <1>1
<1>3. \A k \in 1 .. N : f[k] \in Nat /\ q[k] \in Seq(B) /\ f[k] = Len(q[k])
  BY <1>1, LenProperties
<1>4. /\ Off(f, 0) = 0
      /\ \A m \in 0 .. N : Off(f, m) \in Nat
      /\ \A m \in 1 .. N : Off(f, m) = Off(f, m - 1) + f[m]
  BY <1>3, OffSteps
<1>5. CASE N = 0
  <2>1. FlattenSeq(q) = q
    BY <1>2, <1>5 DEF FlattenSeq
  <2>2. q = << >>
    BY <1>1, <1>5
  <2>3. Off(f, N) = 0
    BY <1>4, <1>5
  <2> QED BY <1>5, <2>1, <2>2, <2>3
<1>6. CASE N # 0
  <2> DEFINE body(x) == [i \in 1 .. Len(q) |-> IF i = 1 THEN q[i] ELSE x[i - 1] \o q[i]]
             flat == CHOOSE x : x = body(x)
  <2>1. \E x : x = body(x)
    <3> DEFINE g == [x \in Nat \X Seq(B) |-> IF x[1] \in 1 .. N THEN x[2] \o q[x[1]] ELSE x[2]]
    <3>1. g \in [Nat \X Seq(B) -> Seq(B)]
      <4>1. \A x \in Nat \X Seq(B) : x[1] \in 1 .. N => x[2] \o q[x[1]] \in Seq(B)
        <5> TAKE x \in Nat \X Seq(B)
        <5>1. x[1] \in 1 .. N => x[2] \in Seq(B) /\ q[x[1]] \in Seq(B)
          BY <1>3
        <5> QED BY <5>1, ConcatProperties
      <4> QED BY <4>1
    <3>2. << >> \in Seq(B)
      OBVIOUS
    <3>3. PICK x \in [0 .. N -> Seq(B)] : x[0] = << >> /\ \A n \in 1 .. N : x[n] = g[<<n, x[n - 1]>>]
      <4> HIDE DEF g
      <4>1. StepOf(g, Seq(B))
        BY <3>1 DEF StepOf
      <4>2. \E x : ValuesOf(x, N, Seq(B), << >>, g)
        BY <3>2, <4>1, Recursion
      <4> QED BY <4>2 DEF ValuesOf
    <3>4. \A n \in 1 .. N : x[n] = x[n - 1] \o q[n]
      <4> TAKE n \in 1 .. N
      <4>1. n - 1 \in 0 .. N
        OBVIOUS
      <4>2. x[n - 1] \in Seq(B)
        BY <4>1
      <4>3. <<n, x[n - 1]>> \in Nat \X Seq(B)
        BY <4>2
      <4>4. g[<<n, x[n - 1]>>] = x[n - 1] \o q[n]
        BY <4>3
      <4> QED BY <3>3, <4>4
    <3> DEFINE y == [n \in 1 .. N |-> x[n]]
    <3>5. \A i \in 1 .. N : y[i] = IF i = 1 THEN q[i] ELSE y[i - 1] \o q[i]
      <4> TAKE i \in 1 .. N
      <4>1. y[i] = x[i - 1] \o q[i]
        BY <3>4
      <4>2. CASE i = 1
        <5>1. x[i - 1] = << >> /\ q[i] \in Seq(B)
          BY <1>3, <3>3, <4>2
        <5>2. << >> \o q[i] = q[i]
          BY <5>1, ConcatEmptySeq
        <5> QED BY <4>1, <4>2, <5>1, <5>2
      <4>3. CASE i # 1
        <5>1. i - 1 \in 1 .. N
          BY <4>3
        <5>2. y[i - 1] = x[i - 1]
          BY <5>1
        <5> HIDE DEF y
        <5> QED BY <4>1, <4>3, <5>2
      <4> QED BY <4>2, <4>3
    <3>6. y = body(y)
      <4>1. y = [i \in 1 .. N |-> y[i]]
        OBVIOUS
      <4> HIDE DEF y
      <4>2. body(y) = [i \in 1 .. N |-> IF i = 1 THEN q[i] ELSE y[i - 1] \o q[i]]
        BY <1>2
      <4> HIDE DEF body
      <4> QED BY <3>5, <4>1, <4>2
    <3> HIDE DEF y, body
    <3> QED BY <3>6
  <2>2. flat = body(flat)
    <3> HIDE DEF body
    <3> QED BY <2>1
  <2>3. \A i \in 1 .. N : flat[i] = IF i = 1 THEN q[i] ELSE flat[i - 1] \o q[i]
    <3>1. flat = [i \in 1 .. N |-> IF i = 1 THEN q[i] ELSE flat[i - 1] \o q[i]]
      BY <1>2, <2>2
    <3> HIDE DEF flat
    <3> QED BY <3>1
  <2>4. FlattenSeq(q) = flat[N]
    BY <1>2, <1>6 DEF FlattenSeq
  <2> HIDE DEF flat
  <2> DEFINE P(n) == /\ flat[n] \in Seq(B) /\ Len(flat[n]) = Off(f, n)
                     /\ \A m \in 1 .. n : \A j \in 1 .. f[m] : flat[n][Off(f, m - 1) + j] = q[m][j]
             G == {n \in Nat : n + 1 <= N => P(n + 1)}
  <2>5. P(1)
    <3>1. 1 \in 1 .. N
      BY <1>6
    <3>2. flat[1] = q[1] /\ flat[1] \in Seq(B) /\ Len(flat[1]) = f[1]
      BY <1>3, <2>3, <3>1
    <3>3. Off(f, 1 - 1) = 0 /\ Off(f, 1) = f[1]
      <4>1. 1 - 1 = 0
        OBVIOUS
      <4>2. Off(f, 1) = Off(f, 1 - 1) + f[1] /\ f[1] \in Nat
        BY <1>3, <1>4, <3>1
      <4> QED BY <1>4, <4>1, <4>2
    <3>4. ASSUME NEW m \in 1 .. 1, NEW j \in 1 .. f[m]
          PROVE  flat[1][Off(f, m - 1) + j] = q[m][j]
      <4>1. m = 1
        OBVIOUS
      <4>2. Off(f, m - 1) + j = j
        BY <3>3, <4>1
      <4> QED BY <3>2, <4>1, <4>2
    <3> QED BY <3>2, <3>3, <3>4
  <2>6. ASSUME NEW n \in 1 .. N, n + 1 <= N, P(n)
        PROVE  P(n + 1)
    <3>1. n + 1 \in 1 .. N /\ n + 1 # 1 /\ (n + 1) - 1 = n /\ n \in 0 .. N
      BY <2>6
    <3>2. flat[n + 1] = flat[n] \o q[n + 1]
      BY <2>3, <3>1
    <3>3. flat[n] \in Seq(B) /\ q[n + 1] \in Seq(B) /\ Len(flat[n]) = Off(f, n) /\ Len(q[n + 1]) = f[n + 1]
      BY <1>3, <2>6, <3>1
    <3>4. /\ flat[n + 1] \in Seq(B) /\ Len(flat[n + 1]) = Off(f, n) + f[n + 1]
          /\ \A i \in 1 .. Off(f, n) + f[n + 1] :
               flat[n + 1][i] = IF i <= Off(f, n) THEN flat[n][i] ELSE q[n + 1][i - Off(f, n)]
      <4>1. PICK u \in Seq(B) : u = flat[n]
        BY <3>3
      <4>2. PICK v \in Seq(B) : v = q[n + 1]
        BY <3>3
      <4>3. /\ u \o v \in Seq(B) /\ Len(u \o v) = Len(u) + Len(v)
            /\ \A i \in 1 .. Len(u) + Len(v) : (u \o v)[i] = IF i <= Len(u) THEN u[i] ELSE v[i - Len(u)]
        BY ConcatProperties
      <4> QED BY <3>2, <3>3, <4>1, <4>2, <4>3
    <3>5. Off(f, n + 1) = Off(f, n) + f[n + 1] /\ Off(f, n) \in Nat /\ f[n + 1] \in Nat
      BY <1>3, <1>4, <3>1
    <3>6. ASSUME NEW m \in 1 .. n + 1, NEW j \in 1 .. f[m]
          PROVE  flat[n + 1][Off(f, m - 1) + j] = q[m][j]
      <4>1. m \in 1 .. N /\ m \in Nat /\ f[m] \in Nat /\ j \in Nat /\ j <= f[m] /\ 1 <= j
        BY <1>3, <3>1
      <4>2. Off(f, m - 1) \in Nat /\ Off(f, m) \in Nat /\ Off(f, m) = Off(f, m - 1) + f[m]
        <5>1. m - 1 \in 0 .. N /\ m \in 0 .. N
          BY <4>1
        <5> QED BY <1>4, <4>1, <5>1
      <4>3. CASE m = n + 1
        <5>1. m - 1 = n
          BY <4>1, <4>3
        <5>2. Off(f, n) + j \in 1 .. Off(f, n) + f[n + 1] /\ ~(Off(f, n) + j <= Off(f, n)) /\ (Off(f, n) + j) - Off(f, n) = j
          BY <3>5, <4>1, <4>3
        <5> QED BY <3>4, <4>3, <5>1, <5>2
      <4>4. CASE m # n + 1
        <5>1. m \in 1 .. n
          BY <4>4, <4>1
        <5>2. Off(f, m) <= Off(f, n)
          <6>1. \A k \in 1 .. n : f[k] \in Nat
            BY <1>3, <3>1
          <6>2. n \in Nat /\ m \in 0 .. n
            BY <5>1
          <6> QED BY <6>1, <6>2, OffSteps
        <5>3. Off(f, m - 1) + j \in 1 .. Off(f, n) + f[n + 1] /\ Off(f, m - 1) + j <= Off(f, n)
          <6> DEFINE a == Off(f, m - 1)  b == Off(f, n)  c == Off(f, m)
          <6>1. /\ a \in Nat /\ b \in Nat /\ c \in Nat /\ c = a + f[m] /\ c <= b
                /\ f[n + 1] \in Nat /\ f[m] \in Nat /\ j \in Nat /\ 1 <= j /\ j <= f[m]
            BY <3>5, <4>1, <4>2, <5>2
          <6> HIDE DEF a, b, c
          <6>2. a + j \in 1 .. b + f[n + 1] /\ a + j <= b
            BY <6>1
          <6> QED BY <6>2 DEF a, b
        <5>4. flat[n][Off(f, m - 1) + j] = q[m][j]
          BY <2>6, <5>1
        <5> QED BY <3>4, <5>3, <5>4
      <4> QED BY <4>3, <4>4
    <3> QED BY <3>4, <3>5, <3>6
  <2>7. G = Nat
    <3>1. 0 \in G
      <4>1. 0 + 1 = 1
        OBVIOUS
      <4> HIDE DEF P
      <4> QED BY <2>5, <4>1
    <3>2. ASSUME NEW n \in G
          PROVE  n + 1 \in G
      <4> SUFFICES ASSUME (n + 1) + 1 <= N
                   PROVE  P((n + 1) + 1)
        OBVIOUS
      <4> HIDE DEF P
      <4>1. n + 1 \in 1 .. N /\ n + 1 <= N
        OBVIOUS
      <4> QED BY <2>6, <4>1
    <3>3. G \in SUBSET Nat
      OBVIOUS
    <3> HIDE DEF G
    <3> QED BY <3>1, <3>2, <3>3, Induct
  <2>8. P(N)
    <3>1. N - 1 \in Nat /\ (N - 1) + 1 = N
      BY <1>6
    <3>2. N - 1 \in G
      <4> HIDE DEF G
      <4> QED BY <2>7, <3>1
    <3> HIDE DEF P
    <3> QED BY <3>1, <3>2
  <2> QED BY <2>4, <2>8
<1> QED BY <1>5, <1>6

-----------------------------------------------------------------------------
(* The tree. *)

\* A table of lengths that leaves no room.
Full(lens, S) == \A n \in Nat : Within(lens, n, S) => Taken(lens, n, S) = 2^n

\* What depends on the lengths of S alone.
LEMMA TakenEqual ==
  ASSUME NEW S, NEW lens, NEW other, NEW n, NEW m, \A s \in S : n - lens[s] = m - other[s]
  PROVE  Taken(lens, n, S) = Taken(other, m, S)
<1> DEFINE f == [s \in S |-> 2^(n - lens[s])]
           g == [s \in S |-> 2^(m - other[s])]
<1>1. \A s \in S : f[s] = g[s]
  OBVIOUS
<1>2. SumOf(f, S) = SumOf(g, S)
  <2> HIDE DEF f, g
  <2> QED BY <1>1, SumEqual
<1> QED BY <1>2 DEF Taken

\* A parent's table of lengths is full if its children's are.
LEMMA ParentFull ==
  ASSUME NEW S, NEW T, IsFiniteSet(S), IsFiniteSet(T), S # {}, S \cap T = {},
         NEW a, NEW b, NEW d, \A s \in S : a[s] \in Nat /\ d[s] = 1 + a[s],
         \A s \in T : b[s] \in Nat /\ d[s] = 1 + b[s],
         Full(a, S), Full(b, T)
  PROVE  Full(d, S \union T)
<1> SUFFICES ASSUME NEW n \in Nat, Within(d, n, S \union T)
             PROVE  Taken(d, n, S \union T) = 2^n
  BY DEF Full
<1>1. n # 0 /\ n - 1 \in Nat /\ (n - 1) + 1 = n
  <2>1. PICK s \in S : TRUE
    OBVIOUS
  <2>2. d[s] <= n /\ d[s] = 1 + a[s] /\ a[s] \in Nat
    BY DEF Within
  <2> QED BY <2>2
<1>2. Taken(d, n, S) = 2^(n - 1)
  <2>1. \A s \in S : n - d[s] = (n - 1) - a[s]
    OBVIOUS
  <2>2. Within(a, n - 1, S)
    BY DEF Within
  <2>3. Taken(d, n, S) = Taken(a, n - 1, S)
    BY <2>1, TakenEqual
  <2> QED BY <1>1, <2>2, <2>3 DEF Full
<1>3. Taken(d, n, T) = 2^(n - 1)
  <2>1. \A s \in T : n - d[s] = (n - 1) - b[s]
    OBVIOUS
  <2>2. Within(b, n - 1, T)
    BY DEF Within
  <2>3. Taken(d, n, T) = Taken(b, n - 1, T)
    BY <2>1, TakenEqual
  <2> QED BY <1>1, <2>2, <2>3 DEF Full
<1>4. Taken(d, n, S \union T) = Taken(d, n, S) + Taken(d, n, T)
  BY TakenUnion
<1>5. PICK m \in Nat : m = n - 1
  BY <1>1
<1>6. 2^m \in Nat /\ 2^(m + 1) = 2 * 2^m
  BY PowerType
<1>7. 2^n = 2 * 2^m
  BY <1>1, <1>5, <1>6
<1> QED BY <1>2, <1>3, <1>4, <1>5, <1>6, <1>7

\* Of nodes with different orders there is a first one.
LEMMA FirstOf ==
  ASSUME NEW nodes, IsFiniteSet(nodes), nodes # {},
         \A a \in nodes : a.weight \in Nat /\ a.order \in Nat,
         \A a, b \in nodes : a # b => a.order # b.order
  PROVE  First(nodes) \in nodes /\ \A b \in nodes \ {First(nodes)} : Before(First(nodes), b)
<1> DEFINE HasFirst(T) == \E a \in T : \A b \in T \ {a} : Before(a, b)
           P == {T \in SUBSET nodes : T = {} \/ HasFirst(T)}
<1>1. {} \in P
  OBVIOUS
<1>2. ASSUME NEW T \in P, NEW x \in nodes \ T
      PROVE  T \union {x} \in P
  <2> SUFFICES HasFirst(T \union {x})
    OBVIOUS
  <2>1. CASE T = {}
    BY <2>1
  <2>2. CASE T # {}
    <3>1. PICK a \in T : \A b \in T \ {a} : Before(a, b)
      BY <2>2
    <3>2. a \in nodes /\ a # x /\ x \in nodes /\ \A b \in T : b \in nodes
      OBVIOUS
    <3>3. CASE Before(a, x)
      <4>1. \A b \in (T \union {x}) \ {a} : Before(a, b)
        BY <3>1, <3>3
      <4> QED BY <4>1
    <3>4. CASE ~Before(a, x)
      <4>1. Before(x, a)
        BY <3>2, <3>4 DEF Before
      <4>2. ASSUME NEW b \in (T \union {x}) \ {x}
            PROVE  Before(x, b)
        <5>1. b = a \/ Before(a, b)
          BY <3>1
        <5> QED BY <3>2, <4>1, <5>1 DEF Before
      <4> QED BY <4>2
    <3> QED BY <3>3, <3>4
  <2> QED BY <2>1, <2>2
<1>3. nodes \in P
  <2>1. P \in SUBSET SUBSET nodes
    OBVIOUS
  <2> HIDE DEF P
  <2> QED BY <1>1, <1>2, <2>1, InductSet
<1>4. \E a \in nodes : \A b \in nodes \ {a} : Before(a, b)
  BY <1>3
<1> QED BY <1>4 DEF First

-----------------------------------------------------------------------------
(* The input. *)

Weights == [s \in Symbol |-> Frequency(s)]

\* How often a symbol occurs is a number, and so is how often those of a set do.
LEMMA Occurrences ==
  ASSUME input \in Seq(Symbol)
  PROVE  /\ \A s \in Symbol : Frequency(s) \in Nat /\ Weights[s] = Frequency(s)
         /\ Used \in SUBSET Symbol /\ IsFiniteSet(Used) /\ Cardinality(Used) \in Nat
         /\ \A T \in SUBSET Used : IsFiniteSet(T) /\ SumOf(Weights, T) \in Nat
         /\ \A k \in 1 .. Len(input) : input[k] \in Used
         /\ Len(input) \in Nat /\ DOMAIN input = 1 .. Len(input)
<1>1. Len(input) \in Nat /\ DOMAIN input = 1 .. Len(input) /\ IsFiniteSet(1 .. Len(input))
  BY FS_Interval
<1>2. \A s \in Symbol : /\ {k \in DOMAIN input : input[k] = s} \in SUBSET (1 .. Len(input))
                        /\ IsFiniteSet({k \in DOMAIN input : input[k] = s})
  BY <1>1, FS_Subset
<1>3. \A s \in Symbol : Frequency(s) \in Nat /\ Weights[s] = Frequency(s)
  BY <1>2, FS_CardinalityType DEF Frequency, Weights
<1>4. Used \in SUBSET Symbol /\ IsFiniteSet(Used) /\ Cardinality(Used) \in Nat
  <2>1. Used \in SUBSET Symbol
    BY DEF Used
  <2> QED BY <2>1, CodeAssumption, FS_Subset, FS_CardinalityType
<1>5. \A T \in SUBSET Used : IsFiniteSet(T) /\ SumOf(Weights, T) \in Nat
  <2> TAKE T \in SUBSET Used
  <2>1. IsFiniteSet(T)
    BY <1>4, FS_Subset
  <2>2. \A s \in T : Weights[s] \in Nat
    BY <1>3, <1>4
  <2> QED BY <2>1, <2>2, SumType
<1>6. \A k \in 1 .. Len(input) : input[k] \in Used
  <2> TAKE k \in 1 .. Len(input)
  <2>1. input[k] \in Symbol
    BY ElementOfSeq
  <2>2. k \in {j \in DOMAIN input : input[j] = input[k]}
    BY <1>1
  <2>3. Frequency(input[k]) # 0
    <3>1. {j \in DOMAIN input : input[j] = input[k]} # {} /\ IsFiniteSet({j \in DOMAIN input : input[j] = input[k]})
      BY <1>2, <2>1, <2>2
    <3>2. Cardinality({j \in DOMAIN input : input[j] = input[k]}) # 0
      BY <3>1, FS_EmptySet
    <3> QED BY <3>2 DEF Frequency
  <2> QED BY <1>3, <2>1, <2>3 DEF Used
<1> QED BY <1>1, <1>3, <1>4, <1>5, <1>6

\* The node of a symbol, and of two others.
Single(a) == \E s \in Used : DOMAIN a.depth = {s} /\ a.depth[s] = 0

NodeOk(a) ==
  /\ a.order \in Nat /\ a.order < next_order
  /\ DOMAIN a.depth \in SUBSET Used /\ DOMAIN a.depth # {}
  /\ \A s \in DOMAIN a.depth : a.depth[s] \in Nat
  /\ a.weight = SumOf(Weights, DOMAIN a.depth)
  /\ Full(a.depth, DOMAIN a.depth)
  /\ Single(a) \/ \A s \in DOMAIN a.depth : a.depth[s] > 0

\* The nodes without a parent have all used symbols among their leaves, each once.
Forest ==
  /\ IsFiniteSet(activeNodes) /\ activeNodes # {} /\ next_order \in Nat
  /\ \A a \in activeNodes : NodeOk(a)
  /\ \A a, b \in activeNodes : a # b => a.order # b.order /\ DOMAIN a.depth \cap DOMAIN b.depth = {}
  /\ \A s \in Used : \E a \in activeNodes : s \in DOMAIN a.depth

\* Weight and order of a node are numbers; its leaves are finitely many.
LEMMA NodeType ==
  ASSUME input \in Seq(Symbol), NEW a, NodeOk(a)
  PROVE  a.weight \in Nat /\ a.order \in Nat /\ IsFiniteSet(DOMAIN a.depth)
BY Occurrences DEF NodeOk

\* The two nodes that get a parent.
LEMMA FirstTwo ==
  ASSUME input \in Seq(Symbol), Forest, Cardinality(activeNodes) > 1
  PROVE  LET a == First(activeNodes)
             b == First(activeNodes \ {a})
         IN  /\ a \in activeNodes /\ b \in activeNodes /\ a # b
             /\ \A c \in activeNodes : c # a => Before(a, c)
             /\ \A c \in activeNodes : c # a /\ c # b => Before(b, c)
<1> DEFINE a == First(activeNodes)
           b == First(activeNodes \ {a})
<1>1. \A c \in activeNodes : c.weight \in Nat /\ c.order \in Nat
  BY NodeType DEF Forest
<1>2. a \in activeNodes /\ \A c \in activeNodes \ {a} : Before(a, c)
  BY <1>1, FirstOf DEF Forest
<1> HIDE DEF a
<1>3. IsFiniteSet(activeNodes \ {a}) /\ activeNodes \ {a} # {}
  <2>1. IsFiniteSet(activeNodes \ {a}) /\ Cardinality(activeNodes \ {a}) = Cardinality(activeNodes) - 1
    BY <1>2, FS_RemoveElement DEF Forest
  <2>2. Cardinality(activeNodes) \in Nat
    BY FS_CardinalityType DEF Forest
  <2>3. Cardinality({}) = 0
    BY FS_EmptySet
  <2>4. Cardinality(activeNodes \ {a}) # 0
    BY <2>1, <2>2
  <2>5. activeNodes \ {a} # {}
    <3> SUFFICES ASSUME activeNodes \ {a} = {}
                 PROVE  FALSE
      OBVIOUS
    <3> QED BY <2>3, <2>4
  <2> QED BY <2>1, <2>5
<1>4. b \in activeNodes \ {a} /\ \A c \in (activeNodes \ {a}) \ {b} : Before(b, c)
  <2> DEFINE T == activeNodes \ {a}
  <2>1. \A c \in T : c.weight \in Nat /\ c.order \in Nat
    BY <1>1
  <2>2. \A c, d \in T : c # d => c.order # d.order
    BY DEF Forest
  <2>3. IsFiniteSet(T) /\ T # {}
    BY <1>3
  <2> HIDE DEF T
  <2>4. First(T) \in T /\ \A c \in T \ {First(T)} : Before(First(T), c)
    BY <2>1, <2>2, <2>3, FirstOf
  <2> QED BY <2>4 DEF T
<1> HIDE DEF b
<1>5. /\ a \in activeNodes /\ b \in activeNodes /\ a # b
      /\ \A c \in activeNodes : c # a => Before(a, c)
      /\ \A c \in activeNodes : c # a /\ c # b => Before(b, c)
  BY <1>2, <1>4
<1> QED BY <1>5 DEF a, b

\* The parent of two nodes.
LEMMA ParentOk ==
  ASSUME input \in Seq(Symbol), next_order \in Nat, NEW a, NEW b, NodeOk(a), NodeOk(b),
         DOMAIN a.depth \cap DOMAIN b.depth = {}
  PROVE  LET p == Parent(a, b)
         IN  /\ p.order = next_order /\ p.weight = SumOf(Weights, DOMAIN p.depth)
             /\ DOMAIN p.depth = DOMAIN a.depth \union DOMAIN b.depth
             /\ \A s \in DOMAIN a.depth : p.depth[s] = 1 + a.depth[s]
             /\ \A s \in DOMAIN b.depth : p.depth[s] = 1 + b.depth[s]
             /\ \A s \in DOMAIN p.depth : p.depth[s] \in Nat /\ p.depth[s] > 0
             /\ Full(p.depth, DOMAIN p.depth)
             /\ p.weight = a.weight + b.weight
<1> DEFINE S == DOMAIN a.depth  T == DOMAIN b.depth
           d == [s \in S \union T |-> 1 + (IF s \in S THEN a.depth[s] ELSE b.depth[s])]
<1>1. /\ Parent(a, b).order = next_order /\ Parent(a, b).weight = a.weight + b.weight
      /\ Parent(a, b).depth = d
  BY DEF Parent
<1>2. /\ IsFiniteSet(S) /\ IsFiniteSet(T) /\ S # {} /\ S \cap T = {}
      /\ \A s \in S : a.depth[s] \in Nat
      /\ \A s \in T : b.depth[s] \in Nat
      /\ Full(a.depth, S) /\ Full(b.depth, T)
      /\ a.weight = SumOf(Weights, S) /\ b.weight = SumOf(Weights, T)
      /\ S \in SUBSET Used /\ T \in SUBSET Used
  BY NodeType DEF NodeOk
<1>3. DOMAIN d = S \union T
  OBVIOUS
<1>4. /\ \A s \in S : d[s] = 1 + a.depth[s]
      /\ \A s \in T : d[s] = 1 + b.depth[s]
  BY <1>2
<1> HIDE DEF d, S, T
<1>5. Full(d, S \union T)
  <2>1. PICK da : da = a.depth
    OBVIOUS
  <2>2. PICK db : db = b.depth
    OBVIOUS
  <2>3. /\ \A s \in S : da[s] \in Nat /\ d[s] = 1 + da[s]
        /\ \A s \in T : db[s] \in Nat /\ d[s] = 1 + db[s]
        /\ Full(da, S) /\ Full(db, T)
    BY <1>2, <1>4, <2>1, <2>2
  <2> QED BY <1>2, <2>3, ParentFull
<1>6. SumOf(Weights, S \union T) = SumOf(Weights, S) + SumOf(Weights, T)
  <2>1. \A s \in S \union T : Weights[s] \in Nat
    BY <1>2, Occurrences
  <2> QED BY <1>2, <2>1, SumUnion
<1>7. \A s \in S \union T : d[s] \in Nat /\ d[s] > 0
  BY <1>2, <1>4
<1> QED BY <1>1, <1>2, <1>3, <1>4, <1>5, <1>6, <1>7 DEF S, T

-----------------------------------------------------------------------------
(* Levels of nodes. *)

\* One level is enough to see Kraft's inequality.
LEMMA KraftAtOne ==
  ASSUME NEW S, IsFiniteSet(S), NEW lens, NEW n \in Nat, Within(lens, n, S), Taken(lens, n, S) <= 2^n
  PROVE  Kraft(lens, S)
<1> SUFFICES ASSUME NEW m \in Nat, Within(lens, m, S)
             PROVE  Taken(lens, m, S) <= 2^m
  BY DEF Kraft
<1>1. Taken(lens, n + m, S) = 2^m * Taken(lens, n, S)
  BY TakenDeeper
<1>2. Taken(lens, m + n, S) = 2^n * Taken(lens, m, S)
  BY TakenDeeper
<1>3. PICK t \in Nat : t = Taken(lens, n, S)
  BY TakenType
<1>4. PICK u \in Nat : u = Taken(lens, m, S)
  BY TakenType
<1>5. PICK p \in Nat : p = 2^n /\ p > 0
  BY PowerType
<1>6. PICK q \in Nat : q = 2^m
  BY PowerType
<1>7. p * u = q * t
  <2>1. n + m = m + n
    OBVIOUS
  <2> QED BY <1>1, <1>2, <1>3, <1>4, <1>5, <1>6, <2>1
<1>8. t <= p
  BY <1>3, <1>5
<1>9. q * t <= q * p
  <2>1. PICK v \in Nat : p = t + v
    <3>1. p - t \in Nat /\ p = t + (p - t)
      BY <1>8
    <3> QED BY <3>1
  <2>2. q * (t + v) = q * t + q * v /\ q * v \in Nat /\ q * t \in Nat
    OBVIOUS
  <2> QED BY <2>1, <2>2
<1>10. p * u <= p * q
  <2>1. q * p = p * q
    OBVIOUS
  <2> QED BY <1>7, <1>9, <2>1
<1>11. u <= q
  <2> SUFFICES ASSUME u > q
               PROVE  FALSE
    OBVIOUS
  <2>1. PICK v \in Nat : u = (q + 1) + v
    <3>1. u - (q + 1) \in Nat /\ u = (q + 1) + (u - (q + 1))
      OBVIOUS
    <3> QED BY <3>1
  <2>2. p * u = p * q + p + p * v /\ p * v \in Nat /\ p * q \in Nat
    BY <2>1
  <2> QED BY <1>5, <1>10, <2>2
<1> QED BY <1>4, <1>6, <1>11

\* What the nodes of S cost on their levels.
CostOf(w, level, S) == SumOf([x \in S |-> w[x] * level[x]], S)

Priced(w, level, S) == \A x \in S : w[x] \in Nat /\ level[x] \in Nat

\* Costs are numbers.
LEMMA CostType ==
  ASSUME NEW S, IsFiniteSet(S), NEW w, NEW level, Priced(w, level, S)
  PROVE  CostOf(w, level, S) \in Nat
<1>1. PICK f : f = [x \in S |-> w[x] * level[x]]
  OBVIOUS
<1>2. \A x \in S : f[x] \in Nat
  <2> TAKE x \in S
  <2>1. w[x] \in Nat /\ level[x] \in Nat
    BY DEF Priced
  <2> QED BY <1>1, <2>1
<1> QED BY <1>1, <1>2, SumType DEF CostOf

\* What one node more costs.
LEMMA CostAdd ==
  ASSUME NEW S, IsFiniteSet(S), NEW w, NEW level, NEW x, x \notin S, Priced(w, level, S \union {x})
  PROVE  CostOf(w, level, S \union {x}) = CostOf(w, level, S) + w[x] * level[x]
<1>1. PICK f : f = [y \in S |-> w[y] * level[y]]
  OBVIOUS
<1>2. PICK g : g = [y \in S \union {x} |-> w[y] * level[y]]
  OBVIOUS
<1>3. \A y \in S \union {x} : g[y] \in Nat
  <2> TAKE y \in S \union {x}
  <2>1. w[y] \in Nat /\ level[y] \in Nat
    BY DEF Priced
  <2> QED BY <1>2, <2>1
<1>4. SumOf(g, S \union {x}) = SumOf(g, S) + g[x]
  BY <1>3, SumAdd
<1>5. SumOf(g, S) = SumOf(f, S)
  <2>1. \A y \in S : g[y] = f[y]
    BY <1>1, <1>2
  <2> QED BY <2>1, SumEqual
<1>6. g[x] = w[x] * level[x]
  BY <1>2
<1> QED BY <1>1, <1>2, <1>4, <1>5, <1>6 DEF CostOf

\* Costs depend on the levels of the nodes alone.
LEMMA CostEqual ==
  ASSUME NEW S, NEW w, NEW level, NEW other, \A x \in S : other[x] = level[x]
  PROVE  CostOf(w, other, S) = CostOf(w, level, S)
<1>1. PICK f : f = [x \in S |-> w[x] * level[x]]
  OBVIOUS
<1>2. PICK g : g = [x \in S |-> w[x] * other[x]]
  OBVIOUS
<1>3. \A x \in S : f[x] = g[x]
  BY <1>1, <1>2
<1> QED BY <1>1, <1>2, <1>3, SumEqual DEF CostOf

\* A heavier thing had better be on the smaller level.
LEMMA Crossed ==
  ASSUME NEW a \in Nat, NEW b \in Nat, NEW l \in Nat, NEW m \in Nat, a <= b, l <= m
  PROVE  a * m + b * l <= a * l + b * m
<1>1. PICK u \in Nat : b = a + u
  <2>1. b - a \in Nat /\ b = a + (b - a)
    OBVIOUS
  <2> QED BY <2>1
<1>2. PICK v \in Nat : m = l + v
  <2>1. m - l \in Nat /\ m = l + (m - l)
    OBVIOUS
  <2> QED BY <2>1
<1>3. a * m = a * l + a * v /\ b * l = a * l + u * l /\ b * m = (a * l + a * v) + (u * l + u * v)
  BY <1>1, <1>2
<1>4. a * l \in Nat /\ a * v \in Nat /\ u * l \in Nat /\ u * v \in Nat
  OBVIOUS
<1> QED BY <1>3, <1>4

Swapped(level, a, x) == [level EXCEPT ![a] = level[x], ![x] = level[a]]

\* Levels that leave room for each other.
Levels(level, S) == level \in [S -> Nat] /\ Kraft(level, S)

\* Two nodes change places, the lighter one going down.
LEMMA Swap ==
  ASSUME NEW S, IsFiniteSet(S), NEW w, NEW level, Levels(level, S), \A x \in S : w[x] \in Nat,
         NEW a \in S, NEW x \in S, w[a] <= w[x], level[a] <= level[x]
  PROVE  /\ Levels(Swapped(level, a, x), S)
         /\ Swapped(level, a, x)[a] = level[x] /\ Swapped(level, a, x)[x] = level[a]
         /\ \A y \in S \ {a, x} : Swapped(level, a, x)[y] = level[y]
         /\ CostOf(w, Swapped(level, a, x), S) <= CostOf(w, level, S)
<1>1. level \in [S -> Nat] /\ Kraft(level, S)
  BY DEF Levels
<1>2. PICK new : new = Swapped(level, a, x)
  OBVIOUS
<1>3. /\ new \in [S -> Nat] /\ new[a] = level[x] /\ new[x] = level[a]
      /\ \A y \in S \ {a, x} : new[y] = level[y]
  BY <1>1, <1>2 DEF Swapped
<1>4. CASE a = x
  <2>1. new = level
    <3>1. \A y \in S : new[y] = level[y]
      BY <1>3, <1>4
    <3> QED BY <1>1, <1>3, <3>1
  <2>2. Priced(w, level, S)
    BY <1>1 DEF Priced
  <2>3. CostOf(w, level, S) \in Nat
    BY <2>2, CostType
  <2>4. CostOf(w, new, S) <= CostOf(w, level, S)
    BY <2>1, <2>3
  <2> QED BY <1>1, <1>2, <1>3, <2>1, <2>4 DEF Levels
<1>5. CASE a # x
  <2>1. PICK R : R = S \ {a, x}
    OBVIOUS
  <2>2. PICK Q : Q = R \union {a}
    OBVIOUS
  <2>3. /\ IsFiniteSet(R) /\ IsFiniteSet(Q) /\ a \notin R /\ x \notin Q
        /\ \A y \in R : new[y] = level[y] /\ y \in S
        /\ \A y \in Q : y \in S
        /\ \A y \in Q \union {x} : y \in S
    <3>1. R \in SUBSET S /\ Q \in SUBSET S
      BY <2>1, <2>2
    <3>2. IsFiniteSet(R) /\ IsFiniteSet(Q)
      BY <3>1, FS_Subset
    <3> QED BY <1>3, <1>5, <2>1, <2>2, <3>1, <3>2
  <2>4. Q \union {x} = S
    BY <2>1, <2>2
  <2>5. Kraft(new, S)
    <3> SUFFICES ASSUME NEW n \in Nat, Within(new, n, S)
                 PROVE  Taken(new, n, S) <= 2^n
      BY DEF Kraft
    <3>1. \A y \in S : level[y] \in Nat /\ level[y] <= n /\ new[y] \in Nat /\ new[y] <= n
      <4> TAKE y \in S
      <4>1. \A z \in S : new[z] \in Nat /\ new[z] <= n /\ level[z] \in Nat
        BY <1>1 DEF Within
      <4>2. CASE y = a
        BY <1>1, <1>3, <4>1, <4>2
      <4>3. CASE y = x
        BY <1>1, <1>3, <4>1, <4>3
      <4>4. CASE y \notin {a, x}
        BY <1>3, <4>1, <4>4
      <4> QED BY <4>2, <4>3, <4>4
    <3>2. /\ Within(level, n, S) /\ Within(level, n, Q) /\ Within(level, n, R)
          /\ Within(new, n, Q) /\ Within(new, n, R)
          /\ Within(level, n, Q \union {x}) /\ Within(new, n, Q \union {x})
          /\ Within(level, n, R \union {a}) /\ Within(new, n, R \union {a})
      BY <1>1, <2>2, <2>3, <3>1 DEF Within
    <3>3. Taken(level, n, Q \union {x}) = Taken(level, n, Q) + 2^(n - level[x])
      BY <2>3, <3>2, TakenAdd
    <3>4. Taken(level, n, R \union {a}) = Taken(level, n, R) + 2^(n - level[a])
      BY <2>3, <3>2, TakenAdd
    <3>5. Taken(new, n, Q \union {x}) = Taken(new, n, Q) + 2^(n - new[x])
      BY <2>3, <3>2, TakenAdd
    <3>6. Taken(new, n, R \union {a}) = Taken(new, n, R) + 2^(n - new[a])
      BY <2>3, <3>2, TakenAdd
    <3>7. Taken(new, n, R) = Taken(level, n, R)
      <4>1. \A y \in R : n - new[y] = n - level[y]
        BY <2>3
      <4> DEFINE f == [s \in R |-> 2^(n - new[s])]
                 g == [s \in R |-> 2^(n - level[s])]
      <4>2. \A s \in R : f[s] = g[s]
        BY <4>1
      <4>3. SumOf(f, R) = SumOf(g, R)
        <5> HIDE DEF f, g
        <5> QED BY <4>2, SumEqual
      <4> QED BY <4>3 DEF Taken
    <3>8. PICK r \in Nat : r = Taken(level, n, R)
      BY <2>3, <3>2, TakenType
    <3>9. PICK u \in Nat : u = 2^(n - level[a])
      <4>1. n - level[a] \in Nat
        BY <3>1
      <4> QED BY <4>1, PowerType
    <3>10. PICK v \in Nat : v = 2^(n - level[x])
      <4>1. n - level[x] \in Nat
        BY <3>1
      <4> QED BY <4>1, PowerType
    <3>11. Taken(new, n, S) = (r + v) + u /\ Taken(level, n, S) = (r + u) + v
      BY <1>3, <2>4, <2>2, <3>3, <3>4, <3>5, <3>6, <3>7, <3>8, <3>9, <3>10
    <3>12. Taken(level, n, S) <= 2^n
      BY <1>1, <3>2 DEF Kraft
    <3>13. (r + v) + u = (r + u) + v
      OBVIOUS
    <3> QED BY <3>11, <3>12, <3>13
  <2>6. CostOf(w, new, S) <= CostOf(w, level, S)
    <3>1. PICK old : old = level
      OBVIOUS
    <3>2. /\ Priced(w, old, S) /\ Priced(w, old, Q) /\ Priced(w, old, R)
          /\ Priced(w, new, S) /\ Priced(w, new, Q)
          /\ Priced(w, old, Q \union {x}) /\ Priced(w, new, Q \union {x})
          /\ Priced(w, old, R \union {a}) /\ Priced(w, new, R \union {a})
      BY <1>1, <1>3, <2>2, <2>3, <3>1 DEF Priced
    <3>3. CostOf(w, old, Q \union {x}) = CostOf(w, old, Q) + w[x] * old[x]
      BY <2>3, <3>2, CostAdd
    <3>4. CostOf(w, old, R \union {a}) = CostOf(w, old, R) + w[a] * old[a]
      BY <2>3, <3>2, CostAdd
    <3>5. CostOf(w, new, Q \union {x}) = CostOf(w, new, Q) + w[x] * new[x]
      BY <2>3, <3>2, CostAdd
    <3>6. CostOf(w, new, R \union {a}) = CostOf(w, new, R) + w[a] * new[a]
      BY <2>3, <3>2, CostAdd
    <3>7. CostOf(w, new, R) = CostOf(w, old, R)
      BY <2>3, <3>1, CostEqual
    <3>8. PICK r \in Nat : r = CostOf(w, old, R)
      BY <2>3, <3>2, CostType
    <3>9. PICK p \in Nat : p = w[a]
      OBVIOUS
    <3>10. PICK q \in Nat : q = w[x]
      OBVIOUS
    <3>11. PICK l \in Nat : l = level[a]
      BY <1>1
    <3>12. PICK m \in Nat : m = level[x]
      BY <1>1
    <3>13. CostOf(w, new, S) = (r + p * m) + q * l /\ CostOf(w, level, S) = (r + p * l) + q * m
      BY <1>3, <2>4, <2>2, <3>1, <3>3, <3>4, <3>5, <3>6, <3>7, <3>8, <3>9, <3>10, <3>11, <3>12
    <3>14. p * m + q * l <= p * l + q * m
      BY <3>9, <3>10, <3>11, <3>12, Crossed
    <3>15. (r + p * m) + q * l <= (r + p * l) + q * m
      <4>1. PICK c \in Nat : c = p * m
        OBVIOUS
      <4>2. PICK d \in Nat : d = q * l
        OBVIOUS
      <4>3. PICK e \in Nat : e = p * l
        OBVIOUS
      <4>4. PICK f \in Nat : f = q * m
        OBVIOUS
      <4>5. c + d <= e + f
        BY <3>14, <4>1, <4>2, <4>3, <4>4
      <4>6. (r + c) + d <= (r + e) + f
        BY <4>5
      <4> QED BY <4>1, <4>2, <4>3, <4>4, <4>6
    <3> QED BY <3>13, <3>15
  <2> QED BY <1>2, <1>3, <2>5, <2>6 DEF Levels
<1> QED BY <1>4, <1>5

\* Of some nodes one is the deepest.
LEMMA Deepest ==
  ASSUME NEW S, IsFiniteSet(S), S # {}, NEW level, \A x \in S : level[x] \in Nat
  PROVE  \E x \in S : \A y \in S : level[y] <= level[x]
<1> DEFINE P == {T \in SUBSET S : T = {} \/ \E x \in T : \A y \in T : level[y] <= level[x]}
<1>1. {} \in P
  OBVIOUS
<1>2. ASSUME NEW T \in P, NEW z \in S \ T
      PROVE  T \union {z} \in P
  <2> SUFFICES \E x \in T \union {z} : \A y \in T \union {z} : level[y] <= level[x]
    OBVIOUS
  <2>1. \A y \in T \union {z} : level[y] \in Nat
    OBVIOUS
  <2>2. CASE T = {}
    BY <2>1, <2>2
  <2>3. CASE T # {}
    <3>1. PICK x \in T : \A y \in T : level[y] <= level[x]
      BY <2>3
    <3>2. CASE level[z] <= level[x]
      BY <3>1, <3>2
    <3>3. CASE ~(level[z] <= level[x])
      <4>1. \A y \in T \union {z} : level[y] <= level[z]
        BY <2>1, <3>1, <3>3
      <4> QED BY <4>1
    <3> QED BY <3>2, <3>3
  <2> QED BY <2>2, <2>3
<1>3. S \in P
  <2>1. P \in SUBSET SUBSET S
    OBVIOUS
  <2> HIDE DEF P
  <2> QED BY <1>1, <1>2, <2>1, InductSet
<1> QED BY <1>3

\* The only node below level m can come up to it.
LEMMA Lift ==
  ASSUME NEW S, IsFiniteSet(S), NEW w, NEW level, Levels(level, S), \A x \in S : w[x] \in Nat,
         NEW a \in S, NEW b \in S, a # b, level[b] <= level[a],
         \A x \in S \ {a} : level[x] <= level[b]
  PROVE  \E new :
           /\ Levels(new, S) /\ CostOf(w, new, S) <= CostOf(w, level, S)
           /\ new[a] = level[b] /\ new[b] = level[b] /\ level[b] > 0 /\ level[b] \in Nat
<1>1. PICK new : new = [level EXCEPT ![a] = level[b]]
  OBVIOUS
<1>2. PICK R : R = S \ {a}
  OBVIOUS
<1>3. PICK m \in Nat : m = level[a]
  BY DEF Levels
<1>4. PICK y \in Nat : y = level[b]
  BY DEF Levels
<1>5. /\ new \in [S -> Nat] /\ new[a] = y /\ new[b] = y /\ \A x \in R : new[x] = level[x]
      /\ \A x \in S : new[x] \in Nat /\ level[x] \in Nat
  BY <1>1, <1>2, <1>4 DEF Levels
<1>6. R \union {a} = S /\ a \notin R /\ b \in R /\ R \in SUBSET S /\ y <= m
  BY <1>2, <1>3, <1>4
<1>7. IsFiniteSet(R)
  BY <1>6, FS_Subset
<1>8. /\ \A x \in S : level[x] <= m /\ new[x] <= y
      /\ \A x \in R : level[x] <= y
  <2>1. \A x \in R : level[x] <= y /\ level[x] \in Nat
    BY <1>2, <1>4, <1>5
  <2>2. \A x \in S : x = a \/ x \in R
    BY <1>2
  <2> QED BY <1>3, <1>5, <1>6, <2>1, <2>2
<1>9. /\ Within(level, m, S) /\ Within(new, y, S) /\ Within(level, y, R) /\ Within(level, m, R)
      /\ Within(new, y, R) /\ Within(level, m, R \union {a}) /\ Within(new, y, R \union {a})
  BY <1>5, <1>6, <1>8 DEF Within
<1>10. PICK t \in Nat : t = Taken(level, y, R)
  BY <1>7, <1>9, TakenType
<1>11. PICK d \in Nat : m = y + d
  <2>1. m - y \in Nat /\ m = y + (m - y)
    BY <1>6
  <2> QED BY <2>1
<1>12. PICK c \in Nat : c = 2^d /\ c > 0
  BY PowerType
<1>13. PICK p \in Nat : p = 2^y
  BY PowerType
<1>14. c * t + 1 <= c * p
  <2>1. Taken(level, m, R) = c * t
    <3>1. Taken(level, y + d, R) = 2^d * Taken(level, y, R)
      BY <1>7, <1>9, TakenDeeper
    <3> QED BY <1>10, <1>11, <1>12, <3>1
  <2>2. Taken(level, m, S) = Taken(level, m, R) + 1
    <3>1. Taken(level, m, R \union {a}) = Taken(level, m, R) + 2^(m - level[a])
      BY <1>6, <1>7, <1>9, TakenAdd
    <3>2. m - level[a] = 0 /\ 2^0 = 1
      BY <1>3
    <3> QED BY <1>6, <3>1, <3>2
  <2>3. Taken(level, m, S) <= 2^m
    BY <1>9 DEF Levels, Kraft
  <2>4. 2^m = c * p
    <3>1. 2^(d + y) = 2^d * 2^y
      BY PowerAdds
    <3>2. m = d + y
      BY <1>11
    <3> QED BY <1>12, <1>13, <3>1, <3>2
  <2> QED BY <2>1, <2>2, <2>3, <2>4
<1>15. t + 1 <= p
  <2> SUFFICES ASSUME t >= p
               PROVE  FALSE
    OBVIOUS
  <2>1. PICK v \in Nat : t = p + v
    <3>1. t - p \in Nat /\ t = p + (t - p)
      OBVIOUS
    <3> QED BY <3>1
  <2>2. c * t = c * p + c * v /\ c * v \in Nat /\ c * p \in Nat
    BY <2>1
  <2> QED BY <1>14, <2>2
<1>16. Taken(new, y, S) = t + 1
  <2>1. Taken(new, y, R \union {a}) = Taken(new, y, R) + 2^(y - new[a])
    <3>1. a \notin R /\ IsFiniteSet(R) /\ Within(new, y, R \union {a})
      BY <1>6, <1>7, <1>9
    <3> QED BY <3>1, TakenAdd
  <2>2. y - new[a] = 0 /\ 2^0 = 1
    BY <1>5
  <2>3. Taken(new, y, R) = Taken(level, y, R)
    <3>1. PICK f : f = [x \in R |-> 2^(y - new[x])]
      OBVIOUS
    <3>2. PICK g : g = [x \in R |-> 2^(y - level[x])]
      OBVIOUS
    <3>3. \A x \in R : f[x] = g[x]
      BY <1>5, <3>1, <3>2
    <3> QED BY <3>1, <3>2, <3>3, SumEqual DEF Taken
  <2> QED BY <1>6, <1>10, <2>1, <2>2, <2>3
<1>17. Kraft(new, S)
  <2>1. Taken(new, y, S) <= 2^y
    BY <1>13, <1>15, <1>16
  <2> QED BY <1>9, <2>1, KraftAtOne
<1>18. y > 0
  <2>1. t >= 1
    <3>1. {b} \in SUBSET R
      BY <1>6
    <3>2. Taken(level, y, {b}) <= Taken(level, y, R)
      BY <1>7, <1>9, <3>1, TakenMono
    <3>3. Taken(level, y, {b}) = 2^(y - level[b])
      <4>1. level[b] \in Nat /\ level[b] <= y
        BY <1>4
      <4> QED BY <4>1, TakenOne
    <3>4. y - level[b] = 0 /\ 2^0 = 1
      BY <1>4
    <3> QED BY <1>10, <3>2, <3>3, <3>4
  <2>2. p >= 2
    BY <1>15, <2>1
  <2>3. y # 0
    <3> SUFFICES ASSUME y = 0
                 PROVE  FALSE
      OBVIOUS
    <3>1. 2^y = 1
      OBVIOUS
    <3> QED BY <1>13, <2>2, <3>1
  <2> QED BY <2>3
<1>19. CostOf(w, new, S) <= CostOf(w, level, S)
  <2>1. PICK old : old = level
    OBVIOUS
  <2>2. /\ Priced(w, old, R) /\ Priced(w, old, R \union {a}) /\ Priced(w, new, R \union {a})
    BY <1>5, <1>6, <2>1 DEF Priced
  <2>3. CostOf(w, old, R \union {a}) = CostOf(w, old, R) + w[a] * old[a]
    BY <1>6, <1>7, <2>2, CostAdd
  <2>4. CostOf(w, new, R \union {a}) = CostOf(w, new, R) + w[a] * new[a]
    BY <1>6, <1>7, <2>2, CostAdd
  <2>5. CostOf(w, new, R) = CostOf(w, old, R)
    BY <1>5, <2>1, CostEqual
  <2>6. PICK r \in Nat : r = CostOf(w, old, R)
    BY <1>7, <2>2, CostType
  <2>7. PICK x \in Nat : x = w[a]
    OBVIOUS
  <2>8. CostOf(w, old, S) = r + x * m /\ CostOf(w, new, S) = r + x * y
    BY <1>3, <1>5, <1>6, <2>1, <2>3, <2>4, <2>5, <2>6, <2>7
  <2>9. x * m = x * y + x * d /\ x * m \in Nat /\ x * y \in Nat /\ x * d \in Nat
    BY <1>11
  <2>10. r + x * y <= r + x * m
    BY <2>9
  <2> QED BY <2>1, <2>8, <2>10
<1> QED BY <1>4, <1>5, <1>17, <1>18, <1>19 DEF Levels

\* The two lightest nodes may as well be children of the same node.
LEMMA Siblings ==
  ASSUME NEW S, IsFiniteSet(S), NEW w, NEW level, Levels(level, S),
         \A x \in S : w[x] \in Nat, NEW a \in S, NEW b \in S, a # b,
         \A x \in S \ {a} : w[a] <= w[x], \A x \in S \ {a, b} : w[b] <= w[x]
  PROVE  \E new : \E y \in Nat :
           /\ Levels(new, S) /\ CostOf(w, new, S) <= CostOf(w, level, S)
           /\ new[a] = y /\ new[b] = y /\ y > 0
<1>1. \A z \in S : level[z] \in Nat
  BY DEF Levels
<1>2. PICK x \in S : \A z \in S : level[z] <= level[x]
  BY <1>1, Deepest
<1>3. PICK one : one = Swapped(level, a, x)
  OBVIOUS
<1>4. /\ Levels(one, S) /\ one[a] = level[x] /\ one[x] = level[a]
      /\ \A z \in S \ {a, x} : one[z] = level[z]
      /\ CostOf(w, one, S) <= CostOf(w, level, S)
  <2>1. w[a] <= w[x] /\ level[a] <= level[x]
    <3>1. x = a \/ x \in S \ {a}
      OBVIOUS
    <3> QED BY <1>1, <1>2, <3>1
  <2>2. /\ Levels(Swapped(level, a, x), S)
        /\ Swapped(level, a, x)[a] = level[x] /\ Swapped(level, a, x)[x] = level[a]
        /\ \A y \in S \ {a, x} : Swapped(level, a, x)[y] = level[y]
        /\ CostOf(w, Swapped(level, a, x), S) <= CostOf(w, level, S)
    BY <2>1, Swap
  <2> QED BY <1>3, <2>2
<1>5. \A z \in S : one[z] <= one[a]
  <2> TAKE z \in S
  <2>1. one[z] \in Nat
    BY <1>4 DEF Levels
  <2>2. CASE z = a
    BY <2>1, <2>2
  <2>3. CASE z = x
    BY <1>2, <1>4, <2>3
  <2>4. CASE z \notin {a, x}
    BY <1>2, <1>4, <2>4
  <2> QED BY <2>2, <2>3, <2>4
<1>6. PICK y \in S \ {a} : \A z \in S \ {a} : one[z] <= one[y]
  <2>1. PICK R : R = S \ {a}
    OBVIOUS
  <2>2. IsFiniteSet(R) /\ R # {} /\ \A z \in R : one[z] \in Nat
    <3>1. R \in SUBSET S /\ b \in R
      BY <2>1
    <3>2. IsFiniteSet(R)
      BY <3>1, FS_Subset
    <3> QED BY <1>4, <3>1, <3>2 DEF Levels
  <2>3. \E z \in R : \A v \in R : one[v] <= one[z]
    BY <2>2, Deepest
  <2> QED BY <2>1, <2>3
<1>7. PICK two : two = Swapped(one, b, y)
  OBVIOUS
<1>8. /\ Levels(two, S) /\ two[b] = one[y] /\ two[y] = one[b]
      /\ \A z \in S \ {b, y} : two[z] = one[z]
      /\ CostOf(w, two, S) <= CostOf(w, one, S)
  <2>1. w[b] <= w[y] /\ one[b] <= one[y]
    <3>1. y = b \/ y \in S \ {a, b}
      OBVIOUS
    <3> QED BY <1>6, <3>1
  <2> QED BY <1>4, <1>7, <2>1, Swap
<1>9. /\ two[a] = one[a] /\ two[b] <= two[a]
      /\ \A z \in S \ {a} : two[z] <= two[b]
  <2>1. two[a] = one[a]
    BY <1>8
  <2>2. two[b] <= two[a]
    BY <1>5, <1>8, <2>1
  <2>3. ASSUME NEW z \in S \ {a}
        PROVE  two[z] <= two[b]
    <3>1. two[z] \in Nat
      BY <1>8 DEF Levels
    <3>2. CASE z = b
      BY <3>1, <3>2
    <3>3. CASE z = y
      BY <1>6, <1>8, <3>3
    <3>4. CASE z \notin {b, y}
      BY <1>6, <1>8, <3>4
    <3> QED BY <3>2, <3>3, <3>4
  <2> QED BY <2>1, <2>2, <2>3
<1>10. PICK new :
         /\ Levels(new, S) /\ CostOf(w, new, S) <= CostOf(w, two, S)
         /\ new[a] = two[b] /\ new[b] = two[b] /\ two[b] > 0 /\ two[b] \in Nat
  BY <1>8, <1>9, Lift
<1>11. CostOf(w, new, S) <= CostOf(w, level, S)
  <2>1. Priced(w, new, S) /\ Priced(w, two, S) /\ Priced(w, one, S) /\ Priced(w, level, S)
    BY <1>4, <1>8, <1>10 DEF Priced, Levels
  <2>2. CostOf(w, new, S) \in Nat /\ CostOf(w, two, S) \in Nat /\ CostOf(w, one, S) \in Nat /\ CostOf(w, level, S) \in Nat
    BY <2>1, CostType
  <2> QED BY <1>4, <1>8, <1>10, <2>2
<1> QED BY <1>10, <1>11

\* What first_code and the codes are, wraparound or not: numbers.
LEMMA BitsType ==
  ASSUME NEW lens \in [Symbol -> Nat]
  PROVE  CanonicalBits(lens) \in [Symbol -> Nat]
<1> DEFINE N == LongestOf(lens)
           W == 2^CodeWidth
           body(f) == [n \in 0 .. N |-> IF n = 0 THEN 0 ELSE ((f[n - 1] + CountOf(lens, n - 1)) * 2) % 2^CodeWidth]
           first == CHOOSE f : f = body(f)
<1>1. N \in Nat /\ \A s \in Symbol : lens[s] \in 0 .. N
  BY Longest
<1>2. \A n \in Nat : CountOf(lens, n) \in Nat
  BY NextLengthBegins
<1>3. W \in Nat /\ W > 0
  BY PowerType, CodeAssumption
<1>4. \A x \in Nat : x % W \in Nat
  <2> HIDE DEF W
  <2> QED BY <1>3
<1>5. \E f : f = body(f)
  <2> DEFINE g == [x \in Nat \X Nat |-> IF x[1] = 0 THEN 0 ELSE ((x[2] + CountOf(lens, x[1] - 1)) * 2) % W]
  <2>1. StepOf(g, Nat)
    <3>1. \A x \in Nat \X Nat : x[1] # 0 => ((x[2] + CountOf(lens, x[1] - 1)) * 2) % W \in Nat
      <4> TAKE x \in Nat \X Nat
      <4> HAVE x[1] # 0
      <4>1. x[1] - 1 \in Nat /\ x[2] \in Nat
        OBVIOUS
      <4>2. (x[2] + CountOf(lens, x[1] - 1)) * 2 \in Nat
        BY <1>2, <4>1
      <4> HIDE DEF W
      <4> QED BY <1>4, <4>2
    <3>2. g \in [Nat \X Nat -> Nat]
      <4> HIDE DEF W
      <4> QED BY <3>1
    <3> QED BY <3>2 DEF StepOf
  <2>2. PICK x : ValuesOf(x, N, Nat, 0, g)
    <3> HIDE DEF g
    <3> QED BY <1>1, <2>1, Recursion
  <2>3. x \in [0 .. N -> Nat] /\ x[0] = 0 /\ \A n \in 1 .. N : x[n] = g[<<n, x[n - 1]>>]
    BY <2>2 DEF ValuesOf
  <2>4. \A n \in 0 .. N : x[n] = IF n = 0 THEN 0 ELSE ((x[n - 1] + CountOf(lens, n - 1)) * 2) % W
    <3> TAKE n \in 0 .. N
    <3>1. CASE n = 0
      BY <2>3, <3>1
    <3>2. CASE n # 0
      <4>1. n \in 1 .. N /\ n - 1 \in 0 .. N /\ n \in Nat
        BY <1>1, <3>2
      <4>2. <<n, x[n - 1]>> \in Nat \X Nat
        BY <2>3, <4>1
      <4>3. g[<<n, x[n - 1]>>] = ((x[n - 1] + CountOf(lens, n - 1)) * 2) % W
        <5> HIDE DEF W
        <5> QED BY <3>2, <4>2
      <4> HIDE DEF g, W
      <4> QED BY <2>3, <3>2, <4>1, <4>3
    <3> QED BY <3>1, <3>2
  <2>5. x = body(x)
    <3>1. x = [n \in 0 .. N |-> x[n]]
      BY <2>3
    <3> HIDE DEF N
    <3> QED BY <2>4, <3>1
  <2> HIDE DEF body
  <2> QED BY <2>5
<1>6. first = body(first)
  <2> HIDE DEF body
  <2> QED BY <1>5
<1>7. \A n \in 0 .. N : first[n] = IF n = 0 THEN 0 ELSE ((first[n - 1] + CountOf(lens, n - 1)) * 2) % W
  <2> HIDE DEF first, N
  <2> QED BY <1>6
<1> DEFINE G == {n \in Nat : n <= N => first[n] \in Nat}
<1>8. G = Nat
  <2> HIDE DEF first, N
  <2>1. 0 \in G
    BY <1>1, <1>7
  <2>2. ASSUME NEW n \in G
        PROVE  n + 1 \in G
    <3> SUFFICES ASSUME n + 1 <= N
                 PROVE  first[n + 1] \in Nat
      OBVIOUS
    <3>1. n + 1 \in 0 .. N /\ n + 1 # 0 /\ (n + 1) - 1 = n /\ n <= N /\ n \in Nat
      BY <1>1
    <3>2. (first[n] + CountOf(lens, n)) * 2 \in Nat
      BY <1>2, <3>1
    <3> HIDE DEF W
    <3>3. first[n + 1] = ((first[n] + CountOf(lens, n)) * 2) % W
      BY <1>7, <3>1
    <3> QED BY <1>4, <3>2, <3>3
  <2>3. G \in SUBSET Nat
    OBVIOUS
  <2> HIDE DEF G
  <2> QED BY <2>1, <2>2, <2>3, Induct
<1>9. FirstCode(lens) = first
  BY DEF FirstCode
<1>10. \A s \in Symbol : (IF lens[s] = 0 THEN 0 ELSE (FirstCode(lens)[lens[s]] + Rank(lens, s)) % W) \in Nat
  <2> TAKE s \in Symbol
  <2> SUFFICES ASSUME lens[s] # 0
               PROVE  (first[lens[s]] + Rank(lens, s)) % W \in Nat
    BY <1>9
  <2>1. s \in Coded(lens) /\ lens[s] \in Nat /\ lens[s] <= N
    BY <1>1 DEF Coded
  <2>2. first[lens[s]] \in Nat
    <3>1. lens[s] \in G
      <4> HIDE DEF G
      <4> QED BY <1>8, <2>1
    <3> HIDE DEF first, N
    <3> QED BY <2>1, <3>1
  <2>3. Rank(lens, s) \in Nat
    BY <2>1, CodeByRank
  <2> HIDE DEF first, W
  <2> QED BY <1>4, <2>2, <2>3
<1>11. CanonicalBits(lens) = [s \in Symbol |-> IF lens[s] = 0 THEN 0 ELSE (FirstCode(lens)[lens[s]] + Rank(lens, s)) % W]
  BY DEF CanonicalBits
<1> HIDE DEF W
<1> QED BY <1>10, <1>11

-----------------------------------------------------------------------------
(* The tree, step by step. *)

\* One leaf for each used symbol.
LEMMA LeafOk ==
  ASSUME input \in Seq(Symbol), next_order \in Nat, next_order >= Cardinality(Symbol), NEW s \in Used
  PROVE  /\ NodeOk(Leaf(s)) /\ DOMAIN Leaf(s).depth = {s}
         /\ Leaf(s).order = Cardinality({t \in Used : t < s})
<1> DEFINE T == {t \in Used : t < s}
           d == [t \in {s} |-> 0]
<1>1. Leaf(s).weight = Frequency(s) /\ Leaf(s).order = Cardinality(T) /\ Leaf(s).depth = d
  BY DEF Leaf
<1>2. DOMAIN d = {s} /\ d[s] = 0 /\ s \in Symbol /\ s \in Nat
  BY Occurrences, CodeAssumption
<1>3. Cardinality(T) \in Nat /\ Cardinality(T) < next_order
  <2>1. T \in SUBSET Used /\ T # Used /\ IsFiniteSet(Used)
    BY <1>2, Occurrences
  <2>2. Cardinality(T) \in Nat /\ Cardinality(T) < Cardinality(Used)
    <3> HIDE DEF T
    <3> QED BY <2>1, Occurrences, FS_Subset, FS_CardinalityType
  <2>3. Cardinality(Used) <= Cardinality(Symbol) /\ Cardinality(Symbol) \in Nat
    BY Occurrences, FS_Subset, FS_CardinalityType, CodeAssumption
  <2> HIDE DEF T
  <2> QED BY <2>2, <2>3, Occurrences
<1>4. Frequency(s) = SumOf(Weights, {s})
  <2>1. SumOf(Weights, {} \union {s}) = SumOf(Weights, {}) + Weights[s]
    <3>1. \A t \in {} \union {s} : Weights[t] \in Nat
      BY <1>2, Occurrences
    <3> QED BY <3>1, SumAdd, FS_EmptySet
  <2>2. {} \union {s} = {s} /\ SumOf(Weights, {}) = 0 /\ Weights[s] \in Nat /\ Weights[s] = Frequency(s)
    BY <1>2, Occurrences, SumEmpty
  <2> QED BY <2>1, <2>2
<1>5. Full(d, {s})
  <2> SUFFICES ASSUME NEW n \in Nat
               PROVE  Taken(d, n, {s}) = 2^n
    BY DEF Full
  <2> HIDE DEF d
  <2>1. d[s] \in Nat /\ d[s] <= n /\ n - d[s] = n
    BY <1>2
  <2>2. Taken(d, n, {s}) = 2^(n - d[s])
    BY <2>1, TakenOne
  <2> QED BY <2>1, <2>2
<1> HIDE DEF d, T
<1>6. NodeOk(Leaf(s))
  BY <1>1, <1>2, <1>3, <1>4, <1>5 DEF NodeOk, Single
<1> QED BY <1>1, <1>2, <1>6 DEF T

\* Leaves of different symbols have different orders.
LEMMA LeavesApart ==
  ASSUME input \in Seq(Symbol), NEW s \in Used, NEW t \in Used, s # t
  PROVE  Cardinality({u \in Used : u < s}) # Cardinality({u \in Used : u < t})
<1>1. ASSUME NEW x \in Used, NEW y \in Used, x < y
      PROVE  Cardinality({u \in Used : u < x}) < Cardinality({u \in Used : u < y})
  <2> DEFINE A == {u \in Used : u < x}  B == {u \in Used : u < y}
  <2>1. \A u \in Used : u \in Nat
    BY Occurrences, CodeAssumption
  <2>2. A \in SUBSET B /\ x \in B /\ x \notin A /\ IsFiniteSet(B)
    <3>1. B \in SUBSET Used
      OBVIOUS
    <3>2. IsFiniteSet(B)
      <4> HIDE DEF B
      <4> QED BY <3>1, Occurrences
    <3>3. A \in SUBSET B
      <4> SUFFICES ASSUME NEW u \in A
                   PROVE  u \in B
        OBVIOUS
      <4>1. u \in Nat /\ x \in Nat /\ y \in Nat
        BY <2>1
      <4> QED BY <4>1, <1>1
    <3>4. x \in B /\ x \notin A
      BY <1>1, <2>1
    <3> QED BY <3>2, <3>3, <3>4
  <2> HIDE DEF A, B
  <2>3. A # B
    BY <2>2
  <2>4. Cardinality(A) < Cardinality(B)
    <3>1. Cardinality(A) <= Cardinality(B) /\ (Cardinality(A) = Cardinality(B) => A = B) /\ IsFiniteSet(A)
      BY <2>2, FS_Subset
    <3>2. Cardinality(A) \in Nat /\ Cardinality(B) \in Nat
      BY <2>2, <3>1, FS_CardinalityType
    <3> QED BY <2>3, <3>1, <3>2
  <2> QED BY <2>4 DEF A, B
<1>2. s \in Nat /\ t \in Nat
  BY Occurrences, CodeAssumption
<1>3. \A u \in Used : Cardinality({v \in Used : v < u}) \in Nat
  <2> TAKE u \in Used
  <2>1. {v \in Used : v < u} \in SUBSET Used
    OBVIOUS
  <2>2. IsFiniteSet({v \in Used : v < u})
    BY <2>1, Occurrences
  <2> QED BY <2>2, FS_CardinalityType
<1>4. CASE s < t
  <2>1. Cardinality({u \in Used : u < s}) < Cardinality({u \in Used : u < t})
    BY <1>1, <1>4
  <2> QED BY <1>3, <2>1
<1>5. CASE t < s
  <2>1. Cardinality({u \in Used : u < t}) < Cardinality({u \in Used : u < s})
    BY <1>1, <1>5
  <2> QED BY <1>3, <2>1
<1> QED BY <1>2, <1>4, <1>5

\* InitializeTree makes a forest of the used symbols.
LEMMA TreeBegins ==
  ASSUME input \in Seq(Symbol), next_order = OrderBase, InitializeTree, Used # {}
  PROVE  Forest'
<1>1. next_order \in Nat /\ next_order >= Cardinality(Symbol)
  BY HuffmanAssumption
<1>2. /\ input' = input /\ next_order' = next_order /\ activeNodes' = {Leaf(s) : s \in Used}
      /\ Used' = Used /\ Weights' = Weights
  BY DEF InitializeTree, Used, Weights, Frequency
<1>3. \A s \in Used : NodeOk(Leaf(s)) /\ DOMAIN Leaf(s).depth = {s} /\ Leaf(s).order = Cardinality({t \in Used : t < s})
  BY <1>1, LeafOk
<1>4. \A a : NodeOk(a) => NodeOk(a)'
  BY <1>2 DEF NodeOk, Single
<1>5. IsFiniteSet({Leaf(s) : s \in Used}) /\ {Leaf(s) : s \in Used} # {}
  <2>1. IsFiniteSet({Leaf(s) : s \in Used})
    <3> DEFINE f == [s \in Used |-> Leaf(s)]
               T == {Leaf(s) : s \in Used}
    <3>1. f \in [Used -> T] /\ \A x \in T : \E s \in Used : f[s] = x
      OBVIOUS
    <3>2. f \in Surjection(Used, T)
      <4> HIDE DEF f, T
      <4> QED BY <3>1 DEF Surjection
    <3> HIDE DEF f, T
    <3>3. IsFiniteSet(T)
      BY <3>2, Occurrences, FS_Surjection
    <3> QED BY <3>3 DEF T
  <2>2. PICK s \in Used : TRUE
    OBVIOUS
  <2>3. Leaf(s) \in {Leaf(t) : t \in Used}
    OBVIOUS
  <2> QED BY <2>1, <2>3
<1>6. ASSUME NEW a \in activeNodes', NEW b \in activeNodes', a # b
      PROVE  a.order # b.order /\ DOMAIN a.depth \cap DOMAIN b.depth = {}
  <2>1. PICK s \in Used : a = Leaf(s)
    BY <1>2
  <2>2. PICK t \in Used : b = Leaf(t)
    BY <1>2
  <2>3. s # t
    BY <1>6, <2>1, <2>2
  <2>4. a.order # b.order
    BY <1>3, <2>1, <2>2, <2>3, LeavesApart
  <2>5. DOMAIN a.depth = {s} /\ DOMAIN b.depth = {t}
    BY <1>3, <2>1, <2>2
  <2> QED BY <2>3, <2>4, <2>5
<1>7. \A a \in activeNodes' : NodeOk(a)'
  <2> TAKE a \in activeNodes'
  <2>1. PICK s \in Used : a = Leaf(s)
    BY <1>2
  <2> QED BY <1>3, <1>4, <2>1
<1>8. \A s \in Used' : \E a \in activeNodes' : s \in DOMAIN a.depth
  <2> TAKE s \in Used'
  <2>1. Leaf(s) \in activeNodes' /\ s \in DOMAIN Leaf(s).depth
    BY <1>2, <1>3
  <2> QED BY <2>1
<1> QED BY <1>1, <1>2, <1>5, <1>6, <1>7, <1>8 DEF Forest

\* Merge makes a forest of a forest.
LEMMA TreeGrows ==
  ASSUME input \in Seq(Symbol), Forest, Merge
  PROVE  Forest'
<1>1. PICK a : a = First(activeNodes)
  OBVIOUS
<1>2. PICK b : b = First(activeNodes \ {a})
  OBVIOUS
<1>3. PICK p : p = Parent(a, b)
  OBVIOUS
<1> DEFINE rest == activeNodes \ {a, b}
<1>4. a \in activeNodes /\ b \in activeNodes /\ a # b
  BY <1>1, <1>2, FirstTwo DEF Merge
<1>5. /\ input' = input /\ next_order' = next_order + 1
      /\ activeNodes' = rest \union {p}
      /\ Used' = Used /\ Weights' = Weights
  BY <1>1, <1>2, <1>3 DEF Merge, Used, Weights, Frequency
<1>6. /\ NodeOk(a) /\ NodeOk(b) /\ next_order \in Nat
      /\ DOMAIN a.depth \cap DOMAIN b.depth = {}
  BY <1>4 DEF Forest
<1>7. /\ p.order = next_order /\ p.weight = SumOf(Weights, DOMAIN p.depth)
      /\ DOMAIN p.depth = DOMAIN a.depth \union DOMAIN b.depth
      /\ \A s \in DOMAIN p.depth : p.depth[s] \in Nat /\ p.depth[s] > 0
      /\ Full(p.depth, DOMAIN p.depth)
  BY <1>3, <1>6, ParentOk
<1>8. NodeOk(p)'
  <2>1. DOMAIN p.depth \in SUBSET Used /\ DOMAIN p.depth # {}
    BY <1>6, <1>7 DEF NodeOk
  <2>2. p.order \in Nat /\ p.order < next_order'
    BY <1>5, <1>6, <1>7
  <2> QED BY <1>5, <1>7, <2>1, <2>2 DEF NodeOk
<1>9. \A c \in rest : NodeOk(c) /\ NodeOk(c)' /\ c.order # p.order /\ DOMAIN c.depth \cap DOMAIN p.depth = {}
  <2> TAKE c \in rest
  <2>1. NodeOk(c) /\ c \in activeNodes /\ c # a /\ c # b
    BY DEF Forest
  <2>2. c.order \in Nat /\ c.order < next_order /\ next_order \in Nat
    BY <1>6, <2>1 DEF NodeOk
  <2>3. c.order < next_order' /\ c.order # p.order
    BY <1>5, <1>7, <2>2
  <2>4. DOMAIN c.depth \cap DOMAIN a.depth = {} /\ DOMAIN c.depth \cap DOMAIN b.depth = {}
    BY <1>4, <2>1 DEF Forest
  <2>5. NodeOk(c)'
    BY <1>5, <2>1, <2>3 DEF NodeOk, Single
  <2> QED BY <1>7, <2>1, <2>3, <2>4, <2>5
<1>10. \A c, d \in rest : c # d => c.order # d.order /\ DOMAIN c.depth \cap DOMAIN d.depth = {}
  BY DEF Forest
<1>11. IsFiniteSet(rest \union {p})
  <2>1. IsFiniteSet(rest)
    <3>1. rest \in SUBSET activeNodes
      OBVIOUS
    <3> HIDE DEF rest
    <3> QED BY <3>1, FS_Subset DEF Forest
  <2> HIDE DEF rest
  <2> QED BY <2>1, FS_AddElement
<1>12. \A s \in Used' : \E c \in activeNodes' : s \in DOMAIN c.depth
  <2> TAKE s \in Used'
  <2>1. PICK c \in activeNodes : s \in DOMAIN c.depth
    BY <1>5 DEF Forest
  <2>2. CASE c \in rest
    BY <1>5, <2>1, <2>2
  <2>3. CASE c \notin rest
    BY <1>5, <1>7, <2>1, <2>3
  <2> QED BY <2>2, <2>3
<1> HIDE DEF rest
<1>13. \A c \in activeNodes' : NodeOk(c)'
  BY <1>5, <1>8, <1>9
<1>14. \A c, d \in activeNodes' : c # d => c.order # d.order /\ DOMAIN c.depth \cap DOMAIN d.depth = {}
  <2> TAKE c, d \in activeNodes'
  <2> HAVE c # d
  <2>1. CASE c = p
    <3>1. d \in rest
      BY <1>5, <2>1
    <3> QED BY <1>9, <2>1, <3>1
  <2>2. CASE d = p
    <3>1. c \in rest
      BY <1>5, <2>2
    <3> QED BY <1>9, <2>2, <3>1
  <2>3. CASE c # p /\ d # p
    BY <1>5, <1>10, <2>3
  <2> QED BY <2>1, <2>2, <2>3
<1>15. next_order' \in Nat
  BY <1>5, <1>6
<1> QED BY <1>5, <1>11, <1>12, <1>13, <1>14, <1>15 DEF Forest

\* The lengths of the codes, as a table.
LensOf == [s \in Symbol |-> codes[s].length]

\* The codes are canonical ones of a prefix code of the used symbols.
Canonical ==
  /\ Fits(LensOf) /\ Coded(LensOf) = Used
  /\ \A s \in Symbol : codes[s].bits = CanonicalBits(LensOf)[s]

\* The lengths that AssignCodes reads off the tree leave room for canonical codes.
LEMMA TreeGivesCodes ==
  ASSUME input \in Seq(Symbol), Forest, Cardinality(Used) > 1, AssignCodes
  PROVE  Canonical' /\ codes' \in [Symbol -> [length : Nat, bits : Nat]]
<1>1. PICK a : a = First(activeNodes)
  OBVIOUS
<1>2. a \in activeNodes
  <2>1. \A c \in activeNodes : c.weight \in Nat /\ c.order \in Nat
    BY NodeType DEF Forest
  <2> QED BY <1>1, <2>1, FirstOf DEF Forest
<1>3. activeNodes = {a}
  <2>1. Cardinality(activeNodes) = 1 /\ IsFiniteSet(activeNodes)
    BY DEF AssignCodes, Forest
  <2>2. PICK x : activeNodes = {x}
    BY <2>1, FS_Singleton
  <2> QED BY <1>2, <2>2
<1>4. PICK d : d = a.depth
  OBVIOUS
<1>5. DOMAIN d = Used
  BY <1>3, <1>4 DEF Forest, NodeOk
<1>6. \A s \in Used : d[s] \in Nat /\ d[s] > 0
  <2>1. ~Single(a)
    <3> SUFFICES ASSUME NEW s \in Used, Used = {s}
                 PROVE  FALSE
      BY <1>4, <1>5 DEF Single
    <3>1. Cardinality({s}) = 1
      BY FS_Singleton
    <3> QED BY <3>1
  <2> QED BY <1>2, <1>4, <1>5, <2>1 DEF Forest, NodeOk
<1>7. PICK lens : lens = [s \in Symbol |-> IF s \in DOMAIN d THEN d[s] ELSE 0]
  OBVIOUS
<1>8. lens \in [Symbol -> Nat] /\ Coded(lens) = Used /\ \A s \in Used : lens[s] = d[s]
  <2>1. Used \in SUBSET Symbol
    BY Occurrences
  <2>2. \A s \in Symbol : lens[s] = IF s \in Used THEN d[s] ELSE 0
    BY <1>5, <1>7
  <2>3. lens \in [Symbol -> Nat]
    BY <1>5, <1>6, <1>7
  <2>4. \A s \in Symbol : lens[s] > 0 <=> s \in Used
    BY <1>6, <2>2
  <2> QED BY <2>1, <2>2, <2>3, <2>4 DEF Coded
<1>9. Kraft(lens, Used)
  <2> SUFFICES ASSUME NEW n \in Nat, Within(lens, n, Used)
               PROVE  Taken(lens, n, Used) <= 2^n
    BY DEF Kraft
  <2>1. Taken(lens, n, Used) = Taken(d, n, Used)
    <3>1. \A s \in Used : n - lens[s] = n - d[s]
      BY <1>8
    <3> QED BY <3>1, TakenEqual
  <2>2. Within(d, n, Used)
    BY <1>8 DEF Within
  <2>3. Taken(d, n, Used) = 2^n
    <3>1. Full(d, Used)
      BY <1>2, <1>4, <1>5 DEF Forest, NodeOk
    <3> QED BY <2>2, <3>1 DEF Full
  <2> QED BY <2>1, <2>3, PowerType
<1>10. Fits(lens)
  BY <1>8, <1>9 DEF Fits
<1>11. codes' = [s \in Symbol |-> [length |-> lens[s], bits |-> CanonicalBits(lens)[s]]] /\ input' = input
  BY <1>1, <1>4, <1>7 DEF AssignCodes
<1>12. CanonicalBits(lens) \in [Symbol -> Nat]
  BY <1>8, BitsType
<1>13. LensOf' = lens /\ Used' = Used
  <2>1. LensOf' = [s \in Symbol |-> lens[s]]
    BY <1>11 DEF LensOf
  <2> QED BY <1>8, <1>11, <2>1 DEF Used, Frequency
<1>14. codes' \in [Symbol -> [length : Nat, bits : Nat]]
  BY <1>8, <1>11, <1>12
<1>15. \A s \in Symbol : codes'[s].bits = CanonicalBits(lens)[s]
  BY <1>11
<1> QED BY <1>8, <1>10, <1>13, <1>14, <1>15 DEF Canonical

-----------------------------------------------------------------------------
(* What is written. *)

CodesType == input \in Seq(Symbol) /\ codes \in [Symbol -> [length : Nat, bits : Nat]]

\* The bits of a code, and their number.
LEMMA CodeBits ==
  ASSUME CodesType
  PROVE  \A s \in Symbol : /\ Code(s) \in Seq({0, 1}) /\ Len(Code(s)) = codes[s].length
                           /\ codes[s].length \in Nat /\ codes[s].bits \in Nat
<1> TAKE s \in Symbol
<1>1. codes[s].length \in Nat /\ codes[s].bits \in Nat
  BY DEF CodesType
<1>2. PICK n \in Nat : n = codes[s].length
  BY <1>1
<1>3. PICK x \in Nat : x = codes[s].bits
  BY <1>1
<1>4. \A k \in 1 .. n : (x \div 2^(n - k)) % 2 \in {0, 1}
  <2> TAKE k \in 1 .. n
  <2>1. n - k \in Nat
    OBVIOUS
  <2>2. 2^(n - k) \in Nat /\ 2^(n - k) > 0
    BY <2>1, PowerType
  <2>3. x \div 2^(n - k) \in Nat
    BY <2>2, Divide
  <2> QED BY <2>3
<1>5. BitsOf(x, n) \in Seq({0, 1}) /\ Len(BitsOf(x, n)) = n
  BY <1>4, IsASeq, LenProperties DEF BitsOf
<1> QED BY <1>2, <1>3, <1>5 DEF Code

CodeLengths == [k \in 1 .. Len(input) |-> codes[input[k]].length]

\* Where the code of each symbol of the input stands in the stream.
LEMMA CodesAre ==
  ASSUME CodesType
  PROVE  /\ Codes \in Seq({0, 1}) /\ Len(Codes) = Off(CodeLengths, Len(input))
         /\ \A k \in 1 .. Len(input) : /\ input[k] \in Symbol /\ CodeLengths[k] \in Nat
                                       /\ CodeLengths[k] = codes[input[k]].length
         /\ \A m \in 1 .. Len(input) : \A j \in 1 .. CodeLengths[m] :
              Codes[Off(CodeLengths, m - 1) + j] = Code(input[m])[j]
<1>1. PICK q : q = [k \in 1 .. Len(input) |-> Code(input[k])]
  OBVIOUS
<1>2. PICK N \in Nat : N = Len(input)
  <2>1. Len(input) \in Nat
    BY DEF CodesType
  <2> QED BY <2>1
<1>3. PICK f : f = CodeLengths
  OBVIOUS
<1>4. Len(input) \in Nat /\ DOMAIN input = 1 .. Len(input) /\ \A k \in 1 .. Len(input) : input[k] \in Symbol
  BY ElementOfSeq DEF CodesType
<1>5. \A k \in 1 .. Len(input) : q[k] = Code(input[k]) /\ CodeLengths[k] = codes[input[k]].length
  BY <1>1 DEF CodeLengths
<1>6. q \in [1 .. N -> Seq({0, 1})]
  BY <1>1, <1>2, <1>4, CodeBits
<1>7. \A k \in 1 .. Len(input) : CodeLengths[k] = Len(q[k]) /\ CodeLengths[k] \in Nat
  BY <1>4, <1>5, CodeBits
<1>8. Codes = FlattenSeq(q)
  BY <1>1, <1>4 DEF Codes
<1>9. /\ FlattenSeq(q) \in Seq({0, 1}) /\ Len(FlattenSeq(q)) = Off(CodeLengths, Len(input))
      /\ \A m \in 1 .. Len(input) : \A j \in 1 .. CodeLengths[m] :
           FlattenSeq(q)[Off(CodeLengths, m - 1) + j] = q[m][j]
  <2>1. PartsOf(q, f, N, {0, 1})
    BY <1>4, <1>2, <1>3, <1>6, <1>7 DEF PartsOf
  <2>2. /\ FlattenSeq(q) \in Seq({0, 1}) /\ Len(FlattenSeq(q)) = Off(f, N)
        /\ \A m \in 1 .. N : \A j \in 1 .. f[m] : FlattenSeq(q)[Off(f, m - 1) + j] = q[m][j]
    BY <2>1, Flatten DEF MadeOf
  <2> QED BY <1>2, <1>3, <2>2
<1> QED BY <1>4, <1>5, <1>7, <1>8, <1>9

BeginsWith(stream, bits) ==
  /\ Len(bits) <= Len(stream)
  /\ \A p \in 1 .. Len(bits) : stream[p] = bits[p]

\* The bytes that are stored. When none is lost they begin with the codes.
LEMMA BytesAre ==
  ASSUME NEW bits \in Seq({0, 1}), NEW n, n = BytesFor(Len(bits)), NEW S \in SUBSET (1 .. n),
         NEW stream, stream = FlattenSeq([b \in 1 .. n |-> IF b \in S THEN Byte(bits, b) ELSE << >>])
  PROVE  /\ stream \in Seq({0, 1})
         /\ S = 1 .. n => BeginsWith(stream, bits)
<1>1. PICK q : q = [b \in 1 .. n |-> IF b \in S THEN Byte(bits, b) ELSE << >>]
  OBVIOUS
<1>2. PICK f : f = [b \in 1 .. n |-> Len(q[b])]
  OBVIOUS
<1>3. PICK B : B = ByteBits
  OBVIOUS
<1>4. B \in Nat /\ B > 0 /\ Len(bits) \in Nat
  BY <1>3, HuffmanAssumption
<1>5. n \in Nat /\ Len(bits) <= B * n
  <2>1. Len(bits) + B - 1 \in Nat
    BY <1>4
  <2>2. PICK a \in Nat : a = Len(bits) + B - 1
    BY <2>1
  <2>3. a \div B \in Nat /\ a % B \in Nat /\ a % B < B /\ a = B * (a \div B) + (a % B)
    BY <1>4, Divide
  <2>4. n = a \div B
    BY <1>3, <2>2 DEF BytesFor
  <2>5. PICK r \in Nat : r = a % B
    BY <2>3
  <2>6. r < B /\ a = B * n + r /\ n \in Nat
    BY <2>3, <2>4, <2>5
  <2> QED BY <1>4, <2>2, <2>6
<1>6. \A b \in 1 .. n : Byte(bits, b) \in Seq({0, 1}) /\ Len(Byte(bits, b)) = B
  <2> TAKE b \in 1 .. n
  <2>1. \A k \in 1 .. B : (b - 1) * B + k <= Len(bits) => (b - 1) * B + k \in 1 .. Len(bits)
    <3> TAKE k \in 1 .. B
    <3>1. (b - 1) \in Nat /\ k \in Nat /\ k >= 1
      BY <1>4, <1>5
    <3>2. PICK c \in Nat : c = b - 1
      BY <3>1
    <3>3. c * B \in Nat
      BY <1>4
    <3> QED BY <1>4, <3>1, <3>2, <3>3
  <2>2. \A k \in 1 .. B : (IF (b - 1) * B + k <= Len(bits) THEN bits[(b - 1) * B + k] ELSE 0) \in {0, 1}
    <3> TAKE k \in 1 .. B
    <3>1. PICK i : i = (b - 1) * B + k
      OBVIOUS
    <3>2. i <= Len(bits) => i \in 1 .. Len(bits)
      BY <2>1, <3>1
    <3>3. (IF i <= Len(bits) THEN bits[i] ELSE 0) \in {0, 1}
      BY <3>2, ElementOfSeq
    <3> QED BY <3>1, <3>3
  <2>3. Byte(bits, b) = [k \in 1 .. B |-> IF (b - 1) * B + k <= Len(bits) THEN bits[(b - 1) * B + k] ELSE 0]
    BY <1>3 DEF Byte
  <2>4. Byte(bits, b) \in [1 .. B -> {0, 1}]
    BY <2>2, <2>3
  <2>5. PICK y \in [1 .. B -> {0, 1}] : y = Byte(bits, b)
    BY <2>4
  <2>6. y \in Seq({0, 1}) /\ Len(y) = B
    BY <1>4, IsASeq, LenProperties
  <2> QED BY <2>5, <2>6
<1>7. \A b \in 1 .. n : q[b] = IF b \in S THEN Byte(bits, b) ELSE << >>
  BY <1>1
<1>8. q \in [1 .. n -> Seq({0, 1})]
  BY <1>1, <1>6
<1>9. \A b \in 1 .. n : f[b] = Len(q[b])
  BY <1>2
<1>10. /\ FlattenSeq(q) \in Seq({0, 1}) /\ Len(FlattenSeq(q)) = Off(f, n)
      /\ \A m \in 1 .. n : \A j \in 1 .. f[m] : FlattenSeq(q)[Off(f, m - 1) + j] = q[m][j]
  <2>1. PartsOf(q, f, n, {0, 1})
    BY <1>8, <1>9 DEF PartsOf
  <2> QED BY <1>5, <2>1, Flatten DEF MadeOf
<1>11. ASSUME S = 1 .. n
      PROVE  /\ Len(bits) <= Len(FlattenSeq(q))
             /\ \A p \in 1 .. Len(bits) : FlattenSeq(q)[p] = bits[p]
  <2>1. \A b \in 1 .. n : q[b] = Byte(bits, b) /\ f[b] = B /\ f[b] \in Nat
    BY <1>4, <1>6, <1>7, <1>9, <1>11
  <2>2. \A m \in 0 .. n : Off(f, m) = B * m
    <3> TAKE m \in 0 .. n
    <3>1. PICK g : g = [k \in 1 .. m |-> 1]
      OBVIOUS
    <3>2. PICK T : T = 1 .. m
      OBVIOUS
    <3>3. IsFiniteSet(1 .. m) /\ Cardinality(1 .. m) = m
      <4>1. 1 \in Int /\ m \in Int
        BY <1>5
      <4>2. IsFiniteSet(1 .. m) /\ Cardinality(1 .. m) = IF 1 > m THEN 0 ELSE m - 1 + 1
        BY <4>1, FS_Interval
      <4> QED BY <1>5, <4>2
    <3>4. \A k \in 1 .. m : g[k] = 1 /\ g[k] \in Nat /\ f[k] = B * g[k]
      <4>1. \A k \in 1 .. m : k \in 1 .. n
        BY <1>5
      <4> QED BY <1>4, <2>1, <3>1, <4>1
    <3>5. SumOf(f, 1 .. m) = B * SumOf(g, 1 .. m)
      <4>1. IsFiniteSet(T) /\ \A k \in T : g[k] \in Nat /\ f[k] = B * g[k]
        BY <3>2, <3>3, <3>4
      <4>2. SumOf(f, T) = B * SumOf(g, T)
        BY <1>4, <4>1, SumScale
      <4> QED BY <3>2, <4>2
    <3>6. SumOf(g, 1 .. m) = m
      <4>1. \A k \in 1 .. m : g[k] = 1
        BY <3>4
      <4> QED BY <3>3, <4>1, SumOnes
    <3> QED BY <3>5, <3>6 DEF Off
  <2>3. Off(f, n) = B * n
    BY <1>5, <2>2
  <2>4. Len(bits) <= Len(FlattenSeq(q))
    BY <1>5, <1>10, <2>3
  <2>5. ASSUME NEW p \in 1 .. Len(bits)
        PROVE  FlattenSeq(q)[p] = bits[p]
    <3>1. p \in 1 .. Off(f, n)
      <4>1. PICK c : c = B * n
        OBVIOUS
      <4>2. c \in Nat
        BY <1>4, <1>5, <4>1
      <4>3. p \in 1 .. c
        BY <1>4, <1>5, <4>1, <4>2
      <4> QED BY <2>3, <4>1, <4>3
    <3>2. PICK m \in 1 .. n : \E j \in 1 .. f[m] : p = Off(f, m - 1) + j
      <4>1. \A k \in 1 .. n : f[k] \in Nat
        BY <2>1
      <4>2. \A x \in 1 .. Off(f, n) : \E m \in 1 .. n : \E j \in 1 .. f[m] : x = Off(f, m - 1) + j
        BY <1>5, <4>1, OffCovers
      <4> QED BY <3>1, <4>2
    <3>3. PICK j \in 1 .. f[m] : p = Off(f, m - 1) + j
      BY <3>2
    <3>4. FlattenSeq(q)[p] = Byte(bits, m)[j] /\ j \in 1 .. B
      BY <1>10, <2>1, <3>3
    <3>5. p = (m - 1) * B + j
      <4>1. m - 1 \in 0 .. n /\ m - 1 \in Nat
        BY <1>5
      <4>2. Off(f, m - 1) = B * (m - 1)
        BY <2>2, <4>1
      <4>3. PICK c \in Nat : c = m - 1
        BY <4>1
      <4>4. B * c = c * B
        BY <1>4
      <4> QED BY <3>3, <4>2, <4>3, <4>4
    <3>6. Byte(bits, m)[j] = IF (m - 1) * B + j <= Len(bits) THEN bits[(m - 1) * B + j] ELSE 0
      BY <1>3, <3>4 DEF Byte
    <3>7. p <= Len(bits)
      BY <1>4
    <3> QED BY <3>4, <3>5, <3>6, <3>7
  <2> QED BY <2>4, <2>5
<1> QED BY <1>1, <1>10, <1>11 DEF BeginsWith

-----------------------------------------------------------------------------
(* The invariant. *)

HuffmanTypes ==
  /\ pc \in {"count", "merge", "coded", "write", "stored", "decode"} \union Ended
  /\ input \in Seq(Symbol)
  /\ codes \in [Symbol -> [length : Nat, bits : Nat]]
  /\ file \in [size : Nat, lens : [Symbol -> 0 .. LengthLimit - 1], stream : Seq({0, 1})]
  /\ bitpos \in Nat /\ current_code \in Nat /\ current_length \in Nat

Building ==
  /\ pc = "count" => next_order = OrderBase
  /\ pc = "merge" => Forest /\ Cardinality(Used) > 1

AfterCodes == {"coded", "write", "stored", "decode", "restored", "rejected"}

Coding == pc \in AfterCodes /\ Cardinality(Used) > 1 => Canonical

Header ==
  pc \in AfterCodes \ {"coded"} /\ Used # {} =>
    /\ file.size = Len(input)
    /\ file.lens = [s \in Symbol |-> codes[s].length % LengthLimit]

\* When no byte was lost the stream begins with the codes.
Streamed ==
  pc \in AfterCodes \ {"coded", "write"} /\ Ordinary /\ ~lost => BeginsWith(file.stream, Codes)

Fresh ==
  pc \in {"count", "merge", "coded", "write", "stored"} =>
    /\ bitpos = 0 /\ current_code = 0 /\ current_length = 0
    /\ out = << >>

Tables ==
  pc = "decode" =>
    /\ entries = Entries(file.lens)
    /\ current_length <= LongestOf(file.lens)
    /\ Ordinary => decoder = [s \in Symbol |-> codes[s].bits]

\* m symbols are decoded, and the first current_length bits of the next code
\* are read.
DecodedTo(m) ==
  /\ out = SubSeq(input, 1, m)
  /\ bitpos = Off(CodeLengths, m) + current_length
  /\ m = Len(input) => current_length = 0
  /\ m < Len(input) =>
       LET s == input[m + 1]
       IN  /\ current_length < codes[s].length
           /\ current_code = Upper(CodeOf(LensOf, s), codes[s].length, current_length)

Reading == pc = "decode" /\ Ordinary /\ ~lost => \E m \in 0 .. Len(input) : DecodedTo(m)

IInv ==
  /\ HuffmanTypes /\ Building /\ Coding /\ Header /\ Streamed
  /\ Fresh /\ Tables /\ Reading /\ RestoresOrdinaryInput

-----------------------------------------------------------------------------
(* Ordinary files. *)

\* Ordinary codes have lengths that the file can hold, and are those of the lemmas about canonical codes.
LEMMA OrdinaryLengths ==
  ASSUME HuffmanTypes, Ordinary, Canonical
  PROVE  /\ Fits(LensOf) /\ LensOf \in [Symbol -> Nat]
         /\ \A s \in Symbol : LensOf[s] = codes[s].length /\ LensOf[s] <= CodeWidth
         /\ \A s \in Symbol : LensOf[s] % LengthLimit = LensOf[s]
         /\ \A s \in Symbol : codes[s].bits = IF LensOf[s] = 0 THEN 0 ELSE CodeOf(LensOf, s)
         /\ \A s \in Used : s \in Coded(LensOf) /\ codes[s].bits = CodeOf(LensOf, s)
         /\ Used # {}
<1>1. Fits(LensOf) /\ LensOf \in [Symbol -> Nat]
  BY DEF Canonical, Fits
<1>2. \A s \in Symbol : LensOf[s] = codes[s].length /\ LensOf[s] <= CodeWidth
  BY DEF LensOf, Ordinary
<1>3. \A s \in Symbol : LensOf[s] % LengthLimit = LensOf[s]
  <2> TAKE s \in Symbol
  <2>1. PICK x \in Nat : x = LensOf[s]
    BY <1>1
  <2>2. PICK l \in Nat : l = LengthLimit /\ x < l
    BY <1>2, <2>1, HuffmanAssumption, CodeAssumption
  <2>3. x % l = x
    BY <2>2
  <2> QED BY <2>1, <2>2, <2>3
<1>4. \A s \in Symbol : CanonicalBits(LensOf)[s] = IF LensOf[s] = 0 THEN 0 ELSE CodeOf(LensOf, s)
  BY <1>1, <1>2, EncoderCodes
<1>5. \A s \in Symbol : codes[s].bits = IF LensOf[s] = 0 THEN 0 ELSE CodeOf(LensOf, s)
  BY <1>4 DEF Canonical
<1>6. \A s \in Used : s \in Coded(LensOf) /\ codes[s].bits = CodeOf(LensOf, s)
  <2> TAKE s \in Used
  <2>1. s \in Coded(LensOf)
    BY DEF Canonical
  <2>2. s \in Symbol /\ LensOf[s] > 0 /\ LensOf[s] \in Nat
    BY <1>1, <2>1 DEF Coded
  <2> QED BY <1>5, <2>1, <2>2
<1>7. Used # {}
  BY FS_EmptySet DEF Ordinary
<1> QED BY <1>1, <1>2, <1>3, <1>5, <1>6, <1>7

\* The header of an ordinary file has the lengths of the codes and the size of the input.
LEMMA OrdinaryFile ==
  ASSUME HuffmanTypes, Ordinary, Coding, Header, pc \in AfterCodes \ {"coded"}
  PROVE  Canonical /\ file.lens = LensOf /\ file.size = Len(input)
<1>1. Canonical
  BY DEF Coding, Ordinary
<1>2. Used # {} /\ \A s \in Symbol : LensOf[s] = codes[s].length /\ LensOf[s] % LengthLimit = LensOf[s]
  BY <1>1, OrdinaryLengths
<1>3. file.size = Len(input) /\ file.lens = [s \in Symbol |-> codes[s].length % LengthLimit]
  BY <1>2 DEF Header
<1>4. LensOf = [s \in Symbol |-> LensOf[s]]
  BY DEF LensOf
<1>5. \A s \in Symbol : codes[s].length % LengthLimit = LensOf[s]
  BY <1>2
<1> QED BY <1>1, <1>3, <1>4, <1>5

\* One more bit of the code of the next symbol.
LEMMA NextBit ==
  ASSUME HuffmanTypes, Ordinary, ~lost, Coding, Header, Streamed, Tables, pc = "decode",
         NEW m \in 0 .. Len(input), m < Len(input), DecodedTo(m),
         NEW s, s = input[m + 1], NEW k, k = current_length, NEW n, n = codes[s].length
  PROVE  /\ bitpos < Len(file.stream)
         /\ NextCode = Upper(CodeOf(LensOf, s), n, k + 1) /\ NextLength = k + 1
         /\ k + 1 <= n /\ ~CodeTooLong
         /\ k + 1 < n => ~IsCode
         /\ k + 1 = n => IsCode /\ Found(file.lens, entries, decoder, NextCode, NextLength) = s
<1>1. pc \in AfterCodes \ {"coded", "write"} /\ pc \in AfterCodes \ {"coded"}
  BY DEF AfterCodes
<1>2. Canonical /\ file.lens = LensOf
  BY <1>1, OrdinaryFile
<1>3. PICK lens : lens = LensOf
  OBVIOUS
<1>4. /\ Fits(lens) /\ lens \in [Symbol -> Nat]
      /\ \A t \in Symbol : lens[t] = codes[t].length /\ lens[t] <= CodeWidth
      /\ \A t \in Symbol : codes[t].bits = IF lens[t] = 0 THEN 0 ELSE CodeOf(lens, t)
  BY <1>2, <1>3, OrdinaryLengths
<1>5. m + 1 \in 1 .. Len(input) /\ Len(input) \in Nat /\ (m + 1) - 1 = m
  BY DEF HuffmanTypes
<1>6. s \in Used /\ s \in Symbol /\ s \in Coded(lens) /\ codes[s].bits = CodeOf(lens, s) /\ n = lens[s] /\ n \in Nat
  <2>1. s \in Used /\ s \in Symbol
    BY <1>5, Occurrences DEF HuffmanTypes
  <2>2. s \in Coded(lens) /\ codes[s].bits = CodeOf(lens, s)
    BY <1>2, <1>3, <2>1, OrdinaryLengths
  <2> QED BY <1>4, <2>1, <2>2
<1>7. PICK x : x = CodeOf(lens, s)
  OBVIOUS
<1>8. x \in Nat /\ x + 1 <= 2^n
  BY <1>4, <1>6, <1>7, CodeFits
<1>9. k \in Nat /\ k < n /\ current_code = Upper(x, n, k) /\ bitpos = Off(CodeLengths, m) + k
  BY <1>3, <1>7 DEF DecodedTo, HuffmanTypes
<1>10. CodesType
  BY DEF CodesType, HuffmanTypes
<1>11. /\ CodeLengths[m + 1] = n
       /\ Len(Codes) = Off(CodeLengths, Len(input))
       /\ Codes[Off(CodeLengths, m) + (k + 1)] = Code(s)[k + 1]
  <2>1. CodeLengths[m + 1] = n
    BY <1>5, <1>10, CodesAre
  <2>2. k + 1 \in 1 .. CodeLengths[m + 1]
    BY <1>6, <1>9, <2>1
  <2>3. Codes[Off(CodeLengths, (m + 1) - 1) + (k + 1)] = Code(input[m + 1])[k + 1]
    BY <1>5, <1>10, <2>2, CodesAre
  <2> QED BY <1>5, <1>10, <2>1, <2>3, CodesAre
<1>12. bitpos + 1 \in 1 .. Len(Codes) /\ bitpos + 1 = Off(CodeLengths, m) + (k + 1)
  <2>1. \A j \in 1 .. Len(input) : CodeLengths[j] \in Nat
    BY <1>10, CodesAre
  <2>2. /\ Off(CodeLengths, m) \in Nat /\ Off(CodeLengths, m + 1) = Off(CodeLengths, m) + n
        /\ Off(CodeLengths, m + 1) <= Off(CodeLengths, Len(input)) /\ Off(CodeLengths, Len(input)) \in Nat
    <3>1. m \in 0 .. Len(input) /\ m + 1 \in 0 .. Len(input) /\ Len(input) \in 0 .. Len(input)
      BY <1>5
    <3>2. Off(CodeLengths, m + 1) = Off(CodeLengths, (m + 1) - 1) + CodeLengths[m + 1]
      BY <1>5, <2>1, OffSteps
    <3> QED BY <1>5, <1>11, <2>1, <3>1, <3>2, OffSteps
  <2>3. PICK a \in Nat : a = Off(CodeLengths, m)
    BY <2>2
  <2>4. PICK c \in Nat : c = Off(CodeLengths, Len(input))
    BY <2>2
  <2>5. PICK p : p = bitpos
    OBVIOUS
  <2>6. a + n <= c /\ p = a + k
    BY <1>9, <2>2, <2>3, <2>4, <2>5
  <2>7. p + 1 \in 1 .. c /\ p + 1 = a + (k + 1)
    BY <1>6, <1>9, <2>6
  <2>8. Len(Codes) = c
    BY <1>11, <2>4
  <2> QED BY <2>3, <2>5, <2>7, <2>8
<1>13. bitpos < Len(file.stream) /\ file.stream[bitpos + 1] = Codes[bitpos + 1]
  <2>1. Len(Codes) <= Len(file.stream) /\ file.stream[bitpos + 1] = Codes[bitpos + 1]
    BY <1>1, <1>12 DEF Streamed, BeginsWith
  <2>2. Len(file.stream) \in Nat /\ bitpos \in Nat /\ Len(Codes) \in Nat
    BY <1>10, CodesAre DEF HuffmanTypes
  <2> QED BY <1>12, <2>1, <2>2
<1>14. file.stream[bitpos + 1] = BitsOf(x, n)[k + 1]
  <2>1. Code(s) = BitsOf(x, n)
    BY <1>6, <1>7 DEF Code
  <2> QED BY <1>11, <1>12, <1>13, <2>1
<1>15. /\ Upper(x, n, k + 1) = 2 * Upper(x, n, k) + BitsOf(x, n)[k + 1]
       /\ Upper(x, n, k) \in Nat /\ Upper(x, n, k + 1) \in Nat /\ Upper(x, n, n) = x
  <2>1. 2^n \in Nat
    BY <1>6, PowerType
  <2>2. x < 2^n
    BY <1>8, <2>1
  <2>3. k \in 0 .. n - 1 /\ k \in 0 .. n /\ k + 1 \in 0 .. n
    BY <1>6, <1>9
  <2> QED BY <1>6, <1>8, <2>2, <2>3, UpperBits
<1>16. Upper(x, n, k + 1) < 2^WideWidth
  <2>1. Upper(x, n, k + 1) <= x
    <3>1. PICK d \in Nat : d = n - (k + 1)
      BY <1>6, <1>9
    <3>2. PICK c \in Nat : c = 2^d /\ c > 0
      BY PowerType
    <3>3. x \div c \in Nat /\ x % c \in Nat /\ x = c * (x \div c) + (x % c)
      BY <1>8, <3>2, Divide
    <3>4. PICK q \in Nat : q = x \div c
      BY <3>3
    <3>5. q <= c * q /\ c * q <= x
      BY <1>8, <3>2, <3>3, <3>4
    <3>6. q <= x
      <4>1. PICK y \in Nat : y = c * q
        BY <3>2, <3>4
      <4> QED BY <1>8, <3>4, <3>5, <4>1
    <3> QED BY <3>1, <3>2, <3>4, <3>6 DEF Upper
  <2>2. n <= WideWidth /\ WideWidth \in Nat
    BY <1>4, <1>6, CodeAssumption
  <2>3. 2^n <= 2^WideWidth /\ 2^n \in Nat /\ 2^WideWidth \in Nat
    BY <1>6, <2>2, PowersGrow, PowerType
  <2> QED BY <1>8, <1>15, <2>1, <2>3
<1>17. NextCode = Upper(x, n, k + 1)
  <2>1. PICK u \in Nat : u = Upper(x, n, k + 1)
    BY <1>15
  <2>2. PICK w \in Nat : w = 2^WideWidth
    BY CodeAssumption, PowerType
  <2>3. current_code * 2 + file.stream[bitpos + 1] = u
    <3>1. PICK v \in Nat : v = Upper(x, n, k)
      BY <1>15
    <3>2. u = 2 * v + file.stream[bitpos + 1] /\ current_code = v
      BY <1>9, <1>14, <1>15, <2>1, <3>1
    <3>3. file.stream[bitpos + 1] \in {0, 1}
      <4>1. bitpos + 1 \in 1 .. Len(file.stream)
        BY <1>13 DEF HuffmanTypes
      <4> QED BY <4>1, ElementOfSeq DEF HuffmanTypes
    <3> QED BY <3>2, <3>3
  <2>4. u % w = u
    BY <1>16, <2>1, <2>2
  <2> QED BY <2>1, <2>2, <2>3, <2>4 DEF NextCode
<1>18. NextLength = k + 1
  BY DEF NextLength
<1>19. k + 1 <= n /\ ~CodeTooLong
  <2>1. n <= LongestOf(lens) /\ LongestOf(lens) \in Nat
    BY <1>4, <1>6, Longest
  <2>2. k + 1 <= n
    BY <1>6, <1>9
  <2>3. ~(k + 1 > LongestOf(lens))
    BY <1>6, <1>9, <2>1, <2>2
  <2> QED BY <1>2, <1>3, <1>18, <2>2, <2>3 DEF CodeTooLong
<1>20. PICK e : e = entries /\ Sorted(lens, e)
  BY <1>2, <1>3, <1>4, EntriesSorted DEF Tables
<1>21. PICK dec : dec = decoder /\ \A t \in Coded(lens) : dec[t] = CodeOf(lens, t)
  <2>1. decoder = [t \in Symbol |-> codes[t].bits]
    BY DEF Tables
  <2>2. \A t \in Coded(lens) : t \in Symbol /\ lens[t] # 0
    BY <1>4, CodedFinite
  <2> QED BY <1>4, <2>1, <2>2
<1>22. ASSUME k + 1 < n
       PROVE  ~IsCode
  <2>1. k + 1 \in Nat /\ k + 1 < lens[s]
    BY <1>6, <1>9, <1>22
  <2>2. ~Hit(lens, e, dec, Upper(CodeOf(lens, s), lens[s], k + 1), k + 1)
    BY <1>4, <1>6, <1>20, <1>21, <2>1, BeginningMisses
  <2> QED BY <1>2, <1>3, <1>6, <1>7, <1>17, <1>18, <1>20, <1>21, <2>2 DEF IsCode
<1>23. ASSUME k + 1 = n
       PROVE  IsCode /\ Found(file.lens, entries, decoder, NextCode, NextLength) = s
  <2>1. Hit(lens, e, dec, CodeOf(lens, s), lens[s]) /\ Found(lens, e, dec, CodeOf(lens, s), lens[s]) = s
    BY <1>4, <1>6, <1>20, <1>21, CodeHits
  <2>2. NextCode = CodeOf(lens, s) /\ NextLength = lens[s]
    BY <1>6, <1>7, <1>15, <1>17, <1>18, <1>23
  <2> QED BY <1>2, <1>3, <1>20, <1>21, <2>1, <2>2 DEF IsCode
<1> QED BY <1>3, <1>7, <1>13, <1>17, <1>18, <1>19, <1>22, <1>23

\* What depends on the input and the codes alone.
LEMMA SameCodes ==
  ASSUME input' = input, codes' = codes
  PROVE  /\ Used' = Used /\ LensOf' = LensOf /\ (Ordinary' <=> Ordinary) /\ (Canonical' <=> Canonical)
         /\ Codes' = Codes /\ CodeLengths' = CodeLengths
<1>1. Used' = Used
  BY DEF Used, Frequency
<1>2. LensOf' = LensOf
  BY DEF LensOf
<1>3. Ordinary' <=> Ordinary
  BY <1>1 DEF Ordinary
<1>4. Canonical' <=> Canonical
  BY <1>1, <1>2 DEF Canonical
<1>5. Codes' = Codes
  BY DEF Codes, Code
<1>6. CodeLengths' = CodeLengths
  BY DEF CodeLengths
<1> QED BY <1>1, <1>2, <1>3, <1>4, <1>5, <1>6

\* The actions that leave the input and the codes alone.
Later ==
  \/ WriteHeader \/ WriteCodes \/ ReadHeader \/ NoMoreBits \/ RejectCode \/ CodeGoesOn
  \/ PutSymbol \/ DecodeEnds \/ OutOfMemory \/ AssignCodesCrashes \/ WriteFails \/ ReadHeaderFails

\* What the actions after the tree leave alone.
LEMMA LaterSteps ==
  ASSUME Later
  PROVE  /\ input' = input /\ codes' = codes
         /\ pc' \in AfterCodes => pc \in AfterCodes
         /\ pc' \in AfterCodes \ {"coded"} /\ ~WriteHeader => pc \in AfterCodes \ {"coded"}
         /\ pc' \in AfterCodes \ {"coded", "write"} /\ ~WriteCodes => pc \in AfterCodes \ {"coded", "write"}
         /\ pc' # "count" /\ pc' # "merge"
BY DEF Later, WriteHeader, WriteCodes, ReadHeader, NoMoreBits, RejectCode, CodeGoesOn, PutSymbol, DecodeEnds,
   OutOfMemory, AssignCodesCrashes, WriteFails, ReadHeaderFails, encoderVars, Goto, AfterCodes, AtEndOfFile,
   CodeIs, Decoding

\* The steps: those that build the tree, and the others.
LEMMA NextCases == [Next]_vars => InitializeTree \/ Merge \/ AssignCodes \/ Later \/ UNCHANGED vars
BY DEF Next, Step, Failure, Terminated, Later

-----------------------------------------------------------------------------
\* The invariant holds at first.
LEMMA InitInv == Init => IInv
<1> SUFFICES ASSUME Init
             PROVE  IInv
  OBVIOUS
<1>1. /\ pc \in {"count", "stored"} /\ next_order = OrderBase
      /\ codes = NoCodes /\ bitpos = 0 /\ current_code = 0 /\ current_length = 0 /\ out = << >>
      /\ pc = "stored" => input = << >>
  BY DEF Init
<1>2. HuffmanTypes
  <2>1. input \in Seq(Symbol)
    <3>1. << >> \in Seq(Symbol)
      OBVIOUS
    <3> QED BY <3>1, HuffmanAssumption DEF Init
  <2>2. NoCodes \in [Symbol -> [length : Nat, bits : Nat]]
    BY DEF NoCodes
  <2>3. NoFile \in [size : Nat, lens : [Symbol -> 0 .. LengthLimit - 1], stream : Seq({0, 1})]
    <3>1. 0 \in 0 .. LengthLimit - 1
      BY HuffmanAssumption
    <3>2. << >> \in Seq({0, 1})
      OBVIOUS
    <3> QED BY <3>1, <3>2 DEF NoFile
  <2>4. file \in [size : Nat, lens : [Symbol -> 0 .. LengthLimit - 1], stream : Seq({0, 1})]
    BY <2>3, HuffmanAssumption DEF Init
  <2> QED BY <1>1, <2>1, <2>2, <2>4 DEF HuffmanTypes
<1>3. pc = "stored" => Used = {} /\ ~Ordinary /\ ~(Cardinality(Used) > 1)
  <2> SUFFICES ASSUME pc = "stored"
               PROVE  Used = {} /\ ~Ordinary /\ ~(Cardinality(Used) > 1)
    OBVIOUS
  <2>1. DOMAIN input = {}
    BY <1>1
  <2>2. \A s \in Symbol : {k \in DOMAIN input : input[k] = s} = {}
    BY <2>1
  <2>3. \A s \in Symbol : Frequency(s) = 0
    <3> TAKE s \in Symbol
    <3> QED BY <2>2, FS_EmptySet DEF Frequency
  <2>4. Used = {}
    BY <2>3 DEF Used
  <2>5. Cardinality(Used) = 0
    BY <2>4, FS_EmptySet
  <2> QED BY <2>4, <2>5 DEF Ordinary
<1> QED BY <1>1, <1>2, <1>3
        DEF IInv, Building, Coding, Header, Streamed, Fresh, Tables, Reading, RestoresOrdinaryInput, AfterCodes

-----------------------------------------------------------------------------
(* Types. *)

\* The code read so far is a number.
LEMMA NextCodeType ==
  ASSUME HuffmanTypes, bitpos < Len(file.stream)
  PROVE  NextCode \in Nat /\ NextLength \in Nat /\ bitpos + 1 \in Nat
<1>1. bitpos + 1 \in 1 .. Len(file.stream)
  BY DEF HuffmanTypes
<1>2. file.stream[bitpos + 1] \in {0, 1}
  BY <1>1, ElementOfSeq DEF HuffmanTypes
<1>3. PICK x \in Nat : x = current_code * 2 + file.stream[bitpos + 1]
  BY <1>2 DEF HuffmanTypes
<1>4. PICK w \in Nat : w = 2^WideWidth /\ w > 0
  BY CodeAssumption, PowerType
<1>5. x % w \in Nat
  BY <1>4
<1> QED BY <1>3, <1>4, <1>5 DEF NextCode, NextLength, HuffmanTypes

\* Steps preserve the types.
LEMMA TypesKept ==
  ASSUME IInv, [Next]_vars
  PROVE  HuffmanTypes'
<1> USE DEF IInv
<1>1. CASE InitializeTree
  <2>1. Garbage \subseteq [length : Nat, bits : Nat]
    <3>1. 2^WideWidth \in Nat
      BY CodeAssumption, PowerType
    <3> QED BY <3>1, HuffmanAssumption
  <2> QED BY <1>1, <2>1 DEF HuffmanTypes, InitializeTree, fileVars, tableVars, readerVars, Goto, Ended
<1>2. CASE Merge
  BY <1>2 DEF HuffmanTypes, Merge, fileVars, tableVars, readerVars
<1>3. CASE AssignCodes
  <2>1. codes' \in [Symbol -> [length : Nat, bits : Nat]]
    BY <1>3, TreeGivesCodes DEF Building, AssignCodes, HuffmanTypes
  <2> QED BY <1>3, <2>1 DEF HuffmanTypes, AssignCodes, fileVars, tableVars, readerVars, Goto
<1>4. CASE WriteHeader
  <2>1. \A s \in Symbol : codes[s].length % LengthLimit \in 0 .. LengthLimit - 1
    <3> TAKE s \in Symbol
    <3>1. PICK x \in Nat : x = codes[s].length
      BY DEF HuffmanTypes
    <3>2. PICK l \in Nat : l = LengthLimit /\ l > 0
      BY HuffmanAssumption
    <3>3. x % l \in 0 .. l - 1
      BY <3>2
    <3> QED BY <3>1, <3>2, <3>3
  <2>2. << >> \in Seq({0, 1}) /\ Len(input) \in Nat
    BY DEF HuffmanTypes
  <2> QED BY <1>4, <2>1, <2>2 DEF HuffmanTypes, WriteHeader, encoderVars, tableVars, readerVars, Goto
<1>5. CASE WriteCodes
  <2>1. PICK n : n = BytesFor(Len(Codes))
    OBVIOUS
  <2>2. PICK S \in Stored(n) :
           file' = [file EXCEPT !.stream = FlattenSeq([b \in 1 .. n |-> IF b \in S THEN Byte(Codes, b) ELSE << >>])]
    BY <1>5, <2>1 DEF WriteCodes
  <2>3. PICK stream : stream = FlattenSeq([b \in 1 .. n |-> IF b \in S THEN Byte(Codes, b) ELSE << >>])
    OBVIOUS
  <2>4. stream \in Seq({0, 1})
    <3>1. PICK bits \in Seq({0, 1}) : bits = Codes
      BY CodesAre DEF CodesType, HuffmanTypes
    <3>2. S \in SUBSET (1 .. n)
      BY DEF Stored
    <3>3. n = BytesFor(Len(bits))
      BY <2>1, <3>1
    <3>4. stream = FlattenSeq([b \in 1 .. n |-> IF b \in S THEN Byte(bits, b) ELSE << >>])
      BY <2>3, <3>1
    <3> QED BY <3>2, <3>3, <3>4, BytesAre
  <2>5. file' \in [size : Nat, lens : [Symbol -> 0 .. LengthLimit - 1], stream : Seq({0, 1})]
    BY <2>2, <2>3, <2>4 DEF HuffmanTypes
  <2> QED BY <1>5, <2>5 DEF HuffmanTypes, WriteCodes, encoderVars, tableVars, readerVars, Goto
<1>6. CASE ReadHeader
  BY <1>6 DEF HuffmanTypes, ReadHeader, encoderVars, fileVars, readerVars, Goto
<1>7. CASE NoMoreBits \/ DecodeEnds
  BY <1>7 DEF HuffmanTypes, NoMoreBits, DecodeEnds, AtEndOfFile, encoderVars, fileVars, readerVars, Goto, Ended
<1>8. CASE RejectCode
  <2>1. NextCode \in Nat /\ NextLength \in Nat /\ bitpos + 1 \in Nat
    BY <1>8, NextCodeType DEF RejectCode
  <2> QED BY <1>8, <2>1 DEF HuffmanTypes, RejectCode, CodeIs, encoderVars, fileVars, Goto, Ended
<1>9. CASE CodeGoesOn
  <2>1. NextCode \in Nat /\ NextLength \in Nat /\ bitpos + 1 \in Nat
    BY <1>9, NextCodeType DEF CodeGoesOn
  <2> QED BY <1>9, <2>1 DEF HuffmanTypes, CodeGoesOn, CodeIs, encoderVars, fileVars
<1>10. CASE PutSymbol
  <2>1. NextCode \in Nat /\ NextLength \in Nat /\ bitpos + 1 \in Nat
    BY <1>10, NextCodeType DEF PutSymbol
  <2> QED BY <1>10, <2>1 DEF HuffmanTypes, PutSymbol, CodeIs, encoderVars, fileVars, Goto, Ended
<1>11. CASE OutOfMemory \/ AssignCodesCrashes \/ WriteFails \/ ReadHeaderFails
  BY <1>11 DEF HuffmanTypes, OutOfMemory, AssignCodesCrashes, WriteFails, ReadHeaderFails, encoderVars,
               fileVars, readerVars, Goto, Ended
<1>12. CASE UNCHANGED vars
  BY <1>12 DEF HuffmanTypes, vars, encoderVars, fileVars, readerVars
<1> QED BY <1>1, <1>2, <1>3, <1>4, <1>5, <1>6, <1>7, <1>8, <1>9, <1>10, <1>11, <1>12, NextCases DEF Later

-----------------------------------------------------------------------------
(* The encoder. *)

\* Steps preserve the forest.
LEMMA BuildingKept ==
  ASSUME IInv, [Next]_vars
  PROVE  Building'
<1> USE DEF IInv
<1>1. CASE InitializeTree
  <2>1. Used' = Used /\ input \in Seq(Symbol) /\ next_order = OrderBase /\ pc' # "count"
    BY <1>1 DEF InitializeTree, Used, Frequency, HuffmanTypes, Building, Goto
  <2>2. ASSUME pc' = "merge"
        PROVE  Forest' /\ Cardinality(Used') > 1
    <3>1. Cardinality(Used) > 1
      BY <1>1, <2>2 DEF InitializeTree, Goto
    <3>2. Used # {}
      BY <3>1, FS_EmptySet
    <3> QED BY <1>1, <2>1, <3>1, <3>2, TreeBegins
  <2> QED BY <2>1, <2>2 DEF Building
<1>2. CASE Merge
  <2>1. pc' = "merge" /\ Used' = Used /\ Forest /\ Cardinality(Used) > 1
    BY <1>2 DEF Merge, Used, Frequency, Building
  <2>2. Forest'
    BY <1>2, <2>1, TreeGrows DEF HuffmanTypes
  <2> QED BY <2>1, <2>2 DEF Building
<1>3. CASE AssignCodes
  BY <1>3 DEF AssignCodes, Building, Goto
<1>4. CASE Later
  BY <1>4, LaterSteps DEF Building
<1>5. CASE UNCHANGED vars
  <2>1. Forest' <=> Forest
    BY <1>5 DEF vars, encoderVars, Forest, NodeOk, Single, Weights, Used, Frequency
  <2>2. Used' = Used
    BY <1>5 DEF vars, encoderVars, Used, Frequency
  <2> QED BY <1>5, <2>1, <2>2 DEF vars, encoderVars, Building
<1> QED BY <1>1, <1>2, <1>3, <1>4, <1>5, NextCases

\* Steps preserve that codes are canonical.
LEMMA CodingKept ==
  ASSUME IInv, [Next]_vars
  PROVE  Coding'
<1> USE DEF IInv
<1>1. CASE InitializeTree
  <2>1. Used' = Used
    BY <1>1 DEF InitializeTree, Used, Frequency
  <2>2. pc' = "coded" => Cardinality(Used) = 1
    BY <1>1 DEF InitializeTree, Goto
  <2>3. pc' \in {"failed", "coded", "merge"}
    BY <1>1 DEF InitializeTree, Goto
  <2> QED BY <2>1, <2>2, <2>3 DEF Coding, AfterCodes
<1>2. CASE Merge
  BY <1>2 DEF Merge, Coding, AfterCodes
<1>3. CASE AssignCodes
  BY <1>3, TreeGivesCodes DEF AssignCodes, Building, HuffmanTypes, Coding
<1>4. CASE Later
  BY <1>4, LaterSteps, SameCodes DEF Coding
<1>5. CASE UNCHANGED vars
  <2>1. input' = input /\ codes' = codes /\ pc' = pc
    BY <1>5 DEF vars, encoderVars
  <2> QED BY <2>1, SameCodes DEF Coding
<1> QED BY <1>1, <1>2, <1>3, <1>4, <1>5, NextCases

\* Steps preserve what the header says.
LEMMA HeaderKept ==
  ASSUME IInv, [Next]_vars
  PROVE  Header'
<1> USE DEF IInv
<1>1. CASE InitializeTree \/ Merge \/ AssignCodes
  BY <1>1 DEF InitializeTree, Merge, AssignCodes, Goto, Header, AfterCodes
<1>2. CASE WriteHeader
  <2>1. /\ input' = input /\ codes' = codes
        /\ file'.size = Len(input) /\ file'.lens = [s \in Symbol |-> codes[s].length % LengthLimit]
    BY <1>2 DEF WriteHeader, encoderVars
  <2> QED BY <2>1 DEF Header
<1>3. CASE Later /\ ~WriteHeader
  <2>1. file'.size = file.size /\ file'.lens = file.lens
    <3>1. CASE WriteCodes
      <4>1. PICK n, S : file' = [file EXCEPT !.stream =
                 FlattenSeq([b \in 1 .. n |-> IF b \in S THEN Byte(Codes, b) ELSE << >>])]
        BY <3>1 DEF WriteCodes
      <4> QED BY <4>1 DEF HuffmanTypes
    <3>2. CASE ~WriteCodes
      BY <1>3, <3>2 DEF Later, ReadHeader, NoMoreBits, RejectCode, CodeGoesOn, PutSymbol, DecodeEnds,
         OutOfMemory, AssignCodesCrashes, WriteFails, ReadHeaderFails, fileVars
    <3> QED BY <3>1, <3>2
  <2>2. pc' \in AfterCodes \ {"coded"} => pc \in AfterCodes \ {"coded"}
    BY <1>3, LaterSteps
  <2> QED BY <1>3, <2>1, <2>2, LaterSteps, SameCodes DEF Header
<1>4. CASE UNCHANGED vars
  <2>1. input' = input /\ codes' = codes /\ pc' = pc /\ file' = file
    BY <1>4 DEF vars, encoderVars, fileVars
  <2> QED BY <2>1, SameCodes DEF Header
<1> QED BY <1>1, <1>2, <1>3, <1>4, NextCases

\* Steps preserve that the stream begins with the codes.
LEMMA StreamedKept ==
  ASSUME IInv, [Next]_vars
  PROVE  Streamed'
<1> USE DEF IInv
<1>1. CASE InitializeTree \/ Merge \/ AssignCodes
  BY <1>1 DEF InitializeTree, Merge, AssignCodes, Goto, Streamed, AfterCodes
<1>2. CASE WriteCodes
  <2>1. PICK bits \in Seq({0, 1}) : bits = Codes
    BY CodesAre DEF CodesType, HuffmanTypes
  <2>2. PICK n : n = BytesFor(Len(bits))
    OBVIOUS
  <2>3. PICK S \in Stored(n) :
          /\ file' = [file EXCEPT !.stream = FlattenSeq([b \in 1 .. n |-> IF b \in S THEN Byte(bits, b) ELSE << >>])]
          /\ lost' = (S # 1 .. n)
    BY <1>2, <2>1, <2>2 DEF WriteCodes
  <2>4. Codes' = bits
    BY <1>2, <2>1, SameCodes DEF WriteCodes, encoderVars
  <2>5. PICK stream : stream = FlattenSeq([b \in 1 .. n |-> IF b \in S THEN Byte(bits, b) ELSE << >>])
    OBVIOUS
  <2>6. file'.stream = stream
    BY <2>3, <2>5 DEF HuffmanTypes
  <2>7. S = 1 .. n => BeginsWith(stream, bits)
    <3>1. S \in SUBSET (1 .. n)
      BY DEF Stored
    <3> QED BY <2>2, <2>5, <3>1, BytesAre
  <2> QED BY <2>3, <2>4, <2>6, <2>7 DEF Streamed
<1>3. CASE Later /\ ~WriteCodes
  <2>1. pc' \in AfterCodes \ {"coded", "write"} => pc \in AfterCodes \ {"coded", "write"}
    BY <1>3, LaterSteps
  <2>2. pc' \in AfterCodes \ {"coded", "write"} => file' = file /\ lost' = lost
    BY <1>3 DEF Later, WriteHeader, ReadHeader, NoMoreBits, RejectCode, CodeGoesOn, PutSymbol, DecodeEnds,
       OutOfMemory, AssignCodesCrashes, WriteFails, ReadHeaderFails, fileVars, Goto, AfterCodes
  <2> QED BY <1>3, <2>1, <2>2, LaterSteps, SameCodes DEF Streamed
<1>4. CASE UNCHANGED vars
  <2>1. input' = input /\ codes' = codes /\ pc' = pc /\ file' = file /\ lost' = lost
    BY <1>4 DEF vars, encoderVars, fileVars
  <2> QED BY <2>1, SameCodes DEF Streamed
<1> QED BY <1>1, <1>2, <1>3, <1>4, NextCases

-----------------------------------------------------------------------------
(* The decoder. *)

\* Steps preserve that nothing was decoded yet.
LEMMA FreshKept ==
  ASSUME IInv, [Next]_vars
  PROVE  Fresh'
<1> USE DEF IInv
<1>1. CASE InitializeTree \/ Merge \/ AssignCodes
  BY <1>1 DEF InitializeTree, Merge, AssignCodes, readerVars, Fresh, Building
<1>2. CASE Later
  BY <1>2 DEF Later, WriteHeader, WriteCodes, ReadHeader, NoMoreBits, RejectCode, CodeGoesOn, PutSymbol, DecodeEnds,
     OutOfMemory, AssignCodesCrashes, WriteFails, ReadHeaderFails, readerVars, Goto, Fresh, Decoding, CodeIs, AtEndOfFile
<1>3. CASE UNCHANGED vars
  BY <1>3 DEF vars, readerVars, Fresh
<1> QED BY <1>1, <1>2, <1>3, NextCases

\* The lengths in a file, damaged or not, are below LengthLimit.
LEMMA LengthsOfFile ==
  ASSUME HuffmanTypes
  PROVE  /\ file.lens \in [Symbol -> Nat] /\ LongestOf(file.lens) \in Nat
         /\ LongestOf(file.lens) < LengthLimit
<1>1. file.lens \in [Symbol -> 0 .. LengthLimit - 1] /\ LengthLimit \in Nat /\ LengthLimit > 0
  BY HuffmanAssumption DEF HuffmanTypes
<1>2. PICK lens : lens = file.lens
  OBVIOUS
<1>3. lens \in [Symbol -> Nat] /\ \A s \in Symbol : lens[s] < LengthLimit
  BY <1>1, <1>2
<1>4. LongestOf(lens) \in Nat /\ (LongestOf(lens) # 0 => \E s \in Symbol : lens[s] = LongestOf(lens))
  BY <1>3, Longest
<1> QED BY <1>1, <1>2, <1>3, <1>4

\* Steps preserve what is known of the decoder's tables.
LEMMA TablesKept ==
  ASSUME IInv, [Next]_vars
  PROVE  Tables'
<1> USE DEF IInv
<1>1. CASE InitializeTree \/ Merge \/ AssignCodes
  BY <1>1 DEF InitializeTree, Merge, AssignCodes, Goto, Tables
<1>2. CASE ReadHeader
  <2>1. /\ entries' = Entries(file.lens) /\ file' = file /\ input' = input /\ codes' = codes
        /\ current_length' = 0
    BY <1>2 DEF ReadHeader, encoderVars, fileVars, readerVars, Fresh
  <2>2. LongestOf(file.lens) \in Nat
    BY LengthsOfFile
  <2>3. ASSUME Ordinary
        PROVE  decoder' = [s \in Symbol |-> codes[s].bits]
    <3>1. pc \in AfterCodes \ {"coded"}
      BY <1>2 DEF ReadHeader, AfterCodes
    <3>2. Canonical /\ file.lens = LensOf
      BY <2>3, <3>1, OrdinaryFile
    <3>3. /\ Fits(LensOf) /\ \A s \in Symbol : LensOf[s] <= CodeWidth
          /\ \A s \in Symbol : codes[s].bits = IF LensOf[s] = 0 THEN 0 ELSE CodeOf(LensOf, s)
      BY <2>3, <3>2, OrdinaryLengths
    <3>4. PICK lens : lens = LensOf
      OBVIOUS
    <3>5. /\ ShiftsDefined(lens)
          /\ \A s \in Symbol : Reconstructed(lens)[s] = IF lens[s] = 0 THEN 0 ELSE CodeOf(lens, s)
          /\ Reconstructed(lens) = [s \in Symbol |-> Reconstructed(lens)[s]]
      BY <3>3, <3>4, DecoderCodes
    <3>6. decoder' = Reconstructed(lens)
      BY <1>2, <3>2, <3>4, <3>5 DEF ReadHeader
    <3>7. \A s \in Symbol : Reconstructed(lens)[s] = codes[s].bits
      BY <3>3, <3>4, <3>5
    <3> QED BY <3>5, <3>6, <3>7
  <2> QED BY <2>1, <2>2, <2>3, SameCodes DEF Tables
<1>3. CASE CodeGoesOn \/ PutSymbol
  <2>1. /\ entries' = entries /\ decoder' = decoder /\ file' = file /\ input' = input /\ codes' = codes /\ pc = "decode"
    BY <1>3 DEF CodeGoesOn, PutSymbol, encoderVars, fileVars, tableVars, Decoding
  <2>2. current_length' = NextLength \/ current_length' = 0
    BY <1>3 DEF CodeGoesOn, PutSymbol, CodeIs
  <2>3. NextLength <= LongestOf(file.lens) /\ LongestOf(file.lens) \in Nat
    <3>1. ~(NextLength > LongestOf(file.lens))
      BY <1>3 DEF CodeGoesOn, PutSymbol, CodeTooLong
    <3>2. NextLength \in Nat /\ LongestOf(file.lens) \in Nat
      BY LengthsOfFile DEF NextLength, HuffmanTypes
    <3> QED BY <3>1, <3>2
  <2> QED BY <2>1, <2>2, <2>3, SameCodes DEF Tables
<1>4. CASE Later /\ ~ReadHeader /\ ~CodeGoesOn /\ ~PutSymbol
  BY <1>4 DEF Later, WriteHeader, WriteCodes, NoMoreBits, RejectCode, DecodeEnds, OutOfMemory, AssignCodesCrashes,
     WriteFails, ReadHeaderFails, Goto, AtEndOfFile, Tables
<1>5. CASE UNCHANGED vars
  <2>1. /\ input' = input /\ codes' = codes /\ pc' = pc /\ file' = file /\ entries' = entries /\ decoder' = decoder
        /\ current_length' = current_length
    BY <1>5 DEF vars, encoderVars, fileVars, tableVars, readerVars
  <2> QED BY <2>1, SameCodes DEF Tables
<1> QED BY <1>1, <1>2, <1>3, <1>4, <1>5, NextCases

\* m symbols are decoded, and nothing of the next code is read.
LEMMA DecodedWhole ==
  ASSUME HuffmanTypes, Ordinary, Canonical, NEW m \in 0 .. Len(input), m < Len(input)
  PROVE  LET s == input[m + 1]
         IN  0 < codes[s].length /\ Upper(CodeOf(LensOf, s), codes[s].length, 0) = 0
<1>1. PICK s : s = input[m + 1]
  OBVIOUS
<1>2. s \in Used /\ s \in Symbol
  <2>1. m + 1 \in 1 .. Len(input)
    BY DEF HuffmanTypes
  <2> QED BY <1>1, <2>1, Occurrences DEF HuffmanTypes
<1>3. PICK lens : lens = LensOf
  OBVIOUS
<1>4. Fits(lens) /\ s \in Coded(lens) /\ lens[s] = codes[s].length /\ lens \in [Symbol -> Nat]
  BY <1>2, <1>3, OrdinaryLengths
<1>5. lens[s] \in Nat /\ lens[s] > 0
  BY <1>4, CodedFinite
<1>6. PICK n \in Nat : n = lens[s]
  BY <1>5
<1>7. CodeOf(lens, s) \in Nat /\ CodeOf(lens, s) + 1 <= 2^n
  BY <1>4, <1>6, CodeFits
<1>8. PICK x \in Nat : x = CodeOf(lens, s)
  BY <1>7
<1>9. x < 2^n
  <2>1. 2^n \in Nat
    BY PowerType
  <2> QED BY <1>7, <1>8, <2>1
<1>10. Upper(x, n, 0) = 0
  BY <1>9, UpperBits
<1> QED BY <1>1, <1>3, <1>4, <1>5, <1>6, <1>8, <1>10

\* What a step of the decoder does when m symbols of an ordinary file are decoded.
LEMMA DecodeStep ==
  ASSUME IInv, Ordinary, ~lost, pc = "decode", NEW m \in 0 .. Len(input), DecodedTo(m)
  PROVE  /\ Canonical /\ file.lens = LensOf /\ file.size = Len(input) /\ Len(out) = m /\ Len(input) \in Nat
         /\ Decoding <=> m < Len(input)
         /\ ~NoMoreBits /\ ~RejectCode
<1> USE DEF IInv
<1>1. Canonical /\ file.lens = LensOf /\ file.size = Len(input)
  <2>1. pc \in AfterCodes \ {"coded"}
    BY DEF AfterCodes
  <2> QED BY <2>1, OrdinaryFile
<1>2. Len(input) \in Nat /\ m \in Nat /\ m <= Len(input)
  BY DEF HuffmanTypes
<1>3. Len(out) = m
  <2>1. \A k \in 1 .. m : input[k] \in Symbol
    <3> TAKE k \in 1 .. m
    <3>1. k \in 1 .. Len(input)
      BY <1>2
    <3> QED BY <3>1, ElementOfSeq DEF HuffmanTypes
  <2>2. Len(SubSeq(input, 1, m)) = IF 1 <= m THEN m - 1 + 1 ELSE 0
    <3>1. 1 \in Int /\ m \in Int
      BY <1>2
    <3> QED BY <2>1, <3>1, SubSeqProperties
  <2> QED BY <1>2, <2>2 DEF DecodedTo
<1>4. Decoding <=> m < Len(input)
  BY <1>1, <1>3 DEF Decoding
<1>5. m < Len(input) => bitpos < Len(file.stream) /\ ~CodeTooLong
  BY NextBit
<1>6. ~NoMoreBits /\ ~RejectCode
  <2>1. bitpos < Len(file.stream) => bitpos # Len(file.stream)
    <3>1. Len(file.stream) \in Nat
      BY DEF HuffmanTypes
    <3> QED BY <3>1 DEF HuffmanTypes
  <2> QED BY <1>4, <1>5, <2>1 DEF NoMoreBits, RejectCode
<1> QED BY <1>1, <1>2, <1>3, <1>4, <1>6

\* One symbol more.
LEMMA DecodesOneMore ==
  ASSUME IInv, Ordinary, ~lost, pc = "decode", NEW m \in 0 .. Len(input), DecodedTo(m), PutSymbol, pc' = "decode"
  PROVE  m + 1 \in 0 .. Len(input) /\ DecodedTo(m + 1)'
<1> USE DEF IInv
<1>1. /\ m < Len(input) /\ Len(input) \in Nat /\ m \in Nat /\ Canonical
      /\ m + 1 \in 0 .. Len(input) /\ m + 1 \in 1 .. Len(input) /\ (m + 1) - 1 = m
  BY DecodeStep DEF PutSymbol
<1>2. PICK s : s = input[m + 1]
  OBVIOUS
<1>3. PICK k \in Nat : k = current_length
  BY DEF HuffmanTypes
<1>4. PICK n : n = codes[s].length
  OBVIOUS
<1>5. /\ k + 1 <= n
      /\ k + 1 < n => ~IsCode
      /\ k + 1 = n => Found(file.lens, entries, decoder, NextCode, NextLength) = s
  BY <1>1, <1>2, <1>3, <1>4, NextBit
<1>6. CodesType
  BY DEF CodesType, HuffmanTypes
<1>7. n \in Nat /\ n = CodeLengths[m + 1] /\ s \in Symbol
  BY <1>1, <1>2, <1>4, <1>6, CodesAre, CodeBits
<1>8. k + 1 = n
  BY <1>3, <1>5, <1>7 DEF PutSymbol
<1>9. /\ out' = Append(out, s) /\ bitpos' = bitpos + 1 /\ current_length' = 0 /\ current_code' = 0
      /\ input' = input /\ codes' = codes
  BY <1>5, <1>8 DEF PutSymbol, CodeIs, Goto, encoderVars
<1>10. out' = SubSeq(input, 1, m + 1)
  <2>1. \A j \in 1 .. m + 1 : input[j] \in Symbol
    <3> TAKE j \in 1 .. m + 1
    <3>1. j \in 1 .. Len(input)
      BY <1>1
    <3> QED BY <3>1, ElementOfSeq DEF HuffmanTypes
  <2>2. PICK u : u = input
    OBVIOUS
  <2>3. SubSeq(u, 1, m + 1) = Append(SubSeq(u, 1, m), u[m + 1])
    <3>1. u \in Seq(Symbol) /\ 1 \in 1 .. Len(u) + 1 /\ m + 1 \in 1 .. Len(u)
      BY <1>1, <2>2 DEF HuffmanTypes
    <3>2. PICK a \in Seq(Symbol) : a = SubSeq(u, 1, m + 1)
      <4>1. 1 \in Int /\ m + 1 \in Int /\ \A j \in 1 .. m + 1 : u[j] \in Symbol
        BY <1>1, <2>1, <2>2
      <4> QED BY <4>1, SubSeqProperties
    <3>3. Len(a) = m + 1 /\ \A j \in 1 .. m + 1 : a[j] = u[j]
      <4>1. 1 \in Int /\ m + 1 \in Int /\ \A j \in 1 .. m + 1 : u[j] \in Symbol
        BY <1>1, <2>1, <2>2
      <4>2. /\ Len(SubSeq(u, 1, m + 1)) = IF 1 <= m + 1 THEN (m + 1) - 1 + 1 ELSE 0
            /\ \A j \in 1 .. (m + 1) - 1 + 1 : SubSeq(u, 1, m + 1)[j] = u[1 + j - 1]
        BY <4>1, SubSeqProperties
      <4>3. (m + 1) - 1 + 1 = m + 1 /\ 1 <= m + 1 /\ \A j \in 1 .. m + 1 : 1 + j - 1 = j
        BY <1>1
      <4> QED BY <3>2, <4>2, <4>3
    <3>4. PICK b \in Seq(Symbol) : b = SubSeq(u, 1, m)
      <4>1. 1 \in Int /\ m \in Int /\ \A j \in 1 .. m : u[j] \in Symbol
        BY <1>1, <2>1, <2>2
      <4> QED BY <4>1, SubSeqProperties
    <3>5. Len(b) = m /\ \A j \in 1 .. m : b[j] = u[j]
      <4>1. 1 \in Int /\ m \in Int /\ \A j \in 1 .. m : u[j] \in Symbol
        BY <1>1, <2>1, <2>2
      <4>2. /\ Len(SubSeq(u, 1, m)) = IF 1 <= m THEN m - 1 + 1 ELSE 0
            /\ \A j \in 1 .. m - 1 + 1 : SubSeq(u, 1, m)[j] = u[1 + j - 1]
        BY <4>1, SubSeqProperties
      <4>3. m - 1 + 1 = m /\ (IF 1 <= m THEN m ELSE 0) = m /\ \A j \in 1 .. m : 1 + j - 1 = j
        BY <1>1
      <4> QED BY <3>4, <4>2, <4>3
    <3>6. u[m + 1] \in Symbol
      BY <1>1, <2>1, <2>2
    <3>7. PICK c \in Symbol : c = u[m + 1]
      BY <3>6
    <3>8. /\ Append(b, c) \in Seq(Symbol) /\ Len(Append(b, c)) = m + 1
          /\ \A j \in 1 .. m : Append(b, c)[j] = b[j]
          /\ Append(b, c)[m + 1] = c
      BY <3>5, AppendProperties
    <3>9. PICK d \in Seq(Symbol) : d = Append(b, c)
      BY <3>8
    <3>10. \A j \in 1 .. m + 1 : a[j] = d[j]
      <4> TAKE j \in 1 .. m + 1
      <4>1. CASE j = m + 1
        BY <3>3, <3>7, <3>8, <3>9, <4>1
      <4>2. CASE j # m + 1
        <5>1. j \in 1 .. m
          BY <1>1, <4>2
        <5> QED BY <3>3, <3>5, <3>8, <3>9, <5>1
      <4> QED BY <4>1, <4>2
    <3>11. a = d
      <4>1. Len(a) = m + 1 /\ Len(d) = m + 1
        BY <3>3, <3>8, <3>9
      <4> QED BY <3>10, <4>1, SeqEqual
    <3> QED BY <3>2, <3>4, <3>7, <3>9, <3>11
  <2>4. out = SubSeq(u, 1, m)
    BY <2>2 DEF DecodedTo
  <2> QED BY <1>2, <1>9, <2>2, <2>3, <2>4
<1>11. bitpos' = Off(CodeLengths, m + 1) + 0
  <2>1. \A j \in 1 .. Len(input) : CodeLengths[j] \in Nat
    BY <1>6, CodesAre
  <2>2. Off(CodeLengths, m) \in Nat /\ Off(CodeLengths, m + 1) = Off(CodeLengths, m) + CodeLengths[m + 1]
    <3>1. Off(CodeLengths, m + 1) = Off(CodeLengths, (m + 1) - 1) + CodeLengths[m + 1]
      BY <1>1, <2>1, OffSteps
    <3> QED BY <1>1, <2>1, <3>1, OffSteps
  <2>3. PICK a \in Nat : a = Off(CodeLengths, m)
    BY <2>2
  <2>4. bitpos = a + k
    BY <1>3, <2>3 DEF DecodedTo
  <2>5. Off(CodeLengths, m + 1) = a + n
    BY <1>7, <2>2, <2>3
  <2> QED BY <1>7, <1>8, <1>9, <2>4, <2>5
<1>12. LensOf' = LensOf /\ CodeLengths' = CodeLengths
  BY <1>9, SameCodes
<1>13. m + 1 < Len(input) =>
         LET t == input[(m + 1) + 1]
         IN  0 < codes[t].length /\ Upper(CodeOf(LensOf, t), codes[t].length, 0) = 0
  BY <1>1, DecodedWhole
<1>14. DecodedTo(m + 1)'
  BY <1>9, <1>10, <1>11, <1>12, <1>13 DEF DecodedTo
<1> QED BY <1>1, <1>14

\* Steps preserve that a beginning of the input is decoded.
LEMMA ReadingKept ==
  ASSUME IInv, [Next]_vars
  PROVE  Reading'
<1> USE DEF IInv
<1>1. CASE InitializeTree \/ Merge \/ AssignCodes
  BY <1>1 DEF InitializeTree, Merge, AssignCodes, Goto, Reading
<1>2. CASE ReadHeader
  <2>1. /\ input' = input /\ codes' = codes /\ lost' = lost
        /\ bitpos' = 0 /\ current_length' = 0 /\ current_code' = 0 /\ out' = << >>
    BY <1>2 DEF ReadHeader, encoderVars, fileVars, readerVars, Fresh
  <2>2. SUFFICES ASSUME Ordinary, ~lost
                 PROVE  \E m \in 0 .. Len(input) : DecodedTo(m)'
    BY <2>1, SameCodes DEF Reading
  <2>3. Canonical
    BY <1>2, <2>2 DEF Coding, ReadHeader, AfterCodes, Ordinary
  <2>4. 0 \in 0 .. Len(input) /\ Len(input) \in Nat
    BY DEF HuffmanTypes
  <2>5. SubSeq(input, 1, 0) = << >>
    <3>1. 1 \in Int /\ 0 \in Int /\ 0 < 1
      OBVIOUS
    <3> QED BY <3>1, SubSeqEmpty
  <2>6. Off(CodeLengths, 0) = 0
    <3>1. CodesType
      BY DEF CodesType, HuffmanTypes
    <3>2. \A j \in 1 .. Len(input) : CodeLengths[j] \in Nat
      BY <3>1, CodesAre
    <3> QED BY <2>4, <3>2, OffSteps
  <2>7. 0 < Len(input) =>
          LET s == input[0 + 1]
          IN  0 < codes[s].length /\ Upper(CodeOf(LensOf, s), codes[s].length, 0) = 0
    BY <2>2, <2>3, <2>4, DecodedWhole
  <2>8. LensOf' = LensOf /\ CodeLengths' = CodeLengths
    BY <2>1, SameCodes
  <2>9. DecodedTo(0)'
    BY <2>1, <2>5, <2>6, <2>7, <2>8 DEF DecodedTo
  <2> QED BY <2>4, <2>9
<1>3. CASE CodeGoesOn
  <2>1. /\ input' = input /\ codes' = codes /\ lost' = lost /\ pc = "decode" /\ out' = out
        /\ bitpos' = bitpos + 1 /\ current_length' = NextLength /\ current_code' = NextCode
    BY <1>3 DEF CodeGoesOn, encoderVars, fileVars, CodeIs, Decoding
  <2>2. SUFFICES ASSUME Ordinary, ~lost
                 PROVE  \E m \in 0 .. Len(input) : DecodedTo(m)'
    BY <2>1, SameCodes DEF Reading
  <2>3. PICK m \in 0 .. Len(input) : DecodedTo(m)
    BY <2>1, <2>2 DEF Reading
  <2>4. m < Len(input) /\ Len(input) \in Nat
    BY <1>3, <2>1, <2>2, <2>3, DecodeStep DEF CodeGoesOn
  <2>5. PICK s : s = input[m + 1]
    OBVIOUS
  <2>6. PICK k \in Nat : k = current_length
    BY DEF HuffmanTypes
  <2>7. PICK n : n = codes[s].length
    OBVIOUS
  <2>8. /\ NextCode = Upper(CodeOf(LensOf, s), n, k + 1) /\ NextLength = k + 1
        /\ k + 1 <= n
        /\ k + 1 = n => IsCode
    BY <2>1, <2>2, <2>3, <2>4, <2>5, <2>6, <2>7, NextBit
  <2>9. k + 1 < n
    <3>1. k + 1 # n
      BY <1>3, <2>8 DEF CodeGoesOn
    <3>2. n \in Nat
      <4>1. m + 1 \in 1 .. Len(input)
        BY <2>4
      <4>2. CodesType
        BY DEF CodesType, HuffmanTypes
      <4> QED BY <2>5, <2>7, <4>1, <4>2, CodesAre, CodeBits
    <3> QED BY <2>8, <3>1, <3>2
  <2>10. bitpos' = Off(CodeLengths, m) + (k + 1)
    <3>1. Off(CodeLengths, m) \in Nat
      <4>1. CodesType
        BY DEF CodesType, HuffmanTypes
      <4>2. \A j \in 1 .. Len(input) : CodeLengths[j] \in Nat
        BY <4>1, CodesAre
      <4> QED BY <2>4, <4>2, OffSteps
    <3>2. PICK a \in Nat : a = Off(CodeLengths, m)
      BY <3>1
    <3>3. bitpos = a + k
      BY <2>3, <2>6, <3>2 DEF DecodedTo
    <3> QED BY <2>1, <3>2, <3>3
  <2>11. LensOf' = LensOf /\ CodeLengths' = CodeLengths
    BY <2>1, SameCodes
  <2>12. m # Len(input) /\ out = SubSeq(input, 1, m)
    BY <2>3, <2>4 DEF DecodedTo
  <2>13. DecodedTo(m)'
    BY <2>1, <2>5, <2>7, <2>8, <2>9, <2>10, <2>11, <2>12 DEF DecodedTo
  <2> QED BY <2>13
<1>4. CASE PutSymbol
  <2>1. input' = input /\ codes' = codes /\ lost' = lost /\ pc = "decode"
    BY <1>4 DEF PutSymbol, encoderVars, fileVars, Decoding
  <2>2. SUFFICES ASSUME Ordinary, ~lost, pc' = "decode"
                 PROVE  \E m \in 0 .. Len(input) : DecodedTo(m)'
    BY <2>1, SameCodes DEF Reading
  <2>3. PICK m \in 0 .. Len(input) : DecodedTo(m)
    BY <2>1, <2>2 DEF Reading
  <2> QED BY <1>4, <2>1, <2>2, <2>3, DecodesOneMore
<1>5. CASE Later /\ ~ReadHeader /\ ~CodeGoesOn /\ ~PutSymbol
  BY <1>5 DEF Later, WriteHeader, WriteCodes, NoMoreBits, RejectCode, DecodeEnds, OutOfMemory, AssignCodesCrashes,
     WriteFails, ReadHeaderFails, Goto, AtEndOfFile, Reading
<1>6. CASE UNCHANGED vars
  <2>1. /\ input' = input /\ codes' = codes /\ pc' = pc /\ lost' = lost /\ out' = out /\ bitpos' = bitpos
        /\ current_length' = current_length /\ current_code' = current_code
    BY <1>6 DEF vars, encoderVars, fileVars, readerVars
  <2>2. LensOf' = LensOf /\ CodeLengths' = CodeLengths /\ (Ordinary' <=> Ordinary)
    BY <2>1, SameCodes
  <2>3. \A m : DecodedTo(m) => DecodedTo(m)'
    BY <2>1, <2>2 DEF DecodedTo
  <2> QED BY <2>1, <2>2, <2>3 DEF Reading
<1> QED BY <1>1, <1>2, <1>3, <1>4, <1>5, <1>6, NextCases

\* Steps preserve that ordinary input is restored.
LEMMA RestoresKept ==
  ASSUME IInv, [Next]_vars
  PROVE  RestoresOrdinaryInput'
<1> USE DEF IInv
<1>1. CASE InitializeTree \/ Merge \/ AssignCodes
  BY <1>1 DEF InitializeTree, Merge, AssignCodes, Goto, RestoresOrdinaryInput
<1>2. CASE NoMoreBits \/ RejectCode \/ DecodeEnds
  <2>1. input' = input /\ codes' = codes /\ lost' = lost /\ pc = "decode"
    BY <1>2 DEF NoMoreBits, RejectCode, DecodeEnds, encoderVars, fileVars, Decoding
  <2>2. SUFFICES ASSUME Ordinary, ~lost
                 PROVE  (pc' = "restored" => out' = input) /\ pc' # "rejected"
    BY <2>1, SameCodes DEF RestoresOrdinaryInput
  <2>3. PICK m \in 0 .. Len(input) : DecodedTo(m)
    BY <2>1, <2>2 DEF Reading
  <2>4. ~NoMoreBits /\ ~RejectCode /\ file.size = Len(input) /\ Len(out) = m /\ Len(input) \in Nat
    BY <2>1, <2>2, <2>3, DecodeStep
  <2>5. DecodeEnds
    BY <1>2, <2>4
  <2>6. m = Len(input) /\ out' = out /\ pc' # "rejected"
    BY <2>4, <2>5 DEF DecodeEnds, readerVars, Goto
  <2>7. SubSeq(input, 1, Len(input)) = input
    BY SubSeqFull DEF HuffmanTypes
  <2> QED BY <2>3, <2>6, <2>7 DEF DecodedTo
<1>3. CASE Later /\ ~NoMoreBits /\ ~RejectCode /\ ~DecodeEnds
  BY <1>3 DEF Later, WriteHeader, WriteCodes, ReadHeader, CodeGoesOn, PutSymbol, OutOfMemory, AssignCodesCrashes,
     WriteFails, ReadHeaderFails, Goto, RestoresOrdinaryInput, Decoding
<1>4. CASE UNCHANGED vars
  <2>1. /\ input' = input /\ codes' = codes /\ pc' = pc /\ lost' = lost /\ out' = out
    BY <1>4 DEF vars, encoderVars, fileVars, readerVars
  <2> QED BY <2>1, SameCodes DEF RestoresOrdinaryInput
<1> QED BY <1>1, <1>2, <1>3, <1>4, NextCases

-----------------------------------------------------------------------------
(* The theorems. *)

\* The inductive invariant, from the first node of the tree to the last decoded byte.
THEOREM Invariance == Spec => []IInv
<1>1. Init => IInv
  BY InitInv
<1>2. ASSUME IInv, [Next]_vars
      PROVE  IInv'
  BY <1>2, TypesKept, BuildingKept, CodingKept, HeaderKept, StreamedKept, FreshKept, TablesKept, ReadingKept,
     RestoresKept DEF IInv
<1> QED BY <1>1, <1>2, PTL DEF Spec

\* The row of codes that decompressFile looks up is one of its table, for every
\* file, damaged or not.
THEOREM RowsAlwaysThere == Spec => []RowsAreThere
<1>1. ASSUME IInv
      PROVE  RowsAreThere
  <2> SUFFICES ASSUME pc = "decode", current_length > 0
               PROVE  current_length <= LengthLimit /\ entries # << >>
    BY DEF RowsAreThere
  <2>1. /\ file.lens \in [Symbol -> Nat] /\ LongestOf(file.lens) \in Nat /\ LongestOf(file.lens) < LengthLimit
        /\ LengthLimit \in Nat
    BY <1>1, LengthsOfFile, HuffmanAssumption DEF IInv
  <2>2. current_length <= LongestOf(file.lens) /\ entries = Entries(file.lens) /\ current_length \in Nat
    BY <1>1 DEF IInv, Tables, HuffmanTypes
  <2>3. current_length <= LengthLimit
    BY <2>1, <2>2
  <2>4. PICK lens : lens = file.lens
    OBVIOUS
  <2>5. PICK s \in Symbol : lens[s] = LongestOf(lens)
    BY <2>1, <2>2, <2>4, Longest
  <2>6. s \in Coded(lens)
    BY <2>1, <2>2, <2>4, <2>5 DEF Coded
  <2>7. PICK e : e = entries
    OBVIOUS
  <2>8. Sorted(lens, e)
    BY <2>1, <2>2, <2>4, <2>7, EntriesSorted
  <2>9. \E i \in 1 .. Len(e) : e[i] = s
    BY <2>1, <2>4, <2>6, <2>8, SortedTable
  <2>10. e # << >>
    BY <2>9
  <2> QED BY <2>3, <2>7, <2>10
<1> QED BY <1>1, Invariance, PTL

\* buildCanonicalCodes and the decoder compute the same codes, for every input with
\* two symbols or more and no code longer than CodeWidth.
THEOREM DecoderCodesAreRebuilt == Spec => []DecoderRebuildsCodes
<1>1. ASSUME IInv
      PROVE  DecoderRebuildsCodes
  BY <1>1 DEF IInv, Tables, DecoderRebuildsCodes
<1> QED BY <1>1, Invariance, PTL

\* What compressFile writes of such an input, decompressFile restores, unless a
\* write was cut short.
THEOREM OrdinaryInputIsRestored == Spec => []RestoresOrdinaryInput
<1>1. ASSUME IInv
      PROVE  RestoresOrdinaryInput
  BY <1>1 DEF IInv
<1> QED BY <1>1, Invariance, PTL

-----------------------------------------------------------------------------
(* Sums that are written as folds. *)

\* The set of which nobody knows which element is taken first.
Some(T) == CHOOSE x \in T : TRUE

IsFold(h, f, S) ==
  \A T \in SUBSET S : h[T] = IF T = {} THEN 0 ELSE f[Some(T)] + h[T \ {Some(T)}]

\* A set without the element that is taken first.
LEMMA Rest ==
  ASSUME NEW S, IsFiniteSet(S), NEW T \in SUBSET S, T # {}
  PROVE  /\ Some(T) \in T /\ T \ {Some(T)} \in SUBSET S /\ (T \ {Some(T)}) \union {Some(T)} = T
         /\ IsFiniteSet(T) /\ IsFiniteSet(T \ {Some(T)})
         /\ Cardinality(T) \in Nat /\ Cardinality(T \ {Some(T)}) = Cardinality(T) - 1
<1>1. Some(T) \in T
  BY DEF Some
<1>2. IsFiniteSet(T)
  BY FS_Subset
<1>3. PICK x : x = Some(T)
  OBVIOUS
<1>4. IsFiniteSet(T \ {x}) /\ Cardinality(T \ {x}) = Cardinality(T) - 1
  BY <1>1, <1>2, <1>3, FS_RemoveElement
<1>5. Cardinality(T) \in Nat
  BY <1>2, FS_CardinalityType
<1> QED BY <1>1, <1>2, <1>3, <1>4, <1>5

\* The sum of a set is what its first element adds to the sum of the others.
LEMMA SumIsFold ==
  ASSUME NEW S, IsFiniteSet(S), NEW f, \A s \in S : f[s] \in Nat, NEW T \in SUBSET S
  PROVE  SumOf(f, T) = IF T = {} THEN 0 ELSE f[Some(T)] + SumOf(f, T \ {Some(T)})
<1>1. CASE T = {}
  BY <1>1, SumEmpty
<1>2. CASE T # {}
  <2>1. PICK x : x = Some(T)
    OBVIOUS
  <2>2. PICK R : R = T \ {x}
    OBVIOUS
  <2>3. x \in T /\ x \notin R /\ R \union {x} = T /\ IsFiniteSet(R)
    BY <1>2, <2>1, <2>2, Rest
  <2>4. \A s \in R \union {x} : f[s] \in Nat
    BY <2>3
  <2>5. SumOf(f, R \union {x}) = SumOf(f, R) + f[x]
    BY <2>3, <2>4, SumAdd
  <2>6. PICK a \in Nat : a = SumOf(f, R)
    BY <2>3, <2>4, SumType
  <2>7. PICK b \in Nat : b = f[x]
    BY <2>4
  <2>8. SumOf(f, T) = b + a
    <3>1. T = R \union {x}
      BY <2>3
    <3>2. SumOf(f, T) = a + b
      BY <2>5, <2>6, <2>7, <3>1
    <3> QED BY <3>2
  <2> QED BY <1>2, <2>1, <2>2, <2>6, <2>7, <2>8
<1> QED BY <1>1, <1>2

\* A fold computes the sum.
LEMMA FoldIsSum ==
  ASSUME NEW S, IsFiniteSet(S), NEW f, \A s \in S : f[s] \in Nat, NEW h, IsFold(h, f, S)
  PROVE  h[S] = SumOf(f, S)
<1> DEFINE G == {n \in Nat : \A T \in SUBSET S : Cardinality(T) = n => h[T] = SumOf(f, T)}
<1>1. 0 \in G
  <2> SUFFICES ASSUME NEW T \in SUBSET S, Cardinality(T) = 0
               PROVE  h[T] = SumOf(f, T)
    OBVIOUS
  <2>1. IsFiniteSet(T)
    BY FS_Subset
  <2>2. T = {}
    BY <2>1, FS_EmptySet
  <2> QED BY <2>2, SumEmpty DEF IsFold
<1>2. ASSUME NEW n \in G
      PROVE  n + 1 \in G
  <2> SUFFICES ASSUME NEW T \in SUBSET S, Cardinality(T) = n + 1
               PROVE  h[T] = SumOf(f, T)
    OBVIOUS
  <2>1. T # {}
    <3>1. Cardinality({}) = 0
      BY FS_EmptySet
    <3>2. n \in Nat
      OBVIOUS
    <3>3. n + 1 # 0
      BY <3>2
    <3> QED BY <3>1, <3>3
  <2>2. T \ {Some(T)} \in SUBSET S /\ Cardinality(T \ {Some(T)}) = n
    <3>1. T \ {Some(T)} \in SUBSET S /\ Cardinality(T \ {Some(T)}) = Cardinality(T) - 1
      BY <2>1, Rest
    <3>2. n \in Nat
      OBVIOUS
    <3>3. (n + 1) - 1 = n
      BY <3>2
    <3> QED BY <3>1, <3>3
  <2>3. h[T \ {Some(T)}] = SumOf(f, T \ {Some(T)})
    BY <2>2
  <2>4. h[T] = f[Some(T)] + h[T \ {Some(T)}]
    BY <2>1 DEF IsFold
  <2>5. SumOf(f, T) = f[Some(T)] + SumOf(f, T \ {Some(T)})
    BY <2>1, SumIsFold
  <2> QED BY <2>3, <2>4, <2>5
<1>3. G = Nat
  <2>1. G \in SUBSET Nat
    OBVIOUS
  <2> HIDE DEF G
  <2> QED BY <1>1, <1>2, <2>1, Induct
<1>4. Cardinality(S) \in G
  BY <1>3, FS_CardinalityType
<1> QED BY <1>4

\* What a file costs, and what its lengths take.
LEMMA CostIsSum ==
  ASSUME input \in Seq(Symbol), NEW lens, \A s \in Used : lens[s] \in Nat
  PROVE  Cost(lens) = CostOf(Weights, lens, Used)
<1> DEFINE f == [s \in Used |-> Weights[s] * lens[s]]
           g == [T \in SUBSET Used |-> SumOf(f, T)]
           Body(it) == [T \in SUBSET Used |->
                          IF T = {} THEN 0
                          ELSE Frequency(CHOOSE x \in T : TRUE) * lens[CHOOSE x \in T : TRUE]
                                 + it[T \ {CHOOSE x \in T : TRUE}]]
           iter == CHOOSE it : it = Body(it)
<1>1. IsFiniteSet(Used) /\ \A s \in Used : f[s] = Frequency(s) * lens[s] /\ f[s] \in Nat
  <2>1. IsFiniteSet(Used) /\ \A s \in Used : s \in Symbol /\ Weights[s] = Frequency(s) /\ Frequency(s) \in Nat
    BY Occurrences
  <2>2. ASSUME NEW s \in Used
        PROVE  f[s] = Frequency(s) * lens[s] /\ f[s] \in Nat
    <3>1. PICK a \in Nat : a = Frequency(s) /\ a = Weights[s]
      BY <2>1
    <3>2. PICK b \in Nat : b = lens[s]
      OBVIOUS
    <3>3. f[s] = a * b /\ a * b \in Nat
      BY <3>1, <3>2
    <3> QED BY <3>1, <3>2, <3>3
  <2> QED BY <2>1, <2>2
<1>2. \A T \in SUBSET Used : T # {} =>
        /\ Some(T) \in Used
        /\ f[Some(T)] = Frequency(CHOOSE x \in T : TRUE) * lens[CHOOSE x \in T : TRUE]
        /\ T \ {Some(T)} \in SUBSET Used
  <2> TAKE T \in SUBSET Used
  <2> SUFFICES ASSUME T # {}
               PROVE  /\ Some(T) \in Used
                      /\ f[Some(T)] = Frequency(CHOOSE x \in T : TRUE) * lens[CHOOSE x \in T : TRUE]
                      /\ T \ {Some(T)} \in SUBSET Used
    OBVIOUS
  <2>1. Some(T) \in Used
    BY DEF Some
  <2>2. f[Some(T)] = Frequency(Some(T)) * lens[Some(T)]
    BY <1>1, <2>1
  <2> HIDE DEF f
  <2> QED BY <2>1, <2>2 DEF Some
<1>3. MapThenSumSet(LAMBDA s : Frequency(s) * lens[s], Used) = iter[Used]
  BY DEF MapThenSumSet, MapThenFoldSet
<1>4. Body(g) = g
  <2> HIDE DEF f
  <2>1. \A T \in SUBSET Used : g[T] = Body(g)[T]
    <3> TAKE T \in SUBSET Used
    <3>1. g[T] = IF T = {} THEN 0 ELSE f[Some(T)] + g[T \ {Some(T)}]
      <4>1. SumOf(f, T) = IF T = {} THEN 0 ELSE f[Some(T)] + SumOf(f, T \ {Some(T)})
        BY <1>1, SumIsFold
      <4>2. T # {} => g[T \ {Some(T)}] = SumOf(f, T \ {Some(T)})
        BY <1>2
      <4> QED BY <4>1, <4>2
    <3> HIDE DEF g
    <3> QED BY <1>2, <3>1 DEF Some
  <2> QED BY <2>1
<1>5. iter = Body(iter)
  <2> HIDE DEF g, Body
  <2> QED BY <1>4
<1>6. IsFold(iter, f, Used)
  <2> HIDE DEF f, iter
  <2> SUFFICES ASSUME NEW T \in SUBSET Used
               PROVE  iter[T] = IF T = {} THEN 0 ELSE f[Some(T)] + iter[T \ {Some(T)}]
    BY DEF IsFold
  <2>1. iter[T] = Body(iter)[T]
    BY <1>5
  <2> QED BY <1>2, <2>1 DEF Some
<1>7. iter[Used] = SumOf(f, Used)
  <2> HIDE DEF f, iter
  <2> QED BY <1>1, <1>6, FoldIsSum
<1>8. MapThenSumSet(LAMBDA s : Frequency(s) * lens[s], Used) = CostOf(Weights, lens, Used)
  <2> HIDE DEF iter
  <2> QED BY <1>3, <1>7 DEF CostOf
<1> QED BY <1>8 DEF Cost

\* What the codes take, as the property writes it.
LEMMA RoomIsKraft ==
  ASSUME input \in Seq(Symbol), NEW n \in Nat, NEW lens, \A s \in Used : lens[s] \in Nat /\ lens[s] <= n
  PROVE  MapThenSumSet(LAMBDA s : 2^(n - lens[s]), Used) = Taken(lens, n, Used)
<1> DEFINE f == [s \in Used |-> 2^(n - lens[s])]
           g == [T \in SUBSET Used |-> SumOf(f, T)]
           Body(it) == [T \in SUBSET Used |->
                          IF T = {} THEN 0
                          ELSE 2^(n - lens[CHOOSE x \in T : TRUE]) + it[T \ {CHOOSE x \in T : TRUE}]]
           iter == CHOOSE it : it = Body(it)
<1>1. IsFiniteSet(Used) /\ \A s \in Used : f[s] = 2^(n - lens[s]) /\ f[s] \in Nat
  <2>1. IsFiniteSet(Used)
    BY Occurrences
  <2>2. ASSUME NEW s \in Used
        PROVE  f[s] = 2^(n - lens[s]) /\ f[s] \in Nat
    <3>1. n - lens[s] \in Nat
      OBVIOUS
    <3>2. 2^(n - lens[s]) \in Nat
      BY <3>1, PowerType
    <3> QED BY <3>2
  <2> QED BY <2>1, <2>2
<1>2. \A T \in SUBSET Used : T # {} =>
        /\ Some(T) \in Used
        /\ f[Some(T)] = 2^(n - lens[CHOOSE x \in T : TRUE])
        /\ T \ {Some(T)} \in SUBSET Used
  <2> TAKE T \in SUBSET Used
  <2> SUFFICES ASSUME T # {}
               PROVE  /\ Some(T) \in Used
                      /\ f[Some(T)] = 2^(n - lens[CHOOSE x \in T : TRUE])
                      /\ T \ {Some(T)} \in SUBSET Used
    OBVIOUS
  <2>1. Some(T) \in Used
    BY DEF Some
  <2>2. f[Some(T)] = 2^(n - lens[Some(T)])
    BY <1>1, <2>1
  <2> HIDE DEF f
  <2> QED BY <2>1, <2>2 DEF Some
<1>3. MapThenSumSet(LAMBDA s : 2^(n - lens[s]), Used) = iter[Used]
  BY DEF MapThenSumSet, MapThenFoldSet
<1>4. Body(g) = g
  <2> HIDE DEF f
  <2>1. \A T \in SUBSET Used : g[T] = Body(g)[T]
    <3> TAKE T \in SUBSET Used
    <3>1. g[T] = IF T = {} THEN 0 ELSE f[Some(T)] + g[T \ {Some(T)}]
      <4>1. SumOf(f, T) = IF T = {} THEN 0 ELSE f[Some(T)] + SumOf(f, T \ {Some(T)})
        BY <1>1, SumIsFold
      <4>2. T # {} => g[T \ {Some(T)}] = SumOf(f, T \ {Some(T)})
        BY <1>2
      <4> QED BY <4>1, <4>2
    <3> HIDE DEF g
    <3> QED BY <1>2, <3>1 DEF Some
  <2> QED BY <2>1
<1>5. iter = Body(iter)
  <2> HIDE DEF g, Body
  <2> QED BY <1>4
<1>6. IsFold(iter, f, Used)
  <2> HIDE DEF f, iter
  <2> SUFFICES ASSUME NEW T \in SUBSET Used
               PROVE  iter[T] = IF T = {} THEN 0 ELSE f[Some(T)] + iter[T \ {Some(T)}]
    BY DEF IsFold
  <2>1. iter[T] = Body(iter)[T]
    BY <1>5
  <2> QED BY <1>2, <2>1 DEF Some
<1>7. iter[Used] = SumOf(f, Used)
  <2> HIDE DEF f, iter
  <2> QED BY <1>1, <1>6, FoldIsSum
<1> HIDE DEF iter
<1> QED BY <1>3, <1>7 DEF Taken

\* Every table of lengths that the property is about meets Kraft's inequality.
LEMMA KraftLengthsMeetIt ==
  ASSUME input \in Seq(Symbol), Cardinality(Used) > 1, NEW lens \in KraftLengths
  PROVE  Levels(lens, Used) /\ Cost(lens) = CostOf(Weights, lens, Used)
<1> DEFINE n == Cardinality(Used) - 1
<1>1. n \in Nat
  <2>1. Cardinality(Used) \in Nat
    BY Occurrences
  <2> QED BY <2>1
<1>2. lens \in [Used -> 1 .. n]
  BY DEF KraftLengths
<1>3. MapThenSumSet(LAMBDA s : 2^(n - lens[s]), Used) <= 2^n
  BY DEF KraftLengths
<1> HIDE DEF n
<1>4. /\ lens \in [Used -> Nat]
      /\ \A s \in Used : lens[s] \in Nat /\ lens[s] <= n
  BY <1>1, <1>2
<1>5. Taken(lens, n, Used) <= 2^n
  <2>1. MapThenSumSet(LAMBDA s : 2^(n - lens[s]), Used) = Taken(lens, n, Used)
    BY <1>1, <1>4, RoomIsKraft
  <2> QED BY <1>3, <2>1
<1>6. Kraft(lens, Used)
  <2>1. IsFiniteSet(Used) /\ Within(lens, n, Used)
    BY <1>4, Occurrences DEF Within
  <2> QED BY <1>1, <1>5, <2>1, KraftAtOne
<1> QED BY <1>6, <1>4, CostIsSum DEF Levels

-----------------------------------------------------------------------------
(* What the input can still cost. *)

\* What the leaves below a node cost, counted from the node.
Inner(a) == CostOf(Weights, a.depth, DOMAIN a.depth)

Inners(N) == SumOf([a \in N |-> Inner(a)], N)

Outer(level, N) == CostOf([a \in N |-> a.weight], level, N)

\* The nodes can be put on levels so that the input costs no more than c.
Reach(N, c) == \E level : Levels(level, N) /\ Inners(N) + Outer(level, N) <= c

\* What the nodes have cost so far is a number.
LEMMA InnersType ==
  ASSUME NEW N, IsFiniteSet(N), \A a \in N : Inner(a) \in Nat
  PROVE  Inners(N) \in Nat
<1>1. PICK f : f = [a \in N |-> Inner(a)]
  OBVIOUS
<1>2. \A a \in N : f[a] \in Nat
  BY <1>1
<1> QED BY <1>1, <1>2, SumType DEF Inners

\* One node more costs what is below it.
LEMMA InnersAdd ==
  ASSUME NEW N, IsFiniteSet(N), NEW p, p \notin N, \A a \in N \union {p} : Inner(a) \in Nat
  PROVE  Inners(N \union {p}) = Inners(N) + Inner(p)
<1>1. PICK f : f = [a \in N |-> Inner(a)]
  OBVIOUS
<1>2. PICK g : g = [a \in N \union {p} |-> Inner(a)]
  OBVIOUS
<1>3. /\ \A a \in N \union {p} : g[a] \in Nat
      /\ g[p] = Inner(p)
      /\ \A a \in N : g[a] = f[a]
  BY <1>1, <1>2
<1>4. SumOf(g, N \union {p}) = SumOf(g, N) + g[p]
  BY <1>3, SumAdd
<1>5. SumOf(g, N) = SumOf(f, N)
  BY <1>3, SumEqual
<1> QED BY <1>1, <1>2, <1>3, <1>4, <1>5 DEF Inners

\* What the nodes still cost is a number.
LEMMA OuterType ==
  ASSUME NEW N, IsFiniteSet(N), NEW level, \A a \in N : a.weight \in Nat /\ level[a] \in Nat
  PROVE  Outer(level, N) \in Nat
<1>1. PICK w : w = [a \in N |-> a.weight]
  OBVIOUS
<1>2. Priced(w, level, N)
  BY <1>1 DEF Priced
<1> QED BY <1>1, <1>2, CostType DEF Outer

\* One node more costs its weight times its level.
LEMMA OuterAdd ==
  ASSUME NEW N, IsFiniteSet(N), NEW p, p \notin N, NEW level,
         \A a \in N \union {p} : a.weight \in Nat /\ level[a] \in Nat
  PROVE  Outer(level, N \union {p}) = Outer(level, N) + p.weight * level[p]
<1>1. PICK v : v = [a \in N |-> a.weight]
  OBVIOUS
<1>2. PICK w : w = [a \in N \union {p} |-> a.weight]
  OBVIOUS
<1>3. w[p] = p.weight /\ \A a \in N : w[a] = v[a]
  BY <1>1, <1>2
<1>4. Priced(w, level, N \union {p})
  BY <1>2 DEF Priced
<1>5. CostOf(w, level, N \union {p}) = CostOf(w, level, N) + w[p] * level[p]
  BY <1>4, CostAdd
<1>6. CostOf(w, level, N) = CostOf(v, level, N)
  <2>1. PICK f : f = [a \in N |-> w[a] * level[a]]
    OBVIOUS
  <2>2. PICK g : g = [a \in N |-> v[a] * level[a]]
    OBVIOUS
  <2>3. \A a \in N : f[a] = g[a]
    BY <1>3, <2>1, <2>2
  <2> QED BY <2>1, <2>2, <2>3, SumEqual DEF CostOf
<1> QED BY <1>1, <1>2, <1>3, <1>5, <1>6 DEF Outer

\* What nodes still cost depends on their levels alone.
LEMMA OuterEqual ==
  ASSUME NEW N, NEW level, NEW other, \A a \in N : other[a] = level[a]
  PROVE  Outer(other, N) = Outer(level, N)
BY CostEqual DEF Outer

\* Sums do not depend on how things are called.
LEMMA Renamed ==
  ASSUME NEW S, IsFiniteSet(S), NEW m, \A s, t \in S : s # t => m[s] # m[t],
         NEW f, NEW g, \A s \in S : f[m[s]] = g[s] /\ g[s] \in Nat
  PROVE  IsFiniteSet({m[s] : s \in S}) /\ SumOf(f, {m[s] : s \in S}) = SumOf(g, S)
<1> DEFINE Image(T) == {m[s] : s \in T}
           P == {T \in SUBSET S : IsFiniteSet(Image(T)) /\ SumOf(f, Image(T)) = SumOf(g, T)}
<1>1. {} \in P
  <2>1. Image({}) = {} /\ IsFiniteSet({})
    BY FS_EmptySet
  <2>2. SumOf(f, {}) = 0 /\ SumOf(g, {}) = 0
    BY SumEmpty
  <2> QED BY <2>1, <2>2
<1>2. ASSUME NEW T \in P, NEW x \in S \ T
      PROVE  T \union {x} \in P
  <2>1. PICK U : U = Image(T)
    OBVIOUS
  <2>2. PICK y : y = m[x]
    OBVIOUS
  <2>3. Image(T \union {x}) = U \union {y}
    BY <2>1, <2>2
  <2>4. y \notin U
    BY <2>1, <2>2
  <2>5. IsFiniteSet(U) /\ SumOf(f, U) = SumOf(g, T) /\ IsFiniteSet(T)
    <3>1. IsFiniteSet(T)
      BY FS_Subset
    <3> QED BY <2>1, <3>1
  <2>6. /\ \A z \in U \union {y} : f[z] \in Nat
        /\ \A s \in T \union {x} : g[s] \in Nat
        /\ f[y] = g[x]
    BY <2>1, <2>2
  <2>7. SumOf(f, U \union {y}) = SumOf(f, U) + f[y]
    BY <2>4, <2>5, <2>6, SumAdd
  <2>8. SumOf(g, T \union {x}) = SumOf(g, T) + g[x]
    BY <2>5, <2>6, SumAdd
  <2>9. IsFiniteSet(U \union {y})
    BY <2>5, FS_AddElement
  <2>10. SumOf(f, U \union {y}) = SumOf(g, T \union {x})
    BY <2>5, <2>6, <2>7, <2>8
  <2>11. T \union {x} \in SUBSET S
    OBVIOUS
  <2> QED BY <2>3, <2>9, <2>10, <2>11
<1>3. S \in P
  <2>1. P \in SUBSET SUBSET S
    OBVIOUS
  <2> HIDE DEF P
  <2> QED BY <1>1, <1>2, <2>1, InductSet
<1> QED BY <1>3

\* A leaf costs nothing yet.
LEMMA LeafCost ==
  ASSUME input \in Seq(Symbol), NEW s \in Used
  PROVE  Inner(Leaf(s)) = 0 /\ Leaf(s).weight = Weights[s] /\ Weights[s] \in Nat
<1>1. PICK d : d = [t \in {s} |-> 0]
  OBVIOUS
<1>2. PICK a : a = Leaf(s)
  OBVIOUS
<1>3. a.depth = d /\ a.weight = Weights[s] /\ Weights[s] \in Nat /\ DOMAIN d = {s} /\ d[s] = 0
  BY <1>1, <1>2, Occurrences DEF Leaf
<1>4. PICK w : w = Weights
  OBVIOUS
<1>5. PICK e : e = {}
  OBVIOUS
<1>6. CostOf(w, d, e \union {s}) = CostOf(w, d, e) + w[s] * d[s]
  <2>1. Priced(w, d, e \union {s})
    BY <1>3, <1>4, <1>5 DEF Priced
  <2>2. IsFiniteSet(e) /\ s \notin e
    BY <1>5, FS_EmptySet
  <2> QED BY <2>1, <2>2, CostAdd
<1>7. CostOf(w, d, e) = 0
  BY <1>5, SumEmpty DEF CostOf
<1>8. CostOf(w, d, {s}) = 0
  <2>1. e \union {s} = {s}
    BY <1>5
  <2>2. w[s] * d[s] = 0
    BY <1>3, <1>4
  <2>3. CostOf(w, d, {s}) = CostOf(w, d, e) + w[s] * d[s]
    BY <1>6, <2>1
  <2>4. CostOf(w, d, {s}) = 0 + 0
    BY <1>7, <2>2, <2>3
  <2> QED BY <2>4
<1> QED BY <1>2, <1>3, <1>4, <1>8 DEF Inner

\* At the beginning every code is still possible.
LEMMA LeavesReach ==
  ASSUME input \in Seq(Symbol), NEW lens, Levels(lens, Used)
  PROVE  Reach({Leaf(s) : s \in Used}, CostOf(Weights, lens, Used))
<1>1. PICK m : m = [s \in Used |-> Leaf(s)]
  OBVIOUS
<1>2. PICK N : N = {m[s] : s \in Used}
  OBVIOUS
<1>3. IsFiniteSet(Used) /\ \A s \in Used : m[s] = Leaf(s) /\ m[s] \in N /\ lens[s] \in Nat
  BY <1>1, <1>2, Occurrences DEF Levels
<1>4. \A s, t \in Used : s # t => m[s] # m[t]
  <2>1. \A s \in Used : Leaf(s).order = Cardinality({t \in Used : t < s})
    BY DEF Leaf
  <2> QED BY <1>3, <2>1, LeavesApart
<1>5. ASSUME NEW f, NEW g, \A s \in Used : f[m[s]] = g[s] /\ g[s] \in Nat
      PROVE  IsFiniteSet(N) /\ SumOf(f, N) = SumOf(g, Used)
  <2>1. IsFiniteSet(Used)
    BY <1>3
  <2>2. IsFiniteSet({m[s] : s \in Used}) /\ SumOf(f, {m[s] : s \in Used}) = SumOf(g, Used)
    BY <1>4, <1>5, <2>1, Renamed
  <2> QED BY <1>2, <2>2
<1>6. PICK level : level = [a \in N |-> lens[CHOOSE s \in Used : m[s] = a]]
  OBVIOUS
<1>7. \A s \in Used : level[m[s]] = lens[s]
  <2> TAKE s \in Used
  <2>1. (CHOOSE t \in Used : m[t] = m[s]) = s
    BY <1>4
  <2> QED BY <1>3, <1>6, <2>1
<1>8. level \in [N -> Nat]
  <2>1. \A a \in N : level[a] \in Nat
    BY <1>2, <1>3, <1>7
  <2> QED BY <1>6, <2>1
<1>9. IsFiniteSet(N)
  <2>1. PICK f : f = [a \in N |-> 0]
    OBVIOUS
  <2>2. PICK g : g = [s \in Used |-> 0]
    OBVIOUS
  <2>3. \A s \in Used : f[m[s]] = g[s] /\ g[s] \in Nat
    BY <1>3, <2>1, <2>2
  <2> QED BY <2>3, <1>5
<1>10. Kraft(level, N)
  <2> SUFFICES ASSUME NEW n \in Nat, Within(level, n, N)
               PROVE  Taken(level, n, N) <= 2^n
    BY DEF Kraft
  <2>1. Within(lens, n, Used)
    BY <1>3, <1>7 DEF Within
  <2>2. PICK f : f = [a \in N |-> 2^(n - level[a])]
    OBVIOUS
  <2>3. PICK g : g = [s \in Used |-> 2^(n - lens[s])]
    OBVIOUS
  <2>4. \A s \in Used : f[m[s]] = g[s] /\ g[s] \in Nat
    <3>1. \A s \in Used : 2^(n - lens[s]) \in Nat
      BY <2>1, Places
    <3>2. \A s \in Used : f[m[s]] = 2^(n - level[m[s]])
      BY <1>3, <2>2
    <3>3. \A s \in Used : g[s] = 2^(n - lens[s])
      BY <2>3
    <3> QED BY <1>7, <3>1, <3>2, <3>3
  <2>5. SumOf(f, N) = SumOf(g, Used)
    BY <2>4, <1>5
  <2>6. Taken(level, n, N) = Taken(lens, n, Used)
    BY <2>2, <2>3, <2>5 DEF Taken
  <2>7. Taken(lens, n, Used) <= 2^n
    BY <2>1 DEF Levels, Kraft
  <2> QED BY <2>6, <2>7
<1>11. Inners(N) = 0
  <2>1. PICK f : f = [a \in N |-> Inner(a)]
    OBVIOUS
  <2>2. PICK g : g = [s \in Used |-> 0]
    OBVIOUS
  <2>3. \A s \in Used : f[m[s]] = g[s] /\ g[s] \in Nat
    BY <1>3, <2>1, <2>2, LeafCost
  <2>4. SumOf(f, N) = SumOf(g, Used)
    BY <2>3, <1>5
  <2>5. SumOf(g, Used) = 0 * SumOf(g, Used) /\ SumOf(g, Used) \in Nat
    <3>1. \A s \in Used : g[s] \in Nat /\ g[s] = 0 * g[s]
      BY <2>2
    <3> QED BY <1>3, <3>1, SumScale, SumType
  <2> QED BY <2>1, <2>4, <2>5 DEF Inners
<1>12. Outer(level, N) = CostOf(Weights, lens, Used)
  <2>1. PICK v : v = [a \in N |-> a.weight]
    OBVIOUS
  <2>2. PICK f : f = [a \in N |-> v[a] * level[a]]
    OBVIOUS
  <2>3. PICK w : w = Weights
    OBVIOUS
  <2>4. PICK g : g = [s \in Used |-> w[s] * lens[s]]
    OBVIOUS
  <2>5. \A s \in Used : f[m[s]] = g[s] /\ g[s] \in Nat
    <3> TAKE s \in Used
    <3>1. f[m[s]] = v[m[s]] * level[m[s]] /\ v[m[s]] = m[s].weight
      BY <1>3, <2>1, <2>2
    <3>2. m[s].weight = w[s] /\ w[s] \in Nat /\ lens[s] \in Nat
      BY <1>3, <2>3, LeafCost
    <3>3. g[s] = w[s] * lens[s]
      BY <2>4
    <3>4. w[s] * lens[s] \in Nat
      BY <3>2
    <3> QED BY <1>7, <3>1, <3>2, <3>3, <3>4
  <2>6. SumOf(f, N) = SumOf(g, Used)
    BY <2>5, <1>5
  <2> QED BY <2>1, <2>2, <2>3, <2>4, <2>6 DEF Outer, CostOf
<1>13. CostOf(Weights, lens, Used) \in Nat
  <2>1. Priced(Weights, lens, Used)
    BY <1>3, LeafCost DEF Priced
  <2> QED BY <1>3, <2>1, CostType
<1>14. N = {Leaf(s) : s \in Used}
  BY <1>2, <1>3
<1>15. Levels(level, N)
  BY <1>8, <1>10 DEF Levels
<1>16. Inners(N) + Outer(level, N) <= CostOf(Weights, lens, Used)
  BY <1>11, <1>12, <1>13
<1> QED BY <1>14, <1>15, <1>16 DEF Reach

\* Leaves that go down by one level cost what they weigh more.
LEMMA OneDown ==
  ASSUME NEW S, IsFiniteSet(S), NEW w, NEW d, NEW e, \A s \in S : w[s] \in Nat /\ d[s] \in Nat /\ e[s] = 1 + d[s]
  PROVE  /\ CostOf(w, e, S) = CostOf(w, d, S) + SumOf(w, S)
         /\ CostOf(w, d, S) \in Nat /\ SumOf(w, S) \in Nat
<1>1. PICK f : f = [s \in S |-> w[s] * d[s]]
  OBVIOUS
<1>2. PICK h : h = [s \in S |-> w[s] * e[s]]
  OBVIOUS
<1>3. \A s \in S : f[s] \in Nat /\ w[s] \in Nat /\ h[s] = f[s] + w[s]
  <2> TAKE s \in S
  <2>1. PICK a \in Nat : a = w[s]
    OBVIOUS
  <2>2. PICK b \in Nat : b = d[s] /\ e[s] = 1 + b
    OBVIOUS
  <2>3. a * (1 + b) = a * b + a /\ a * b \in Nat
    OBVIOUS
  <2>4. f[s] = a * b /\ h[s] = a * (1 + b)
    BY <1>1, <1>2, <2>1, <2>2
  <2> QED BY <2>1, <2>3, <2>4
<1>4. SumOf(h, S) = SumOf(f, S) + SumOf(w, S)
  BY <1>3, SumOfSums
<1>5. SumOf(f, S) \in Nat /\ SumOf(w, S) \in Nat
  BY <1>3, SumType
<1> QED BY <1>1, <1>2, <1>4, <1>5 DEF CostOf

\* Two sets of leaves.
LEMMA CostUnion ==
  ASSUME NEW S, NEW T, IsFiniteSet(S), IsFiniteSet(T), S \cap T = {}, NEW w, NEW d, Priced(w, d, S \union T)
  PROVE  CostOf(w, d, S \union T) = CostOf(w, d, S) + CostOf(w, d, T)
<1>1. PICK f : f = [s \in S \union T |-> w[s] * d[s]]
  OBVIOUS
<1>2. PICK g : g = [s \in S |-> w[s] * d[s]]
  OBVIOUS
<1>3. PICK h : h = [s \in T |-> w[s] * d[s]]
  OBVIOUS
<1>4. /\ \A s \in S \union T : f[s] \in Nat
      /\ \A s \in S : f[s] = g[s]
      /\ \A s \in T : f[s] = h[s]
  <2>1. \A s \in S \union T : w[s] * d[s] \in Nat
    BY DEF Priced
  <2> QED BY <1>1, <1>2, <1>3, <2>1
<1>5. SumOf(f, S \union T) = SumOf(f, S) + SumOf(f, T)
  BY <1>4, SumUnion
<1>6. SumOf(f, S) = SumOf(g, S) /\ SumOf(f, T) = SumOf(h, T)
  BY <1>4, SumEqual
<1> QED BY <1>1, <1>2, <1>3, <1>5, <1>6 DEF CostOf

\* What is below a node costs a number of bits.
LEMMA InnerType ==
  ASSUME input \in Seq(Symbol), NEW a, NodeOk(a)
  PROVE  Inner(a) \in Nat
<1>1. PICK d : d = a.depth
  OBVIOUS
<1>2. /\ IsFiniteSet(DOMAIN d) /\ DOMAIN d \in SUBSET Used
      /\ \A s \in DOMAIN d : d[s] \in Nat
  BY <1>1, NodeType DEF NodeOk
<1>3. Priced(Weights, d, DOMAIN d)
  BY <1>2, Occurrences DEF Priced
<1>4. CostOf(Weights, d, DOMAIN d) \in Nat
  BY <1>2, <1>3, CostType
<1> QED BY <1>1, <1>4 DEF Inner

\* Two nodes and their parent.
Family(p, a, b) == NodeOk(a) /\ NodeOk(b) /\ DOMAIN a.depth \cap DOMAIN b.depth = {} /\ p = Parent(a, b)

\* What a parent costs.
LEMMA ParentCost ==
  ASSUME input \in Seq(Symbol), next_order \in Nat, NEW a, NEW b, NEW p, Family(p, a, b)
  PROVE  Inner(p) = (Inner(a) + Inner(b)) + p.weight /\ p.weight = a.weight + b.weight
<1>1. PICK d : d = a.depth
  OBVIOUS
<1>2. PICK e : e = b.depth
  OBVIOUS
<1>3. PICK f : f = p.depth
  OBVIOUS
<1>4. PICK w : w = Weights
  OBVIOUS
<1>5. PICK S : S = DOMAIN d
  OBVIOUS
<1>6. PICK T : T = DOMAIN e
  OBVIOUS
<1>7. /\ IsFiniteSet(S) /\ IsFiniteSet(T) /\ S \cap T = {}
      /\ a.weight = SumOf(w, S) /\ b.weight = SumOf(w, T)
      /\ S \in SUBSET Used /\ T \in SUBSET Used
      /\ \A s \in S : d[s] \in Nat
      /\ \A s \in T : e[s] \in Nat
  BY <1>1, <1>2, <1>4, <1>5, <1>6, NodeType DEF NodeOk, Family
<1>8. /\ DOMAIN f = S \union T /\ p.weight = a.weight + b.weight
      /\ \A s \in S : f[s] = 1 + d[s]
      /\ \A s \in T : f[s] = 1 + e[s]
  BY <1>1, <1>2, <1>3, <1>5, <1>6, ParentOk DEF Family
<1>9. \A s \in Used : w[s] \in Nat
  BY <1>4, Occurrences
<1>10. CostOf(w, f, S) = CostOf(w, d, S) + SumOf(w, S) /\ CostOf(w, d, S) \in Nat /\ SumOf(w, S) \in Nat
  <2>1. \A s \in S : w[s] \in Nat /\ d[s] \in Nat /\ f[s] = 1 + d[s]
    BY <1>7, <1>8, <1>9
  <2>2. IsFiniteSet(S)
    BY <1>7
  <2> QED BY <2>1, <2>2, OneDown
<1>11. CostOf(w, f, T) = CostOf(w, e, T) + SumOf(w, T) /\ CostOf(w, e, T) \in Nat /\ SumOf(w, T) \in Nat
  <2>1. \A s \in T : w[s] \in Nat /\ e[s] \in Nat /\ f[s] = 1 + e[s]
    BY <1>7, <1>8, <1>9
  <2>2. IsFiniteSet(T)
    BY <1>7
  <2> QED BY <2>1, <2>2, OneDown
<1>12. CostOf(w, f, S \union T) = CostOf(w, f, S) + CostOf(w, f, T)
  <2>1. Priced(w, f, S \union T)
    BY <1>7, <1>8, <1>9 DEF Priced
  <2>2. IsFiniteSet(S) /\ IsFiniteSet(T) /\ S \cap T = {}
    BY <1>7
  <2> QED BY <2>1, <2>2, CostUnion
<1>13. Inner(a) = CostOf(w, d, S) /\ Inner(b) = CostOf(w, e, T) /\ Inner(p) = CostOf(w, f, S \union T)
  BY <1>1, <1>2, <1>3, <1>4, <1>5, <1>6, <1>8 DEF Inner
<1>14. Inner(p) = (Inner(a) + Inner(b)) + (a.weight + b.weight)
  <2>1. PICK x \in Nat : x = CostOf(w, d, S)
    BY <1>10
  <2>2. PICK y \in Nat : y = CostOf(w, e, T)
    BY <1>11
  <2>3. PICK u \in Nat : u = a.weight /\ u = SumOf(w, S)
    BY <1>7, <1>10
  <2>4. PICK v \in Nat : v = b.weight /\ v = SumOf(w, T)
    BY <1>7, <1>11
  <2>5. Inner(p) = (x + u) + (y + v)
    BY <1>10, <1>11, <1>12, <1>13, <2>1, <2>2, <2>3, <2>4
  <2>6. (x + u) + (y + v) = (x + y) + (u + v)
    OBVIOUS
  <2> QED BY <1>13, <2>1, <2>2, <2>3, <2>4, <2>5, <2>6
<1> QED BY <1>8, <1>14

\* A set and one element more.
OneMore(S, R, x) == S = R \union {x} /\ x \notin R /\ IsFiniteSet(R)

\* What one more node takes.
LEMMA TakenOneMore ==
  ASSUME NEW S, NEW R, NEW x, OneMore(S, R, x), NEW lens, NEW n \in Nat, Within(lens, n, S)
  PROVE  Taken(lens, n, S) = Taken(lens, n, R) + 2^(n - lens[x])
<1>1. S = R \union {x} /\ x \notin R /\ IsFiniteSet(R)
  BY DEF OneMore
<1>2. Within(lens, n, R \union {x})
  BY <1>1
<1>3. Taken(lens, n, R \union {x}) = Taken(lens, n, R) + 2^(n - lens[x])
  BY <1>1, <1>2, TakenAdd
<1> QED BY <1>1, <1>3

\* A set and one element more: its elements.
LEMMA OneMoreIn ==
  ASSUME NEW S, NEW R, NEW x, OneMore(S, R, x)
  PROVE  IsFiniteSet(S) /\ IsFiniteSet(R) /\ x \in S /\ R \in SUBSET S /\ \A y \in S : y \in R \/ y = x
<1>1. IsFiniteSet(R \union {x})
  BY FS_AddElement DEF OneMore
<1> QED BY <1>1 DEF OneMore

\* A parent one level above the children leaves the same room.
LEMMA ParentRoom ==
  ASSUME NEW N, NEW Q, NEW R, NEW P, NEW a, NEW b, NEW p,
         OneMore(Q, R, a), OneMore(N, Q, b), OneMore(P, R, p),
         NEW level, Levels(level, N), NEW y \in Nat, level[a] = y + 1, level[b] = y + 1,
         NEW new, \A x \in R : new[x] = level[x], new[p] = y
  PROVE  Kraft(new, P)
<1> SUFFICES ASSUME NEW n \in Nat, Within(new, n, P)
             PROVE  Taken(new, n, P) <= 2^n
  BY DEF Kraft
<1>1. PICK m \in Nat : m = n + 1
  OBVIOUS
<1>2. y <= n /\ \A x \in R : level[x] \in Nat /\ level[x] <= n
  <2>1. \A x \in P : new[x] \in Nat /\ new[x] <= n
    BY DEF Within
  <2>2. p \in P /\ R \in SUBSET P
    BY OneMoreIn
  <2> QED BY <2>1, <2>2
<1>3. Within(level, n, R) /\ Within(level, m, Q) /\ Within(level, m, N)
  <2>1. \A x \in Q : x \in R \/ x = a
    BY OneMoreIn
  <2>2. \A x \in N : x \in Q \/ x = b
    BY OneMoreIn
  <2>3. \A x \in R : level[x] \in Nat /\ level[x] <= n /\ level[x] <= m
    BY <1>1, <1>2
  <2>4. y + 1 \in Nat /\ y + 1 <= m
    BY <1>1, <1>2
  <2> QED BY <2>1, <2>2, <2>3, <2>4 DEF Within
<1>4. IsFiniteSet(R)
  BY OneMoreIn
<1>5. PICK r \in Nat : r = Taken(level, n, R)
  BY <1>3, <1>4, TakenType
<1>6. Taken(level, m, R) = 2 * r
  <2>1. Taken(level, n + 1, R) = 2^1 * Taken(level, n, R)
    BY <1>3, <1>4, TakenDeeper
  <2>2. 2^1 = 2
    OBVIOUS
  <2> QED BY <1>1, <1>5, <2>1, <2>2
<1>7. PICK d \in Nat : n = y + d
  <2>1. n - y \in Nat /\ n = y + (n - y)
    BY <1>2
  <2> QED BY <2>1
<1>8. PICK t \in Nat : t = 2^d
  BY PowerType
<1>9. m - level[a] = d /\ m - level[b] = d /\ n - new[p] = d
  BY <1>1, <1>7
<1>10. Taken(level, m, Q) = 2 * r + t
  <2>1. Taken(level, m, Q) = Taken(level, m, R) + 2^(m - level[a])
    BY <1>3, TakenOneMore
  <2> QED BY <1>6, <1>8, <1>9, <2>1
<1>11. Taken(level, m, N) = (2 * r + t) + t
  <2>1. Taken(level, m, N) = Taken(level, m, Q) + 2^(m - level[b])
    BY <1>3, TakenOneMore
  <2> QED BY <1>8, <1>9, <1>10, <2>1
<1>12. Taken(new, n, P) = r + t
  <2>1. Taken(new, n, P) = Taken(new, n, R) + 2^(n - new[p])
    BY TakenOneMore
  <2>2. Taken(new, n, R) = Taken(level, n, R)
    <3>1. \A x \in R : n - new[x] = n - level[x]
      OBVIOUS
    <3> QED BY <3>1, TakenEqual
  <2> QED BY <1>5, <1>8, <1>9, <2>1, <2>2
<1>13. (2 * r + t) + t <= 2^m
  <2>1. Taken(level, m, N) <= 2^m
    BY <1>3 DEF Levels, Kraft
  <2> QED BY <1>11, <2>1
<1>14. PICK z \in Nat : z = 2^n /\ 2^m = 2 * z
  BY <1>1, PowerType
<1>15. r + t <= z
  BY <1>13, <1>14
<1> QED BY <1>12, <1>14, <1>15

\* The two lightest nodes of S.
Lightest(w, S, a, b) ==
  /\ a \in S /\ b \in S /\ a # b
  /\ \A x \in S : w[x] \in Nat
  /\ \A x \in S \ {a} : w[a] <= w[x]
  /\ \A x \in S \ {a, b} : w[b] <= w[x]

\* Levels that put a and b below one parent and cost no more than level.
Joins(new, w, level, S, a, b) ==
  \E y \in Nat :
    /\ Levels(new, S) /\ CostOf(w, new, S) <= CostOf(w, level, S)
    /\ new[a] = y /\ new[b] = y /\ y > 0

\* Levels of nodes of which a and b are the lightest.
Exchangeable(w, level, S, a, b) == IsFiniteSet(S) /\ Levels(level, S) /\ Lightest(w, S, a, b)

\* The exchange argument, for the two lightest nodes.
LEMMA LightestSiblings ==
  ASSUME NEW S, NEW w, NEW level, NEW a, NEW b, Exchangeable(w, level, S, a, b)
  PROVE  \E new : Joins(new, w, level, S, a, b)
BY Siblings DEF Lightest, Exchangeable, Joins

\* What one more node has cost so far.
LEMMA InnersOneMore ==
  ASSUME NEW S, NEW R, NEW x, OneMore(S, R, x), \A a \in S : Inner(a) \in Nat
  PROVE  Inners(S) = Inners(R) + Inner(x) /\ Inners(R) \in Nat
<1>1. S = R \union {x} /\ x \notin R /\ IsFiniteSet(R)
  BY DEF OneMore
<1>2. \A a \in R \union {x} : Inner(a) \in Nat
  BY <1>1
<1>3. Inners(R \union {x}) = Inners(R) + Inner(x)
  BY <1>1, <1>2, InnersAdd
<1>4. Inners(R) \in Nat
  BY <1>1, <1>2, InnersType
<1> QED BY <1>1, <1>3, <1>4

\* What one more node still costs.
LEMMA OuterOneMore ==
  ASSUME NEW S, NEW R, NEW x, OneMore(S, R, x), NEW level, \A a \in S : a.weight \in Nat /\ level[a] \in Nat
  PROVE  Outer(level, S) = Outer(level, R) + x.weight * level[x] /\ Outer(level, R) \in Nat
<1>1. S = R \union {x} /\ x \notin R /\ IsFiniteSet(R)
  BY DEF OneMore
<1>2. \A a \in R \union {x} : a.weight \in Nat /\ level[a] \in Nat
  BY <1>1
<1>3. Outer(level, R \union {x}) = Outer(level, R) + x.weight * level[x]
  BY <1>1, <1>2, OuterAdd
<1>4. Outer(level, R) \in Nat
  BY <1>1, <1>2, OuterType
<1> QED BY <1>1, <1>3, <1>4

\* A parent of the two lightest nodes rules out no cost that could be reached.
LEMMA ParentReaches ==
  ASSUME input \in Seq(Symbol), Forest, Cardinality(activeNodes) > 1,
         NEW c \in Nat, Reach(activeNodes, c),
         NEW a, a = First(activeNodes), NEW b, b = First(activeNodes \ {a}), NEW p, p = Parent(a, b)
  PROVE  Reach((activeNodes \ {a, b}) \union {p}, c)
<1>1. PICK N : N = activeNodes
  OBVIOUS
<1>2. /\ a \in N /\ b \in N /\ a # b /\ IsFiniteSet(N)
      /\ \A x \in N : x # a => Before(a, x)
      /\ \A x \in N : x # a /\ x # b => Before(b, x)
  BY <1>1, FirstTwo DEF Forest
<1>3. \A x \in N : NodeOk(x) /\ x.weight \in Nat /\ Inner(x) \in Nat
  BY <1>1, NodeType, InnerType DEF Forest
<1>4. PICK level : Levels(level, N) /\ Inners(N) + Outer(level, N) <= c
  BY <1>1 DEF Reach
<1>5. PICK w : w = [x \in N |-> x.weight]
  OBVIOUS
<1>6. PICK best : \E y \in Nat :
        /\ Levels(best, N) /\ CostOf(w, best, N) <= CostOf(w, level, N)
        /\ best[a] = y /\ best[b] = y /\ y > 0
  <2>1. \A x \in N : w[x] \in Nat
    BY <1>3, <1>5
  <2>2. \A x \in N \ {a} : w[a] <= w[x]
    <3> TAKE x \in N \ {a}
    <3>1. Before(a, x) /\ a.weight \in Nat /\ x.weight \in Nat /\ w[a] = a.weight /\ w[x] = x.weight
      BY <1>2, <1>3, <1>5
    <3> QED BY <3>1 DEF Before
  <2>3. \A x \in N \ {a, b} : w[b] <= w[x]
    <3> TAKE x \in N \ {a, b}
    <3>1. Before(b, x) /\ b.weight \in Nat /\ x.weight \in Nat /\ w[b] = b.weight /\ w[x] = x.weight
      BY <1>2, <1>3, <1>5
    <3> QED BY <3>1 DEF Before
  <2>4. Lightest(w, N, a, b)
    BY <1>2, <2>1, <2>2, <2>3 DEF Lightest
  <2>5. Exchangeable(w, level, N, a, b)
    BY <1>2, <1>4, <2>4 DEF Exchangeable
  <2>6. PICK new : Joins(new, w, level, N, a, b)
    BY <2>5, LightestSiblings
  <2> QED BY <2>6 DEF Joins
<1>7. PICK y \in Nat : best[a] = y + 1 /\ best[b] = y + 1
  <2>1. PICK z \in Nat : best[a] = z /\ best[b] = z /\ z > 0
    BY <1>6
  <2>2. z - 1 \in Nat /\ z = (z - 1) + 1
    BY <2>1
  <2> QED BY <2>1, <2>2
<1>8. /\ Levels(best, N) /\ Outer(best, N) <= Outer(level, N)
      /\ \A x \in N : best[x] \in Nat /\ level[x] \in Nat
  BY <1>4, <1>5, <1>6 DEF Outer, Levels
<1>9. PICK R : R = N \ {a, b}
  OBVIOUS
<1>10. PICK Q : Q = R \union {a}
  OBVIOUS
<1>11. PICK P : P = R \union {p}
  OBVIOUS
<1>12. /\ Inner(p) = (Inner(a) + Inner(b)) + p.weight /\ p.weight = a.weight + b.weight
       /\ p.order = next_order
  <2>1. /\ NodeOk(a) /\ NodeOk(b) /\ next_order \in Nat
        /\ DOMAIN a.depth \cap DOMAIN b.depth = {}
    BY <1>1, <1>2 DEF Forest
  <2>2. p.order = next_order
    BY <2>1, ParentOk
  <2>3. Inner(p) = (Inner(a) + Inner(b)) + p.weight /\ p.weight = a.weight + b.weight
    <3>1. Family(p, a, b)
      BY <2>1 DEF Family
    <3> QED BY <2>1, <3>1, ParentCost
  <2> QED BY <2>2, <2>3
<1>13. p \notin R
  <2>1. \A x \in R : x.order \in Nat /\ x.order < next_order /\ next_order \in Nat
    BY <1>1, <1>3, <1>9 DEF NodeOk, Forest
  <2> SUFFICES ASSUME p \in R
               PROVE  FALSE
    OBVIOUS
  <2> QED BY <1>12, <2>1
<1>14. OneMore(Q, R, a) /\ OneMore(N, Q, b) /\ OneMore(P, R, p) /\ R \in SUBSET N /\ Q \in SUBSET N
  <2>1. R \in SUBSET N /\ Q \in SUBSET N
    BY <1>2, <1>9, <1>10
  <2>2. IsFiniteSet(R) /\ IsFiniteSet(Q)
    BY <1>2, <2>1, FS_Subset
  <2>3. a \notin R /\ b \notin Q /\ N = Q \union {b}
    BY <1>2, <1>9, <1>10
  <2> QED BY <1>10, <1>11, <1>13, <2>1, <2>2, <2>3 DEF OneMore
<1>15. PICK new : new = [x \in P |-> IF x = p THEN y ELSE best[x]]
  OBVIOUS
<1>16. \A x \in P : x \in R \/ x = p
  BY <1>11
<1>17. \A x \in R : x \in P /\ x # p
  BY <1>11, <1>13
<1>18. p \in P
  BY <1>11
<1>19. /\ new \in [P -> Nat] /\ new[p] = y
       /\ \A x \in R : new[x] = best[x]
  <2>1. \A x \in R : best[x] \in Nat
    BY <1>8, <1>14
  <2> QED BY <1>15, <1>16, <1>17, <1>18, <2>1
<1>20. Levels(new, P)
  <2>1. \A x \in R : new[x] = best[x]
    BY <1>19
  <2>2. new[p] = y
    BY <1>19
  <2>3. Kraft(new, P)
    BY <1>7, <1>8, <1>14, <2>1, <2>2, ParentRoom
  <2> QED BY <1>19, <2>3 DEF Levels
<1>21. PICK i \in Nat : /\ i = Inners(R)
                        /\ Inners(Q) = i + Inner(a)
                        /\ Inners(N) = (i + Inner(a)) + Inner(b)
                        /\ Inners(P) = i + Inner(p)
  <2>1. \A x \in Q : Inner(x) \in Nat
    BY <1>3, <1>14
  <2>2. \A x \in N : Inner(x) \in Nat
    BY <1>3
  <2>3. \A x \in P : Inner(x) \in Nat
    <3>1. \A x \in R : Inner(x) \in Nat
      BY <1>3, <1>14
    <3>2. Inner(p) \in Nat
      <4>1. Inner(a) \in Nat /\ Inner(b) \in Nat /\ a.weight \in Nat /\ b.weight \in Nat
        BY <1>2, <1>3
      <4> QED BY <1>12, <4>1
    <3> QED BY <1>16, <3>1, <3>2
  <2>4. Inners(Q) = Inners(R) + Inner(a) /\ Inners(R) \in Nat
    BY <1>14, <2>1, InnersOneMore
  <2>5. Inners(N) = Inners(Q) + Inner(b)
    BY <1>14, <2>2, InnersOneMore
  <2>6. Inners(P) = Inners(R) + Inner(p)
    BY <1>14, <2>3, InnersOneMore
  <2> QED BY <2>4, <2>5, <2>6
<1>22. PICK o \in Nat : /\ o = Outer(best, R)
                        /\ Outer(best, N) = (o + a.weight * (y + 1)) + b.weight * (y + 1)
                        /\ Outer(new, P) = o + p.weight * y
  <2>1. \A x \in Q : x.weight \in Nat /\ best[x] \in Nat
    BY <1>3, <1>8, <1>14
  <2>2. \A x \in N : x.weight \in Nat /\ best[x] \in Nat
    BY <1>3, <1>8
  <2>3. \A x \in P : x.weight \in Nat /\ new[x] \in Nat
    <3>1. \A x \in R : x.weight \in Nat
      BY <1>3, <1>14
    <3>2. p.weight \in Nat
      <4>1. a.weight \in Nat /\ b.weight \in Nat
        BY <1>2, <1>3
      <4> QED BY <1>12, <4>1
    <3> QED BY <1>16, <1>19, <3>1, <3>2
  <2>4. Outer(best, Q) = Outer(best, R) + a.weight * best[a] /\ Outer(best, R) \in Nat
    BY <1>14, <2>1, OuterOneMore
  <2>5. Outer(best, N) = Outer(best, Q) + b.weight * best[b]
    BY <1>14, <2>2, OuterOneMore
  <2>6. Outer(new, P) = Outer(new, R) + p.weight * new[p]
    BY <1>14, <2>3, OuterOneMore
  <2>7. Outer(new, R) = Outer(best, R)
    BY <1>19, OuterEqual
  <2>8. new[p] = y
    BY <1>19
  <2>9. PICK o \in Nat : o = Outer(best, R)
    BY <2>4
  <2>10. Outer(best, Q) = o + a.weight * (y + 1)
    BY <1>7, <2>4, <2>9
  <2>11. Outer(best, N) = (o + a.weight * (y + 1)) + b.weight * (y + 1)
    BY <1>7, <2>5, <2>10
  <2>12. Outer(new, P) = o + p.weight * y
    BY <2>6, <2>7, <2>8, <2>9
  <2> QED BY <2>9, <2>11, <2>12
<1>23. Inners(P) + Outer(new, P) = Inners(N) + Outer(best, N)
  <2>1. PICK u \in Nat : u = a.weight
    BY <1>2, <1>3
  <2>2. PICK v \in Nat : v = b.weight
    BY <1>2, <1>3
  <2>3. PICK g \in Nat : g = Inner(a)
    BY <1>2, <1>3
  <2>4. PICK h \in Nat : h = Inner(b)
    BY <1>2, <1>3
  <2>5. p.weight = u + v /\ Inner(p) = (g + h) + (u + v)
    BY <1>12, <2>1, <2>2, <2>3, <2>4
  <2>6. Inners(P) = i + ((g + h) + (u + v)) /\ Outer(new, P) = o + (u + v) * y
    BY <1>21, <1>22, <2>5
  <2>7. Inners(N) = (i + g) + h /\ Outer(best, N) = (o + u * (y + 1)) + v * (y + 1)
    BY <1>21, <1>22, <2>1, <2>2, <2>3, <2>4
  <2>8. u * (y + 1) = u * y + u /\ v * (y + 1) = v * y + v /\ (u + v) * y = u * y + v * y
        /\ u * y \in Nat /\ v * y \in Nat
    OBVIOUS
  <2> QED BY <2>6, <2>7, <2>8
<1>24. Inners(N) + Outer(best, N) <= Inners(N) + Outer(level, N)
  <2>1. /\ \A x \in N : x.weight \in Nat /\ best[x] \in Nat
        /\ \A x \in N : x.weight \in Nat /\ level[x] \in Nat
        /\ \A x \in N : Inner(x) \in Nat
    BY <1>3, <1>8
  <2>2. Outer(best, N) \in Nat
    BY <1>2, <2>1, OuterType
  <2>3. Outer(level, N) \in Nat
    BY <1>2, <2>1, OuterType
  <2>4. Inners(N) \in Nat
    BY <1>2, <2>1, InnersType
  <2> QED BY <1>8, <2>2, <2>3, <2>4
<1>25. Inners(P) + Outer(new, P) <= c
  <2>1. /\ \A x \in N : x.weight \in Nat /\ best[x] \in Nat
        /\ \A x \in N : x.weight \in Nat /\ level[x] \in Nat
        /\ \A x \in N : Inner(x) \in Nat
    BY <1>3, <1>8
  <2>2. PICK r \in Nat : r = Inners(N) + Outer(best, N)
    <3>1. Outer(best, N) \in Nat /\ Inners(N) \in Nat
      BY <1>2, <2>1, OuterType, InnersType
    <3> QED BY <3>1
  <2>3. PICK s \in Nat : s = Inners(N) + Outer(level, N)
    <3>1. Outer(level, N) \in Nat /\ Inners(N) \in Nat
      BY <1>2, <2>1, OuterType, InnersType
    <3> QED BY <3>1
  <2>4. r <= s /\ s <= c
    BY <1>4, <1>24, <2>2, <2>3
  <2>5. r <= c
    BY <2>4
  <2> QED BY <1>23, <2>2, <2>5
<1> QED BY <1>1, <1>9, <1>11, <1>20, <1>25 DEF Reach

-----------------------------------------------------------------------------
(* No prefix code is shorter. *)

\* Whatever prefix code there is, the tree can still become as good.
Best ==
  pc = "merge" =>
    \A lens : Levels(lens, Used) => Reach(activeNodes, CostOf(Weights, lens, Used))

Optimal ==
  pc = "coded" /\ Cardinality(Used) > 1 =>
    \A lens : Levels(lens, Used) => CostOf(Weights, LensOf, Used) <= CostOf(Weights, lens, Used)

\* Costs depend on the input alone.
LEMMA SameCosts ==
  ASSUME input' = input
  PROVE  /\ Used' = Used /\ Weights' = Weights
         /\ \A N, c : Reach(N, c)' <=> Reach(N, c)
<1>1. Used' = Used /\ Weights' = Weights
  BY DEF Used, Weights, Frequency
<1>2. \A a : Inner(a)' = Inner(a)
  BY <1>1 DEF Inner
<1>3. \A N : Inners(N)' = Inners(N)
  <2> TAKE N
  <2>1. [a \in N |-> Inner(a)]' = [a \in N |-> Inner(a)]
    BY <1>2
  <2> QED BY <2>1 DEF Inners
<1>4. \A N, c : Reach(N, c)' <=> Reach(N, c)
  BY <1>3 DEF Reach
<1> QED BY <1>1, <1>4

\* What lengths make the input cost is a number.
LEMMA CostIsNumber ==
  ASSUME input \in Seq(Symbol), NEW lens, \A s \in Used : lens[s] \in Nat
  PROVE  CostOf(Weights, lens, Used) \in Nat
<1>1. Priced(Weights, lens, Used) /\ IsFiniteSet(Used)
  BY Occurrences DEF Priced
<1> QED BY <1>1, CostType

\* When one node is left, it costs what the codes cost.
LEMMA RootReaches ==
  ASSUME input \in Seq(Symbol), Forest, Cardinality(activeNodes) = 1, NEW c \in Nat, Reach(activeNodes, c)
  PROVE  LET a == First(activeNodes)
         IN  /\ DOMAIN a.depth = Used /\ \A s \in Used : a.depth[s] \in Nat
             /\ CostOf(Weights, a.depth, Used) <= c
<1>1. PICK a : a = First(activeNodes)
  OBVIOUS
<1>2. a \in activeNodes
  <2>1. \A x \in activeNodes : x.weight \in Nat /\ x.order \in Nat
    BY NodeType DEF Forest
  <2> QED BY <1>1, <2>1, FirstOf DEF Forest
<1>3. activeNodes = {a}
  <2>1. IsFiniteSet(activeNodes)
    BY DEF Forest
  <2>2. PICK x : activeNodes = {x}
    BY <2>1, FS_Singleton
  <2> QED BY <1>2, <2>2
<1>4. DOMAIN a.depth = Used /\ NodeOk(a)
  BY <1>3 DEF Forest, NodeOk
<1>5. Inner(a) \in Nat /\ a.weight \in Nat
  BY <1>4, InnerType, NodeType
<1>6. PICK N : N = {a}
  OBVIOUS
<1>7. PICK level : Levels(level, N) /\ Inners(N) + Outer(level, N) <= c
  BY <1>3, <1>6 DEF Reach
<1>8. Outer(level, N) \in Nat
  <2>1. \A x \in N : x.weight \in Nat /\ level[x] \in Nat
    BY <1>5, <1>6, <1>7 DEF Levels
  <2>2. IsFiniteSet(N)
    BY <1>6, FS_Singleton
  <2> QED BY <2>1, <2>2, OuterType
<1>9. Inners(N) = Inner(a)
  <2>1. PICK e : e = {}
    OBVIOUS
  <2>2. OneMore(N, e, a)
    BY <1>6, <2>1, FS_EmptySet DEF OneMore
  <2>3. \A x \in N : Inner(x) \in Nat
    BY <1>5, <1>6
  <2>4. Inners(N) = Inners(e) + Inner(a)
    BY <2>2, <2>3, InnersOneMore
  <2>5. Inners(e) = 0
    BY <2>1, SumEmpty DEF Inners
  <2> QED BY <1>5, <2>4, <2>5
<1>10. Inner(a) <= c
  BY <1>5, <1>7, <1>8, <1>9
<1> QED BY <1>1, <1>4, <1>10 DEF Inner, NodeOk

\* Steps preserve that the tree can still become as good as any prefix code.
LEMMA BestKept ==
  ASSUME IInv, Best, [Next]_vars
  PROVE  Best'
<1>1. input \in Seq(Symbol)
  BY DEF IInv, HuffmanTypes
<1>2. CASE InitializeTree
  <2>1. input' = input /\ activeNodes' = {Leaf(s) : s \in Used}
    BY <1>2 DEF InitializeTree
  <2>2. \A lens : Levels(lens, Used) => Reach({Leaf(s) : s \in Used}, CostOf(Weights, lens, Used))
    BY <1>1, LeavesReach
  <2>3. PICK N : N = {Leaf(s) : s \in Used}
    OBVIOUS
  <2>4. \A lens : Levels(lens, Used) => Reach(N, CostOf(Weights, lens, Used))'
    <3> TAKE lens
    <3> HAVE Levels(lens, Used)
    <3>1. PICK c : c = CostOf(Weights, lens, Used)
      OBVIOUS
    <3>2. Reach(N, c)
      BY <2>2, <2>3, <3>1
    <3>3. Reach(N, c)'
      BY <2>1, <3>2, SameCosts
    <3> QED BY <2>1, <3>1, <3>3, SameCosts
  <2> QED BY <2>1, <2>3, <2>4, SameCosts DEF Best
<1>3. CASE Merge
  <2>1. input' = input /\ pc = "merge" /\ Cardinality(activeNodes) > 1 /\ Forest
    BY <1>3 DEF Merge, IInv, Building
  <2>2. PICK a : a = First(activeNodes)
    OBVIOUS
  <2>3. PICK b : b = First(activeNodes \ {a})
    OBVIOUS
  <2>4. PICK p : p = Parent(a, b)
    OBVIOUS
  <2>5. PICK N : N = (activeNodes \ {a, b}) \union {p}
    OBVIOUS
  <2>6. activeNodes' = N
    BY <1>3, <2>2, <2>3, <2>4, <2>5 DEF Merge
  <2>7. \A lens : Levels(lens, Used) => Reach(N, CostOf(Weights, lens, Used))'
    <3> TAKE lens
    <3> HAVE Levels(lens, Used)
    <3>1. PICK c \in Nat : c = CostOf(Weights, lens, Used)
      BY <1>1, CostIsNumber DEF Levels
    <3>2. Reach(activeNodes, c)
      BY <2>1, <3>1 DEF Best
    <3>3. Reach(N, c)
      BY <1>1, <2>1, <2>2, <2>3, <2>4, <2>5, <3>2, ParentReaches
    <3>4. Reach(N, c)'
      BY <2>1, <3>3, SameCosts
    <3> QED BY <2>1, <3>1, <3>4, SameCosts
  <2> QED BY <2>1, <2>6, <2>7, SameCosts DEF Best
<1>4. CASE AssignCodes
  BY <1>4 DEF AssignCodes, Goto, Best
<1>5. CASE Later
  BY <1>5, LaterSteps DEF Best
<1>6. CASE UNCHANGED vars
  <2>1. input' = input /\ activeNodes' = activeNodes /\ pc' = pc
    BY <1>6 DEF vars, encoderVars
  <2>2. PICK N : N = activeNodes
    OBVIOUS
  <2>3. ASSUME pc = "merge", NEW lens, Levels(lens, Used)
        PROVE  Reach(N, CostOf(Weights, lens, Used))'
    <3>1. PICK c : c = CostOf(Weights, lens, Used)
      OBVIOUS
    <3>2. Reach(N, c)
      BY <2>2, <2>3, <3>1 DEF Best
    <3>3. Reach(N, c)'
      BY <2>1, <3>2, SameCosts
    <3> QED BY <2>1, <3>1, <3>3, SameCosts
  <2> QED BY <2>1, <2>2, <2>3, SameCosts DEF Best
<1> QED BY <1>2, <1>3, <1>4, <1>5, <1>6, NextCases

\* Steps preserve that the codes are as good as any prefix code.
LEMMA OptimalKept ==
  ASSUME IInv, Best, Optimal, [Next]_vars
  PROVE  Optimal'
<1>1. input \in Seq(Symbol)
  BY DEF IInv, HuffmanTypes
<1>2. CASE InitializeTree
  <2>1. input' = input /\ (pc' = "coded" => ~(Cardinality(Used) > 1))
    BY <1>2 DEF InitializeTree, Goto
  <2> QED BY <2>1, SameCosts DEF Optimal
<1>3. CASE Merge
  BY <1>3 DEF Merge, Optimal
<1>4. CASE AssignCodes
  <2>1. input' = input /\ pc = "merge" /\ Cardinality(activeNodes) = 1 /\ Forest
    BY <1>4 DEF AssignCodes, IInv, Building
  <2>2. PICK d : d = First(activeNodes).depth
    OBVIOUS
  <2>3. \A s \in Symbol : LensOf'[s] = IF s \in DOMAIN d THEN d[s] ELSE 0
    <3>1. PICK lens : lens = [s \in Symbol |-> IF s \in DOMAIN d THEN d[s] ELSE 0]
      OBVIOUS
    <3>2. codes' = [s \in Symbol |-> [length |-> lens[s], bits |-> CanonicalBits(lens)[s]]]
      BY <1>4, <2>2, <3>1 DEF AssignCodes
    <3>3. \A s \in Symbol : codes'[s].length = lens[s]
      BY <3>2
    <3> QED BY <3>1, <3>3 DEF LensOf
  <2>4. ASSUME NEW lens, Levels(lens, Used)
        PROVE  CostOf(Weights, LensOf', Used) <= CostOf(Weights, lens, Used)
    <3>1. PICK c \in Nat : c = CostOf(Weights, lens, Used)
      BY <1>1, <2>4, CostIsNumber DEF Levels
    <3>2. Reach(activeNodes, c)
      BY <2>1, <2>4, <3>1 DEF Best
    <3>3. DOMAIN d = Used /\ CostOf(Weights, d, Used) <= c
      BY <1>1, <2>1, <2>2, <3>2, RootReaches
    <3>4. \A s \in Used : LensOf'[s] = d[s]
      BY <1>1, <2>3, <3>3, Occurrences
    <3>5. PICK l : l = LensOf'
      OBVIOUS
    <3>6. CostOf(Weights, l, Used) = CostOf(Weights, d, Used)
      BY <3>4, <3>5, CostEqual
    <3> QED BY <3>1, <3>3, <3>5, <3>6
  <2> QED BY <2>1, <2>4, SameCosts DEF Optimal
<1>5. CASE Later
  <2>1. pc' # "coded"
    BY <1>5 DEF Later, WriteHeader, WriteCodes, ReadHeader, NoMoreBits, RejectCode, CodeGoesOn, PutSymbol, DecodeEnds,
       OutOfMemory, AssignCodesCrashes, WriteFails, ReadHeaderFails, Goto, AtEndOfFile, Decoding
  <2> QED BY <2>1 DEF Optimal
<1>6. CASE UNCHANGED vars
  <2>1. input' = input /\ codes' = codes /\ pc' = pc
    BY <1>6 DEF vars, encoderVars
  <2> QED BY <2>1, SameCosts, SameCodes DEF Optimal
<1> QED BY <1>2, <1>3, <1>4, <1>5, <1>6, NextCases

\* No code begins another one.
LEMMA NoCodeBeginsAnother ==
  ASSUME IInv, HaveCodes, Ordinary, NEW s \in Used, NEW t \in Used, s # t
  PROVE  ~IsPrefix(Code(s), Code(t))
<1>1. Canonical /\ HuffmanTypes
  BY DEF IInv, Coding, HaveCodes, Ordinary, AfterCodes
<1>2. PICK lens : lens = LensOf
  OBVIOUS
<1>3. /\ Fits(lens) /\ s \in Coded(lens) /\ t \in Coded(lens) /\ s # t
      /\ codes[s].bits = CodeOf(lens, s) /\ codes[t].bits = CodeOf(lens, t)
      /\ codes[s].length = lens[s] /\ codes[t].length = lens[t]
  <2>1. s \in Symbol /\ t \in Symbol /\ t \in Used
    BY Occurrences DEF HuffmanTypes, IInv
  <2> QED BY <1>1, <1>2, <2>1, OrdinaryLengths
<1>4. ~IsPrefix(BitsOf(CodeOf(lens, s), lens[s]), BitsOf(CodeOf(lens, t), lens[t]))
  BY <1>3, NoPrefix
<1>5. Code(s) = BitsOf(CodeOf(lens, s), lens[s]) /\ Code(t) = BitsOf(CodeOf(lens, t), lens[t])
  BY <1>3 DEF Code
<1> QED BY <1>4, <1>5

\* No prefix code of the used symbols makes the input shorter.
LEMMA CodesShortest ==
  ASSUME IInv, Optimal, pc = "coded", Cardinality(Used) > 1, NEW lens \in KraftLengths
  PROVE  Cost([s \in Used |-> codes[s].length]) <= Cost(lens)
<1>1. input \in Seq(Symbol) /\ Used \in SUBSET Symbol /\ \A s \in Used : codes[s].length \in Nat
  BY Occurrences DEF IInv, HuffmanTypes
<1>2. Levels(lens, Used) /\ Cost(lens) = CostOf(Weights, lens, Used)
  BY <1>1, KraftLengthsMeetIt
<1>3. PICK l : l = [s \in Used |-> codes[s].length]
  OBVIOUS
<1>4. Cost(l) = CostOf(Weights, l, Used)
  BY <1>1, <1>3, CostIsSum
<1>5. CostOf(Weights, l, Used) = CostOf(Weights, LensOf, Used)
  <2>1. \A s \in Used : l[s] = LensOf[s]
    BY <1>1, <1>3 DEF LensOf
  <2> QED BY <2>1, CostEqual
<1>6. CostOf(Weights, LensOf, Used) <= CostOf(Weights, lens, Used)
  BY <1>2 DEF Optimal
<1> QED BY <1>2, <1>3, <1>4, <1>5, <1>6

\* Ordinary codes are free of prefixes, and no prefix code of the used symbols
\* makes the input shorter.
THEOREM CodesAreOptimal == Spec => []OptimalPrefixCode
<1>1. Init => Best /\ Optimal
  BY DEF Init, Best, Optimal
<1>2. ASSUME IInv, Best /\ Optimal, [Next]_vars
      PROVE  (Best /\ Optimal)'
  BY <1>2, BestKept, OptimalKept
<1>3. ASSUME IInv, Best /\ Optimal
      PROVE  OptimalPrefixCode
  <2>1. HaveCodes /\ Ordinary => \A s \in Used : \A t \in Used \ {s} : ~IsPrefix(Code(s), Code(t))
    <3> SUFFICES ASSUME HaveCodes, Ordinary, NEW s \in Used, NEW t \in Used \ {s}
                 PROVE  ~IsPrefix(Code(s), Code(t))
      OBVIOUS
    <3>1. t \in Used /\ s # t
      OBVIOUS
    <3> QED BY <1>3, <3>1, NoCodeBeginsAnother
  <2>2. ASSUME pc = "coded", Cardinality(Used) > 1, NEW lens \in KraftLengths
        PROVE  Cost([s \in Used |-> codes[s].length]) <= Cost(lens)
    BY <1>3, <2>2, CodesShortest
  <2> QED BY <2>1, <2>2 DEF OptimalPrefixCode
<1> QED BY <1>1, <1>2, <1>3, Invariance, PTL DEF Spec
=============================================================================

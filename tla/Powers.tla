------------------------------- MODULE Powers -------------------------------
(***************************************************************************)
(* Arithmetic that the provers do not know, for what the code does with    *)
(* bits and bytes: powers of two, and quotients by them. Mnemonics are cut *)
(* with it and transactions encoded, see Keys_proofs, Transactions_proofs. *)
(***************************************************************************)
EXTENDS Integers, FiniteSets, FiniteSetTheorems, FunctionTheorems, NaturalsInduction,
        WellFoundedInduction, TLAPS

(* Every set of natural numbers but the empty one has a least member. *)
LEMMA LeastNumber ==
  ASSUME NEW S \in SUBSET Nat, S # {}
  PROVE  \E m \in S : \A k \in S : m <= k
<1> DEFINE R == {pair \in Nat \X Nat : pair[1] < pair[2]}
<1>1. IsWellFoundedOn(R, Nat)
  BY NatLessThanWellFounded DEF OpToRel
<1> HIDE DEF R
<1>2. PICK m \in S : \A k \in S : <<k, m>> \notin R
  BY <1>1, WFMin
<1>3. \A k \in S : ~(k < m)
  BY <1>2 DEF R
<1> QED
  BY <1>2, <1>3

(* What holds of 0, and with a number of the next one, holds of them all. *)
LEMMA AllNumbers ==
  ASSUME NEW S \in SUBSET Nat, 0 \in S, \A n \in S : n + 1 \in S
  PROVE  S = Nat
<1> SUFFICES ASSUME Nat \ S # {} PROVE FALSE
  OBVIOUS
<1>1. PICK m \in Nat \ S : \A k \in Nat \ S : m <= k
  BY LeastNumber
<1>2. m - 1 \in Nat /\ m - 1 \in S
  BY <1>1
<1> QED
  BY <1>1, <1>2

(* A power of two is the number of subsets of an interval. *)
LEMMA PowerOfSubsets ==
  ASSUME NEW n \in Nat
  PROVE  /\ IsFiniteSet(SUBSET (1 .. n)) /\ Cardinality(SUBSET (1 .. n)) = 2 ^ n
         /\ 2 ^ n \in Nat /\ 2 ^ n > 0
<1>1. IsFiniteSet(1 .. n) /\ Cardinality(1 .. n) = n
  BY FS_Interval
<1>2. IsFiniteSet(SUBSET (1 .. n)) /\ Cardinality(SUBSET (1 .. n)) = 2 ^ n
  BY <1>1, FS_SUBSET
<1>3. Cardinality(SUBSET (1 .. n)) \in Nat
  BY <1>2, FS_CardinalityType
<1>4. Cardinality(SUBSET (1 .. n)) # 0
  BY <1>2, FS_EmptySet
<1> QED
  BY <1>2, <1>3, <1>4

(* Each power is twice the one before. *)
LEMMA PowerNext ==
  ASSUME NEW n \in Nat
  PROVE  2 ^ (n + 1) = 2 * 2 ^ n
<1> DEFINE S == SUBSET (1 .. n)
           T == {A \cup {n + 1} : A \in S}
           f == [A \in S |-> A \cup {n + 1}]
<1>1. n + 1 \notin 1 .. n /\ 1 .. n + 1 = (1 .. n) \cup {n + 1}
  OBVIOUS
<1>2. SUBSET (1 .. n + 1) = S \cup T
  <2>1. ASSUME NEW A \in SUBSET (1 .. n + 1), n + 1 \in A PROVE A \in T
    <3>1. A \ {n + 1} \in S /\ A = (A \ {n + 1}) \cup {n + 1}
      BY <1>1, <2>1
    <3> QED
      BY <3>1
  <2>2. ASSUME NEW A \in SUBSET (1 .. n + 1), n + 1 \notin A PROVE A \in S
    BY <1>1, <2>2
  <2>3. S \subseteq SUBSET (1 .. n + 1) /\ T \subseteq SUBSET (1 .. n + 1)
    BY <1>1
  <2> QED
    BY <2>1, <2>2, <2>3
<1>3. S \cap T = {}
  BY <1>1
<1>4. f \in Bijection(S, T)
  <2>1. f \in [S -> T]
    OBVIOUS
  <2>2. ASSUME NEW A \in S, NEW B \in S, f[A] = f[B] PROVE A = B
    <3>1. A \cup {n + 1} = B \cup {n + 1}
      BY <2>2
    <3>2. n + 1 \notin A /\ n + 1 \notin B
      BY <1>1
    <3> QED
      BY <3>1, <3>2
  <2>3. \A C \in T : \E A \in S : f[A] = C
    OBVIOUS
  <2> HIDE DEF S, T, f
  <2> QED
    BY <2>1, <2>2, <2>3, Fun_IsBij
<1>5. IsFiniteSet(S) /\ Cardinality(S) = 2 ^ n /\ 2 ^ n \in Nat
  BY PowerOfSubsets
<1> HIDE DEF S, T, f
<1>6. IsFiniteSet(T) /\ Cardinality(T) = Cardinality(S)
  BY <1>4, <1>5, FS_Bijection DEF ExistsBijection
<1>7. Cardinality(S \cup T) = Cardinality(S) + Cardinality(T)
  <2>1. Cardinality({}) = 0
    BY FS_EmptySet
  <2>2. Cardinality(S \cup T) = Cardinality(S) + Cardinality(T) - Cardinality(S \cap T)
    BY <1>5, <1>6, FS_Union
  <2>3. Cardinality(S) \in Nat /\ Cardinality(T) \in Nat
    BY <1>5, <1>6
  <2> QED
    <3>1. Cardinality(S \cap T) = 0
      BY <1>3, <2>1, Zenon
    <3> QED
      BY <2>2, <2>3, <3>1
<1>8. Cardinality(SUBSET (1 .. n + 1)) = 2 ^ (n + 1)
  BY PowerOfSubsets
<1>9. SUBSET (1 .. n + 1) = S \cup T /\ Cardinality(S) = 2 ^ n
  BY <1>2, <1>5 DEF S
<1>10. 2 ^ (n + 1) = 2 ^ n + 2 ^ n
  BY <1>6, <1>7, <1>8, <1>9
<1> QED
  BY <1>5, <1>10

(* The power of a sum. *)
LEMMA PowerSum ==
  ASSUME NEW a \in Nat, NEW b \in Nat
  PROVE  2 ^ (a + b) = 2 ^ a * 2 ^ b
<1> DEFINE S == {n \in Nat : 2 ^ (a + n) = 2 ^ a * 2 ^ n}
<1>1. 0 \in S
  <2>1. 2 ^ a \in Nat
    BY PowerOfSubsets
  <2>2. 2 ^ 0 = 1
    OBVIOUS
  <2>3. a + 0 = a
    OBVIOUS
  <2>4. 2 ^ (a + 0) = 2 ^ a
    BY <2>3
  <2>5. 2 ^ a * 2 ^ 0 = 2 ^ a
    BY <2>1, <2>2
  <2> QED
    BY <2>4, <2>5
<1>2. ASSUME NEW n \in S PROVE n + 1 \in S
  <2>0. a + n \in Nat /\ n \in Nat
    OBVIOUS
  <2>1. \A k \in Nat : 2 ^ (k + 1) = 2 * 2 ^ k
    BY PowerNext
  <2>7. 2 ^ (a + n + 1) = 2 * 2 ^ (a + n) /\ 2 ^ (n + 1) = 2 * 2 ^ n
    BY <2>0, <2>1
  <2>2. 2 ^ a \in Nat /\ 2 ^ n \in Nat /\ 2 ^ (a + n) \in Nat
    BY <2>0, PowerOfSubsets
  <2>3. 2 ^ (a + n) = 2 ^ a * 2 ^ n
    OBVIOUS
  <2>4. \A p, q \in Nat : 2 * (p * q) = p * (2 * q)
    OBVIOUS
  <2>5. 2 ^ (a + n + 1) = 2 ^ a * 2 ^ (n + 1)
    BY <2>7, <2>2, <2>3, <2>4
  <2>6. a + (n + 1) = a + n + 1
    OBVIOUS
  <2> QED
    BY <2>5, <2>6
<1> HIDE DEF S
<1>3. S = Nat
  BY <1>1, <1>2, AllNumbers DEF S
<1> QED
  BY <1>3 DEF S

(* Quotient and remainder: there are such numbers ... *)
LEMMA Division ==
  ASSUME NEW n \in Nat, NEW d \in Nat, d > 0
  PROVE  \E q, r \in Nat : n = d * q + r /\ r < d
<1> DEFINE S == {r \in Nat : \E q \in Nat : n = d * q + r}
<1>1. n \in S
  <2>1. n = d * 0 + n
    OBVIOUS
  <2> QED
    BY <2>1
<1>2. PICK r \in S : \A k \in S : r <= k
  <2> HIDE DEF S
  <2>1. S \in SUBSET Nat
    BY DEF S
  <2> QED
    BY <1>1, <2>1, LeastNumber
<1>3. PICK q \in Nat : n = d * q + r
  OBVIOUS
<1>4. r >= d => FALSE
  <2> SUFFICES ASSUME r >= d PROVE FALSE
    OBVIOUS
  <2>1. r - d \in Nat
    OBVIOUS
  <2>2. n = d * (q + 1) + (r - d)
    BY <1>3
  <2>3. r - d \in S
    BY <2>1, <2>2
  <2>4. r <= r - d
    BY <1>2, <2>3
  <2> QED
    BY <2>1, <2>4
<1>5. r \in Nat /\ r < d
  BY <1>4
<1> QED
  BY <1>3, <1>5

(* ... and they are those of \div and %. *)
LEMMA DivisionIs ==
  ASSUME NEW n \in Nat, NEW d \in Nat, d > 0, NEW q \in Nat, NEW r \in Nat, n = d * q + r, r < d
  PROVE  n \div d = q /\ n % d = r
OBVIOUS

(* The quotient and the remainder of two numbers. *)
LEMMA Quotient ==
  ASSUME NEW n \in Nat, NEW d \in Nat, d > 0
  PROVE  n \div d \in Nat /\ n % d \in Nat /\ n % d < d /\ n = d * (n \div d) + (n % d)
<1>1. PICK q, r \in Nat : n = d * q + r /\ r < d
  BY Division
<1>2. n \div d = q /\ n % d = r
  BY <1>1, DivisionIs
<1>3. n = d * q + r /\ q \in Nat /\ r \in Nat /\ r < d
  BY <1>1
<1>4. n = d * (n \div d) + (n % d)
  BY <1>2, <1>3
<1> QED
  BY <1>2, <1>3, <1>4

(* A quotient of a quotient. *)
LEMMA QuotientTwice ==
  ASSUME NEW n \in Nat, NEW d \in Nat, d > 0, NEW e \in Nat, e > 0
  PROVE  (n \div d) \div e = n \div (d * e)
<1>1. PICK q, s \in Nat : n = d * q + s /\ s < d
  BY Division
<1>2. PICK p, r \in Nat : q = e * p + r /\ r < e
  BY Division
<1>3. n \div d = q /\ q \div e = p
  BY <1>1, <1>2, DivisionIs
<1>4. n = (d * e) * p + (d * r + s)
  <2>1. d * (e * p + r) = (d * e) * p + d * r
    OBVIOUS
  <2> QED
    BY <1>1, <1>2, <2>1
<1>5. d * r + s < d * e
  <2>1. d * r + d <= d * e
    <3>1. d * (r + 1) <= d * e
      BY <1>2
    <3> QED
      BY <3>1
  <2> QED
    BY <1>1, <2>1
<1>6. d * e \in Nat /\ d * e > 0 /\ d * r + s \in Nat
  OBVIOUS
<1>7. n \div (d * e) = p
  BY <1>4, <1>5, <1>6, DivisionIs
<1> QED
  BY <1>3, <1>7

(* What is above does not matter to the last bit of a quotient. *)
LEMMA QuotientBelow ==
  ASSUME NEW a \in Nat, NEW d \in Nat, d > 0, NEW r \in Nat
  PROVE  ((a * (2 * d) + r) \div d) % 2 = (r \div d) % 2
<1>1. PICK q, s \in Nat : r = d * q + s /\ s < d
  BY Division
<1>2. a * (2 * d) + r = d * (2 * a + q) + s
  <2>1. a * (2 * d) = d * (2 * a) /\ d * (2 * a + q) = d * (2 * a) + d * q
    OBVIOUS
  <2> QED
    BY <1>1, <2>1
<1>3. a * (2 * d) + r \in Nat /\ 2 * a + q \in Nat
  OBVIOUS
<1>4. (a * (2 * d) + r) \div d = 2 * a + q /\ r \div d = q
  BY <1>1, <1>2, <1>3, DivisionIs
<1>5. (2 * a + q) % 2 = q % 2
  OBVIOUS
<1> QED
  BY <1>4, <1>5

(* A greater exponent, a greater power. *)
LEMMA PowerGrows ==
  ASSUME NEW a \in Nat, NEW b \in Nat, a <= b
  PROVE  2 ^ a <= 2 ^ b
<1> DEFINE c == b - a
<1>1. c \in Nat /\ a + c = b
  OBVIOUS
<1> HIDE DEF c
<1>2. 2 ^ b = 2 ^ a * 2 ^ c
  BY <1>1, PowerSum
<1>3. 2 ^ a \in Nat /\ 2 ^ c \in Nat /\ 2 ^ c >= 1
  <2>1. \A n \in Nat : 2 ^ n \in Nat /\ 2 ^ n > 0
    BY PowerOfSubsets
  <2>2. 2 ^ a \in Nat /\ 2 ^ c \in Nat /\ 2 ^ c > 0
    BY <1>1, <2>1
  <2> QED
    BY <2>2
<1>4. \A p, q \in Nat : q >= 1 => p <= p * q
  OBVIOUS
<1> QED
  BY <1>2, <1>3, <1>4

(* A number without its last e bits, and then i more. *)
LEMMA ShiftTwice ==
  ASSUME NEW a \in Nat, NEW e \in Nat, NEW i \in Nat
  PROVE  (a \div 2 ^ e) \div 2 ^ i = a \div 2 ^ (e + i)
<1>1. 2 ^ e \in Nat /\ 2 ^ e > 0 /\ 2 ^ i \in Nat /\ 2 ^ i > 0
  BY PowerOfSubsets
<1>2. 2 ^ (e + i) = 2 ^ e * 2 ^ i
  BY PowerSum
<1> QED
  BY <1>1, <1>2, QuotientTwice

(* The last e bits of a number are those of the remainder. *)
LEMMA LastBits ==
  ASSUME NEW a \in Nat, NEW e \in Nat, NEW i \in Nat, i < e
  PROVE  ((a % 2 ^ e) \div 2 ^ i) % 2 = (a \div 2 ^ i) % 2
<1> DEFINE k == e - 1 - i
           r == a % 2 ^ e
           d == 2 ^ i
<1>1. k \in Nat /\ e = k + (i + 1) /\ i + 1 \in Nat
  OBVIOUS
<1> HIDE DEF k
<1>2. 2 ^ e \in Nat /\ 2 ^ e > 0 /\ d \in Nat /\ d > 0 /\ 2 ^ k \in Nat
  BY <1>1, PowerOfSubsets
<1>3. 2 ^ e = 2 ^ k * (2 * d)
  <2>1. 2 ^ (i + 1) = 2 * d
    BY PowerNext
  <2>2. 2 ^ (k + (i + 1)) = 2 ^ k * 2 ^ (i + 1)
    BY <1>1, PowerSum
  <2> QED
    BY <1>1, <2>1, <2>2
<1>4. PICK q \in Nat : r \in Nat /\ a = 2 ^ e * q + r
  BY <1>2, Quotient
<1> DEFINE b == q * 2 ^ k
<1>5. b \in Nat
  BY <1>2
<1> HIDE DEF d, r
<1>6. a = b * (2 * d) + r
  <2>1. \A u, v, w \in Nat : (u * v) * w = (w * u) * v
    OBVIOUS
  <2>2. 2 * d \in Nat
    BY <1>2
  <2>3. (2 ^ k * (2 * d)) * q = (q * 2 ^ k) * (2 * d)
    BY ONLY <1>2, <2>1, <2>2, q \in Nat
  <2>4. 2 ^ e * q = b * (2 * d)
    BY <1>3, <2>3
  <2> HIDE DEF b
  <2> QED
    BY <1>4, <2>4
<1> HIDE DEF b
<1>7. ((b * (2 * d) + r) \div d) % 2 = (r \div d) % 2
  BY <1>2, <1>4, <1>5, QuotientBelow
<1> QED
  BY <1>6, <1>7 DEF d, r
==============================================================================

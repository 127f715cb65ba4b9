------------------------- MODULE CoinSelection_proofs -------------------------
(***************************************************************************)
(* Facts about the operators of CoinSelection: how sums behave, what the   *)
(* width of int and the settling of the change do to an amount, what the   *)
(* prefixes of a sorted pool are worth. InputSelection_proofs and          *)
(* Spending_proofs rest on them.                                           *)
(*                                                                         *)
(* SumFunction and MapThenSumSet are a recursion over the subsets of a     *)
(* finite set that takes out a chosen element: it has to be shown to have  *)
(* a solution, only one, and the same whatever element is taken out first. *)
(* Induction is over sets of cases, by a least counterexample.             *)
(***************************************************************************)
EXTENDS CoinSelection, FiniteSetTheorems, TLAPS

(* Every set of natural numbers but the empty one has a least member. *)
LEMMA LeastMember ==
  ASSUME NEW S \in SUBSET Nat, S # {}
  PROVE  \E m \in S : \A k \in S : m <= k
<1> DEFINE R == {pair \in Nat \X Nat : pair[1] < pair[2]}
<1>1. IsWellFoundedOn(R, Nat)
  BY NatLessThanWellFounded DEF OpToRel
<1> HIDE DEF R
<1>2. PICK m \in S : \A k \in S : <<k, m>> \notin R
  BY <1>1, WFMin
<1>3. \A k \in S : ~(k < m)
  BY <1>2 DEF R
<1> QED
  BY <1>3

(* Induction on the natural numbers. *)
LEMMA InductionOnNat ==
  ASSUME NEW G, 0 \in G, \A n \in Nat : n \in G => n + 1 \in G
  PROVE  Nat \subseteq G
<1> SUFFICES ASSUME Nat \ G # {} PROVE FALSE
  OBVIOUS
<1>1. PICK m \in Nat \ G : \A k \in Nat \ G : m <= k
  BY LeastMember, Nat \ G \in SUBSET Nat
<1>2. m # 0 /\ m - 1 \in Nat /\ m - 1 \notin Nat \ G
  BY <1>1
<1> QED
  BY <1>1, <1>2

(* The positions of a sequence, and one more. *)
LEMMA Positions ==
  ASSUME NEW n \in Nat
  PROVE  /\ IsFiniteSet(1 .. n) /\ Cardinality(1 .. n) = n
         /\ 1 .. n + 1 = (1 .. n) \cup {n + 1} /\ n + 1 \notin 1 .. n
<1>1. IsFiniteSet(1 .. n) /\ Cardinality(1 .. n) = n
  BY FS_Interval
<1>2. 1 .. n + 1 = (1 .. n) \cup {n + 1} /\ n + 1 \notin 1 .. n
  OBVIOUS
<1> QED
  BY <1>1, <1>2

(* A set without one of its elements. *)
LEMMA OneLess ==
  ASSUME NEW T, IsFiniteSet(T), NEW n \in Nat, Cardinality(T) = n + 1, NEW x \in T
  PROVE  IsFiniteSet(T \ {x}) /\ Cardinality(T \ {x}) = n
BY FS_RemoveElement

(* Induction on the subsets of a finite set. *)
LEMMA InductionOnSubsets ==
  ASSUME NEW S, IsFiniteSet(S), NEW G, {} \in G,
         \A T \in SUBSET S : T \in G => \A x \in S \ T : T \cup {x} \in G
  PROVE  SUBSET S \subseteq G
<1> DEFINE N == {n \in Nat : \A T \in SUBSET S : Cardinality(T) = n => T \in G}
<1>1. \A T \in SUBSET S : IsFiniteSet(T) /\ Cardinality(T) \in Nat
  BY FS_Subset, FS_CardinalityType
<1>2. 0 \in N
  BY <1>1, FS_EmptySet
<1>3. ASSUME NEW n \in Nat, n \in N PROVE n + 1 \in N
  <2> SUFFICES ASSUME NEW T \in SUBSET S, Cardinality(T) = n + 1 PROVE T \in G
    OBVIOUS
  <2>1. PICK x : x \in T
    BY <1>1, FS_EmptySet
  <2>2. Cardinality(T \ {x}) = n
    BY <1>1, <2>1, OneLess
  <2>3. T \ {x} \in G
    BY <1>3, <2>2
  <2>4. (T \ {x}) \cup {x} = T /\ T \ {x} \in SUBSET S /\ x \in S \ (T \ {x})
    BY <2>1
  <2> QED
    BY <2>3, <2>4
<1>4. Nat \subseteq N
  <2> HIDE DEF N
  <2> QED
    BY <1>2, <1>3, InductionOnNat
<1> QED
  BY <1>1, <1>4
-----------------------------------------------------------------------------
(* The recursion that both kinds of sum are. *)
pick(s) == CHOOSE x \in s : TRUE

Sums(f, S, g) ==
  g = [s \in SUBSET S |-> IF s = {} THEN 0 ELSE f[pick(s)] + g[s \ {pick(s)}]]

(* The sum of f over S, which is what the community modules call it. *)
SumOver(f, S) == (CHOOSE g : Sums(f, S, g))[S]

(* SumFunction is the sum over the whole domain. *)
LEMMA SumFunctionIsSum ==
  ASSUME NEW f
  PROVE  SumFunction(f) = SumOver(f, DOMAIN f)
BY DEF SumFunction, SumFunctionOnSet, FoldFunctionOnSet, MapThenFoldSet, SumOver, Sums, pick

(* What is picked from a set that is not empty belongs to it. *)
LEMMA PickType ==
  ASSUME NEW s, s # {}
  PROVE  pick(s) \in s
BY DEF pick

(* The recursion has a solution. *)
LEMMA SumsExist ==
  ASSUME NEW S, IsFiniteSet(S), NEW f
  PROVE  \E g : Sums(f, S, g)
<1> DEFINE val(g, s) == IF s = {} THEN 0 ELSE f[pick(s)] + g[s \ {pick(s)}]
           P(n) == \E g : \A s \in SUBSET S : Cardinality(s) <= n => g[s] = val(g, s)
           N == {n \in Nat : P(n)}
<1>1. \A s \in SUBSET S : IsFiniteSet(s) /\ Cardinality(s) \in Nat
  BY FS_Subset, FS_CardinalityType
<1>2. \A s \in SUBSET S : s # {} =>
        /\ s \ {pick(s)} \in SUBSET S
        /\ Cardinality(s \ {pick(s)}) = Cardinality(s) - 1
  BY <1>1, PickType, FS_RemoveElement
<1>3. 0 \in N
  <2>1. \A s \in SUBSET S : Cardinality(s) <= 0 => s = {}
    BY <1>1, FS_EmptySet
  <2>2. \A s \in SUBSET S : Cardinality(s) <= 0 =>
          [t \in SUBSET S |-> 0][s] = val([t \in SUBSET S |-> 0], s)
    BY <2>1
  <2> HIDE DEF val
  <2> QED
    BY <2>2
<1>4. ASSUME NEW n \in Nat, n \in N PROVE n + 1 \in N
  <2>1. PICK g : \A s \in SUBSET S : Cardinality(s) <= n => g[s] = val(g, s)
    BY <1>4
  <2> DEFINE h == [s \in SUBSET S |-> val(g, s)]
  <2>2. \A s \in SUBSET S : Cardinality(s) <= n => h[s] = g[s]
    <3> HIDE DEF val
    <3> QED BY <2>1
  <2>3. \A s \in SUBSET S : Cardinality(s) <= n + 1 => val(g, s) = val(h, s)
    <3> SUFFICES ASSUME NEW s \in SUBSET S, Cardinality(s) <= n + 1, s # {}
                 PROVE  g[s \ {pick(s)}] = h[s \ {pick(s)}]
      BY DEF val
    <3>0. \A a, b \in Nat : a <= b + 1 => a - 1 <= b
      OBVIOUS
    <3>1. s \ {pick(s)} \in SUBSET S /\ Cardinality(s \ {pick(s)}) <= n
      BY <1>1, <1>2, <3>0
    <3> HIDE DEF h
    <3> QED
      BY <2>2, <3>1
  <2>4. \A s \in SUBSET S : h[s] = val(g, s)
    <3> HIDE DEF val
    <3> QED OBVIOUS
  <2> HIDE DEF h, val
  <2> QED
    BY <2>3, <2>4
<1>5. Nat \subseteq N
  <2> HIDE DEF N
  <2> QED
    BY <1>3, <1>4, InductionOnNat
<1>6. PICK g : \A s \in SUBSET S : g[s] = val(g, s)
  <2>1. \A s \in SUBSET S : Cardinality(s) <= Cardinality(S)
    BY FS_Subset
  <2>2. P(Cardinality(S))
    BY <1>1, <1>5
  <2> HIDE DEF val
  <2> QED
    BY <2>1, <2>2
<1> DEFINE h == [s \in SUBSET S |-> g[s]]
<1>7. \A s \in SUBSET S : h[s] = val(h, s)
  <2> SUFFICES ASSUME NEW s \in SUBSET S PROVE val(g, s) = val(h, s)
    BY <1>6
  <2>1. CASE s = {}
    BY <2>1
  <2>2. CASE s # {}
    <3>1. s \ {pick(s)} \in SUBSET S
      OBVIOUS
    <3> QED
      BY <2>2, <3>1
  <2> QED
    BY <2>1, <2>2
<1>8. Sums(f, S, h)
  <2>1. h = [s \in SUBSET S |-> val(h, s)]
    <3>1. h = [s \in SUBSET S |-> h[s]]
      OBVIOUS
    <3> HIDE DEF h, val
    <3> QED
      BY <1>7, <3>1
  <2> HIDE DEF h
  <2> QED
    BY <2>1 DEF Sums
<1> QED
  BY <1>8

(* Two solutions agree on the subsets they both have. *)
LEMMA SumsAgree ==
  ASSUME NEW S, IsFiniteSet(S), NEW f, NEW T \in SUBSET S,
         NEW g, Sums(f, S, g), NEW h, Sums(f, T, h)
  PROVE  \A s \in SUBSET T : g[s] = h[s]
<1> DEFINE N == {n \in Nat : \A s \in SUBSET T : Cardinality(s) = n => g[s] = h[s]}
<1>1. \A s \in SUBSET T : IsFiniteSet(s) /\ Cardinality(s) \in Nat
  BY FS_Subset, FS_CardinalityType
<1>2. \A s \in SUBSET T :
        /\ g[s] = IF s = {} THEN 0 ELSE f[pick(s)] + g[s \ {pick(s)}]
        /\ h[s] = IF s = {} THEN 0 ELSE f[pick(s)] + h[s \ {pick(s)}]
  BY DEF Sums
<1>3. 0 \in N
  BY <1>1, <1>2, FS_EmptySet
<1>4. ASSUME NEW n \in Nat, n \in N PROVE n + 1 \in N
  <2> SUFFICES ASSUME NEW s \in SUBSET T, Cardinality(s) = n + 1 PROVE g[s] = h[s]
    OBVIOUS
  <2>1. s # {}
    BY FS_EmptySet
  <2>2. Cardinality(s \ {pick(s)}) = n /\ s \ {pick(s)} \in SUBSET T
    BY <1>1, <2>1, PickType, OneLess
  <2>3. g[s \ {pick(s)}] = h[s \ {pick(s)}]
    BY <1>4, <2>2
  <2> QED
    BY <1>2, <2>1, <2>3
<1>5. Nat \subseteq N
  <2> HIDE DEF N
  <2> QED
    BY <1>3, <1>4, InductionOnNat
<1> QED
  BY <1>1, <1>5

(* A sum is what the recursion says. *)
LEMMA SumUnfold ==
  ASSUME NEW f, NEW S, IsFiniteSet(S)
  PROVE  SumOver(f, S) = IF S = {} THEN 0 ELSE f[pick(S)] + SumOver(f, S \ {pick(S)})
<1> DEFINE g == CHOOSE x : Sums(f, S, x)
           T == S \ {pick(S)}
           h == CHOOSE x : Sums(f, T, x)
<1>1. Sums(f, S, g)
  BY SumsExist
<1>2. IsFiniteSet(T) /\ T \in SUBSET S
  BY FS_Subset
<1>3. Sums(f, T, h)
  BY <1>2, SumsExist
<1>4. g[S] = IF S = {} THEN 0 ELSE f[pick(S)] + g[T]
  <2> HIDE DEF g
  <2> QED
    BY <1>1 DEF Sums
<1>5. g[T] = h[T]
  <2> HIDE DEF g, h, T
  <2> QED
    BY <1>1, <1>2, <1>3, SumsAgree
<1> QED
  BY <1>4, <1>5 DEF SumOver
-----------------------------------------------------------------------------
(* The sum over no cases is 0. *)
LEMMA SumEmpty == \A f : SumOver(f, {}) = 0
BY SumUnfold, FS_EmptySet

(* Sums of integers and of natural numbers. *)
LEMMA SumType ==
  ASSUME NEW f, NEW S, IsFiniteSet(S), NEW V, V = Nat \/ V = Int, \A x \in S : f[x] \in V
  PROVE  SumOver(f, S) \in V
<1> DEFINE N == {n \in Nat : \A T \in SUBSET S : Cardinality(T) = n => SumOver(f, T) \in V}
<1>1. \A T \in SUBSET S : IsFiniteSet(T) /\ Cardinality(T) \in Nat
  BY FS_Subset, FS_CardinalityType
<1>2. 0 \in N
  BY <1>1, FS_EmptySet, SumEmpty
<1>3. ASSUME NEW n \in Nat, n \in N PROVE n + 1 \in N
  <2> SUFFICES ASSUME NEW T \in SUBSET S, Cardinality(T) = n + 1 PROVE SumOver(f, T) \in V
    OBVIOUS
  <2>1. T # {} /\ pick(T) \in T
    BY FS_EmptySet, PickType
  <2>2. Cardinality(T \ {pick(T)}) = n /\ T \ {pick(T)} \in SUBSET S
    BY <1>1, <2>1, OneLess
  <2>3. SumOver(f, T \ {pick(T)}) \in V /\ f[pick(T)] \in V
    BY <1>3, <2>1, <2>2
  <2> QED
    BY <1>1, <2>1, <2>3, SumUnfold
<1>4. Nat \subseteq N
  <2> HIDE DEF N
  <2> QED
    BY <1>2, <1>3, InductionOnNat
<1> QED
  BY <1>1, <1>4

(* Whatever element is taken out, its value and the rest make the sum. *)
LEMMA SumRemove ==
  ASSUME NEW f, NEW S, IsFiniteSet(S), \A y \in S : f[y] \in Int, NEW x \in S
  PROVE  SumOver(f, S) = f[x] + SumOver(f, S \ {x})
<1> DEFINE Any(T) == \A y \in T : SumOver(f, T) = f[y] + SumOver(f, T \ {y})
           N == {n \in Nat : \A T \in SUBSET S : Cardinality(T) = n => Any(T)}
<1>1. \A T \in SUBSET S : IsFiniteSet(T) /\ Cardinality(T) \in Nat
  BY FS_Subset, FS_CardinalityType
<1>a. \A T \in SUBSET S : SumOver(f, T) \in Int
  BY <1>1, SumType
<1>2. 0 \in N
  BY <1>1, FS_EmptySet
<1>3. ASSUME NEW n \in Nat, n \in N PROVE n + 1 \in N
  <2> SUFFICES ASSUME NEW T \in SUBSET S, Cardinality(T) = n + 1, NEW y \in T
               PROVE  SumOver(f, T) = f[y] + SumOver(f, T \ {y})
    OBVIOUS
  <2> DEFINE p == pick(T)
  <2>1. p \in T /\ SumOver(f, T) = f[p] + SumOver(f, T \ {p})
    BY <1>1, SumUnfold, PickType
  <2> HIDE DEF p
  <2>2. CASE p = y
    BY <2>1, <2>2
  <2>3. CASE p # y
    <3>1. /\ T \ {p} \in SUBSET S /\ Cardinality(T \ {p}) = n
          /\ T \ {y} \in SUBSET S /\ Cardinality(T \ {y}) = n
      BY <1>1, <2>1, OneLess
    <3>2. /\ SumOver(f, T \ {p}) = f[y] + SumOver(f, (T \ {p}) \ {y})
          /\ SumOver(f, T \ {y}) = f[p] + SumOver(f, (T \ {y}) \ {p})
      BY <1>3, <2>1, <2>3, <3>1
    <3>3. (T \ {p}) \ {y} = (T \ {y}) \ {p} /\ (T \ {y}) \ {p} \in SUBSET S
      OBVIOUS
    <3>4. f[p] \in Int /\ f[y] \in Int /\ SumOver(f, (T \ {y}) \ {p}) \in Int
      BY <1>a, <2>1, <3>3
    <3> DEFINE r == SumOver(f, (T \ {y}) \ {p})
    <3>5. SumOver(f, T) = f[p] + (f[y] + r) /\ SumOver(f, T \ {y}) = f[p] + r
      BY <2>1, <3>2, <3>3
    <3> HIDE DEF r
    <3> QED
      BY <3>4, <3>5 DEF r
  <2> QED
    BY <2>2, <2>3
<1>4. Nat \subseteq N
  <2> HIDE DEF N
  <2> QED
    BY <1>2, <1>3, InductionOnNat
<1> QED
  BY <1>1, <1>4

(* A case more. *)
LEMMA SumAdd ==
  ASSUME NEW f, NEW S, IsFiniteSet(S), NEW x, x \notin S, f[x] \in Int,
         \A y \in S : f[y] \in Int
  PROVE  SumOver(f, S \cup {x}) = f[x] + SumOver(f, S)
<1>1. IsFiniteSet(S \cup {x}) /\ (S \cup {x}) \ {x} = S
  BY FS_AddElement
<1> QED
  BY <1>1, SumRemove

(* Functions with the same values have the same sum. *)
LEMMA SumSame ==
  ASSUME NEW S, IsFiniteSet(S), NEW f, NEW g,
         \A x \in S : f[x] = g[x] /\ f[x] \in Int
  PROVE  SumOver(f, S) = SumOver(g, S)
<1> DEFINE G == {T \in SUBSET S : SumOver(f, T) = SumOver(g, T)}
<1>1. {} \in G
  BY SumEmpty
<1>2. ASSUME NEW T \in SUBSET S, T \in G, NEW x \in S \ T PROVE T \cup {x} \in G
  <2>1. IsFiniteSet(T)
    BY FS_Subset
  <2>2. SumOver(f, T \cup {x}) = f[x] + SumOver(f, T)
    BY <2>1, SumAdd
  <2>3. SumOver(g, T \cup {x}) = g[x] + SumOver(g, T)
    BY <2>1, SumAdd
  <2> QED
    BY <1>2, <2>2, <2>3
<1>3. SUBSET S \subseteq G
  <2> HIDE DEF G
  <2> QED
    BY <1>1, <1>2, InductionOnSubsets
<1> QED
  BY <1>3

(* The sum over two sets with no case in common. *)
LEMMA SumUnion ==
  ASSUME NEW f, NEW S, IsFiniteSet(S), NEW R, IsFiniteSet(R), S \cap R = {},
         \A x \in S \cup R : f[x] \in Int
  PROVE  SumOver(f, S \cup R) = SumOver(f, S) + SumOver(f, R)
<1> DEFINE G == {T \in SUBSET R : SumOver(f, S \cup T) = SumOver(f, S) + SumOver(f, T)}
<1>1. SumOver(f, S) \in Int
  BY SumType
<1>2. {} \in G
  <2>1. S \cup {} = S
    OBVIOUS
  <2> QED
    BY <1>1, <2>1, SumEmpty
<1>3. ASSUME NEW T \in SUBSET R, T \in G, NEW x \in R \ T PROVE T \cup {x} \in G
  <2>1. IsFiniteSet(T) /\ IsFiniteSet(S \cup T)
    BY FS_Subset, FS_Union
  <2>2. SumOver(f, T \cup {x}) = f[x] + SumOver(f, T)
    BY <2>1, SumAdd
  <2>3. SumOver(f, (S \cup T) \cup {x}) = f[x] + SumOver(f, S \cup T)
    BY <2>1, SumAdd
  <2>4. (S \cup T) \cup {x} = S \cup (T \cup {x})
    OBVIOUS
  <2>5. SumOver(f, T) \in Int /\ f[x] \in Int
    BY <2>1, SumType
  <2>6. SumOver(f, S \cup T) = SumOver(f, S) + SumOver(f, T)
    BY <1>3
  <2>7. f[x] + (SumOver(f, S) + SumOver(f, T)) = SumOver(f, S) + (f[x] + SumOver(f, T))
    BY <1>1, <2>5
  <2>8. SumOver(f, S \cup (T \cup {x})) = SumOver(f, S) + SumOver(f, T \cup {x})
    BY <2>2, <2>3, <2>4, <2>6, <2>7
  <2> QED
    BY <2>8
<1>4. SUBSET R \subseteq G
  <2> HIDE DEF G
  <2>1. IsFiniteSet(R) /\ \A T \in SUBSET R : T \in G => \A x \in R \ T : T \cup {x} \in G
    BY <1>3
  <2> QED
    BY ZenonT(30), <1>2, <2>1, InductionOnSubsets
<1> QED
  BY <1>4

(* Where no value is negative, fewer cases make no larger sum. *)
LEMMA SumMonotone ==
  ASSUME NEW f, NEW S, IsFiniteSet(S), NEW T \in SUBSET S, \A x \in S : f[x] \in Nat
  PROVE  SumOver(f, T) <= SumOver(f, S)
<1>1. IsFiniteSet(T) /\ IsFiniteSet(S \ T) /\ T \cup (S \ T) = S /\ T \cap (S \ T) = {}
  BY FS_Subset
<1>2. SumOver(f, S) = SumOver(f, T) + SumOver(f, S \ T)
  BY <1>1, SumUnion
<1>3. SumOver(f, T) \in Nat /\ SumOver(f, S \ T) \in Nat
  BY <1>1, SumType
<1> QED
  BY <1>2, <1>3

(* Renaming the cases, no two alike, leaves the sum as it is. *)
LEMMA SumRenamed ==
  ASSUME NEW S, IsFiniteSet(S), NEW R, NEW p \in [S -> R],
         \A x, y \in S : p[x] = p[y] => x = y,
         \A y \in R : \E x \in S : p[x] = y,
         NEW f, \A x \in R : f[x] \in Int,
         NEW g, \A x \in S : g[x] = f[p[x]]
  PROVE  SumOver(g, S) = SumOver(f, R)
<1> DEFINE im(T) == {p[x] : x \in T}
           G == {T \in SUBSET S : SumOver(g, T) = SumOver(f, im(T))}
<1>1. {} \in G
  <2>1. im({}) = {}
    OBVIOUS
  <2> QED
    BY <2>1, SumEmpty
<1>2. \A T \in SUBSET S : IsFiniteSet(T) /\ IsFiniteSet(im(T))
  <2> SUFFICES ASSUME NEW T \in SUBSET S PROVE IsFiniteSet(T) /\ IsFiniteSet(im(T))
    OBVIOUS
  <2>1. IsFiniteSet(T)
    BY FS_Subset
  <2>2. [x \in T |-> p[x]] \in Surjection(T, im(T))
    BY DEF Surjection
  <2> QED
    BY <2>1, <2>2, FS_Surjection
<1>3. ASSUME NEW T \in SUBSET S, T \in G, NEW x \in S \ T PROVE T \cup {x} \in G
  <2>1. g[x] = f[p[x]] /\ f[p[x]] \in Int /\ \A y \in T : g[y] \in Int
    OBVIOUS
  <2>2. SumOver(g, T \cup {x}) = g[x] + SumOver(g, T)
    <3>1. IsFiniteSet(T) /\ x \notin T /\ g[x] \in Int /\ \A y \in T : g[y] \in Int
      BY <1>2, <2>1
    <3> QED
      BY <3>1, SumAdd
  <2>3. im(T \cup {x}) = im(T) \cup {p[x]} /\ p[x] \notin im(T) /\ \A y \in im(T) : f[y] \in Int
    OBVIOUS
  <2>4. SumOver(f, im(T) \cup {p[x]}) = f[p[x]] + SumOver(f, im(T))
    <3> HIDE DEF im
    <3> QED
      BY <1>2, <2>1, <2>3, SumAdd
  <2>5. SumOver(g, T) = SumOver(f, im(T))
    BY <1>3
  <2> HIDE DEF im
  <2> QED
    BY <2>1, <2>2, <2>3, <2>4, <2>5
<1>4. SUBSET S \subseteq G
  <2> HIDE DEF G
  <2> QED
    BY <1>1, <1>3, InductionOnSubsets
<1>5. SumOver(g, S) = SumOver(f, im(S))
  <2> HIDE DEF im
  <2> QED
    BY <1>4
<1>6. im(S) = R
  OBVIOUS
<1> QED
  BY <1>5, <1>6
-----------------------------------------------------------------------------
(* A sum of two ints that is in range is not changed by its width. *)
LEMMA WrapInRange ==
  ASSUME NEW n \in Ints
  PROVE  Wrap(n) = n
BY MaxIntAssumption DEF Wrap, Ints

(* The sum of two ints is an int again. *)
LEMMA WrapType ==
  ASSUME NEW m \in Ints, NEW n \in Ints
  PROVE  Wrap(m + n) \in Ints
BY MaxIntAssumption DEF Wrap, Ints

(* What is left over is an integer. *)
LEMMA RemainderType ==
  ASSUME NEW acc \in Ints, NEW amt \in 1 .. MaxInt, NEW f \in Nat
  PROVE  Remainder(acc, amt, f) \in Int
<1>1. \A n \in Int : Wrap(n) \in Int
  BY MaxIntAssumption DEF Wrap
<1>2. acc \in Int /\ amt \in Int
  BY MaxIntAssumption DEF Ints
<1> QED
  BY <1>1, <1>2 DEF Remainder

(* The size of a transaction is a natural number. *)
LEMMA SizeType ==
  ASSUME NEW l \in Nat, NEW s \in Nat
  PROVE  currentSize(l, s) \in Nat /\ currentSize(l, s) > 0
BY DEF currentSize, baseSize, legacyInputSize, segwitInputSize

(* A larger size costs no less. *)
LEMMA CostMonotone ==
  ASSUME NEW a \in Nat, NEW b \in Nat, NEW r \in Nat, a <= b
  PROVE  a * r <= b * r
<1>1. b * r = a * r + (b - a) * r
  OBVIOUS
<1>2. (b - a) * r >= 0
  OBVIOUS
<1> QED
  BY <1>1, <1>2

(***************************************************************************)
(* The fee of the inputs taken so far, with or without a change output, is *)
(* at most LargestFee.                                                     *)
(***************************************************************************)
LEMMA SizeBound ==
  ASSUME NEW n \in Nat, NEW l \in Nat, NEW s \in Nat, l + s <= n, NEW r \in Nat
  PROVE  /\ currentSize(l, s) * r <= (currentSize(n, 0) + changeOutputSize) * r
         /\ (currentSize(l, s) + changeOutputSize) * r
              <= (currentSize(n, 0) + changeOutputSize) * r
         /\ (currentSize(l, s) + changeOutputSize) * r
              = currentSize(l, s) * r + changeOutputSize * r
         /\ currentSize(l, s) * r \in Nat
         /\ (currentSize(l, s) + changeOutputSize) * r \in Nat
         /\ (currentSize(n, 0) + changeOutputSize) * r \in Nat
<1> DEFINE a == currentSize(l, s)
           b == currentSize(n, 0)
<1>1. a \in Nat /\ b \in Nat /\ a <= b
  BY DEF currentSize, baseSize, legacyInputSize, segwitInputSize
<1>2. changeOutputSize = 34
  BY DEF changeOutputSize
<1> HIDE DEF a, b
<1>3. a * r <= (b + 34) * r
  BY <1>1, CostMonotone
<1>4. (a + 34) * r <= (b + 34) * r
  BY <1>1, CostMonotone
<1>5. (a + 34) * r = a * r + 34 * r /\ a * r \in Nat /\ (a + 34) * r \in Nat /\ (b + 34) * r \in Nat
  BY <1>1
<1> QED
  BY <1>2, <1>3, <1>4, <1>5 DEF a, b

(***************************************************************************)
(* Even when the amount and its fee wrap around, so that the inputs seem   *)
(* to suffice: what the outputs leave is negative or the fee of the size.  *)
(***************************************************************************)
LEMMA SettleEitherWay ==
  ASSUME NEW acc \in Nat, NEW amt \in 1 .. MaxInt, NEW size \in Nat, NEW r \in Nat,
         size * r \in Nat,
         (size + changeOutputSize) * r \in Nat,
         (size + changeOutputSize) * r = size * r + changeOutputSize * r,
         acc + (size + changeOutputSize) * r <= MaxInt,
         acc >= Needed(amt, size * r)
  PROVE  LET ch   == Settle(acc, amt, size, r).change
             left == acc - amt - (IF ch > 0 THEN ch ELSE 0)
         IN  left < 0 \/ left >= (size + (IF ch > 0 THEN changeOutputSize ELSE 0)) * r
<1> DEFINE f == size * r
           g == (size + changeOutputSize) * r
           d == changeOutputSize * r
           s == Settle(acc, amt, size, r)
<1>1. f \in Nat /\ g \in Nat /\ d \in Nat /\ g = f + d /\ acc + g <= MaxInt
  BY DEF changeOutputSize
<1>2. s = IF Remainder(acc, amt, f) <= 0 THEN [fee |-> f, change |-> Remainder(acc, amt, f)]
          ELSE IF Remainder(acc, amt, g) < 0 THEN [fee |-> f, change |-> 0]
          ELSE [fee |-> g, change |-> Remainder(acc, amt, g)]
  BY DEF Settle
<1>3. amt \in Nat /\ MaxInt \in Nat /\ acc >= Needed(amt, f)
  BY MaxIntAssumption
<1>4. Remainder(acc, amt, f) \in Int /\ Remainder(acc, amt, g) \in Int
  <2>1. acc \in Ints
    BY <1>1, <1>3 DEF Ints
  <2> HIDE DEF f, g
  <2> QED
    BY <1>1, <2>1, RemainderType
<1> HIDE DEF f, g, d
<1>5. s.change \in Int
  BY <1>1, <1>2, <1>4
<1>6. CASE amt + f > MaxInt
  <2>1. acc - amt < 0
    BY <1>1, <1>3, <1>6
  <2> HIDE DEF s
  <2>2. acc - amt - (IF s.change > 0 THEN s.change ELSE 0) < 0
    BY <1>3, <1>5, <2>1
  <2> QED
    BY <2>2 DEF s
<1>7. CASE amt + f <= MaxInt
  <2>1. Needed(amt, f) = amt + f /\ acc >= amt + f
    <3>1. amt + f \in Ints
      BY <1>1, <1>3, <1>7 DEF Ints
    <3>2. Needed(amt, f) = amt + f
      BY <3>1, WrapInRange DEF Needed
    <3> QED
      BY <1>3, <3>2
  <2>2. Remainder(acc, amt, f) = acc - amt - f /\ Remainder(acc, amt, g) = acc - amt - g
    <3>1. /\ acc - amt \in Ints /\ acc - amt - f \in Ints
          /\ acc - amt - g \in Ints
      BY <1>1, <1>3, <1>7, <2>1 DEF Ints
    <3> QED
      BY <3>1, WrapInRange DEF Remainder
  <2>3. \/ s.change <= 0 /\ acc - amt >= f
        \/ s.change > 0 /\ acc - amt - s.change = g
    BY <1>1, <1>2, <1>3, <2>1, <2>2
  <2> HIDE DEF s
  <2>4. CASE s.change <= 0 /\ acc - amt >= f
    <3>1. acc - amt - (IF s.change > 0 THEN s.change ELSE 0) >= f
      BY <1>3, <1>5, <2>4
    <3>2. (size + (IF s.change > 0 THEN changeOutputSize ELSE 0)) * r = f
      BY <1>5, <2>4 DEF f
    <3> QED
      BY <3>1, <3>2 DEF s
  <2>5. CASE s.change > 0 /\ acc - amt - s.change = g
    <3>1. acc - amt - (IF s.change > 0 THEN s.change ELSE 0) >= g
      BY <1>1, <1>3, <1>5, <2>5
    <3>2. (size + (IF s.change > 0 THEN changeOutputSize ELSE 0)) * r = g
      BY <1>5, <2>5 DEF g
    <3> QED
      BY <3>1, <3>2 DEF s
  <2> QED
    BY <2>3, <2>4, <2>5
<1> QED
  BY <1>1, <1>3, <1>6, <1>7

(***************************************************************************)
(* Settle, on inputs that suffice and in range: change is not negative and *)
(* what is paid is the fee of the transaction built, up to the price of a  *)
(* change output that was dropped.                                         *)
(***************************************************************************)
LEMMA SettleCorrect ==
  ASSUME NEW acc \in Ints, NEW amt \in 1 .. MaxInt, NEW size \in Nat, NEW r \in Nat,
         size * r \in Nat,
         (size + changeOutputSize) * r \in Nat,
         (size + changeOutputSize) * r = size * r + changeOutputSize * r,
         amt + (size + changeOutputSize) * r <= MaxInt,
         acc >= Needed(amt, size * r)
  PROVE  LET s == Settle(acc, amt, size, r)
             p == acc - amt - s.change
         IN  /\ s.fee \in Nat /\ s.change \in Nat
             /\ s.change > 0 => p = (size + changeOutputSize) * r /\ p = s.fee
             /\ s.change = 0 => /\ p >= size * r
                                /\ p - size * r <= changeOutputSize * r
<1> DEFINE f == size * r
           g == (size + changeOutputSize) * r
           d == changeOutputSize * r
           s == Settle(acc, amt, size, r)
<1>1. f \in Nat /\ g \in Nat /\ d \in Nat /\ g = f + d
  BY DEF changeOutputSize
<1>2. Settle(acc, amt, size, r) =
        IF Remainder(acc, amt, f) <= 0 THEN [fee |-> f, change |-> Remainder(acc, amt, f)]
        ELSE IF Remainder(acc, amt, g) < 0 THEN [fee |-> f, change |-> 0]
        ELSE [fee |-> g, change |-> Remainder(acc, amt, g)]
  BY DEF Settle
<1>3. amt \in Nat /\ acc \in Int /\ amt + g <= MaxInt
  BY MaxIntAssumption DEF Ints
<1> HIDE DEF f, g, d, s
<1>4. Needed(amt, f) = amt + f /\ acc >= amt + f
  <2>1. amt + f \in Ints
    BY <1>1, <1>3, MaxIntAssumption DEF Ints
  <2>2. Needed(amt, f) = amt + f
    BY <2>1, WrapInRange DEF Needed
  <2> QED
    BY <2>2 DEF f
<1>5. Remainder(acc, amt, f) = acc - amt - f /\ Remainder(acc, amt, g) = acc - amt - g
  <2>1. /\ acc - amt \in Ints /\ acc - amt - f \in Ints
        /\ acc - amt - g \in Ints
    BY <1>1, <1>3, <1>4, MaxIntAssumption DEF Ints
  <2> QED
    BY <2>1, WrapInRange DEF Remainder
<1>6. CASE acc - amt - f <= 0
  <2>1. s = [fee |-> f, change |-> 0]
    BY <1>1, <1>2, <1>3, <1>4, <1>5, <1>6 DEF s
  <2> QED
    BY <2>1, <1>1, <1>3, <1>4, <1>6 DEF s, f, g, d
<1>7. CASE acc - amt - f > 0 /\ acc - amt - g < 0
  <2>1. s = [fee |-> f, change |-> 0]
    BY <1>1, <1>2, <1>3, <1>5, <1>7 DEF s
  <2>2. acc - amt - 0 >= f /\ acc - amt - 0 - f <= d
    BY <1>1, <1>3, <1>7
  <2> QED
    BY <2>1, <2>2, <1>1 DEF s, f, g, d
<1>8. CASE acc - amt - f > 0 /\ acc - amt - g >= 0
  <2>1. s = [fee |-> g, change |-> acc - amt - g]
    BY <1>1, <1>2, <1>3, <1>5, <1>8 DEF s
  <2>2. acc - amt - g \in Nat /\ acc - amt - (acc - amt - g) = g
    BY <1>1, <1>3, <1>8
  <2>3. acc - amt - g = 0 =>
          acc - amt - (acc - amt - g) >= f /\ acc - amt - (acc - amt - g) - f <= d
    BY <1>1, <1>3
  <2> QED
    BY <2>1, <2>2, <2>3, <1>1 DEF s, f, g, d
<1> QED
  BY <1>1, <1>3, <1>6, <1>7, <1>8

(* Sorting gives a pool of as many UTXOs. *)
LEMMA SortedPoolsType ==
  ASSUME NEW p \in Seq(UTXOs), NEW q \in SortedPools(p)
  PROVE  q \in Seq(UTXOs) /\ Len(q) = Len(p)
<1>1. PICK f \in [DOMAIN p -> DOMAIN p] : q = [i \in DOMAIN p |-> p[f[i]]]
  BY DEF SortedPools
<1>2. DOMAIN p = 1 .. Len(p) /\ \A i \in DOMAIN p : p[f[i]] \in UTXOs
  OBVIOUS
<1> QED
  BY <1>1, <1>2
-----------------------------------------------------------------------------
(* Values are not negative: all the facts on prefixes assume it. *)
ValuesOf(p) == [i \in DOMAIN p |-> p[i].value]

Valued(S) == \A u \in S : u.value \in Nat

(* What a prefix is worth, and how many of its inputs are segwit. *)
LEMMA PrefixMeasures ==
  ASSUME NEW S, Valued(S), NEW p \in Seq(S), NEW k \in 0 .. Len(p)
  PROVE  /\ SubSeq(p, 1, k) \in Seq(S) /\ Len(SubSeq(p, 1, k)) = k
         /\ \A i \in 1 .. k : SubSeq(p, 1, k)[i] = p[i]
         /\ ValueOf(SubSeq(p, 1, k)) = SumOver(ValuesOf(p), 1 .. k)
         /\ ValueOf(SubSeq(p, 1, k)) \in Nat
         /\ CountSegwit(SubSeq(p, 1, k)) = Cardinality({i \in 1 .. k : isSegwitUTXO(p[i])})
         /\ CountSegwit(SubSeq(p, 1, k)) \in 0 .. k
<1> DEFINE q == SubSeq(p, 1, k)
<1>1. q \in Seq(S) /\ Len(q) = k /\ DOMAIN q = 1 .. k /\ \A i \in 1 .. k : q[i] = p[i]
  OBVIOUS
<1>2. IsFiniteSet(1 .. k) /\ Cardinality(1 .. k) = k
  BY Positions
<1>3. \A i \in 1 .. k : i \in DOMAIN p /\ p[i] \in S /\ p[i].value \in Nat
  BY DEF Valued
<1> HIDE DEF q
<1>4. ValueOf(q) = SumOver(ValuesOf(q), 1 .. k)
  BY <1>1, SumFunctionIsSum DEF ValueOf, ValuesOf
<1>5. \A i \in 1 .. k : ValuesOf(q)[i] = ValuesOf(p)[i] /\ ValuesOf(q)[i] \in Int /\ ValuesOf(p)[i] \in Nat
  BY <1>1, <1>3 DEF ValuesOf
<1>6. SumOver(ValuesOf(q), 1 .. k) = SumOver(ValuesOf(p), 1 .. k)
  BY <1>2, <1>5, SumSame
<1>7. SumOver(ValuesOf(p), 1 .. k) \in Nat
  BY <1>2, <1>5, SumType
<1>8. CountSegwit(q) = Cardinality({i \in 1 .. k : isSegwitUTXO(p[i])})
  <2>1. {i \in DOMAIN q : isSegwitUTXO(q[i])} = {i \in 1 .. k : isSegwitUTXO(p[i])}
    BY <1>1
  <2> QED
    BY <2>1 DEF CountSegwit
<1>9. Cardinality({i \in 1 .. k : isSegwitUTXO(p[i])}) \in 0 .. k
  <2> DEFINE T == {i \in 1 .. k : isSegwitUTXO(p[i])}
  <2>1. T \in SUBSET (1 .. k)
    OBVIOUS
  <2> HIDE DEF T
  <2>2. IsFiniteSet(T) /\ Cardinality(T) <= k
    BY <1>2, <2>1, FS_Subset
  <2>3. Cardinality(T) \in Nat
    BY <2>2, FS_CardinalityType
  <2> QED
    BY <2>2, <2>3 DEF T
<1> QED
  BY <1>1, <1>4, <1>6, <1>7, <1>8, <1>9 DEF q

(* One input more: its value, and its kind, are added. *)
LEMMA PrefixStep ==
  ASSUME NEW S, Valued(S), NEW p \in Seq(S), NEW k \in Nat, k + 1 <= Len(p)
  PROVE  /\ SubSeq(p, 1, k + 1) = Append(SubSeq(p, 1, k), p[k + 1])
         /\ ValueOf(SubSeq(p, 1, k + 1)) = ValueOf(SubSeq(p, 1, k)) + p[k + 1].value
         /\ CountSegwit(SubSeq(p, 1, k + 1)) =
              CountSegwit(SubSeq(p, 1, k)) + (IF isSegwitUTXO(p[k + 1]) THEN 1 ELSE 0)
<1>1. k \in 0 .. Len(p) /\ k + 1 \in 0 .. Len(p)
  OBVIOUS
<1>2. 1 .. k + 1 = (1 .. k) \cup {k + 1} /\ k + 1 \notin 1 .. k
  BY Positions
<1>3. IsFiniteSet(1 .. k)
  BY Positions
<1>4. ValueOf(SubSeq(p, 1, k + 1)) = ValueOf(SubSeq(p, 1, k)) + p[k + 1].value
  <2>1. ValuesOf(p)[k + 1] = p[k + 1].value /\ \A i \in 1 .. k + 1 : ValuesOf(p)[i] \in Int
    BY DEF ValuesOf, Valued
  <2>2. SumOver(ValuesOf(p), 1 .. k + 1) = p[k + 1].value + SumOver(ValuesOf(p), 1 .. k)
    <3> DEFINE v == ValuesOf(p)
               K == 1 .. k
    <3>1. v[k + 1] \in Int /\ \A i \in K : v[i] \in Int
      BY <2>1
    <3>2. IsFiniteSet(K) /\ k + 1 \notin K /\ 1 .. k + 1 = K \cup {k + 1}
      BY <1>2, <1>3
    <3> HIDE DEF v, K
    <3>3. SumOver(v, K \cup {k + 1}) = v[k + 1] + SumOver(v, K)
      BY <3>1, <3>2, SumAdd
    <3> QED
      BY <2>1, <3>2, <3>3 DEF v, K
  <2>3. /\ ValueOf(SubSeq(p, 1, k + 1)) = SumOver(ValuesOf(p), 1 .. k + 1)
        /\ ValueOf(SubSeq(p, 1, k)) = SumOver(ValuesOf(p), 1 .. k)
        /\ ValueOf(SubSeq(p, 1, k)) \in Nat
    BY <1>1, PrefixMeasures
  <2>4. p[k + 1].value \in Int
    BY <2>1
  <2> QED
    BY <2>2, <2>3, <2>4
<1>5. CountSegwit(SubSeq(p, 1, k + 1)) =
        CountSegwit(SubSeq(p, 1, k)) + (IF isSegwitUTXO(p[k + 1]) THEN 1 ELSE 0)
  <2> DEFINE T(n) == {i \in 1 .. n : isSegwitUTXO(p[i])}
  <2>1. IsFiniteSet(T(k)) /\ Cardinality(T(k)) \in Nat
    BY <1>3, FS_Subset, FS_CardinalityType
  <2>2. /\ CountSegwit(SubSeq(p, 1, k + 1)) = Cardinality(T(k + 1))
        /\ CountSegwit(SubSeq(p, 1, k)) = Cardinality(T(k))
    BY <1>1, PrefixMeasures
  <2>3. CASE isSegwitUTXO(p[k + 1])
    <3>1. T(k + 1) = T(k) \cup {k + 1} /\ k + 1 \notin T(k)
      BY <1>2, <2>3
    <3> HIDE DEF T
    <3>2. Cardinality(T(k + 1)) = Cardinality(T(k)) + 1
      BY <2>1, <3>1, FS_AddElement
    <3> QED
      BY <2>2, <2>3, <3>2
  <2>4. CASE ~isSegwitUTXO(p[k + 1])
    <3>1. T(k + 1) = T(k)
      BY <1>2, <2>4
    <3> HIDE DEF T
    <3> QED
      BY <2>1, <2>2, <2>4, <3>1
  <2> QED
    BY <2>3, <2>4
<1> QED
  BY <1>4, <1>5

(* The whole is a prefix, too. *)
LEMMA WholeMeasures ==
  ASSUME NEW S, Valued(S), NEW p \in Seq(S)
  PROVE  /\ Len(p) \in Nat /\ Len(p) \in 0 .. Len(p) /\ SubSeq(p, 1, Len(p)) = p
         /\ ValueOf(p) = SumOver(ValuesOf(p), 1 .. Len(p))
         /\ ValueOf(p) \in Nat
         /\ CountSegwit(p) \in 0 .. Len(p)
<1> DEFINE n == Len(p)
           q == SubSeq(p, 1, n)
<1>1. n \in Nat /\ n \in 0 .. Len(p)
  OBVIOUS
<1>2. q = p
  OBVIOUS
<1>3. ValueOf(q) = SumOver(ValuesOf(p), 1 .. n) /\ ValueOf(q) \in Nat /\ CountSegwit(q) \in 0 .. n
  <2> HIDE DEF n
  <2> QED
    BY <1>1, PrefixMeasures
<1> HIDE DEF q
<1> QED
  BY <1>1, <1>2, <1>3 DEF q

(* No prefix is worth more than the whole. *)
LEMMA PrefixOfWhole ==
  ASSUME NEW S, Valued(S), NEW p \in Seq(S), NEW k \in 0 .. Len(p)
  PROVE  ValueOf(SubSeq(p, 1, k)) <= ValueOf(p)
<1>1. IsFiniteSet(1 .. Len(p)) /\ 1 .. k \in SUBSET (1 .. Len(p))
  BY Positions
<1>2. \A i \in 1 .. Len(p) : ValuesOf(p)[i] \in Nat
  BY DEF ValuesOf, Valued
<1>3. ValueOf(p) = SumOver(ValuesOf(p), 1 .. Len(p))
  BY SumFunctionIsSum DEF ValueOf, ValuesOf
<1>4. SumOver(ValuesOf(p), 1 .. k) <= SumOver(ValuesOf(p), 1 .. Len(p))
  BY <1>1, <1>2, SumMonotone
<1> QED
  BY <1>3, <1>4, PrefixMeasures

(***************************************************************************)
(* Where the values descend, no choice of positions is worth more than the *)
(* prefix with as many.                                                    *)
(***************************************************************************)
Descending(p) == \A i, j \in DOMAIN p : i < j => p[i].value >= p[j].value

(* The first k of a sorted pool are worth at least as much as any other k of it. *)
LEMMA PrefixIsBest ==
  ASSUME NEW S, Valued(S), NEW p \in Seq(S), Descending(p), NEW c \in SUBSET DOMAIN p
  PROVE  /\ IsFiniteSet(c) /\ Cardinality(c) \in 0 .. Len(p)
         /\ SumOver(ValuesOf(p), c) <= SumOver(ValuesOf(p), 1 .. Cardinality(c))
<1> DEFINE v == ValuesOf(p)
           D == 1 .. Len(p)
           best(b) == SumOver(v, b) <= SumOver(v, 1 .. Cardinality(b))
           N == {n \in Nat : \A b \in SUBSET D : Cardinality(b) = n => best(b)}
<1>1. IsFiniteSet(D) /\ Cardinality(D) = Len(p) /\ DOMAIN p = D
  BY Positions
<1>2. \A b \in SUBSET D : IsFiniteSet(b) /\ Cardinality(b) \in 0 .. Len(p)
  <2> SUFFICES ASSUME NEW b \in SUBSET D PROVE IsFiniteSet(b) /\ Cardinality(b) \in 0 .. Len(p)
    OBVIOUS
  <2> HIDE DEF D
  <2>1. IsFiniteSet(b) /\ Cardinality(b) <= Len(p)
    BY <1>1, FS_Subset
  <2>2. Cardinality(b) \in Nat
    BY <2>1, FS_CardinalityType
  <2> QED
    BY <2>1, <2>2
<1>3. /\ \A i \in D : v[i] \in Nat
      /\ \A i, j \in D : i <= j => v[i] >= v[j]
  <2>1. \A i \in D : v[i] = p[i].value /\ v[i] \in Nat
    BY DEF ValuesOf, Valued
  <2>2. \A i, j \in D : i < j => v[i] >= v[j]
    BY <1>1, <2>1 DEF Descending
  <2>3. \A i, j \in D : i <= j => i < j \/ i = j
    OBVIOUS
  <2> HIDE DEF v, D
  <2> QED
    BY <2>1, <2>2, <2>3
<1> HIDE DEF v
<1>4. 0 \in N
  <2> SUFFICES ASSUME NEW b \in SUBSET D, Cardinality(b) = 0 PROVE best(b)
    OBVIOUS
  <2>1. b = {} /\ 1 .. Cardinality(b) = {}
    BY <1>2, FS_EmptySet
  <2>2. SumOver(v, {}) = 0
    BY SumEmpty
  <2> QED
    BY <2>1, <2>2
<1>5. ASSUME NEW n \in Nat, n \in N PROVE n + 1 \in N
  <2> SUFFICES ASSUME NEW b \in SUBSET D, Cardinality(b) = n + 1 PROVE best(b)
    OBVIOUS
  <2>0. IsFiniteSet(b) /\ b # {}
    BY <1>2, FS_EmptySet
  <2>1. b # {} /\ b \in SUBSET Nat /\ \A i \in b : Len(p) - i \in Nat
    BY <2>0
  <2>2. PICK m \in b : \A i \in b : i <= m
    <3> DEFINE back == {Len(p) - i : i \in b}
    <3>1. back \in SUBSET Nat /\ back # {}
      BY <2>1
    <3>2. PICK l \in back : \A i \in back : l <= i
      <4> HIDE DEF back
      <4> QED
        BY <3>1, LeastMember
    <3>3. PICK m \in b : l = Len(p) - m
      BY <3>2
    <3>4. \A i \in b : Len(p) - m <= Len(p) - i
      BY <3>2, <3>3
    <3>5. \A i \in b : i <= m
      BY <2>1, <3>4
    <3> QED
      BY <3>5
  <2>3. n + 1 <= m
    <3>1. b \in SUBSET (1 .. m) /\ m \in Nat
      BY <2>1, <2>2
    <3>2. IsFiniteSet(1 .. m) /\ Cardinality(1 .. m) = m
      BY <3>1, Positions
    <3>3. Cardinality(b) <= Cardinality(1 .. m)
      BY <3>1, <3>2, FS_Subset
    <3> QED
      BY <3>2, <3>3
  <2>4. IsFiniteSet(b) /\ Cardinality(b \ {m}) = n /\ b \ {m} \in SUBSET D
    BY <1>2, <2>2, OneLess
  <2>5. SumOver(v, b) = v[m] + SumOver(v, b \ {m})
    <3>1. \A i \in b : v[i] \in Int
      BY <1>3
    <3>2. IsFiniteSet(b)
      BY <2>4
    <3>3. \A y \in b : SumOver(v, b) = v[y] + SumOver(v, b \ {y})
      BY ONLY ZenonT(30), <3>1, <3>2, SumRemove
    <3> QED
      BY <3>3
  <2>6. SumOver(v, b \ {m}) <= SumOver(v, 1 .. n)
    BY <1>5, <2>4
  <2>7. SumOver(v, 1 .. n + 1) = v[n + 1] + SumOver(v, 1 .. n)
    <3>1. 1 .. n + 1 = (1 .. n) \cup {n + 1} /\ n + 1 \notin 1 .. n /\ IsFiniteSet(1 .. n)
      BY Positions
    <3>2. n + 1 \in D /\ \A i \in 1 .. n : i \in D
      BY <2>2, <2>3
    <3>3. v[n + 1] \in Int /\ \A i \in 1 .. n : v[i] \in Int
      BY <1>3, <3>2
    <3> QED
      BY <3>1, <3>3, SumAdd
  <2>8. v[m] <= v[n + 1] /\ v[m] \in Nat /\ v[n + 1] \in Nat
    BY <1>3, <2>2, <2>3
  <2>9. SumOver(v, b \ {m}) \in Int /\ SumOver(v, 1 .. n) \in Int
    <3>1. IsFiniteSet(b \ {m}) /\ \A i \in b \ {m} : v[i] \in Int
      BY <1>2, <1>3, <2>4
    <3>2. IsFiniteSet(1 .. n) /\ \A i \in 1 .. n : v[i] \in Int
      <4>1. \A i \in 1 .. n : i \in D
        BY <2>2, <2>3
      <4>2. \A i \in 1 .. n : v[i] \in Int
        BY <1>3, <4>1
      <4> QED
        BY <4>2, Positions
    <3> QED
      BY <3>1, <3>2, SumType
  <2>10. v[m] + SumOver(v, b \ {m}) <= v[n + 1] + SumOver(v, 1 .. n)
    BY <2>6, <2>8, <2>9
  <2> QED
    BY <2>5, <2>7, <2>10
<1>6. Nat \subseteq N
  <2> HIDE DEF N
  <2> QED
    BY <1>4, <1>5, InductionOnNat
<1> QED
  BY <1>1, <1>2, <1>6 DEF v

(* What is spent at these positions of p, at a rate. *)
CostOf(p, c, rate) ==
  rate * currentSize(Cardinality({i \in c : ~isSegwitUTXO(p[i])}),
                     Cardinality({i \in c : isSegwitUTXO(p[i])}))

(* All UTXOs of p cost the same to spend. *)
Uniform(p) == \A i, j \in DOMAIN p : isSegwitUTXO(p[i]) <=> isSegwitUTXO(p[j])

(* No prefix of one to n inputs covers the amount and its own fee. *)
Short(p, amount, rate, n) ==
  \A k \in 1 .. n : ValueOf(SubSeq(p, 1, k)) < amount + SizeOf(SubSeq(p, 1, k)) * rate

(* A cost is a natural number. *)
LEMMA CostType ==
  ASSUME NEW p, NEW c, IsFiniteSet(c), NEW rate \in Nat
  PROVE  CostOf(p, c, rate) \in Nat
<1> DEFINE l == {i \in c : ~isSegwitUTXO(p[i])}
           g == {i \in c : isSegwitUTXO(p[i])}
<1>1. l \in SUBSET c /\ g \in SUBSET c
  OBVIOUS
<1>2. CostOf(p, c, rate) = rate * currentSize(Cardinality(l), Cardinality(g))
  BY DEF CostOf
<1> HIDE DEF l, g
<1>3. Cardinality(l) \in Nat /\ Cardinality(g) \in Nat
  BY <1>1, FS_Subset, FS_CardinalityType
<1>4. currentSize(Cardinality(l), Cardinality(g)) \in Nat
  BY <1>3, SizeType
<1> QED
  BY <1>2, <1>4

(***************************************************************************)
(* On a pool of one kind of UTXO: if no prefix of at most n inputs covers  *)
(* the amount and its own fee, no choice of at most n inputs does.         *)
(***************************************************************************)
LEMMA NoChoiceCovers ==
  ASSUME NEW S, Valued(S), NEW p \in Seq(S), Descending(p),
         Uniform(p), NEW amount \in Nat, amount > 0, NEW rate \in Nat, NEW n \in 0 .. Len(p),
         Short(p, amount, rate, n),
         NEW c \in SUBSET DOMAIN p, Cardinality(c) <= n
  PROVE  SumOver(ValuesOf(p), c) < amount + CostOf(p, c, rate)
<1> DEFINE m == Cardinality(c)
           q == SubSeq(p, 1, m)
<1>1. IsFiniteSet(c) /\ m \in 0 .. Len(p) /\ m <= n
  BY PrefixIsBest
<1>2. SumOver(ValuesOf(p), c) <= ValueOf(q) /\ ValueOf(q) \in Nat /\ Len(q) = m
      /\ CountSegwit(q) = Cardinality({i \in 1 .. m : isSegwitUTXO(p[i])})
  <2>1. SumOver(ValuesOf(p), c) <= SumOver(ValuesOf(p), 1 .. m)
    BY PrefixIsBest
  <2> HIDE DEF m
  <2>2. ValueOf(q) = SumOver(ValuesOf(p), 1 .. m) /\ ValueOf(q) \in Nat /\ Len(q) = m
        /\ CountSegwit(q) = Cardinality({i \in 1 .. m : isSegwitUTXO(p[i])})
    BY <1>1, PrefixMeasures
  <2> QED
    BY <2>1, <2>2
<1>3. SumOver(ValuesOf(p), c) \in Int
  <2>1. \A i \in c : ValuesOf(p)[i] \in Int
    BY DEF ValuesOf, Valued
  <2> QED
    BY <1>1, <2>1, SumType
<1>4. CostOf(p, c, rate) = rate * SizeOf(q) /\ SizeOf(q) \in Nat
  <2> DEFINE sc == {i \in c : isSegwitUTXO(p[i])}
             lc == {i \in c : ~isSegwitUTXO(p[i])}
             sq == {i \in 1 .. m : isSegwitUTXO(p[i])}
  <2>0. 1 .. m \subseteq DOMAIN p /\ Cardinality(1 .. m) = m /\ Cardinality({}) = 0
    BY <1>1, Positions, FS_EmptySet
  <2>1. CASE \A i \in DOMAIN p : isSegwitUTXO(p[i])
    <3>1. sc = c /\ lc = {} /\ sq = 1 .. m
      BY <2>0, <2>1
    <3>2. CostOf(p, c, rate) = rate * currentSize(0, m)
      BY <2>0, <3>1 DEF CostOf
    <3>3. CountSegwit(q) = m
      BY <1>2, <2>0, <3>1
    <3> HIDE DEF m, q
    <3>4. SizeOf(q) = currentSize(0, m)
      BY <1>1, <1>2, <3>3 DEF SizeOf
    <3> QED
      BY <1>1, <3>2, <3>4, SizeType
  <2>2. CASE \A i \in DOMAIN p : ~isSegwitUTXO(p[i])
    <3>1. sc = {} /\ lc = c /\ sq = {}
      BY <2>0, <2>2
    <3>2. CostOf(p, c, rate) = rate * currentSize(m, 0)
      BY <2>0, <3>1 DEF CostOf
    <3>3. CountSegwit(q) = 0
      BY <1>2, <2>0, <3>1
    <3> HIDE DEF m, q
    <3>4. SizeOf(q) = currentSize(m, 0)
      BY <1>1, <1>2, <3>3 DEF SizeOf
    <3> QED
      BY <1>1, <3>2, <3>4, SizeType
  <2> QED
    BY <2>1, <2>2 DEF Uniform
<1> HIDE DEF m, q
<1>5. CASE m = 0
  <2>1. SumOver(ValuesOf(p), c) = 0
    BY <1>1, <1>5, SumEmpty, FS_EmptySet DEF m
  <2>2. rate * SizeOf(q) \in Nat
    BY <1>4
  <2> QED
    BY <1>4, <2>1, <2>2
<1>6. CASE m # 0
  <2>1. ValueOf(q) < amount + SizeOf(q) * rate
    BY <1>1, <1>6 DEF q, Short
  <2>2. SizeOf(q) * rate = rate * SizeOf(q) /\ SizeOf(q) * rate \in Nat
    BY <1>4
  <2> QED
    BY <1>2, <1>3, <1>4, <2>1, <2>2
<1> QED
  BY <1>5, <1>6
-----------------------------------------------------------------------------
(* A function from a finite set to itself that repeats no value takes all. *)
LEMMA PermutationOnto ==
  ASSUME NEW S, IsFiniteSet(S), NEW f \in [S -> S], \A x, y \in S : f[x] = f[y] => x = y
  PROVE  \A y \in S : \E x \in S : f[x] = y
<1>1. f \in Injection(S, S)
  BY DEF Injection, IsInjective
<1>2. f \in Surjection(S, S)
  BY <1>1, FS_Injection
<1> QED
  BY <1>2 DEF Surjection

(* Sorting changes neither the UTXOs nor their worth, and the values descend. *)
LEMMA SortedPoolsValue ==
  ASSUME NEW S, Valued(S), NEW p \in Seq(S), NEW q \in SortedPools(p)
  PROVE  /\ q \in Seq(S) /\ Len(q) = Len(p)
         /\ ValueOf(q) = ValueOf(p)
         /\ Descending(q)
<1> DEFINE D == 1 .. Len(p)
<1>1. PICK f \in [D -> D] :
        /\ \A x, y \in D : f[x] = f[y] => x = y
        /\ q = [i \in D |-> p[f[i]]]
        /\ \A i, j \in D : i < j => ~Less(q[j], q[i])
  <2>1. DOMAIN p = D
    OBVIOUS
  <2>2. PICK f \in [D -> D] :
          /\ IsInjective(f)
          /\ \A i, j \in D : i < j => ~Less([l \in D |-> p[f[l]]][j], [l \in D |-> p[f[l]]][i])
          /\ q = [i \in D |-> p[f[i]]]
    BY <2>1 DEF SortedPools
  <2>3. \A x, y \in D : f[x] = f[y] => x = y
    BY <2>2 DEF IsInjective
  <2> QED
    BY <2>2, <2>3
<1>2. \A i \in D : f[i] \in D /\ q[i] = p[f[i]] /\ p[f[i]] \in S
  BY <1>1
<1>3. q \in Seq(S) /\ Len(q) = Len(p) /\ DOMAIN q = D
  BY <1>1, <1>2
<1>4. Descending(q)
  <2>1. \A i \in D : q[i].value \in Nat
    BY <1>2 DEF Valued
  <2>2. \A i, j \in D : i < j => ~(q[i].value < q[j].value)
    BY <1>1 DEF Less
  <2> QED
    BY <1>3, <2>1, <2>2 DEF Descending
<1>5. ValueOf(q) = ValueOf(p)
  <2>0. IsFiniteSet(D)
    BY Positions
  <2>1. \A y \in D : \E x \in D : f[x] = y
    <3> HIDE DEF D
    <3> QED
      BY <1>1, <2>0, PermutationOnto
  <2>2. \A i \in D : ValuesOf(p)[i] \in Int /\ ValuesOf(p)[f[i]] = q[i].value
    BY <1>2 DEF ValuesOf, Valued
  <2>3. ValuesOf(q) = [i \in D |-> ValuesOf(p)[f[i]]]
    BY <1>3, <2>2 DEF ValuesOf
  <2>4. SumOver(ValuesOf(q), D) = SumOver(ValuesOf(p), D)
    <3> DEFINE v == ValuesOf(p)
               w == ValuesOf(q)
    <3>1. \A i \in D : v[i] \in Int /\ w[i] = v[f[i]]
      BY <2>2, <2>3
    <3> HIDE DEF D, v, w
    <3>2. f \in [D -> D] /\ \A x, y \in D : f[x] = f[y] => x = y
      BY <1>1
    <3>3. \A i \in D : v[i] \in Int
      BY <3>1
    <3>4. \A i \in D : w[i] = v[f[i]]
      BY <3>1
    <3>5. SumOver(w, D) = SumOver(v, D)
      BY <2>0, <2>1, <3>2, <3>3, <3>4, SumRenamed
    <3> QED
      BY <3>5 DEF v, w
  <2>5. ValueOf(q) = SumOver(ValuesOf(q), D) /\ ValueOf(p) = SumOver(ValuesOf(p), D)
    BY <1>3, SumFunctionIsSum DEF ValueOf, ValuesOf
  <2> QED
    BY <2>4, <2>5
<1> QED
  BY <1>3, <1>4, <1>5

(***************************************************************************)
(* Inputs that suffice still suffice for the fee that Settle returns, even *)
(* where amount and fee do not fit an int together.                        *)
(***************************************************************************)
LEMMA SettleCovers ==
  ASSUME NEW acc \in 0 .. MaxInt, NEW amt \in 1 .. MaxInt, NEW size \in Nat, NEW r \in Nat,
         (size + changeOutputSize) * r <= MaxInt,
         acc >= Needed(amt, size * r)
  PROVE  acc >= Needed(amt, Settle(acc, amt, size, r).fee)
<1> DEFINE f == size * r
           g == (size + changeOutputSize) * r
<1>1. f \in Nat /\ g \in Nat /\ f <= g /\ g <= MaxInt
  <2>1. g = size * r + 34 * r /\ size * r \in Nat /\ 34 * r \in Nat
    BY DEF changeOutputSize
  <2> QED
    BY <2>1
<1>2. Settle(acc, amt, size, r).fee =
        IF Remainder(acc, amt, f) <= 0 \/ Remainder(acc, amt, g) < 0 THEN f ELSE g
  BY DEF Settle
<1>3. Remainder(acc, amt, g) >= 0 /\ Remainder(acc, amt, f) > 0 /\ acc >= Needed(amt, f)
        => acc >= Needed(amt, g)
  <2> HIDE DEF f, g
  <2> QED
    BY <1>1, MaxIntAssumption DEF Remainder, Needed, Wrap
<1>4. acc >= Needed(amt, f)
  OBVIOUS
<1> HIDE DEF f, g
<1>5. CASE Remainder(acc, amt, f) <= 0 \/ Remainder(acc, amt, g) < 0
  BY <1>2, <1>4, <1>5
<1>6. CASE ~(Remainder(acc, amt, f) <= 0 \/ Remainder(acc, amt, g) < 0)
  <2>1. Remainder(acc, amt, f) > 0 /\ Remainder(acc, amt, g) >= 0
    <3>1. acc \in Ints /\ amt \in 1 .. MaxInt
      BY MaxIntAssumption DEF Ints
    <3>2. Remainder(acc, amt, f) \in Int /\ Remainder(acc, amt, g) \in Int
      BY <1>1, <3>1, RemainderType
    <3> QED
      BY <1>6, <3>2
  <2> QED
    BY <1>2, <1>3, <1>4, <1>6, <2>1
<1> QED
  BY <1>5, <1>6
-----------------------------------------------------------------------------
(* The prefix of k inputs covers the amount and its own fee, as int has it. *)
CoversAt(p, amount, rate, k) ==
  ValueOf(SubSeq(p, 1, k)) >= Needed(amount, SizeOf(SubSeq(p, 1, k)) * rate)

(* The pool is passed over up to its k-th UTXO. *)
PassedBy(p, amount, rate, k) ==
  \A j \in 1 .. k - 1 : p[j].validTxId /\ ~CoversAt(p, amount, rate, j)

(* The function where its pool is exhausted. *)
LEMMA SelectNothing ==
  ASSUME NEW S, NEW p \in Seq(S), NEW amount, NEW rate, PassedBy(p, amount, rate, Len(p) + 1)
  PROVE  selectInputs(p, amount, rate) =
           [err |-> "insufficient", result |-> [inputs |-> <<>>, fee |-> 0, change |-> 0]]
<1>1. \A k \in DOMAIN p : p[k].validTxId /\ ~CoversAt(p, amount, rate, k)
  BY DEF PassedBy
<1> QED
  BY <1>1 DEF selectInputs, CoversAt

(* The function at the first UTXO that stops it, by what it is worth or by its id. *)
LEMMA SelectAt ==
  ASSUME NEW S, NEW p \in Seq(S), NEW amount, NEW rate, NEW k \in 1 .. Len(p),
         PassedBy(p, amount, rate, k), ~p[k].validTxId \/ CoversAt(p, amount, rate, k)
  PROVE  selectInputs(p, amount, rate) =
           LET q == SubSeq(p, 1, k)
               s == Settle(ValueOf(q), amount, SizeOf(q), rate)
           IN  IF ~p[k].validTxId
               THEN [err |-> "badTxId", result |-> [inputs |-> <<>>, fee |-> 0, change |-> 0]]
               ELSE [err |-> "nil",
                     result |-> [inputs |-> q, fee |-> s.fee, change |-> s.change]]
<1> DEFINE stops == {j \in DOMAIN p : CoversAt(p, amount, rate, j)}
                      \cup {j \in DOMAIN p : ~p[j].validTxId}
<1>1. k \in stops /\ stops \subseteq 1 .. Len(p)
  OBVIOUS
<1>2. \A j \in stops : k <= j
  BY DEF PassedBy
<1>3. Min(stops) = k
  <2> HIDE DEF stops
  <2>1. \A j \in stops : (\A i \in stops : j <= i) => j = k
    BY <1>1, <1>2
  <2> QED
    BY <1>1, <1>2, <2>1 DEF Min
<1>4. selectInputs(p, amount, rate) =
        IF stops = {}
        THEN [err |-> "insufficient", result |-> [inputs |-> <<>>, fee |-> 0, change |-> 0]]
        ELSE LET m == Min(stops)
                 s == Settle(ValueOf(SubSeq(p, 1, m)), amount, SizeOf(SubSeq(p, 1, m)), rate)
             IN  IF ~p[m].validTxId
                 THEN [err |-> "badTxId", result |-> [inputs |-> <<>>, fee |-> 0, change |-> 0]]
                 ELSE [err |-> "nil",
                       result |-> [inputs |-> SubSeq(p, 1, m), fee |-> s.fee, change |-> s.change]]
  BY DEF selectInputs, CoversAt
<1> HIDE DEF stops
<1> QED
  BY <1>1, <1>3, <1>4

(* Nothing else can happen. *)
LEMMA SelectCases ==
  ASSUME NEW S, NEW p \in Seq(S), NEW amount, NEW rate
  PROVE  \/ PassedBy(p, amount, rate, Len(p) + 1)
         \/ \E k \in 1 .. Len(p) :
              /\ PassedBy(p, amount, rate, k)
              /\ ~p[k].validTxId \/ CoversAt(p, amount, rate, k)
<1> DEFINE stops == {j \in 1 .. Len(p) : ~p[j].validTxId \/ CoversAt(p, amount, rate, j)}
<1>1. CASE stops = {}
  BY <1>1 DEF PassedBy
<1>2. CASE stops # {}
  <2>1. PICK k \in stops : \A j \in stops : k <= j
    <3>1. stops \in SUBSET Nat
      OBVIOUS
    <3> HIDE DEF stops
    <3> QED
      BY <1>2, <3>1, LeastMember
  <2>2. PassedBy(p, amount, rate, k)
    BY <2>1 DEF PassedBy
  <2> QED
    BY <2>1, <2>2
<1> QED
  BY <1>1, <1>2

(***************************************************************************)
(* Where amount and the largest fee fit an int together, what passes a     *)
(* pool by is short of the amount and its own fee as integers.             *)
(***************************************************************************)
LEMMA PassedByShort ==
  ASSUME NEW S, Valued(S), NEW p \in Seq(S), NEW amt \in 1 .. MaxInt, NEW r \in Nat,
         NEW n \in Nat, Len(p) <= n,
         amt + (currentSize(n, 0) + changeOutputSize) * r <= MaxInt,
         NEW m \in 0 .. Len(p), PassedBy(p, amt, r, m + 1)
  PROVE  Short(p, amt, r, m)
<1> SUFFICES ASSUME NEW k \in 1 .. m
             PROVE  ValueOf(SubSeq(p, 1, k)) < amt + SizeOf(SubSeq(p, 1, k)) * r
  BY DEF Short
<1> DEFINE q == SubSeq(p, 1, k)
           g == CountSegwit(q)
           l == k - g
           most == (currentSize(n, 0) + changeOutputSize) * r
<1>1. k \in 0 .. Len(p) /\ k \in 1 .. (m + 1) - 1 /\ amt \in Nat /\ Len(p) \in Nat
  OBVIOUS
<1>2. Len(q) = k /\ g \in 0 .. k /\ ValueOf(q) \in Nat
  BY <1>1, PrefixMeasures
<1>3. l \in Nat /\ g \in Nat /\ l + g <= n /\ SizeOf(q) = currentSize(l, g)
  <2> HIDE DEF q
  <2> QED
    BY <1>1, <1>2 DEF SizeOf
<1> HIDE DEF l, g, q
<1>4. currentSize(l, g) * r <= most /\ currentSize(l, g) * r \in Nat /\ most \in Nat
  BY <1>3, SizeBound
<1>5. SizeOf(q) * r <= most /\ SizeOf(q) * r \in Nat /\ amt + most <= MaxInt
  BY <1>3, <1>4
<1> HIDE DEF most
<1>6. amt + SizeOf(q) * r \in Ints
  BY <1>1, <1>4, <1>5, MaxIntAssumption DEF Ints
<1>7. Needed(amt, SizeOf(q) * r) = amt + SizeOf(q) * r
  BY <1>6, WrapInRange DEF Needed
<1>8. ~(ValueOf(q) >= Needed(amt, SizeOf(q) * r))
  BY <1>1 DEF PassedBy, CoversAt, q
<1> QED
  BY <1>1, <1>2, <1>5, <1>7, <1>8 DEF q

(***************************************************************************)
(* The inputs selected in range: what they leave after amount and change   *)
(* is the fee of the transaction built, up to a change output dropped, and *)
(* the change is no larger than the last of them.                          *)
(***************************************************************************)
LEMMA SelectionPays ==
  ASSUME NEW S, Valued(S), NEW p \in Seq(S), NEW amt \in 1 .. MaxInt, NEW r \in Nat,
         NEW n \in Nat, Len(p) <= n,
         NEW k \in 1 .. Len(p),
         amt + (currentSize(n, 0) + changeOutputSize) * r + p[k].value <= MaxInt,
         PassedBy(p, amt, r, k), CoversAt(p, amt, r, k)
  PROVE  LET q  == SubSeq(p, 1, k)
             st == Settle(ValueOf(q), amt, SizeOf(q), r)
             pays == ValueOf(q) - amt - st.change
         IN  /\ ValueOf(q) \in Nat /\ SizeOf(q) \in Nat /\ SizeOf(q) > 0
             /\ st.change \in Nat /\ st.change <= p[k].value
             /\ st.change > 0 => pays = (SizeOf(q) + changeOutputSize) * r
             /\ st.change = 0 => /\ pays >= SizeOf(q) * r
                                 /\ pays - SizeOf(q) * r <= changeOutputSize * r
<1> DEFINE h == k - 1
           q == SubSeq(p, 1, k)
           o == SubSeq(p, 1, h)
           v == p[k].value
           st == Settle(ValueOf(q), amt, SizeOf(q), r)
           most == (currentSize(n, 0) + changeOutputSize) * r
<1>1. /\ h \in Nat /\ h + 1 = k /\ k \in Nat /\ k <= n /\ v \in Nat /\ amt \in Nat /\ amt > 0
      /\ h \in 0 .. Len(p) /\ k \in 0 .. Len(p) /\ h + 1 <= Len(p)
  BY DEF Valued
<1> HIDE DEF h
<1>2. ValueOf(q) = ValueOf(o) + v /\ CountSegwit(q) = CountSegwit(o) + (IF isSegwitUTXO(p[k]) THEN 1 ELSE 0)
  BY <1>1, PrefixStep
<1>3. /\ Len(q) = k /\ CountSegwit(q) \in 0 .. k /\ ValueOf(q) \in Nat
      /\ Len(o) = h /\ CountSegwit(o) \in 0 .. h /\ ValueOf(o) \in Nat
  BY <1>1, PrefixMeasures
<1> HIDE DEF q, o, v
<1>4. /\ SizeOf(q) \in Nat /\ SizeOf(q) > 0 /\ SizeOf(q) * r \in Nat
      /\ (SizeOf(q) + changeOutputSize) * r = SizeOf(q) * r + changeOutputSize * r
      /\ (SizeOf(q) + changeOutputSize) * r <= most
      /\ (SizeOf(q) + changeOutputSize) * r \in Nat
      /\ most \in Nat
  <2> DEFINE g == CountSegwit(q)
             l == k - g
  <2>1. g \in Nat /\ l \in Nat /\ l + g <= n /\ SizeOf(q) = currentSize(l, g)
    BY <1>1, <1>3 DEF SizeOf
  <2> HIDE DEF g, l
  <2>2. currentSize(l, g) \in Nat /\ currentSize(l, g) > 0
    BY <2>1, SizeType
  <2>3. /\ currentSize(l, g) * r \in Nat
        /\ (currentSize(l, g) + changeOutputSize) * r = currentSize(l, g) * r + changeOutputSize * r
        /\ (currentSize(l, g) + changeOutputSize) * r <= most
        /\ (currentSize(l, g) + changeOutputSize) * r \in Nat
        /\ most \in Nat
    BY <2>1, SizeBound
  <2> QED
    BY <2>1, <2>2, <2>3
<1>5. SizeOf(o) <= SizeOf(q) /\ SizeOf(o) \in Nat
  <2> DEFINE a == CountSegwit(o)
             b == CountSegwit(q)
             e == IF isSegwitUTXO(p[k]) THEN 1 ELSE 0
  <2>1. a \in 0 .. h /\ b = a + e /\ e \in {0, 1}
    BY <1>2, <1>3
  <2>2. SizeOf(o) = currentSize(h - a, a) /\ SizeOf(q) = currentSize(k - b, b)
    BY <1>3 DEF SizeOf
  <2> HIDE DEF a, b, e
  <2>3. CASE e = 0
    BY <1>1, <2>1, <2>2, <2>3 DEF currentSize, baseSize, legacyInputSize, segwitInputSize
  <2>4. CASE e = 1
    BY <1>1, <2>1, <2>2, <2>4 DEF currentSize, baseSize, legacyInputSize, segwitInputSize
  <2> QED
    BY <2>1, <2>3, <2>4
<1>6. SizeOf(o) * r <= SizeOf(q) * r /\ SizeOf(o) * r \in Nat
  BY <1>4, <1>5, CostMonotone
<1> DEFINE fo == SizeOf(o) * r
           f == SizeOf(q) * r
           d == changeOutputSize * r
<1>7. fo \in Nat /\ f \in Nat /\ d \in Nat /\ fo <= f /\ f + d <= most /\ most \in Nat
      /\ amt + most + v <= MaxInt
  BY <1>4, <1>6 DEF changeOutputSize, v
<1>8. ValueOf(o) < amt + f
  <2>1. CASE h = 0
    <3>1. ValueOf(o) = 0
      <4>1. 0 \in 0 .. Len(p) /\ 1 .. 0 = {}
        OBVIOUS
      <4>2. ValueOf(SubSeq(p, 1, 0)) = SumOver(ValuesOf(p), 1 .. 0)
        BY <4>1, PrefixMeasures
      <4> QED
        BY <2>1, <4>1, <4>2, SumEmpty DEF o
    <3> HIDE DEF f
    <3> QED
      BY <1>1, <1>7, <3>1
  <2>2. CASE h # 0
    <3>1. PassedBy(p, amt, r, h + 1) /\ h \in 0 .. Len(p) /\ h \in 1 .. h
      BY <1>1, <2>2
    <3>2. amt + most <= MaxInt
      <4> HIDE DEF most, f, fo, d
      <4> QED
        BY <1>1, <1>7, MaxIntAssumption
    <3>3. Short(p, amt, r, h)
      BY <3>1, <3>2, PassedByShort
    <3>4. ValueOf(o) < amt + fo
      BY <3>1, <3>3 DEF Short, o
    <3> HIDE DEF f, fo, d, most
    <3>5. fo \in Nat /\ f \in Nat /\ fo <= f /\ amt \in Nat /\ ValueOf(o) \in Nat
      BY <1>1, <1>3, <1>7
    <3> QED
      BY ONLY <3>4, <3>5
  <2> QED
    BY <2>1, <2>2
<1>9. ValueOf(q) \in Ints /\ amt + (f + d) <= MaxInt
  <2> HIDE DEF f, fo, d, most
  <2>1. /\ ValueOf(q) = ValueOf(o) + v /\ ValueOf(q) \in Nat /\ ValueOf(o) \in Nat
        /\ v \in Nat /\ amt \in Nat /\ MaxInt \in Nat /\ f \in Nat /\ d \in Nat
    BY <1>1, <1>2, <1>3, <1>7, MaxIntAssumption
  <2>2. most \in Nat /\ f + d <= most /\ amt + most + v <= MaxInt
    BY <1>7
  <2>3. ValueOf(q) <= MaxInt /\ amt + (f + d) <= MaxInt
    BY ONLY <1>8, <2>1, <2>2
  <2> QED
    BY <2>1, <2>3 DEF Ints
<1>10. ValueOf(q) >= Needed(amt, f)
  BY DEF CoversAt, q
<1>11. /\ st.change \in Nat
       /\ st.change > 0 => ValueOf(q) - amt - st.change = (SizeOf(q) + changeOutputSize) * r
       /\ st.change = 0 => /\ ValueOf(q) - amt - st.change >= f
                           /\ ValueOf(q) - amt - st.change - f <= d
  <2>1. amt + (SizeOf(q) + changeOutputSize) * r <= MaxInt
    BY <1>4, <1>9
  <2> QED
    BY <1>4, <1>9, <1>10, <2>1, SettleCorrect
<1>12. st.change <= v
  <2> DEFINE c == st.change
  <2>1. c \in Nat /\ (c > 0 => ValueOf(q) - amt - c = f + d)
    BY <1>4, <1>11
  <2> HIDE DEF c, f, fo, d, most
  <2>2. \A q0, o0 \in Nat : (q0 = o0 + v /\ o0 < amt + f /\ (c > 0 => q0 - amt - c = f + d)) => c <= v
    BY <1>1, <1>7, <2>1
  <2>3. c <= v
    <3>1. ValueOf(q) = ValueOf(o) + v
      BY <1>2
    <3> QED
      BY <1>3, <1>8, <2>1, <2>2, <3>1
  <2> QED
    BY <2>3 DEF c
<1> QED
  BY <1>3, <1>4, <1>11, <1>12 DEF q, v

(* A pool no prefix of which suffices does not suffice as a whole. *)
LEMMA WholeShort ==
  ASSUME NEW S, Valued(S), NEW p \in Seq(S), NEW amt \in Nat, amt > 0, NEW r \in Nat,
         Short(p, amt, r, Len(p))
  PROVE  SumOver(ValuesOf(p), DOMAIN p) < amt + CostOf(p, DOMAIN p, r)
<1> DEFINE n == Len(p)
           D == 1 .. n
           g == Cardinality({i \in D : isSegwitUTXO(p[i])})
           l == Cardinality({i \in D : ~isSegwitUTXO(p[i])})
<1>1. n \in Nat /\ DOMAIN p = D /\ IsFiniteSet(D)
  BY Positions
<1>2. CASE n = 0
  <2>1. SumOver(ValuesOf(p), D) = 0
    BY <1>2, SumEmpty
  <2>2. CostOf(p, D, r) \in Nat
    BY <1>1, CostType
  <2> QED
    BY <1>1, <2>1, <2>2
<1>3. CASE n # 0
  <2>1. n \in 0 .. Len(p) /\ n \in 1 .. n
    BY <1>1, <1>3
  <2>2. ValueOf(SubSeq(p, 1, n)) < amt + SizeOf(SubSeq(p, 1, n)) * r
    BY <2>1 DEF Short
  <2>3. SubSeq(p, 1, n) = p /\ ValueOf(p) = SumOver(ValuesOf(p), D) /\ ValueOf(p) \in Nat
    BY WholeMeasures
  <2>4. CountSegwit(p) = g /\ g \in 0 .. n
    BY <1>1, WholeMeasures DEF CountSegwit
  <2>5. l = n - g
    <3> DEFINE T == {i \in D : isSegwitUTXO(p[i])}
    <3>1. IsFiniteSet(D) /\ Cardinality(D) = n /\ T \in SUBSET D
          /\ {i \in D : ~isSegwitUTXO(p[i])} = D \ T /\ D \cap T = T
      BY <1>1, Positions
    <3> HIDE DEF D, T
    <3>2. Cardinality(D \ T) = Cardinality(D) - Cardinality(D \cap T)
      BY <3>1, FS_Difference
    <3> QED
      BY <3>1, <3>2 DEF T
  <2> HIDE DEF n, D
  <2>6. CostOf(p, D, r) = r * currentSize(l, g)
    BY DEF CostOf
  <2> HIDE DEF g, l
  <2>7. SizeOf(p) = currentSize(l, g)
    <3>1. Len(p) = n
      BY DEF n
    <3>2. SizeOf(p) = currentSize(n - CountSegwit(p), CountSegwit(p))
      BY <3>1 DEF SizeOf
    <3> QED
      BY <2>4, <2>5, <3>2
  <2>8. currentSize(l, g) \in Nat
    <3>1. \A a, b \in Nat : b \in 0 .. a => a - b \in Nat /\ b \in Nat
      OBVIOUS
    <3>2. l \in Nat /\ g \in Nat
      BY <1>1, <2>4, <2>5, <3>1
    <3> QED
      BY <3>2, SizeType
  <2>9. r * currentSize(l, g) = currentSize(l, g) * r /\ r * currentSize(l, g) \in Nat
    BY <2>8
  <2>10. ValueOf(p) < amt + SizeOf(p) * r
    BY <2>2, <2>3
  <2> QED
    BY <1>1, <2>3, <2>6, <2>7, <2>9, <2>10
<1> QED
  BY <1>2, <1>3
=============================================================================

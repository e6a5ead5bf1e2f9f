----------------------------- MODULE SumLemmas -----------------------------
(***************************************************************************)
(* Facts about the naturals and about sums over finite sets that several   *)
(* of the proofs need.                                                     *)
(***************************************************************************)
EXTENDS Integers, Functions, WellFoundedInduction, FiniteSetTheorems, TLAPS

-----------------------------------------------------------------------------
(* Induction *)

\* A set of naturals with an element has a least one.
LEMMA Least ==
    ASSUME NEW S \in SUBSET Nat, S # {}
    PROVE  \E x \in S : \A y \in S : x <= y
<1>1. IsWellFoundedOn(OpToRel(<, Nat), Nat)
  BY NatLessThanWellFounded
<1>2. PICK x \in S : \A y \in S : ~ (<<y, x>> \in OpToRel(<, Nat))
  BY <1>1, WFMin
<1>3. ASSUME NEW y \in S PROVE x <= y
  <2>1. ~(y < x)
    BY <1>2 DEF OpToRel
  <2> QED BY <2>1
<1> QED BY <1>2, <1>3

\* Induction over the naturals, for a set of naturals.
LEMMA SetInduction ==
    ASSUME NEW S, 0 \in S, \A n \in Nat : n \in S => n + 1 \in S
    PROVE  \A n \in Nat : n \in S
<1> DEFINE T == Nat \ S
<1>1. SUFFICES ASSUME T # {} PROVE FALSE
  OBVIOUS
<1>2. PICK x \in T : \A y \in T : x <= y
  BY <1>1, Least
<1>3. x # 0 /\ x \in Nat
  OBVIOUS
<1>4. x - 1 \in Nat /\ x - 1 + 1 = x /\ x - 1 \in T
  <2>1. x - 1 \in Nat /\ x - 1 + 1 = x
    BY <1>3
  <2> QED BY <2>1
<1> QED BY <1>2, <1>3, <1>4

-----------------------------------------------------------------------------
(* Sums *)

\* The element of a set that a fold takes first.
Some(s) == CHOOSE x \in s : TRUE

\* One unfolding of the function that a sum over S is defined by.
Unfold(f, S, sum) ==
    [s \in SUBSET S |-> IF s = {} THEN 0 ELSE f[Some(s)] + sum[s \ {Some(s)}]]

SumOf(f, S) == FoldFunctionOnSet(+, 0, f, S)
Sums(f, S) == CHOOSE sum : sum = Unfold(f, S, sum)

\* The fold of the community modules in these terms.
LEMMA SumIsFold == ASSUME NEW f, NEW S PROVE SumOf(f, S) = Sums(f, S)[S]
  BY DEF SumOf, Sums, Unfold, Some, FoldFunctionOnSet, MapThenFoldSet

\* A subset of a finite set without one of its elements is smaller.
LEMMA OneLess ==
    ASSUME NEW S, IsFiniteSet(S), NEW s \in SUBSET S, s # {}
    PROVE  /\ Some(s) \in s
           /\ \A x \in s : /\ s \ {x} \in SUBSET S
                           /\ Cardinality(s \ {x}) = Cardinality(s) - 1
           /\ Cardinality(s) \in Nat \ {0}
<1>1. IsFiniteSet(s)
  BY FS_Subset
<1>2. Cardinality(s) \in Nat /\ Cardinality(s) # 0
  BY <1>1, FS_CardinalityType, FS_EmptySet
<1>3. Some(s) \in s
  BY DEF Some
<1>4. \A x \in s : Cardinality(s \ {x}) = Cardinality(s) - 1
  BY <1>1, FS_RemoveElement
<1> QED BY <1>2, <1>3, <1>4

\* The recursion of a sum over a finite set has a solution.
LEMMA SumsExist ==
    ASSUME NEW f, NEW S, IsFiniteSet(S)
    PROVE  Sums(f, S) = Unfold(f, S, Sums(f, S))
<1> DEFINE Upto(n) == {s \in SUBSET S : Cardinality(s) <= n}
           Part(n, g) == g = [s \in Upto(n) |->
                                 IF s = {} THEN 0 ELSE f[Some(s)] + g[s \ {Some(s)}]]
           Solved == {n \in Nat : \E g : Part(n, g)}
<1>1. 0 \in Solved
  <2>1. \A s \in Upto(0) : s = {}
    BY OneLess
  <2>2. Part(0, [s \in Upto(0) |-> 0])
    BY <2>1
  <2> QED BY <2>2
<1>2. ASSUME NEW n \in Nat, n \in Solved PROVE n + 1 \in Solved
  <2>1. PICK g : Part(n, g)
    BY <1>2
  <2> DEFINE h == [s \in Upto(n + 1) |->
                      IF s = {} THEN 0 ELSE f[Some(s)] + g[s \ {Some(s)}]]
  <2>2. ASSUME NEW s \in Upto(n + 1), s # {}
        PROVE  h[s \ {Some(s)}] = g[s \ {Some(s)}]
    <3> DEFINE r == s \ {Some(s)}
    <3>1. r \in SUBSET S /\ Cardinality(r) = Cardinality(s) - 1
          /\ Cardinality(s) \in Nat
      BY <2>2, OneLess
    <3>2. r \in Upto(n) /\ r \in Upto(n + 1)
      BY <3>1
    <3>3. g[r] = IF r = {} THEN 0 ELSE f[Some(r)] + g[r \ {Some(r)}]
      BY <2>1, <3>2
    <3> QED BY <3>2, <3>3
  <2>3. Part(n + 1, h)
    BY <2>2
  <2> HIDE DEF h, Part
  <2> QED BY <2>3
<1>3. Cardinality(S) \in Solved
  <2>1. Cardinality(S) \in Nat
    BY FS_CardinalityType
  <2> HIDE DEF Solved
  <2> QED BY <1>1, <1>2, <2>1, SetInduction
<1>4. Upto(Cardinality(S)) = SUBSET S
  BY FS_Subset
<1>5. PICK g : g = Unfold(f, S, g)
  BY <1>3, <1>4 DEF Unfold
<1> QED BY <1>5 DEF Sums

\* Sums over a set contain those over its subsets.
LEMMA SumsAgree ==
    ASSUME NEW f, NEW S, IsFiniteSet(S), NEW T \in SUBSET S
    PROVE  \A s \in SUBSET T : Sums(f, S)[s] = Sums(f, T)[s]
<1> DEFINE Agree == {n \in Nat : \A s \in SUBSET T :
                        Cardinality(s) <= n => Sums(f, S)[s] = Sums(f, T)[s]}
<1>1. IsFiniteSet(T)
  BY FS_Subset
<1>2. /\ Sums(f, S) = Unfold(f, S, Sums(f, S))
      /\ Sums(f, T) = Unfold(f, T, Sums(f, T))
  BY <1>1, SumsExist
<1>3. ASSUME NEW s \in SUBSET T
      PROVE  /\ Sums(f, S)[s] = IF s = {} THEN 0
                                ELSE f[Some(s)] + Sums(f, S)[s \ {Some(s)}]
             /\ Sums(f, T)[s] = IF s = {} THEN 0
                                ELSE f[Some(s)] + Sums(f, T)[s \ {Some(s)}]
  BY <1>2 DEF Unfold
<1>4. 0 \in Agree
  <2>1. \A s \in SUBSET T : Cardinality(s) <= 0 => s = {}
    BY <1>1, OneLess
  <2> QED BY <1>3, <2>1
<1>5. ASSUME NEW n \in Nat, n \in Agree PROVE n + 1 \in Agree
  <2>1. ASSUME NEW s \in SUBSET T, Cardinality(s) <= n + 1, s # {}
        PROVE  Sums(f, S)[s] = Sums(f, T)[s]
    <3>1. /\ s \ {Some(s)} \in SUBSET T
          /\ Cardinality(s \ {Some(s)}) = Cardinality(s) - 1
          /\ Cardinality(s) \in Nat
      BY <1>1, <2>1, OneLess
    <3>2. Cardinality(s \ {Some(s)}) <= n
      BY <2>1, <3>1
    <3>3. Sums(f, S)[s \ {Some(s)}] = Sums(f, T)[s \ {Some(s)}]
      BY <1>5, <3>1, <3>2
    <3> QED BY <1>3, <3>3
  <2>2. \A s \in SUBSET T : s = {} => Sums(f, S)[s] = Sums(f, T)[s]
    BY <1>3
  <2> QED BY <2>1, <2>2
<1>6. \A n \in Nat : n \in Agree
  <2> HIDE DEF Agree
  <2> QED BY <1>4, <1>5, SetInduction
<1>7. \A s \in SUBSET T : Cardinality(s) \in Nat
  BY <1>1, FS_Subset, FS_CardinalityType
<1> QED BY <1>6, <1>7

\* A sum is the element taken first and the sum of the others.
LEMMA SumFirst ==
    ASSUME NEW f, NEW S, IsFiniteSet(S)
    PROVE  /\ S = {} => SumOf(f, S) = 0
           /\ S # {} => SumOf(f, S) = f[Some(S)] + SumOf(f, S \ {Some(S)})
<1>1. Sums(f, S)[S] = IF S = {} THEN 0
                      ELSE f[Some(S)] + Sums(f, S)[S \ {Some(S)}]
  <2>1. PICK g : g = Sums(f, S)
    OBVIOUS
  <2>2. g = Unfold(f, S, g)
    BY <2>1, SumsExist
  <2>3. g[S] = Unfold(f, S, g)[S]
    BY <2>2
  <2>4. Unfold(f, S, g)[S] = IF S = {} THEN 0 ELSE f[Some(S)] + g[S \ {Some(S)}]
    BY DEF Unfold
  <2> QED BY <2>1, <2>3, <2>4
<1>2. Sums(f, S)[S \ {Some(S)}] = Sums(f, S \ {Some(S)})[S \ {Some(S)}]
  BY SumsAgree
<1>3. SumOf(f, S) = Sums(f, S)[S]
  BY SumIsFold
<1>4. SumOf(f, S \ {Some(S)}) = Sums(f, S \ {Some(S)})[S \ {Some(S)}]
  BY SumIsFold
<1> QED BY <1>1, <1>2, <1>3, <1>4

\* A sum of naturals is a natural.
LEMMA SumType ==
    ASSUME NEW f, NEW S, IsFiniteSet(S), \A x \in S : f[x] \in Nat
    PROVE  SumOf(f, S) \in Nat
<1> DEFINE Typed == {n \in Nat : \A s \in SUBSET S :
                        Cardinality(s) <= n => SumOf(f, s) \in Nat}
<1>1. ASSUME NEW s \in SUBSET S
      PROVE  /\ s = {} => SumOf(f, s) \in Nat
             /\ s # {} => SumOf(f, s) = f[Some(s)] + SumOf(f, s \ {Some(s)})
  <2>1. IsFiniteSet(s)
    BY FS_Subset
  <2>2. /\ s = {} => SumOf(f, s) = 0
        /\ s # {} => SumOf(f, s) = f[Some(s)] + SumOf(f, s \ {Some(s)})
    BY <2>1, SumFirst
  <2> QED BY <2>2
<1>2. 0 \in Typed
  <2>1. \A s \in SUBSET S : Cardinality(s) <= 0 => s = {}
    BY OneLess
  <2> QED BY <1>1, <2>1
<1>3. ASSUME NEW n \in Nat, n \in Typed PROVE n + 1 \in Typed
  <2>1. ASSUME NEW s \in SUBSET S, Cardinality(s) <= n + 1
        PROVE  SumOf(f, s) \in Nat
    <3>1. CASE s = {}
      BY <1>1, <3>1
    <3>2. CASE s # {}
      <4>1. /\ Some(s) \in s /\ s \ {Some(s)} \in SUBSET S
            /\ Cardinality(s \ {Some(s)}) = Cardinality(s) - 1
            /\ Cardinality(s) \in Nat
        BY <3>2, OneLess
      <4>2. Cardinality(s \ {Some(s)}) <= n
        BY <2>1, <4>1
      <4>3. SumOf(f, s \ {Some(s)}) \in Nat /\ f[Some(s)] \in Nat
        BY <1>3, <4>1, <4>2
      <4> QED BY <1>1, <3>2, <4>3
    <3> QED BY <3>1, <3>2
  <2> QED BY <2>1
<1>4. Cardinality(S) \in Nat
  BY FS_CardinalityType
<1>5. \A n \in Nat : n \in Typed
  <2> HIDE DEF Typed
  <2> QED BY <1>2, <1>3, SetInduction
<1> QED BY <1>4, <1>5

\* Any element may be taken first.
LEMMA SumAny ==
    ASSUME NEW f, NEW S, IsFiniteSet(S), \A x \in S : f[x] \in Nat
    PROVE  \A x \in S : SumOf(f, S) = f[x] + SumOf(f, S \ {x})
<1> DEFINE Free == {n \in Nat : \A s \in SUBSET S : Cardinality(s) <= n =>
                       \A x \in s : SumOf(f, s) = f[x] + SumOf(f, s \ {x})}
<1>1. ASSUME NEW s \in SUBSET S PROVE IsFiniteSet(s) /\ SumOf(f, s) \in Nat
  <2>1. IsFiniteSet(s)
    BY FS_Subset
  <2> QED BY <2>1, SumType
<1>2. 0 \in Free
  <2>1. \A s \in SUBSET S : Cardinality(s) <= 0 => s = {}
    BY OneLess
  <2> QED BY <2>1
<1>3. ASSUME NEW n \in Nat, n \in Free PROVE n + 1 \in Free
  <2>1. ASSUME NEW s \in SUBSET S, Cardinality(s) <= n + 1, NEW x \in s
        PROVE  SumOf(f, s) = f[x] + SumOf(f, s \ {x})
    <3> DEFINE y == Some(s)
    <3>1. /\ y \in s /\ s \ {y} \in SUBSET S /\ s \ {x} \in SUBSET S
          /\ Cardinality(s \ {y}) = Cardinality(s) - 1
          /\ Cardinality(s \ {x}) = Cardinality(s) - 1
          /\ Cardinality(s) \in Nat
      BY <2>1, OneLess
    <3> HIDE DEF y
    <3>2. Cardinality(s \ {y}) <= n /\ Cardinality(s \ {x}) <= n
      BY <2>1, <3>1
    <3>3. SumOf(f, s) = f[y] + SumOf(f, s \ {y})
      BY <1>1, <2>1, SumFirst DEF y
    <3>4. CASE x # y
      <4>1. SumOf(f, s \ {y}) = f[x] + SumOf(f, (s \ {y}) \ {x})
        BY <1>3, <2>1, <3>1, <3>2, <3>4
      <4>2. SumOf(f, s \ {x}) = f[y] + SumOf(f, (s \ {x}) \ {y})
        BY <1>3, <2>1, <3>1, <3>2, <3>4
      <4>3. (s \ {y}) \ {x} = (s \ {x}) \ {y} /\ (s \ {x}) \ {y} \in SUBSET S
        BY <2>1
      <4>4. SumOf(f, (s \ {x}) \ {y}) \in Nat /\ f[x] \in Nat /\ f[y] \in Nat
        BY <1>1, <2>1, <3>1, <4>3
      <4> QED BY <3>3, <4>1, <4>2, <4>3, <4>4
    <3> QED BY <3>3, <3>4
  <2> QED BY <2>1
<1>4. Cardinality(S) \in Nat
  BY FS_CardinalityType
<1>5. \A n \in Nat : n \in Free
  <2> HIDE DEF Free
  <2> QED BY <1>2, <1>3, SetInduction
<1> QED BY <1>4, <1>5

\* One element and the others.
LEMMA SumTake ==
    ASSUME NEW f, NEW S, IsFiniteSet(S), \A y \in S : f[y] \in Nat, NEW x \in S
    PROVE  SumOf(f, S) = f[x] + SumOf(f, S \ {x}) /\ SumOf(f, S \ {x}) \in Nat
<1>1. SumOf(f, S) = f[x] + SumOf(f, S \ {x})
  BY SumAny
<1>2. PICK T : T = S \ {x}
  OBVIOUS
<1>3. IsFiniteSet(T) /\ \A y \in T : f[y] \in Nat
  BY <1>2, FS_Subset
<1> QED BY <1>1, <1>2, <1>3, SumType

\* A sum depends on the values at its indices only.
LEMMA SumSame ==
    ASSUME NEW f, NEW g, NEW S, \A x \in S : f[x] = g[x]
    PROVE  SumOf(f, S) = SumOf(g, S)
<1>1. ASSUME NEW sum PROVE Unfold(f, S, sum) = Unfold(g, S, sum)
  BY DEF Unfold, Some
<1>2. Sums(f, S) = Sums(g, S)
  BY <1>1 DEF Sums
<1> QED BY <1>2, SumIsFold

\* The sum over two sets with nothing in common.
LEMMA SumUnion ==
    ASSUME NEW f, NEW S, NEW T, IsFiniteSet(S), IsFiniteSet(T), S \cap T = {},
           \A x \in S \cup T : f[x] \in Nat
    PROVE  SumOf(f, S \cup T) = SumOf(f, S) + SumOf(f, T)
<1> DEFINE Split == {n \in Nat : \A s \in SUBSET S : Cardinality(s) <= n =>
                        SumOf(f, s \cup T) = SumOf(f, s) + SumOf(f, T)}
<1>1. SumOf(f, T) \in Nat /\ SumOf(f, {}) = 0
  BY SumType, SumFirst, FS_EmptySet
<1>2. ASSUME NEW s \in SUBSET S
      PROVE  IsFiniteSet(s) /\ IsFiniteSet(s \cup T) /\ SumOf(f, s) \in Nat
  <2>1. IsFiniteSet(s)
    BY FS_Subset
  <2>2. IsFiniteSet(s \cup T)
    BY <2>1, FS_Union
  <2> QED BY <2>1, <2>2, SumType
<1>3. 0 \in Split
  <2>1. \A s \in SUBSET S : Cardinality(s) <= 0 => s = {}
    BY OneLess
  <2>2. SumOf(f, {} \cup T) = SumOf(f, {}) + SumOf(f, T)
    <3>1. {} \cup T = T
      OBVIOUS
    <3> QED BY <1>1, <3>1
  <2> QED BY <2>1, <2>2
<1>4. ASSUME NEW n \in Nat, n \in Split PROVE n + 1 \in Split
  <2>1. ASSUME NEW s \in SUBSET S, Cardinality(s) <= n + 1, s # {}
        PROVE  SumOf(f, s \cup T) = SumOf(f, s) + SumOf(f, T)
    <3>1. PICK x : x = Some(s)
      OBVIOUS
    <3>2. /\ x \in s /\ s \ {x} \in SUBSET S
          /\ Cardinality(s \ {x}) = Cardinality(s) - 1
          /\ Cardinality(s) \in Nat
      BY <2>1, <3>1, OneLess
    <3>3. SumOf(f, (s \ {x}) \cup T) = SumOf(f, s \ {x}) + SumOf(f, T)
      BY <1>4, <2>1, <3>2
    <3>4. SumOf(f, s) = f[x] + SumOf(f, s \ {x})
      <4>1. x \in s /\ IsFiniteSet(s) /\ \A y \in s : f[y] \in Nat
        BY <1>2, <3>2
      <4> QED BY <4>1, SumAny
    <3>5. SumOf(f, s \cup T) = f[x] + SumOf(f, (s \cup T) \ {x})
      <4>1. PICK U : U = s \cup T
        OBVIOUS
      <4>2. x \in U /\ IsFiniteSet(U) /\ \A y \in U : f[y] \in Nat
        BY <1>2, <3>2, <4>1
      <4>3. SumOf(f, U) = f[x] + SumOf(f, U \ {x})
        BY <4>2, SumAny
      <4> QED BY <4>1, <4>3
    <3>6. (s \cup T) \ {x} = (s \ {x}) \cup T
      BY <3>2
    <3>7. f[x] \in Nat /\ SumOf(f, s \ {x}) \in Nat
      BY <1>2, <3>2
    <3> QED BY <1>1, <3>3, <3>4, <3>5, <3>6, <3>7
  <2>2. SumOf(f, {} \cup T) = SumOf(f, {}) + SumOf(f, T)
    <3>1. {} \cup T = T
      OBVIOUS
    <3> QED BY <1>1, <3>1
  <2> QED BY <2>1, <2>2
<1>5. \A n \in Nat : n \in Split
  <2> HIDE DEF Split
  <2> QED BY <1>3, <1>4, SetInduction
<1> QED BY <1>5, FS_CardinalityType

\* The sum over a part is not more than the whole sum.
LEMMA SumPart ==
    ASSUME NEW f, NEW S, IsFiniteSet(S), \A x \in S : f[x] \in Nat, NEW T \in SUBSET S
    PROVE  /\ SumOf(f, S) \in Nat /\ SumOf(f, T) \in Nat
           /\ SumOf(f, T) <= SumOf(f, S)
<1>1. IsFiniteSet(T) /\ IsFiniteSet(S \ T)
  BY FS_Subset
<1>2. SumOf(f, T) \in Nat /\ SumOf(f, S \ T) \in Nat /\ SumOf(f, S) \in Nat
  BY <1>1, SumType
<1>3. PICK U : U = S \ T
  OBVIOUS
<1>4. T \cup U = S /\ T \cap U = {} /\ \A x \in T \cup U : f[x] \in Nat
  BY <1>3
<1>5. SumOf(f, T \cup U) = SumOf(f, T) + SumOf(f, U)
  BY <1>1, <1>3, <1>4, SumUnion
<1>6. SumOf(f, S) = SumOf(f, T) + SumOf(f, U) /\ SumOf(f, U) \in Nat
  <2>1. SumOf(f, U) \in Nat
    BY <1>2, <1>3
  <2> QED BY <1>4, <1>5, <2>1
<1> QED BY <1>2, <1>6

\* What c gives to d, of the first n.
Given(c, d, n) == {j \in 1..n : c[j] = d}

\* What it gives to those below d.
GivenBelow(c, d, n) == {j \in 1..n : c[j] < d}

\* When c divides 1..n among m, and nobody gets more than q (less than q), the
\* whole is not more (not less) than m times q.
LEMMA SharesBound ==
    ASSUME NEW n \in Nat, NEW m \in Nat, NEW c \in [1..n -> 0..m - 1],
           NEW f \in [1..n -> Nat], NEW q \in Nat
    PROVE  /\ (\A d \in 0..m - 1 : SumOf(f, Given(c, d, n)) <= q)
                  => SumOf(f, 1..n) <= m * q
           /\ (\A d \in 0..m - 1 : SumOf(f, Given(c, d, n)) >= q)
                  => SumOf(f, 1..n) >= m * q
<1> DEFINE AtMost == \A d \in 0..m - 1 : SumOf(f, Given(c, d, n)) <= q
           AtLeast == \A d \in 0..m - 1 : SumOf(f, Given(c, d, n)) >= q
           Bound == {d \in Nat : d <= m =>
                        /\ AtMost => SumOf(f, GivenBelow(c, d, n)) <= d * q
                        /\ AtLeast => SumOf(f, GivenBelow(c, d, n)) >= d * q}
<1>1. ASSUME NEW d
      PROVE  /\ IsFiniteSet(Given(c, d, n)) /\ IsFiniteSet(GivenBelow(c, d, n))
             /\ SumOf(f, Given(c, d, n)) \in Nat /\ SumOf(f, GivenBelow(c, d, n)) \in Nat
  <2>1. /\ IsFiniteSet(1..n) /\ Given(c, d, n) \subseteq 1..n
        /\ GivenBelow(c, d, n) \subseteq 1..n
    BY FS_Interval DEF Given, GivenBelow
  <2>2. IsFiniteSet(Given(c, d, n)) /\ IsFiniteSet(GivenBelow(c, d, n))
    BY <2>1, FS_Subset
  <2> QED BY <2>1, <2>2, SumType
<1>2. 0 \in Bound
  <2>1. GivenBelow(c, 0, n) = {}
    BY DEF GivenBelow
  <2>2. SumOf(f, GivenBelow(c, 0, n)) = 0
    BY <2>1, SumFirst, FS_EmptySet
  <2> QED BY <2>2
<1>3. ASSUME NEW d \in Nat, d \in Bound PROVE d + 1 \in Bound
  <2> SUFFICES ASSUME d + 1 <= m
               PROVE  /\ AtMost => SumOf(f, GivenBelow(c, d + 1, n)) <= (d + 1) * q
                      /\ AtLeast => SumOf(f, GivenBelow(c, d + 1, n)) >= (d + 1) * q
    OBVIOUS
  <2>1. /\ GivenBelow(c, d + 1, n) = GivenBelow(c, d, n) \cup Given(c, d, n)
        /\ GivenBelow(c, d, n) \cap Given(c, d, n) = {}
        /\ \A x \in GivenBelow(c, d, n) \cup Given(c, d, n) : f[x] \in Nat
    BY DEF GivenBelow, Given
  <2>2. SumOf(f, GivenBelow(c, d + 1, n)) =
        SumOf(f, GivenBelow(c, d, n)) + SumOf(f, Given(c, d, n))
    BY <1>1, <2>1, SumUnion
  <2>3. d \in 0..m - 1 /\ d <= m
    OBVIOUS
  <2>4. (d + 1) * q = d * q + q /\ d * q \in Nat
    OBVIOUS
  <2>5. /\ AtMost => SumOf(f, GivenBelow(c, d, n)) <= d * q /\ SumOf(f, Given(c, d, n)) <= q
        /\ AtLeast => SumOf(f, GivenBelow(c, d, n)) >= d * q /\ SumOf(f, Given(c, d, n)) >= q
    BY <1>3, <2>3
  <2> HIDE DEF AtMost, AtLeast
  <2> QED BY <1>1, <2>2, <2>4, <2>5
<1>4. m \in Bound
  <2>1. \A d \in Nat : d \in Bound
    <3> HIDE DEF Bound
    <3> QED BY <1>2, <1>3, SetInduction
  <2> QED BY <2>1
<1>5. GivenBelow(c, m, n) = 1..n
  BY DEF GivenBelow
<1> QED BY <1>4, <1>5
=============================================================================

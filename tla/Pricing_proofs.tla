--------------------------- MODULE Pricing_proofs ---------------------------
(***************************************************************************)
(* Sums of a function over a finite set, and what is proved with them of   *)
(* the amounts of a sale: for every cart and every discount the checkout,  *)
(* the cart and the client's quote agree, and what is shared out among the *)
(* lines adds up to what is taken off.                                     *)
(***************************************************************************)
EXTENDS Pricing, FiniteSetTheorems, SequenceTheorems, WellFoundedInduction, TLAPS

-----------------------------------------------------------------------------
(* Induction without operators: on numbers, and on the subsets of a set *)

\* A set of natural numbers that holds 0 and with a number the next one holds them all.
LEMMA AllNumbers ==
  ASSUME NEW N, 0 \in N, \A n \in Nat : n \in N => n + 1 \in N
  PROVE  Nat \subseteq N
<1> DEFINE missing == Nat \ N
<1>1. SUFFICES ASSUME missing # {} PROVE FALSE
  OBVIOUS
<1>2. PICK m \in missing : \A n \in missing : ~(<<n, m>> \in OpToRel(<, Nat))
  <2>1. IsWellFoundedOn(OpToRel(<, Nat), Nat)
    BY NatLessThanWellFounded
  <2>2. missing \subseteq Nat
    OBVIOUS
  <2> HIDE DEF missing
  <2> QED
    BY <1>1, <2>1, <2>2, WFMin, Zenon
<1>3. \A n \in missing : ~(n < m)
  BY <1>2 DEF OpToRel
<1>4. m \in Nat /\ m # 0
  BY <1>2
<1>5. m - 1 \in Nat /\ m - 1 < m /\ (m - 1) + 1 = m
  BY <1>4
<1>6. m - 1 \in N
  BY <1>3, <1>5
<1> QED
  BY <1>2, <1>5, <1>6

\* A set of subsets of a finite set that holds the empty one, and every one whose
\* removal of some element it holds, holds the set.
LEMMA AllSubsets ==
  ASSUME NEW S, IsFiniteSet(S), NEW F,
         {} \in F,
         \A s \in SUBSET S : s # {} => \E x \in s : s \ {x} \in F => s \in F
  PROVE  S \in F
<1> DEFINE N == {n \in Nat : \A s \in SUBSET S : Cardinality(s) = n => s \in F}
<1>1. \A s \in SUBSET S : IsFiniteSet(s) /\ Cardinality(s) \in Nat /\ (Cardinality(s) = 0 <=> s = {})
  BY FS_Subset, FS_CardinalityType, FS_EmptySet
<1>2. 0 \in N
  BY <1>1
<1>3. ASSUME NEW n \in Nat, n \in N PROVE n + 1 \in N
  <2>1. SUFFICES ASSUME NEW s \in SUBSET S, Cardinality(s) = n + 1 PROVE s \in F
    OBVIOUS
  <2>2. s # {}
    BY <1>1, <2>1
  <2>3. PICK x \in s : s \ {x} \in F => s \in F
    BY <2>2
  <2>4. Cardinality(s \ {x}) = n
    <3>1. IsFiniteSet(s) /\ Cardinality(s) \in Nat
      BY <1>1
    <3>2. Cardinality(s \ {x}) = Cardinality(s) - 1
      BY <3>1, FS_RemoveElement
    <3> QED
      BY <2>1, <3>2
  <2> QED
    BY <1>3, <2>3, <2>4
<1> HIDE DEF N
<1>4. Nat \subseteq N
  BY <1>2, <1>3, AllNumbers
<1> QED
  BY <1>1, <1>4 DEF N

-----------------------------------------------------------------------------
(* Sums of a function over a finite set *)

PickFrom(s) == CHOOSE x \in s : TRUE

\* What g must be to be the sum of f over every subset of S.
SumAt(f, g, s) == IF s = {} THEN 0 ELSE f[PickFrom(s)] + g[s \ {PickFrom(s)}]
Sums(f, g, S) == g = [s \in SUBSET S |-> SumAt(f, g, s)]

AtMost(S, n) == {s \in SUBSET S : Cardinality(s) <= n}
SumsAtMost(f, g, S, n) == g = [s \in AtMost(S, n) |-> SumAt(f, g, s)]

\* Sums over small subsets exist: one more element is one more step.
LEMMA SumsAtMostExist ==
  ASSUME NEW S, IsFiniteSet(S), NEW f
  PROVE  \A n \in Nat : \E g : SumsAtMost(f, g, S, n)
<1> DEFINE N == {n \in Nat : \E g : SumsAtMost(f, g, S, n)}
<1>1. \A s \in SUBSET S : IsFiniteSet(s) /\ Cardinality(s) \in Nat /\ (Cardinality(s) = 0 <=> s = {})
  BY FS_Subset, FS_CardinalityType, FS_EmptySet
<1>2. 0 \in N
  <2> DEFINE g == [s \in AtMost(S, 0) |-> 0]
  <2>1. \A s \in AtMost(S, 0) : s = {}
    BY <1>1 DEF AtMost
  <2>2. SumsAtMost(f, g, S, 0)
    BY <2>1 DEF SumsAtMost, SumAt
  <2> QED
    BY <2>2
<1>3. ASSUME NEW n \in Nat, n \in N PROVE n + 1 \in N
  <2>1. PICK h : SumsAtMost(f, h, S, n)
    BY <1>3
  <2> DEFINE g == [s \in AtMost(S, n + 1) |-> SumAt(f, h, s)]
  <2>2. ASSUME NEW s \in AtMost(S, n + 1), s # {}
        PROVE  s \ {PickFrom(s)} \in AtMost(S, n)
    <3>1. PickFrom(s) \in s /\ s \in SUBSET S /\ Cardinality(s) <= n + 1
      BY <2>2 DEF PickFrom, AtMost
    <3>2. Cardinality(s \ {PickFrom(s)}) = Cardinality(s) - 1
      BY <1>1, <3>1, FS_RemoveElement
    <3>3. Cardinality(s) - 1 <= n
      BY <1>1, <3>1
    <3> QED
      BY <3>1, <3>2, <3>3 DEF AtMost
  <2>3. AtMost(S, n) \subseteq AtMost(S, n + 1)
    BY <1>1 DEF AtMost
  <2>4. \A s \in AtMost(S, n) : g[s] = h[s]
    BY <2>1, <2>3 DEF SumsAtMost
  <2> HIDE DEF g
  <2>5. ASSUME NEW s \in AtMost(S, n + 1) PROVE SumAt(f, g, s) = SumAt(f, h, s)
    <3>1. s # {} => g[s \ {PickFrom(s)}] = h[s \ {PickFrom(s)}]
      BY <2>2, <2>4
    <3> QED
      BY <3>1 DEF SumAt
  <2>6. SumsAtMost(f, g, S, n + 1)
    BY <2>5 DEF SumsAtMost, g
  <2> QED
    BY <2>6
<1> HIDE DEF N
<1>4. Nat \subseteq N
  BY <1>2, <1>3, AllNumbers
<1> QED
  BY <1>4 DEF N

\* The fold of the library is such a sum, whatever set it is taken over.
LEMMA SumOverIsASum ==
  ASSUME NEW S, IsFiniteSet(S), NEW f
  PROVE  \E g : Sums(f, g, S) /\ SumFunctionOnSet(f, S) = g[S]
<1>1. Cardinality(S) \in Nat
  BY FS_CardinalityType
<1>2. PICK h : SumsAtMost(f, h, S, Cardinality(S))
  BY <1>1, SumsAtMostExist
<1>3. AtMost(S, Cardinality(S)) = SUBSET S
  BY FS_Subset DEF AtMost
<1>4. \E g : Sums(f, g, S)
  BY <1>2, <1>3 DEF SumsAtMost, Sums
<1> DEFINE g == CHOOSE g : Sums(f, g, S)
<1>5. Sums(f, g, S)
  BY <1>4
<1>6. SumFunctionOnSet(f, S) = g[S]
  BY DEF SumFunctionOnSet, FoldFunctionOnSet, MapThenFoldSet, Sums, SumAt, PickFrom
<1> HIDE DEF g
<1> QED
  BY <1>5, <1>6

\* Two functions that are sums on their sets are equal where both are.
LEMMA SumsAgree ==
  ASSUME NEW S, IsFiniteSet(S), NEW f, NEW g, Sums(f, g, S), NEW T \in SUBSET S, NEW h, Sums(f, h, T)
  PROVE  g[T] = h[T]
<1> DEFINE F == {s \in SUBSET T : g[s] = h[s]}
<1>1. \A s \in SUBSET T : g[s] = SumAt(f, g, s) /\ h[s] = SumAt(f, h, s)
  BY DEF Sums
<1>2. {} \in F
  BY <1>1 DEF SumAt
<1>3. ASSUME NEW s \in SUBSET T, s # {} PROVE \E x \in s : s \ {x} \in F => s \in F
  <2>1. PickFrom(s) \in s
    BY <1>3 DEF PickFrom
  <2>2. s \ {PickFrom(s)} \in F => s \in F
    BY <1>1, <1>3 DEF SumAt
  <2> QED
    BY <2>1, <2>2
<1>4. IsFiniteSet(T)
  BY FS_Subset
<1>5. T \in F
  <2> HIDE DEF F
  <2> QED
    BY <1>2, <1>3, <1>4, AllSubsets
<1> QED
  BY <1>5

\* Nothing adds up to nothing.
LEMMA SumOverEmpty == \A f : SumFunctionOnSet(f, {}) = 0
<1>1. ASSUME NEW f PROVE SumFunctionOnSet(f, {}) = 0
  <2>1. PICK g : Sums(f, g, {}) /\ SumFunctionOnSet(f, {}) = g[{}]
    BY SumOverIsASum, FS_EmptySet
  <2> QED
    BY <2>1 DEF Sums, SumAt
<1> QED
  BY <1>1

\* The sum over a set is the value of the element that is picked and the sum of the rest.
LEMMA SumOverPick ==
  ASSUME NEW S, IsFiniteSet(S), S # {}, NEW f
  PROVE  SumFunctionOnSet(f, S) = f[PickFrom(S)] + SumFunctionOnSet(f, S \ {PickFrom(S)})
<1> DEFINE T == S \ {PickFrom(S)}
<1>1. IsFiniteSet(T) /\ T \in SUBSET S
  BY FS_Subset
<1>2. PICK g : Sums(f, g, S) /\ SumFunctionOnSet(f, S) = g[S]
  BY SumOverIsASum
<1>3. PICK h : Sums(f, h, T) /\ SumFunctionOnSet(f, T) = h[T]
  BY <1>1, SumOverIsASum
<1> HIDE DEF T
<1>4. g[T] = h[T]
  BY <1>1, <1>2, <1>3, SumsAgree
<1>5. g[S] = f[PickFrom(S)] + g[T]
  BY <1>2 DEF Sums, SumAt, T
<1> QED
  BY <1>2, <1>3, <1>4, <1>5 DEF T

\* Numbers add up to a number.
LEMMA SumOverInt ==
  ASSUME NEW S, IsFiniteSet(S), NEW f, \A i \in S : f[i] \in Int
  PROVE  SumFunctionOnSet(f, S) \in Int
<1> DEFINE F == {s \in SUBSET S : SumFunctionOnSet(f, s) \in Int}
<1>1. {} \in F
  BY SumOverEmpty
<1>2. ASSUME NEW s \in SUBSET S, s # {} PROVE \E x \in s : s \ {x} \in F => s \in F
  <2>1. PickFrom(s) \in s
    BY <1>2 DEF PickFrom
  <2>2. IsFiniteSet(s)
    BY FS_Subset
  <2>3. SumFunctionOnSet(f, s) = f[PickFrom(s)] + SumFunctionOnSet(f, s \ {PickFrom(s)})
    BY <1>2, <2>2, SumOverPick
  <2>4. f[PickFrom(s)] \in Int
    BY <2>1
  <2>5. s \ {PickFrom(s)} \in F => SumFunctionOnSet(f, s) \in Int
    BY <2>3, <2>4
  <2> QED
    BY <2>1, <2>5
<1> HIDE DEF F
<1>3. S \in F
  BY <1>1, <1>2, AllSubsets
<1> QED
  BY <1>3 DEF F

\* Only the values on the set count.
LEMMA SumOverSame ==
  ASSUME NEW S, IsFiniteSet(S), NEW f, NEW g, \A i \in S : f[i] = g[i]
  PROVE  SumFunctionOnSet(f, S) = SumFunctionOnSet(g, S)
<1> DEFINE F == {s \in SUBSET S : SumFunctionOnSet(f, s) = SumFunctionOnSet(g, s)}
<1>1. {} \in F
  BY SumOverEmpty
<1>2. ASSUME NEW s \in SUBSET S, s # {} PROVE \E x \in s : s \ {x} \in F => s \in F
  <2>1. PickFrom(s) \in s
    BY <1>2 DEF PickFrom
  <2>2. IsFiniteSet(s)
    BY FS_Subset
  <2>3. /\ SumFunctionOnSet(f, s) = f[PickFrom(s)] + SumFunctionOnSet(f, s \ {PickFrom(s)})
        /\ SumFunctionOnSet(g, s) = g[PickFrom(s)] + SumFunctionOnSet(g, s \ {PickFrom(s)})
    BY <1>2, <2>2, SumOverPick
  <2> QED
    BY <2>1, <2>3
<1> HIDE DEF F
<1>3. S \in F
  BY <1>1, <1>2, AllSubsets
<1> QED
  BY <1>3 DEF F

\* Any element may be taken out.
LEMMA SumOverElement ==
  ASSUME NEW S, IsFiniteSet(S), NEW f, \A i \in S : f[i] \in Int, NEW x \in S
  PROVE  SumFunctionOnSet(f, S) = f[x] + SumFunctionOnSet(f, S \ {x})
<1> DEFINE TakenOut(s, y) == SumFunctionOnSet(f, s) = f[y] + SumFunctionOnSet(f, s \ {y})
           N == {n \in Nat : \A s \in SUBSET S : Cardinality(s) = n => \A y \in s : TakenOut(s, y)}
<1>1. \A s \in SUBSET S : IsFiniteSet(s) /\ Cardinality(s) \in Nat /\ (Cardinality(s) = 0 <=> s = {})
  BY FS_Subset, FS_CardinalityType, FS_EmptySet
<1>2. 0 \in N
  BY <1>1
<1>3. ASSUME NEW n \in Nat, n \in N PROVE n + 1 \in N
  <2>1. SUFFICES ASSUME NEW s \in SUBSET S, Cardinality(s) = n + 1, NEW y \in s PROVE TakenOut(s, y)
    OBVIOUS
  <2> DEFINE p == PickFrom(s)
             t == (s \ {p}) \ {y}
  <2>2. p \in s
    BY <2>1 DEF PickFrom
  <2>3. TakenOut(s, p)
    BY <1>1, <2>1, SumOverPick
  <2> HIDE DEF p
  <2>4. CASE y = p
    BY <2>3, <2>4
  <2>5. CASE y # p
    <3>1. Cardinality(s \ {p}) = n /\ Cardinality(s \ {y}) = n
      <4>1. IsFiniteSet(s)
        BY <1>1
      <4>2. Cardinality(s \ {p}) = Cardinality(s) - 1 /\ Cardinality(s \ {y}) = Cardinality(s) - 1
        BY <2>1, <2>2, <4>1, FS_RemoveElement
      <4> QED
        BY <2>1, <4>2
    <3>2. TakenOut(s \ {p}, y)
      BY <1>3, <2>5, <3>1
    <3>3. TakenOut(s \ {y}, p)
      BY <1>3, <2>2, <2>5, <3>1
    <3>4. t = (s \ {y}) \ {p} /\ t \in SUBSET S
      OBVIOUS
    <3>5. f[p] \in Int /\ f[y] \in Int /\ SumFunctionOnSet(f, t) \in Int
      BY <1>1, <2>2, <3>4, SumOverInt
    <3> HIDE DEF t
    <3>6. /\ SumFunctionOnSet(f, s) = f[p] + SumFunctionOnSet(f, s \ {p})
          /\ SumFunctionOnSet(f, s \ {p}) = f[y] + SumFunctionOnSet(f, t)
          /\ SumFunctionOnSet(f, s \ {y}) = f[p] + SumFunctionOnSet(f, t)
      BY <2>3, <3>2, <3>3, <3>4 DEF t
    <3> QED
      BY <3>5, <3>6
  <2> QED
    BY <2>4, <2>5
<1> HIDE DEF N
<1>4. Nat \subseteq N
  BY <1>2, <1>3, AllNumbers
<1> QED
  BY <1>1, <1>4 DEF N

\* Greater values add up to more.
LEMMA SumOverMonotone ==
  ASSUME NEW S, IsFiniteSet(S), NEW f, NEW g,
         \A i \in S : f[i] \in Int /\ g[i] \in Int /\ f[i] <= g[i]
  PROVE  SumFunctionOnSet(f, S) <= SumFunctionOnSet(g, S)
<1> DEFINE F == {s \in SUBSET S : SumFunctionOnSet(f, s) <= SumFunctionOnSet(g, s)}
<1>1. {} \in F
  BY SumOverEmpty
<1>2. ASSUME NEW s \in SUBSET S, s # {} PROVE \E x \in s : s \ {x} \in F => s \in F
  <2> DEFINE p == PickFrom(s)
  <2>1. p \in s
    BY <1>2 DEF PickFrom
  <2>2. IsFiniteSet(s) /\ IsFiniteSet(s \ {p})
    BY FS_Subset
  <2>3. /\ SumFunctionOnSet(f, s) = f[p] + SumFunctionOnSet(f, s \ {p})
        /\ SumFunctionOnSet(g, s) = g[p] + SumFunctionOnSet(g, s \ {p})
    BY <1>2, <2>2, SumOverPick
  <2>4. SumFunctionOnSet(f, s \ {p}) \in Int /\ SumFunctionOnSet(g, s \ {p}) \in Int
    BY <2>2, SumOverInt
  <2>5. f[p] \in Int /\ g[p] \in Int /\ f[p] <= g[p]
    BY <2>1
  <2> HIDE DEF p
  <2>6. SumFunctionOnSet(f, s \ {p}) <= SumFunctionOnSet(g, s \ {p})
          => SumFunctionOnSet(f, s) <= SumFunctionOnSet(g, s)
    BY <2>3, <2>4, <2>5
  <2> QED
    BY <2>1, <2>6
<1> HIDE DEF F
<1>3. S \in F
  BY <1>1, <1>2, AllSubsets
<1> QED
  BY <1>3 DEF F

\* The sum of sums, value by value
LEMMA SumOverAdded ==
  ASSUME NEW S, IsFiniteSet(S), NEW f, NEW g, NEW h,
         \A i \in S : f[i] \in Int /\ g[i] \in Int /\ h[i] = f[i] + g[i]
  PROVE  SumFunctionOnSet(h, S) = SumFunctionOnSet(f, S) + SumFunctionOnSet(g, S)
<1> DEFINE F == {s \in SUBSET S : SumFunctionOnSet(h, s) = SumFunctionOnSet(f, s) + SumFunctionOnSet(g, s)}
<1>1. {} \in F
  BY SumOverEmpty
<1>2. ASSUME NEW s \in SUBSET S, s # {} PROVE \E x \in s : s \ {x} \in F => s \in F
  <2> DEFINE p == PickFrom(s)
  <2>1. p \in s
    BY <1>2 DEF PickFrom
  <2>2. IsFiniteSet(s) /\ IsFiniteSet(s \ {p})
    BY FS_Subset
  <2>3. /\ SumFunctionOnSet(f, s) = f[p] + SumFunctionOnSet(f, s \ {p})
        /\ SumFunctionOnSet(g, s) = g[p] + SumFunctionOnSet(g, s \ {p})
        /\ SumFunctionOnSet(h, s) = h[p] + SumFunctionOnSet(h, s \ {p})
    BY <1>2, <2>2, SumOverPick
  <2>4. SumFunctionOnSet(f, s \ {p}) \in Int /\ SumFunctionOnSet(g, s \ {p}) \in Int
    BY <2>2, SumOverInt
  <2>5. f[p] \in Int /\ g[p] \in Int /\ h[p] = f[p] + g[p]
    BY <2>1
  <2> HIDE DEF p
  <2>6. SumFunctionOnSet(h, s \ {p}) = SumFunctionOnSet(f, s \ {p}) + SumFunctionOnSet(g, s \ {p})
          => SumFunctionOnSet(h, s) = SumFunctionOnSet(f, s) + SumFunctionOnSet(g, s)
    BY <2>3, <2>4, <2>5
  <2> QED
    BY <2>1, <2>6
<1> HIDE DEF F
<1>3. S \in F
  BY <1>1, <1>2, AllSubsets
<1> QED
  BY <1>3 DEF F

\* A common factor
LEMMA SumOverScaled ==
  ASSUME NEW S, IsFiniteSet(S), NEW c \in Int, NEW f, NEW h,
         \A i \in S : f[i] \in Int /\ h[i] = c * f[i]
  PROVE  SumFunctionOnSet(h, S) = c * SumFunctionOnSet(f, S)
<1> DEFINE F == {s \in SUBSET S : SumFunctionOnSet(h, s) = c * SumFunctionOnSet(f, s)}
<1>1. {} \in F
  BY SumOverEmpty
<1>2. ASSUME NEW s \in SUBSET S, s # {} PROVE \E x \in s : s \ {x} \in F => s \in F
  <2> DEFINE p == PickFrom(s)
  <2>1. p \in s
    BY <1>2 DEF PickFrom
  <2>2. IsFiniteSet(s) /\ IsFiniteSet(s \ {p})
    BY FS_Subset
  <2>3. /\ SumFunctionOnSet(f, s) = f[p] + SumFunctionOnSet(f, s \ {p})
        /\ SumFunctionOnSet(h, s) = h[p] + SumFunctionOnSet(h, s \ {p})
    BY <1>2, <2>2, SumOverPick
  <2>4. SumFunctionOnSet(f, s \ {p}) \in Int
    BY <2>2, SumOverInt
  <2>5. f[p] \in Int /\ h[p] = c * f[p]
    BY <2>1
  <2> HIDE DEF p
  <2>6. \A a, b \in Int : c * (a + b) = c * a + c * b
    OBVIOUS
  <2>7. SumFunctionOnSet(h, s \ {p}) = c * SumFunctionOnSet(f, s \ {p})
          => SumFunctionOnSet(h, s) = c * SumFunctionOnSet(f, s)
    BY <2>3, <2>4, <2>5, <2>6
  <2> QED
    BY <2>1, <2>7
<1> HIDE DEF F
<1>3. S \in F
  BY <1>1, <1>2, AllSubsets
<1> QED
  BY <1>3 DEF F

\* To count is to add ones.
LEMMA SumOverOnes ==
  ASSUME NEW S, IsFiniteSet(S), NEW f, \A i \in S : f[i] = 1
  PROVE  SumFunctionOnSet(f, S) = Cardinality(S)
<1> DEFINE F == {s \in SUBSET S : SumFunctionOnSet(f, s) = Cardinality(s)}
<1>1. {} \in F
  BY SumOverEmpty, FS_EmptySet
<1>2. ASSUME NEW s \in SUBSET S, s # {} PROVE \E x \in s : s \ {x} \in F => s \in F
  <2> DEFINE p == PickFrom(s)
  <2>1. p \in s
    BY <1>2 DEF PickFrom
  <2>2. IsFiniteSet(s) /\ Cardinality(s) \in Nat
    BY FS_Subset, FS_CardinalityType
  <2>3. SumFunctionOnSet(f, s) = f[p] + SumFunctionOnSet(f, s \ {p})
    BY <1>2, <2>2, SumOverPick
  <2>4. Cardinality(s \ {p}) = Cardinality(s) - 1
    BY <2>1, <2>2, FS_RemoveElement
  <2>5. f[p] = 1
    BY <2>1
  <2> HIDE DEF p
  <2>6. SumFunctionOnSet(f, s \ {p}) = Cardinality(s \ {p}) => SumFunctionOnSet(f, s) = Cardinality(s)
    BY <2>2, <2>3, <2>4, <2>5
  <2> QED
    BY <2>1, <2>6
<1> HIDE DEF F
<1>3. S \in F
  BY <1>1, <1>2, AllSubsets
<1> QED
  BY <1>3 DEF F

\* The same number for every element
LEMMA SumOverConstant ==
  ASSUME NEW S, IsFiniteSet(S), NEW c \in Int, NEW f, \A i \in S : f[i] = c
  PROVE  SumFunctionOnSet(f, S) = c * Cardinality(S)
<1> DEFINE ones == [i \in S |-> 1]
<1>1. SumFunctionOnSet(ones, S) = Cardinality(S)
  BY SumOverOnes
<1>2. \A i \in S : ones[i] \in Int /\ f[i] = c * ones[i]
  OBVIOUS
<1> HIDE DEF ones
<1>3. SumFunctionOnSet(f, S) = c * SumFunctionOnSet(ones, S)
  BY <1>2, SumOverScaled
<1> QED
  BY <1>1, <1>3

\* Natural numbers add up to one.
LEMMA SumOverNat ==
  ASSUME NEW S, IsFiniteSet(S), NEW f, \A i \in S : f[i] \in Nat
  PROVE  SumFunctionOnSet(f, S) \in Nat
<1> DEFINE zeros == [i \in S |-> 0]
<1>1. SumFunctionOnSet(zeros, S) = 0 * Cardinality(S)
  BY SumOverConstant
<1>2. Cardinality(S) \in Nat
  BY FS_CardinalityType
<1>3. \A i \in S : zeros[i] \in Int /\ f[i] \in Int /\ zeros[i] <= f[i]
  OBVIOUS
<1> HIDE DEF zeros
<1>4. SumFunctionOnSet(zeros, S) <= SumFunctionOnSet(f, S)
  BY <1>3, SumOverMonotone
<1>5. SumFunctionOnSet(f, S) \in Int
  BY SumOverInt
<1> QED
  BY <1>1, <1>2, <1>4, <1>5

\* A nonempty set of natural numbers with a bound has a greatest one.
LEMMA GreatestExists ==
  ASSUME NEW M, M \subseteq Nat, M # {}, NEW b \in Nat, \A m \in M : m <= b
  PROVE  \E m \in M : \A n \in M : n <= m
<1> DEFINE D == {b - m : m \in M}
<1>1. D \subseteq Nat /\ D # {}
  <2>1. \A m \in M : b - m \in Nat
    OBVIOUS
  <2> QED
    BY <2>1
<1>2. PICK d \in D : \A e \in D : ~(<<e, d>> \in OpToRel(<, Nat))
  <2>1. IsWellFoundedOn(OpToRel(<, Nat), Nat)
    BY NatLessThanWellFounded
  <2> HIDE DEF D
  <2> QED
    BY <1>1, <2>1, WFMin, Zenon
<1>3. \A e \in D : ~(e < d)
  BY <1>1, <1>2 DEF OpToRel
<1>4. PICK m \in M : d = b - m
  OBVIOUS
<1>5. ASSUME NEW n \in M PROVE n <= m
  <2>1. b - n \in D /\ ~(b - n < d)
    BY <1>3
  <2>2. n \in Nat /\ m \in Nat
    OBVIOUS
  <2> QED
    BY <1>4, <2>1, <2>2
<1> QED
  BY <1>4, <1>5

\* What the integer division leaves is less than the divisor.
LEMMA DivBounds ==
  ASSUME NEW a \in Int, NEW b \in Nat \ {0}
  PROVE  /\ a \div b \in Int
         /\ b * (a \div b) <= a
         /\ a < b * (a \div b) + b
  OBVIOUS

\* Rounding halves away from zero is off by half of the divisor at most (roundMoney).
LEMMA RoundedBounds ==
  ASSUME NEW a \in Int, NEW b \in Nat \ {0}
  PROVE  /\ RoundedDiv(a, b) \in Int
         /\ a >= 0 => 2 * a - b < 2 * (b * RoundedDiv(a, b)) /\ 2 * (b * RoundedDiv(a, b)) <= 2 * a + b
         /\ a < 0 => 2 * a - b <= 2 * (b * RoundedDiv(a, b)) /\ 2 * (b * RoundedDiv(a, b)) < 2 * a + b
<1> DEFINE q == (2 * a + b) \div (2 * b)
           p == (b - 2 * a) \div (2 * b)
<1>1. 2 * b \in Nat \ {0} /\ 2 * a + b \in Int /\ b - 2 * a \in Int
  OBVIOUS
<1>2. q \in Int /\ (2 * b) * q <= 2 * a + b /\ 2 * a + b < (2 * b) * q + 2 * b
  BY <1>1, DivBounds
<1>3. p \in Int /\ (2 * b) * p <= b - 2 * a /\ b - 2 * a < (2 * b) * p + 2 * b
  BY <1>1, DivBounds
<1>4. RoundedDiv(a, b) = IF a >= 0 THEN q ELSE -p
  BY DEF RoundedDiv
<1> HIDE DEF q, p
<1>5. (2 * b) * q = 2 * (b * q) /\ (2 * b) * p = 2 * (b * p) /\ b * (-p) = -(b * p)
      /\ b * q \in Int /\ b * p \in Int
  BY <1>2, <1>3
<1>6. CASE a >= 0
  BY <1>2, <1>4, <1>5, <1>6
<1>7. CASE a < 0
  BY <1>3, <1>4, <1>5, <1>7
<1> QED
  BY <1>6, <1>7

\* Cents, from hundredths of one
LEMMA MoneyBounds ==
  ASSUME NEW a \in Int
  PROVE  /\ RoundMoney(a) \in Int
         /\ a - 50 <= 100 * RoundMoney(a) /\ 100 * RoundMoney(a) <= a + 50
         /\ a >= 0 => a - 50 < 100 * RoundMoney(a) /\ RoundMoney(a) >= 0
<1> DEFINE r == RoundedDiv(a, 100)
<1>1. 100 \in Nat \ {0}
  OBVIOUS
<1>2. /\ r \in Int
      /\ a >= 0 => 2 * a - 100 < 2 * (100 * r) /\ 2 * (100 * r) <= 2 * a + 100
      /\ a < 0 => 2 * a - 100 <= 2 * (100 * r) /\ 2 * (100 * r) < 2 * a + 100
  BY <1>1, RoundedBounds
<1>3. RoundMoney(a) = r
  BY DEF RoundMoney
<1> HIDE DEF r
<1> QED
  BY <1>2, <1>3

-----------------------------------------------------------------------------
(* Adding up a list *)

\* Adding up a list is summing over its places.
LEMMA AddedOver ==
  ASSUME NEW S, NEW f, DOMAIN f = S PROVE Added(f) = SumFunctionOnSet(f, S)
  BY DEF Added, SumFunction

LEMMA AddedNat ==
  ASSUME NEW n \in Nat, NEW f, DOMAIN f = 1 .. n, \A i \in 1 .. n : f[i] \in Nat
  PROVE  Added(f) \in Nat
  BY AddedOver, SumOverNat, FS_Interval

LEMMA AddedInt ==
  ASSUME NEW n \in Nat, NEW f, DOMAIN f = 1 .. n, \A i \in 1 .. n : f[i] \in Int
  PROVE  Added(f) \in Int
  BY AddedOver, SumOverInt, FS_Interval

LEMMA AddedMonotone ==
  ASSUME NEW n \in Nat, NEW f, NEW g, DOMAIN f = 1 .. n, DOMAIN g = 1 .. n,
         \A i \in 1 .. n : f[i] \in Int /\ g[i] \in Int /\ f[i] <= g[i]
  PROVE  Added(f) <= Added(g)
  BY AddedOver, SumOverMonotone, FS_Interval

LEMMA AddedSame ==
  ASSUME NEW n \in Nat, NEW f, NEW g, DOMAIN f = 1 .. n, DOMAIN g = 1 .. n,
         \A i \in 1 .. n : f[i] = g[i]
  PROVE  Added(f) = Added(g)
  BY AddedOver, SumOverSame, FS_Interval

LEMMA AddedPlus ==
  ASSUME NEW n \in Nat, NEW f, NEW g, NEW h, DOMAIN f = 1 .. n, DOMAIN g = 1 .. n, DOMAIN h = 1 .. n,
         \A i \in 1 .. n : f[i] \in Int /\ g[i] \in Int /\ h[i] = f[i] + g[i]
  PROVE  Added(h) = Added(f) + Added(g)
  BY AddedOver, SumOverAdded, FS_Interval

LEMMA AddedScaled ==
  ASSUME NEW n \in Nat, NEW c \in Int, NEW f, NEW h, DOMAIN f = 1 .. n, DOMAIN h = 1 .. n,
         \A i \in 1 .. n : f[i] \in Int /\ h[i] = c * f[i]
  PROVE  Added(h) = c * Added(f)
  BY AddedOver, SumOverScaled, FS_Interval

LEMMA AddedConstant ==
  ASSUME NEW n \in Nat, NEW c \in Int, NEW f, DOMAIN f = 1 .. n, \A i \in 1 .. n : f[i] = c
  PROVE  Added(f) = c * n
<1>1. IsFiniteSet(1 .. n) /\ Cardinality(1 .. n) = n
  BY FS_Interval
<1> QED
  BY <1>1, AddedOver, SumOverConstant

\* The last one, and those before it
LEMMA AddedLast ==
  ASSUME NEW n \in Nat \ {0}, NEW f, NEW g, DOMAIN f = 1 .. n, DOMAIN g = 1 .. n - 1,
         \A i \in 1 .. n : f[i] \in Int, \A i \in 1 .. n - 1 : g[i] = f[i]
  PROVE  Added(f) = Added(g) + f[n]
<1>1. n - 1 \in Int /\ n \in 1 .. n
  OBVIOUS
<1>2. IsFiniteSet(1 .. n) /\ IsFiniteSet(1 .. n - 1)
  BY <1>1, FS_Interval
<1>3. (1 .. n) \ {n} = 1 .. n - 1
  OBVIOUS
<1>4. SumFunctionOnSet(f, 1 .. n) = f[n] + SumFunctionOnSet(f, 1 .. n - 1)
  <2>1. SumFunctionOnSet(f, 1 .. n) = f[n] + SumFunctionOnSet(f, (1 .. n) \ {n})
    BY <1>1, <1>2, SumOverElement
  <2> QED
    BY <2>1, <1>3
<1>5. \A i \in 1 .. n - 1 : f[i] \in Int /\ f[i] = g[i]
  OBVIOUS
<1>6. SumFunctionOnSet(f, 1 .. n - 1) = SumFunctionOnSet(g, 1 .. n - 1)
  BY <1>2, <1>5, SumOverSame
<1>7. SumFunctionOnSet(f, 1 .. n - 1) \in Int
  BY <1>2, <1>5, SumOverInt
<1>8. Added(f) = SumFunctionOnSet(f, 1 .. n) /\ Added(g) = SumFunctionOnSet(g, 1 .. n - 1)
  BY AddedOver
<1> QED
  BY <1>1, <1>4, <1>6, <1>7, <1>8

-----------------------------------------------------------------------------
(* Pricing: the shares of the lines *)

LineCount == Len(bill.lines)

\* A bill has lines, each of its type.
LEMMA BillFacts ==
  ASSUME bill \in Bill
  PROVE  /\ LineCount \in Nat \ {0}
         /\ DOMAIN bill.lines = 1 .. LineCount
         /\ \A i \in 1 .. LineCount : bill.lines[i] \in BilledLine
         /\ bill.value \in Nat
  BY DEF Bill, LineCount

\* A line's own discount is no more than it costs.
LEMMA LineFacts ==
  ASSUME bill \in Bill, NEW l \in BilledLine
  PROVE  /\ LineSubtotal(l) \in Nat
         /\ ItemDiscount(l) \in Nat
         /\ OwnDiscount(l) \in Nat
         /\ OwnDiscount(l) <= LineSubtotal(l) * 100
<1>1. /\ l.quantity \in Nat /\ l.unit \in Nat /\ l.original \in Nat /\ bill.value \in Nat
  BY DEF BilledLine, Bill
<1>2. LineSubtotal(l) \in Nat
  BY <1>1 DEF LineSubtotal
<1>3. (l.original - l.unit) * l.quantity \in Int
  BY <1>1
<1>4. LineSubtotal(l) * bill.value \in Nat /\ bill.value * l.quantity * 100 \in Nat /\ LineSubtotal(l) * 100 \in Nat
  BY <1>1, <1>2
<1>5. ItemDiscount(l) \in Nat
  BY <1>3 DEF ItemDiscount, Larger
<1>6. OwnDiscount(l) \in Nat /\ OwnDiscount(l) <= LineSubtotal(l) * 100
  BY <1>4 DEF OwnDiscount, Smaller
<1> QED
  BY <1>2, <1>5, <1>6

LEMMA SubtotalNat == bill \in Bill => Subtotal \in Nat
<1> SUFFICES ASSUME bill \in Bill PROVE Subtotal \in Nat
  OBVIOUS
<1> DEFINE f == [i \in DOMAIN bill.lines |-> LineSubtotal(bill.lines[i])]
<1>1. DOMAIN f = 1 .. LineCount /\ \A i \in 1 .. LineCount : f[i] \in Nat
  BY BillFacts, LineFacts
<1>2. Subtotal = Added(f)
  BY DEF Subtotal
<1> HIDE DEF f
<1> QED
  BY <1>1, <1>2, AddedNat, BillFacts

LEMMA DiscountNat == bill \in Bill => LoyaltyDiscount \in Nat
<1> SUFFICES ASSUME bill \in Bill PROVE LoyaltyDiscount \in Nat
  OBVIOUS
<1> DEFINE f == [i \in DOMAIN bill.lines |-> OwnDiscount(bill.lines[i])]
<1>1. DOMAIN f = 1 .. LineCount /\ \A i \in 1 .. LineCount : f[i] \in Nat
  BY BillFacts, LineFacts
<1>2. Added(f) \in Nat
  <2> HIDE DEF f
  <2> QED
    BY <1>1, AddedNat, BillFacts
<1>3. Subtotal * bill.value \in Nat /\ Smaller(bill.value, Subtotal) * 100 \in Nat
  BY SubtotalNat, BillFacts DEF Smaller
<1> QED
  BY <1>2, <1>3 DEF LoyaltyDiscount

\* The share of a line that is not the last
Early(l) ==
  IF OrderModel
  THEN IF Subtotal = 0 THEN 0
       ELSE Smaller(LineSubtotal(l) * 100, 100 * RoundedDiv(LoyaltyDiscount * LineSubtotal(l), Subtotal * 100))
  ELSE IF bill.model = "NONE" THEN 0 ELSE OwnDiscount(l)

EarlyShares(k) == [i \in 1 .. k |-> Early(bill.lines[i])]

ShareOf(i) ==
  IF OrderModel /\ i = LineCount THEN OrderShare(bill.lines[i], EarlyShares(LineCount - 1))
  ELSE Early(bill.lines[i])

SharesUpTo(k) == [i \in 1 .. k |-> ShareOf(i)]

\* No share is more than its line costs.
LEMMA EarlyInt ==
  ASSUME bill \in Bill, NEW l \in BilledLine
  PROVE  Early(l) \in Int /\ Early(l) <= LineSubtotal(l) * 100
<1>1. CASE OrderModel /\ Subtotal # 0
  <2>1. LoyaltyDiscount * LineSubtotal(l) \in Int /\ Subtotal * 100 \in Nat \ {0}
    BY <1>1, DiscountNat, SubtotalNat, LineFacts
  <2>2. RoundedDiv(LoyaltyDiscount * LineSubtotal(l), Subtotal * 100) \in Int
    BY <2>1, RoundedBounds
  <2> QED
    BY <1>1, <2>2, LineFacts DEF Early, Smaller
<1>2. CASE ~(OrderModel /\ Subtotal # 0)
  BY <1>2, LineFacts DEF Early
<1> QED
  BY <1>1, <1>2

LEMMA EarlySharesInt ==
  ASSUME bill \in Bill, NEW k \in 0 .. LineCount
  PROVE  /\ DOMAIN EarlyShares(k) = 1 .. k
         /\ \A i \in 1 .. k : EarlyShares(k)[i] = Early(bill.lines[i]) /\ EarlyShares(k)[i] \in Int
         /\ Added(EarlyShares(k)) \in Int
<1>1. k \in Nat /\ \A i \in 1 .. k : bill.lines[i] \in BilledLine
  BY BillFacts
<1>2. DOMAIN EarlyShares(k) = 1 .. k /\ \A i \in 1 .. k : EarlyShares(k)[i] = Early(bill.lines[i])
  BY DEF EarlyShares
<1>3. \A i \in 1 .. k : EarlyShares(k)[i] \in Int
  BY <1>1, <1>2, EarlyInt
<1> QED
  BY <1>1, <1>2, <1>3, AddedInt

LEMMA ShareInt ==
  ASSUME bill \in Bill, NEW i \in 1 .. LineCount
  PROVE  ShareOf(i) \in Int /\ ShareOf(i) <= LineSubtotal(bill.lines[i]) * 100
<1>1. LineCount - 1 \in 0 .. LineCount /\ bill.lines[i] \in BilledLine
  BY BillFacts
<1>2. Remaining(EarlyShares(LineCount - 1)) \in Int
  BY <1>1, DiscountNat, SubtotalNat, EarlySharesInt DEF Remaining, Smaller
<1>3. LineSubtotal(bill.lines[i]) * 100 \in Nat
  BY <1>1, LineFacts
<1>4. EarlyShares(LineCount - 1) = [j \in 1 .. LineCount - 1 |-> Early(bill.lines[j])]
  BY DEF EarlyShares
<1>5. Len(EarlyShares(LineCount - 1)) + 1 = Len(bill.lines)
  BY <1>1, <1>4, BillFacts, EarlySharesInt DEF LineCount
<1>6. CASE OrderModel /\ i = LineCount
  BY <1>2, <1>3, <1>5, <1>6 DEF ShareOf, OrderShare, Smaller
<1>7. CASE ~(OrderModel /\ i = LineCount)
  BY <1>1, <1>7, EarlyInt DEF ShareOf
<1> QED
  BY <1>6, <1>7

\* Sharing goes on with the next line.
LEMMA NextShare ==
  ASSUME bill \in Bill, NEW k \in 0 .. LineCount - 1
  PROVE  WithShareOf(SharesUpTo(k), bill.lines[k + 1]) = SharesUpTo(k + 1)
<1> DEFINE before == SharesUpTo(k)
           l == bill.lines[k + 1]
<1>1. k \in Nat /\ k + 1 \in 1 .. LineCount /\ LineCount \in Nat \ {0}
  BY BillFacts
<1>2. before \in Seq(Int) /\ Len(before) = k /\ \A i \in 1 .. k : before[i] = ShareOf(i)
  <2>1. \A i \in 1 .. k : ShareOf(i) \in Int
    BY <1>1, ShareInt
  <2> QED
    BY <1>1, <2>1 DEF SharesUpTo
<1>3. OrderModel /\ k + 1 # LineCount => OrderShare(l, before) = Early(l)
  BY <1>1, <1>2 DEF OrderShare, Early, LineCount
<1>4. ASSUME OrderModel, k + 1 = LineCount PROVE OrderShare(l, before) = ShareOf(k + 1)
  <2>1. \A i \in 1 .. k : ShareOf(i) = Early(bill.lines[i])
    BY <1>1, <1>4 DEF ShareOf
  <2>2. before = EarlyShares(k)
    BY <2>1 DEF SharesUpTo, EarlyShares
  <2>3. k = LineCount - 1
    BY <1>1, <1>4
  <2> QED
    BY <1>1, <1>4, <2>2, <2>3 DEF ShareOf
<1> DEFINE share == IF OrderModel THEN OrderShare(l, before)
                    ELSE IF bill.model = "NONE" THEN 0 ELSE OwnDiscount(l)
<1>5. share = ShareOf(k + 1)
  <2>1. CASE OrderModel /\ k + 1 # LineCount
    BY <1>3, <2>1 DEF ShareOf
  <2>2. CASE OrderModel /\ k + 1 = LineCount
    BY <1>4, <2>2
  <2>3. CASE ~OrderModel
    BY <2>3 DEF ShareOf, Early
  <2> QED
    BY <2>1, <2>2, <2>3
<1>6. WithShareOf(before, l) = Append(before, share)
  BY DEF WithShareOf
<1>7. SharesUpTo(k + 1) = [i \in 1 .. k + 1 |-> ShareOf(i)]
  BY DEF SharesUpTo
<1>8. share \in Int
  BY <1>1, <1>5, ShareInt
<1> HIDE DEF before, share
<1>9. Append(before, share) = [i \in 1 .. k + 1 |-> ShareOf(i)]
  <2> DEFINE a == Append(before, share)
             b == [i \in 1 .. k + 1 |-> ShareOf(i)]
  <2>1. a \in Seq(Int) /\ Len(a) = k + 1
    BY <1>1, <1>2, <1>8
  <2>2. \A i \in 1 .. k + 1 : a[i] = ShareOf(i)
    BY <1>1, <1>2, <1>5, <1>8
  <2>3. \A i \in 1 .. k + 1 : ShareOf(i) \in Int
    BY <1>1, ShareInt
  <2>4. b \in Seq(Int) /\ Len(b) = k + 1 /\ \A i \in 1 .. k + 1 : b[i] = ShareOf(i)
    BY <1>1, <2>3
  <2> HIDE DEF a, b
  <2>5. a = b
    BY <1>1, <2>1, <2>2, <2>4, SeqEqual
  <2> QED
    BY <2>5 DEF a, b
<1> QED
  BY <1>6, <1>7, <1>9 DEF before

\* The cart takes off what the checkout does, and gives a line what the checkout gives it.
LEMMA CartTakesOff ==
  /\ CartLoyalty = LoyaltyDiscount
  /\ \A before, l : Append(before, CartShare(before, l)) = WithShareOf(before, l)
<1>1. \A l : CartItemLoyalty(l) = OwnDiscount(l)
  BY DEF CartItemLoyalty, OwnDiscount
<1>2. CartLoyalty = LoyaltyDiscount
  <2>1. [i \in DOMAIN bill.lines |-> CartItemLoyalty(bill.lines[i])]
          = [i \in DOMAIN bill.lines |-> OwnDiscount(bill.lines[i])]
    BY <1>1
  <2> QED BY <2>1 DEF CartLoyalty, LoyaltyDiscount
<1>3. ASSUME NEW before, NEW l
      PROVE  CartShare(before, l) = IF OrderModel THEN OrderShare(l, before)
                                    ELSE IF bill.model = "NONE" THEN 0 ELSE OwnDiscount(l)
  BY <1>1, <1>2 DEF CartShare, OrderShare, Remaining
<1> QED BY <1>2, <1>3 DEF WithShareOf

\* Line by line, then, the cart shares like the checkout.
LEMMA CartSharesAre ==
  ASSUME bill \in Bill PROVE CartShares = SharesUpTo(LineCount)
<1> DEFINE n == LineCount
           Is(g) == g = [k \in 0 .. n |->
                           IF k = 0 THEN <<>> ELSE Append(g[k - 1], CartShare(g[k - 1], bill.lines[k]))]
           upTo == CHOOSE g : Is(g)
           shared == [k \in 0 .. n |-> SharesUpTo(k)]
<1>1. n \in Nat \ {0}
  BY BillFacts
<1>2. SharesUpTo(0) = <<>>
  BY DEF SharesUpTo
<1>3. Is(shared)
  <2>1. ASSUME NEW k \in 0 .. n, k # 0
        PROVE  shared[k] = Append(shared[k - 1], CartShare(shared[k - 1], bill.lines[k]))
    <3>1. k - 1 \in 0 .. n - 1 /\ k - 1 \in 0 .. n /\ (k - 1) + 1 = k
      BY <1>1, <2>1
    <3>2. WithShareOf(SharesUpTo(k - 1), bill.lines[(k - 1) + 1]) = SharesUpTo((k - 1) + 1)
      BY <3>1, NextShare
    <3> QED
      BY <3>1, <3>2, CartTakesOff
  <2>2. shared[0] = <<>>
    BY <1>1, <1>2
  <2>3. \A k \in 0 .. n :
          shared[k] = IF k = 0 THEN <<>> ELSE Append(shared[k - 1], CartShare(shared[k - 1], bill.lines[k]))
    BY <2>1, <2>2
  <2>4. shared = [k \in 0 .. n |-> shared[k]]
    OBVIOUS
  <2> HIDE DEF shared
  <2> QED
    BY <2>3, <2>4
<1>4. Is(upTo)
  <2>1. \E g : Is(g)
    BY <1>3
  <2> HIDE DEF Is
  <2> QED
    BY <2>1
<1> DEFINE N == {k \in Nat : k <= n => upTo[k] = SharesUpTo(k)}
<1> HIDE DEF upTo
<1>5. 0 \in N
  BY <1>1, <1>2, <1>4
<1>6. ASSUME NEW k \in Nat, k \in N PROVE k + 1 \in N
  <2>1. SUFFICES ASSUME k + 1 <= n PROVE upTo[k + 1] = SharesUpTo(k + 1)
    OBVIOUS
  <2>2. k + 1 \in 0 .. n /\ k + 1 # 0 /\ k \in 0 .. n - 1 /\ (k + 1) - 1 = k
    BY <1>1, <2>1
  <2>3. upTo[k] = SharesUpTo(k)
    BY <1>1, <1>6, <2>1
  <2>4. upTo[k + 1] = WithShareOf(upTo[k], bill.lines[k + 1])
    <3>1. upTo[k + 1] = Append(upTo[k], CartShare(upTo[k], bill.lines[k + 1]))
      BY <1>4, <2>2
    <3> QED BY <3>1, CartTakesOff
  <2> QED
    BY <2>2, <2>3, <2>4, NextShare
<1>7. Nat \subseteq N
  <2> HIDE DEF N
  <2> QED
    BY <1>5, <1>6, AllNumbers
<1>8. upTo[n] = SharesUpTo(n)
  BY <1>1, <1>7
<1>9. CartShares = upTo[n]
  BY DEF CartShares, upTo, LineCount
<1> QED
  BY <1>8, <1>9

\* ... and shows what the checkout charges for these shares.
LEMMA CartShowsReceipt ==
  ASSUME NEW given PROVE SameAmounts(Amounts(given), CartAmounts(given))
<1> DEFINE ls == bill.lines
           taxes == [i \in DOMAIN ls |-> CartItem(ls[i], given[i]).tax]
<1>1. \A l, share : /\ CartItem(l, share).tax = LineTax(l, share)
                    /\ CartItem(l, share).total = LineTotal(l, share)
  BY DEF CartItem, LineTax, LineTotal, LineLoyalty
<1>2. taxes = [i \in DOMAIN ls |-> LineTax(ls[i], given[i])]
  BY <1>1
<1>3. RoundMoney(Smaller(CartLoyalty, Subtotal * 100)) = LoyaltyTotal
  BY CartTakesOff DEF LoyaltyTotal
<1>4. Amounts(given).tax = CartAmounts(given).tax
  BY <1>2 DEF Amounts, CartAmounts
<1>5. \A i \in DOMAIN Amounts(given).lines :
        /\ Amounts(given).lines[i].tax = CartAmounts(given).items[i].tax
        /\ Amounts(given).lines[i].total = CartAmounts(given).items[i].total
  BY <1>1 DEF Amounts, CartAmounts
<1>6. /\ Amounts(given).discount = CartAmounts(given).loyaltyDiscount + CartAmounts(given).itemDiscount
      /\ Amounts(given).total = CartAmounts(given).total
  BY <1>2, <1>3 DEF Amounts, CartAmounts
<1> QED
  BY <1>4, <1>5, <1>6 DEF SameAmounts

-----------------------------------------------------------------------------
(* Pricing: what is shared is what is discounted, to half a cent a line *)

LEMMA AddedShifted ==
  ASSUME NEW n \in Nat, NEW d \in Int, NEW f, NEW h, DOMAIN f = 1 .. n, DOMAIN h = 1 .. n,
         \A i \in 1 .. n : f[i] \in Int /\ h[i] = f[i] + d
  PROVE  Added(h) = Added(f) + d * n
<1> DEFINE ds == [i \in 1 .. n |-> d]
<1>1. DOMAIN ds = 1 .. n /\ \A i \in 1 .. n : ds[i] = d
  OBVIOUS
<1> HIDE DEF ds
<1>2. \A i \in 1 .. n : f[i] \in Int /\ ds[i] \in Int /\ h[i] = f[i] + ds[i]
  BY <1>1
<1>3. Added(ds) = d * n
  BY <1>1, AddedConstant
<1>4. Added(h) = Added(f) + Added(ds)
  BY <1>1, <1>2, AddedPlus
<1> QED
  BY <1>3, <1>4

\* Sums of what is known to lie near
LEMMA AddedBetween ==
  ASSUME NEW n \in Nat, NEW c \in Int, NEW lo \in Int, NEW hi \in Int, NEW f, NEW g,
         DOMAIN f = 1 .. n, DOMAIN g = 1 .. n,
         \A i \in 1 .. n : f[i] \in Int /\ g[i] \in Int /\ g[i] + lo <= c * f[i] /\ c * f[i] <= g[i] + hi
  PROVE  /\ Added(f) \in Int /\ Added(g) \in Int
         /\ Added(g) + lo * n <= c * Added(f)
         /\ c * Added(f) <= Added(g) + hi * n
<1> DEFINE cf == [i \in 1 .. n |-> c * f[i]]
           below == [i \in 1 .. n |-> g[i] + lo]
           above == [i \in 1 .. n |-> g[i] + hi]
<1>1. /\ DOMAIN cf = 1 .. n /\ DOMAIN below = 1 .. n /\ DOMAIN above = 1 .. n
      /\ \A i \in 1 .. n : cf[i] = c * f[i] /\ below[i] = g[i] + lo /\ above[i] = g[i] + hi
  OBVIOUS
<1>2. \A i \in 1 .. n : /\ f[i] \in Int /\ g[i] \in Int
                        /\ cf[i] \in Int /\ below[i] \in Int /\ above[i] \in Int
                        /\ below[i] <= cf[i] /\ cf[i] <= above[i]
  OBVIOUS
<1> HIDE DEF cf, below, above
<1>3. Added(f) \in Int /\ Added(g) \in Int
  BY <1>2, AddedInt
<1>4. Added(cf) = c * Added(f)
  BY <1>1, <1>2, AddedScaled, ZenonT(60)
<1>5. Added(below) = Added(g) + lo * n
  BY <1>1, <1>2, AddedShifted
<1>6. Added(above) = Added(g) + hi * n
  BY <1>1, <1>2, AddedShifted
<1>7. Added(below) <= Added(cf) /\ Added(cf) <= Added(above)
  BY <1>1, <1>2, AddedMonotone
<1> QED
  BY <1>3, <1>4, <1>5, <1>6, <1>7

\* c times x lies between n times lo and n times hi from y.
Lies(n, c, lo, hi, x, y) == y + lo * n <= c * x /\ c * x <= y + hi * n

LEMMA AddedWithin ==
  ASSUME NEW n \in Nat, NEW c \in Int, NEW lo \in Int, NEW hi \in Int, NEW f, NEW g,
         DOMAIN f = 1 .. n, DOMAIN g = 1 .. n,
         \A i \in 1 .. n : f[i] \in Int /\ g[i] \in Int /\ Lies(1, c, lo, hi, f[i], g[i])
  PROVE  Added(f) \in Int /\ Added(g) \in Int /\ Lies(n, c, lo, hi, Added(f), Added(g))
<1>1. \A i \in 1 .. n : f[i] \in Int /\ g[i] \in Int /\ g[i] + lo <= c * f[i] /\ c * f[i] <= g[i] + hi
  BY DEF Lies
<1>2. /\ Added(f) \in Int /\ Added(g) \in Int
      /\ Added(g) + lo * n <= c * Added(f)
      /\ c * Added(f) <= Added(g) + hi * n
  BY <1>1, AddedBetween
<1> QED
  BY <1>2 DEF Lies

\* Whole cents stay as they are.
LEMMA WholeCents == ASSUME NEW r \in Int PROVE RoundMoney(100 * r) = r
<1>1. 100 * r \in Int
  OBVIOUS
<1>2. /\ RoundMoney(100 * r) \in Int
      /\ 100 * r - 50 <= 100 * RoundMoney(100 * r) /\ 100 * RoundMoney(100 * r) <= 100 * r + 50
  BY <1>1, MoneyBounds
<1> QED
  BY <1>2

\* What is rounded one by one and what is rounded at the end
LEMMA RoundedLate ==
  ASSUME NEW n \in Nat \ {0}, NEW s \in Int, NEW a \in Nat,
         a + (-49) * n <= 100 * s, 100 * s <= a + 50 * n
  PROVE  Near(s, RoundMoney(a), n)
<1> DEFINE t == RoundMoney(a)
<1>1. t \in Int /\ a - 50 < 100 * t /\ 100 * t <= a + 50
  <2>1. a \in Int /\ a >= 0
    OBVIOUS
  <2> QED
    BY <2>1, MoneyBounds
<1> HIDE DEF t
<1>2. 2 * (s - t) <= n
  BY <1>1
<1>3. 2 * (t - s) <= n
  BY <1>1
<1> QED
  BY <1>2, <1>3 DEF Near, t

\* The discount, capped
Deducted == Smaller(LoyaltyDiscount, Subtotal * 100)

LEMMA DeductedNat == bill \in Bill => Deducted \in Nat
  BY DiscountNat, SubtotalNat DEF Deducted, Smaller

\* Line by line
LEMMA LinesShareAlone ==
  ASSUME bill \in Bill, ~OrderModel, NEW f, DOMAIN f = 1 .. LineCount,
         \A i \in 1 .. LineCount : f[i] = LineLoyalty(ShareOf(i))
  PROVE  Near(Added(f), LoyaltyTotal, LineCount)
<1> DEFINE n == LineCount
           g == [i \in 1 .. n |-> Early(bill.lines[i])]
           h == [i \in 1 .. n |-> LineSubtotal(bill.lines[i])]
           h100 == [i \in 1 .. n |-> 100 * h[i]]
<1>1. n \in Nat \ {0} /\ DOMAIN bill.lines = 1 .. n /\ \A i \in 1 .. n : bill.lines[i] \in BilledLine
  BY BillFacts
<1>2. \A i \in 1 .. n : ShareOf(i) = g[i]
  BY DEF ShareOf
<1>3. \A i \in 1 .. n : g[i] \in Nat /\ h[i] \in Nat /\ h100[i] = 100 * h[i] /\ g[i] <= h100[i]
  BY <1>1, LineFacts DEF Early
<1>4. DOMAIN g = 1 .. n /\ DOMAIN h = 1 .. n /\ DOMAIN h100 = 1 .. n
  OBVIOUS
<1>5. LoyaltyDiscount = Added(g)
  <2>1. CASE bill.model = "NONE"
    <3>1. \A i \in 1 .. n : g[i] = 0
      BY <2>1 DEF Early
    <3>2. Added(g) = 0 * n
      <4> HIDE DEF g
      <4> QED
        BY <1>1, <1>4, <3>1, AddedConstant
    <3> QED
      BY <1>1, <2>1, <3>2 DEF LoyaltyDiscount
  <2>2. CASE bill.model # "NONE"
    <3>1. g = [i \in DOMAIN bill.lines |-> OwnDiscount(bill.lines[i])]
      BY <1>1, <2>2 DEF Early
    <3> QED
      BY <2>2, <3>1 DEF LoyaltyDiscount, OrderModel
  <2> QED
    BY <2>1, <2>2
<1>6. Subtotal = Added(h)
  BY <1>1 DEF Subtotal
<1> HIDE DEF g, h, h100, n
<1>7. Added(g) <= 100 * Added(h) /\ Added(g) \in Nat /\ Added(h) \in Nat
  <2>1. n \in Nat /\ 100 \in Int
    BY <1>1
  <2>2. \A i \in 1 .. n : g[i] \in Int /\ h100[i] \in Int /\ g[i] <= h100[i]
    BY <1>3
  <2>3. \A i \in 1 .. n : h[i] \in Int /\ h100[i] = 100 * h[i]
    BY <1>3
  <2>4. Added(g) <= Added(h100)
    BY <1>4, <2>1, <2>2, AddedMonotone, Zenon
  <2>5. Added(h100) = 100 * Added(h)
    <3> DEFINE c == 100
    <3>1. c \in Int /\ \A i \in 1 .. n : h[i] \in Int /\ h100[i] = c * h[i]
      BY <2>3
    <3> HIDE DEF c
    <3>2. Added(h100) = c * Added(h)
      BY <1>4, <2>1, <3>1, AddedScaled
    <3> QED
      BY <3>2 DEF c
  <2>6. Added(g) \in Nat /\ Added(h) \in Nat
    BY <1>3, <1>4, <2>1, AddedNat
  <2> QED
    BY <2>4, <2>5, <2>6
<1>8. LoyaltyTotal = RoundMoney(Added(g))
  BY <1>5, <1>6, <1>7 DEF LoyaltyTotal, Smaller
<1>9. \A i \in 1 .. n : f[i] \in Int /\ g[i] + (-49) <= 100 * f[i] /\ 100 * f[i] <= g[i] + 50
  <2>1. SUFFICES ASSUME NEW i \in 1 .. n
                 PROVE  f[i] \in Int /\ g[i] + (-49) <= 100 * f[i] /\ 100 * f[i] <= g[i] + 50
    OBVIOUS
  <2>2. f[i] = RoundMoney(g[i]) /\ g[i] \in Nat
    BY <1>2, <1>3 DEF LineLoyalty, n
  <2>3. PICK a \in Nat : a = g[i]
    BY <2>2
  <2>4. a \in Int /\ a >= 0
    OBVIOUS
  <2>5. RoundMoney(a) \in Int /\ a - 50 < 100 * RoundMoney(a) /\ 100 * RoundMoney(a) <= a + 50
    BY <2>4, MoneyBounds
  <2>6. a + (-49) <= 100 * RoundMoney(a)
    BY <2>5
  <2> QED
    BY <2>2, <2>3, <2>5, <2>6
<1>10. /\ Added(f) \in Int
       /\ Added(g) + (-49) * n <= 100 * Added(f)
       /\ 100 * Added(f) <= Added(g) + 50 * n
  <2>1. \A i \in 1 .. n : f[i] \in Int /\ g[i] \in Int /\ Lies(1, 100, -49, 50, f[i], g[i])
    BY <1>3, <1>9 DEF Lies
  <2>2. n \in Nat /\ 100 \in Int /\ -49 \in Int /\ 50 \in Int /\ DOMAIN f = 1 .. n
    BY <1>1 DEF n
  <2>3. Added(f) \in Int /\ Lies(n, 100, -49, 50, Added(f), Added(g))
    BY <1>4, <2>1, <2>2, AddedWithin, ZenonT(60)
  <2> QED
    BY <2>3 DEF Lies
<1> QED
  BY <1>1, <1>7, <1>8, <1>10, RoundedLate DEF n

\* The shares of an order's lines but the last are whole cents, as near to their part of
\* the discount as those can be.
LEMMA EarlyIsNear ==
  ASSUME NEW s \in Nat, NEW sub \in Nat \ {0}, NEW d \in Nat
  PROVE  LET r == Smaller(s, RoundedDiv(d * s, sub * 100)) IN
         /\ r \in Nat
         /\ d >= sub * 100 => r = s
         /\ d <= sub * 100 => Lies(1, 200 * sub, -(100 * sub), 100 * sub, r, 2 * (d * s))
<1> DEFINE b == sub * 100
           a == d * s
           q == RoundedDiv(a, b)
           r == Smaller(s, q)
<1>1. b \in Nat \ {0} /\ a \in Nat /\ a \in Int
  OBVIOUS
<1>2. q \in Int /\ 2 * a - b < 2 * (b * q) /\ 2 * (b * q) <= 2 * a + b
  <2> HIDE DEF a, b
  <2> QED
    BY <1>1, RoundedBounds
<1>3. d >= b => a >= b * s
  BY DEF b
<1>4. d <= b => a <= b * s
  BY DEF b
<1> HIDE DEF a, b, q
<1>5. q >= 0
  <2>1. SUFFICES ASSUME q <= -1 PROVE FALSE
    BY <1>2
  <2>2. b * q <= -b
    BY <1>1, <1>2, <2>1
  <2> QED
    BY <1>1, <1>2, <2>2
<1>6. d >= b => q >= s
  <2>1. SUFFICES ASSUME d >= b, q <= s - 1 PROVE FALSE
    BY <1>2
  <2>2. b * q <= b * s - b
    BY <1>1, <1>2, <2>1
  <2> QED
    BY <1>1, <1>2, <1>3, <2>1, <2>2
<1>7. d <= b => q <= s
  <2>1. SUFFICES ASSUME d <= b, q >= s + 1 PROVE FALSE
    BY <1>2
  <2>2. b * q >= b * s + b
    BY <1>1, <1>2, <2>1
  <2> QED
    BY <1>1, <1>2, <1>4, <2>1, <2>2
<1>8. r \in Nat /\ (d >= b => r = s) /\ (d <= b => r = q)
  BY <1>2, <1>5, <1>6, <1>7 DEF Smaller
<1>9. ASSUME d <= b PROVE Lies(1, 200 * sub, -(100 * sub), 100 * sub, r, 2 * (d * s))
  <2>1. r = q
    BY <1>8, <1>9
  <2>2. 2 * a - b <= 2 * (b * q) /\ 2 * (b * q) <= 2 * a + b
    BY <1>1, <1>2
  <2>3. 2 * (b * q) = (200 * sub) * q /\ b = 100 * sub
    BY <1>2 DEF b
  <2>4. 2 * a + (-(100 * sub)) * 1 <= (200 * sub) * q /\ (200 * sub) * q <= 2 * a + (100 * sub) * 1
    BY <1>1, <1>2, <2>2, <2>3
  <2> QED
    BY <2>1, <2>4 DEF Lies, a
<1> QED
  BY <1>8, <1>9 DEF a, b, q

\* The last line gets what remains.
LEMMA RestIsRounded ==
  ASSUME NEW n \in Nat \ {0}, NEW cap \in Nat, NEW x \in Int, n = 1 => x = 0
  PROVE  Near(x + RoundMoney(cap - 100 * x), RoundMoney(cap), n)
<1> DEFINE m == RoundMoney(cap)
           k == RoundMoney(cap - 100 * x)
<1>1. m \in Int /\ cap - 50 < 100 * m /\ 100 * m <= cap + 50
  BY MoneyBounds
<1>2. cap - 100 * x \in Int
  OBVIOUS
<1>3. k \in Int /\ cap - 100 * x - 50 <= 100 * k /\ 100 * k <= cap - 100 * x + 50
  BY <1>2, MoneyBounds
<1>4. n = 1 => k = m
  OBVIOUS
<1> HIDE DEF m, k
<1>5. Near(x + k, m, n)
  <2>1. x + k - m <= 1 /\ m - (x + k) <= 1
    BY <1>1, <1>3
  <2>2. CASE n = 1
    BY <1>1, <1>4, <2>2 DEF Near
  <2>3. CASE n >= 2
    BY <1>1, <1>3, <2>1, <2>3 DEF Near
  <2> QED
    BY <2>2, <2>3
<1> QED
  BY <1>5 DEF m, k

\* The last line does not cost what remains.
LEMMA RestIsCapped ==
  ASSUME NEW n \in Nat \ {0}, NEW sub \in Nat \ {0}, NEW d \in Nat, NEW s \in Nat, NEW x \in Int,
         NEW early \in Int, early = 2 * (d * (sub - s)),
         d <= sub * 100, s * 100 <= d - 100 * x,
         early + (-(100 * sub)) * (n - 1) <= (200 * sub) * x
  PROVE  Near(x + s, RoundMoney(d), n)
<1> DEFINE m == RoundMoney(d)
<1>1. m \in Int /\ d - 50 < 100 * m /\ 100 * m <= d + 50
  BY MoneyBounds
<1> HIDE DEF m
<1>2. x + s <= m
  BY <1>1
<1>3. (2 * sub) * (100 * m) <= (2 * sub) * (d + 50)
  BY <1>1
<1>4. 2 * (d * (sub - s)) = (2 * sub) * d - 2 * (d * s)
  OBVIOUS
<1>5. d * s <= (sub * 100) * s
  OBVIOUS
<1> DEFINE e == m - (x + s)
<1>6. (200 * sub) * e <= (100 * sub) * n
  <2>1. (200 * sub) * e = (2 * sub) * (100 * m) - (200 * sub) * x - (200 * sub) * s
    BY <1>1
  <2>2. (2 * sub) * (d + 50) = (2 * sub) * d + 100 * sub
    OBVIOUS
  <2>3. (-(100 * sub)) * (n - 1) = (100 * sub) - (100 * sub) * n
    OBVIOUS
  <2>4. (sub * 100) * s = (100 * sub) * s /\ (200 * sub) * s = 2 * ((100 * sub) * s)
    OBVIOUS
  <2> HIDE DEF e
  <2> QED
    BY <1>1, <1>3, <1>4, <1>5, <2>1, <2>2, <2>3, <2>4
<1>7. 2 * e <= n
  <2>1. e \in Int
    BY <1>1
  <2> HIDE DEF e
  <2>2. SUFFICES ASSUME 2 * e >= n + 1 PROVE FALSE
    BY <2>1
  <2>3. (100 * sub) * (2 * e) >= (100 * sub) * (n + 1)
    BY <2>1, <2>2
  <2>4. (100 * sub) * (2 * e) = (200 * sub) * e /\ (100 * sub) * (n + 1) = (100 * sub) * n + 100 * sub
    BY <2>1
  <2> QED
    BY <1>6, <2>1, <2>3, <2>4
<1> QED
  BY <1>1, <1>2, <1>7 DEF Near, m

\* An order without a price
LEMMA FreeOrder ==
  ASSUME bill \in Bill, OrderModel, Subtotal = 0, NEW f, DOMAIN f = 1 .. LineCount,
         \A i \in 1 .. LineCount : f[i] = LineLoyalty(ShareOf(i))
  PROVE  Near(Added(f), LoyaltyTotal, LineCount)
<1>1. LineCount \in Nat \ {0} /\ bill.value \in Nat
  BY BillFacts
<1>2. \A i \in 1 .. LineCount : ShareOf(i) = 0
  BY DEF ShareOf, OrderShare, Early
<1>3. RoundMoney(0) = 0
  BY DEF RoundMoney, RoundedDiv
<1>4. \A i \in 1 .. LineCount : f[i] = 0
  BY <1>2, <1>3 DEF LineLoyalty
<1>5. Added(f) = 0 * LineCount
  BY <1>1, <1>4, AddedConstant
<1>6. LoyaltyDiscount = 0
  BY <1>1 DEF LoyaltyDiscount, OrderModel, Smaller
<1>7. LoyaltyTotal = 0
  BY <1>3, <1>6 DEF LoyaltyTotal, Smaller
<1> QED
  BY <1>1, <1>5, <1>7 DEF Near

\* The discount of an order is shared by rounding the part of each line to whole cents and
\* giving the last line what remains, capped by what that line costs
LEMMA OrderSharesItsDiscount ==
  ASSUME bill \in Bill, OrderModel, Subtotal # 0, NEW f, DOMAIN f = 1 .. LineCount,
         \A i \in 1 .. LineCount : f[i] = LineLoyalty(ShareOf(i))
  PROVE  Near(Added(f), LoyaltyTotal, LineCount)
<1> DEFINE n == LineCount
           sub == Subtotal
           d == LoyaltyDiscount
           cap == Deducted
           s == [i \in 1 .. n |-> LineSubtotal(bill.lines[i])]
           se == [i \in 1 .. n - 1 |-> s[i]]
           r == [i \in 1 .. n - 1 |-> Smaller(s[i], RoundedDiv(d * s[i], sub * 100))]
           part == [i \in 1 .. n - 1 |-> 2 * (d * s[i])]
           x == Added(r)
<1>1. n \in Nat \ {0} /\ n - 1 \in Nat /\ n \in 1 .. n /\ DOMAIN bill.lines = 1 .. n
      /\ \A i \in 1 .. n : bill.lines[i] \in BilledLine
  BY BillFacts
<1>2. sub \in Nat \ {0} /\ d \in Nat /\ cap \in Nat /\ cap = Smaller(d, sub * 100)
  BY SubtotalNat, DiscountNat, DeductedNat DEF Deducted
<1>3. \A i \in 1 .. n : s[i] \in Nat /\ s[i] = LineSubtotal(bill.lines[i])
  BY <1>1, LineFacts
<1>4. /\ DOMAIN s = 1 .. n /\ DOMAIN se = 1 .. n - 1 /\ DOMAIN r = 1 .. n - 1 /\ DOMAIN part = 1 .. n - 1
      /\ \A i \in 1 .. n - 1 : i \in 1 .. n /\ se[i] = s[i] /\ part[i] = 2 * (d * s[i])
  BY <1>1
<1>5. \A i \in 1 .. n - 1 : /\ r[i] \in Nat
                            /\ d >= sub * 100 => r[i] = se[i]
                            /\ d <= sub * 100 => Lies(1, 200 * sub, -(100 * sub), 100 * sub, r[i], part[i])
  <2>1. SUFFICES ASSUME NEW i \in 1 .. n - 1
                 PROVE  /\ r[i] \in Nat
                        /\ d >= sub * 100 => r[i] = se[i]
                        /\ d <= sub * 100 => Lies(1, 200 * sub, -(100 * sub), 100 * sub, r[i], part[i])
    OBVIOUS
  <2>2. s[i] \in Nat /\ se[i] = s[i] /\ part[i] = 2 * (d * s[i])
    BY <1>3, <1>4
  <2>3. r[i] = Smaller(s[i], RoundedDiv(d * s[i], sub * 100))
    OBVIOUS
  <2> HIDE DEF s, se, part, r, d, sub
  <2> QED
    BY <1>2, <2>2, <2>3, EarlyIsNear
<1>6. \A i \in 1 .. n - 1 : EarlyShares(n - 1)[i] = 100 * r[i]
  <2>1. SUFFICES ASSUME NEW i \in 1 .. n - 1 PROVE Early(bill.lines[i]) = 100 * r[i]
    BY DEF EarlyShares
  <2>2. s[i] \in Nat /\ LineSubtotal(bill.lines[i]) = s[i]
    BY <1>3, <1>4
  <2> DEFINE q == RoundedDiv(d * s[i], sub * 100)
  <2>3. Early(bill.lines[i]) = Smaller(s[i] * 100, 100 * q) /\ r[i] = Smaller(s[i], q)
    BY <2>2 DEF Early
  <2>4. q \in Int
    <3>1. d * s[i] \in Int /\ sub * 100 \in Nat \ {0}
      BY <1>2, <2>2
    <3> QED
      BY <3>1, RoundedBounds
  <2> HIDE DEF q, r, s
  <2> QED
    BY <2>2, <2>3, <2>4 DEF Smaller
<1>7. sub = Added(s)
  BY <1>1 DEF Subtotal
<1>8. LoyaltyTotal = RoundMoney(cap)
  BY DEF LoyaltyTotal, Deducted
<1> HIDE DEF s, se, r, part, sub, d, cap, n, x
<1>9. x \in Int /\ Added(se) \in Int /\ Added(s) = Added(se) + s[n]
  <2>1. \A i \in 1 .. n - 1 : r[i] \in Int /\ se[i] \in Int /\ se[i] = s[i]
    BY <1>3, <1>4, <1>5
  <2>2. \A i \in 1 .. n : s[i] \in Int
    BY <1>3
  <2>3. Added(r) \in Int /\ Added(se) \in Int
    BY <1>1, <1>4, <2>1, AddedInt
  <2>4. Added(s) = Added(se) + s[n]
    BY <1>1, <1>4, <2>1, <2>2, AddedLast
  <2> QED
    BY <2>3, <2>4 DEF x
<1>10. Added(EarlyShares(n - 1)) = 100 * x
  <2> DEFINE c == 100
             e == EarlyShares(n - 1)
  <2>1. DOMAIN e = 1 .. n - 1
    BY <1>1, EarlySharesInt DEF n
  <2>2. c \in Int /\ \A i \in 1 .. n - 1 : r[i] \in Int /\ e[i] = c * r[i]
    BY <1>5, <1>6
  <2> HIDE DEF c, e
  <2>3. Added(e) = c * Added(r)
    BY <1>1, <1>4, <2>1, <2>2, AddedScaled
  <2> QED
    BY <2>3 DEF c, e, x
<1>11. \A i \in 1 .. n - 1 : f[i] = r[i] /\ f[i] \in Int
  <2>1. SUFFICES ASSUME NEW i \in 1 .. n - 1 PROVE f[i] = r[i] /\ f[i] \in Int
    OBVIOUS
  <2>2. ShareOf(i) = EarlyShares(n - 1)[i] /\ i \in 1 .. n
    BY <1>1, EarlySharesInt DEF ShareOf, n
  <2>3. r[i] \in Int
    BY <1>5
  <2>4. f[i] = RoundMoney(100 * r[i])
    BY <1>6, <2>2 DEF LineLoyalty, n
  <2> QED
    BY <2>3, <2>4, WholeCents
<1>12. ShareOf(n) = Smaller(s[n] * 100, cap - 100 * x)
  <2>1. Len(EarlyShares(n - 1)) + 1 = Len(bill.lines)
    <3>1. EarlyShares(n - 1) = [j \in 1 .. n - 1 |-> Early(bill.lines[j])]
      BY DEF EarlyShares
    <3> QED
      BY <1>1, <3>1 DEF LineCount, n
  <2>2. Remaining(EarlyShares(n - 1)) = cap - 100 * x
    BY <1>10 DEF Remaining, cap, Deducted
  <2> QED
    BY <1>1, <1>3, <2>1, <2>2 DEF ShareOf, OrderShare, n
<1>13. f[n] = RoundMoney(Smaller(s[n] * 100, cap - 100 * x))
  BY <1>1, <1>12 DEF LineLoyalty, n
<1>14. f[n] \in Int
  <2>1. Smaller(s[n] * 100, cap - 100 * x) \in Int
    BY <1>1, <1>2, <1>3, <1>9 DEF Smaller
  <2> QED
    BY <1>13, <2>1, MoneyBounds
<1>15. Added(f) = x + f[n]
  <2>1. \A i \in 1 .. n : f[i] \in Int
    BY <1>1, <1>11, <1>14
  <2>2. \A i \in 1 .. n - 1 : r[i] = f[i]
    BY <1>11
  <2>3. DOMAIN f = 1 .. n
    BY DEF n
  <2> QED
    BY <1>1, <1>4, <2>1, <2>2, <2>3, AddedLast DEF x
<1>16. CASE cap - 100 * x <= s[n] * 100
  <2>1. f[n] = RoundMoney(cap - 100 * x)
    BY <1>1, <1>2, <1>3, <1>9, <1>13, <1>16 DEF Smaller
  <2>2. n = 1 => x = 0
    <3>1. SUFFICES ASSUME n = 1 PROVE x = 0
      OBVIOUS
    <3>2. \A i \in 1 .. 0 : r[i] = 0
      OBVIOUS
    <3>3. DOMAIN r = 1 .. 0
      BY <1>4, <3>1
    <3>4. Added(r) = 0 * 0
      BY <3>2, <3>3, AddedConstant
    <3> QED
      BY <3>4 DEF x
  <2>3. Near(x + RoundMoney(cap - 100 * x), RoundMoney(cap), n)
    BY <1>1, <1>2, <1>9, <2>2, RestIsRounded
  <2> QED
    BY <1>8, <1>15, <2>1, <2>3 DEF n
<1>17. CASE s[n] * 100 < cap - 100 * x
  <2>1. f[n] = s[n]
    <3>1. f[n] = RoundMoney(100 * s[n])
      BY <1>1, <1>2, <1>3, <1>9, <1>13, <1>17 DEF Smaller
    <3>2. s[n] \in Int
      BY <1>1, <1>3
    <3> QED
      BY <3>1, <3>2, WholeCents
  <2>2. d < sub * 100
    <3>1. SUFFICES ASSUME d >= sub * 100 PROVE FALSE
      BY <1>2
    <3>2. \A i \in 1 .. n - 1 : r[i] = se[i]
      BY <1>5, <3>1
    <3>3. x = Added(se)
      BY <1>1, <1>4, <3>2, AddedSame DEF x
    <3>4. cap = sub * 100
      BY <1>2, <3>1 DEF Smaller
    <3>5. s[n] \in Int /\ x \in Int /\ sub = x + s[n]
      BY <1>1, <1>3, <1>7, <1>9, <3>3
    <3>6. s[n] * 100 < sub * 100 - 100 * x
      BY <1>17, <3>4
    <3> QED
      BY <3>5, <3>6
  <2>3. cap = d
    BY <1>2, <2>2 DEF Smaller
  <2> DEFINE c == 200 * sub
             lo == -(100 * sub)
             hi == 100 * sub
             m == n - 1
  <2>4. m \in Nat /\ c \in Int /\ lo \in Int /\ hi \in Int
    BY <1>1, <1>2
  <2>5. \A i \in 1 .. m : r[i] \in Int /\ part[i] \in Int /\ Lies(1, c, lo, hi, r[i], part[i])
    BY <1>2, <1>3, <1>4, <1>5, <2>2
  <2>6. DOMAIN r = 1 .. m /\ DOMAIN part = 1 .. m /\ DOMAIN se = 1 .. m
    BY <1>4
  <2>7. Added(part) \in Int /\ Lies(m, c, lo, hi, x, Added(part))
    <3> HIDE DEF c, lo, hi, m
    <3> QED
      BY <2>4, <2>5, <2>6, AddedWithin DEF x
  <2>8. Added(part) = 2 * (d * (sub - s[n]))
    <3> DEFINE k == 2 * d
    <3>1. k \in Int /\ \A i \in 1 .. m : se[i] \in Int /\ part[i] = k * se[i]
      BY <1>2, <1>3, <1>4
    <3> HIDE DEF k, m
    <3>2. Added(part) = k * Added(se)
      <4>1. m \in Nat /\ DOMAIN se = 1 .. m /\ DOMAIN part = 1 .. m
        BY <2>4, <2>6
      <4> QED
        BY <3>1, <4>1, AddedScaled
    <3>3. Added(se) = sub - s[n]
      BY <1>1, <1>2, <1>3, <1>7, <1>9
    <3> QED
      BY <1>1, <1>2, <1>3, <3>2, <3>3 DEF k
  <2>9. Added(part) + (-(100 * sub)) * (n - 1) <= (200 * sub) * x
    BY <2>7 DEF Lies
  <2>10. Near(x + s[n], RoundMoney(d), n)
    <3>1. s[n] \in Nat /\ d <= sub * 100 /\ s[n] * 100 <= d - 100 * x
      BY <1>1, <1>2, <1>3, <1>9, <1>17, <2>2, <2>3
    <3> HIDE DEF c, lo, hi, m
    <3> QED
      BY <1>1, <1>2, <1>9, <2>7, <2>8, <2>9, <3>1, RestIsCapped
  <2> QED
    BY <1>8, <1>15, <2>1, <2>3, <2>10 DEF n
<1> QED
  BY <1>1, <1>2, <1>3, <1>9, <1>16, <1>17

\* Whichever the model, what the lines are given adds up to what is deducted.
LEMMA SharesAddUp ==
  ASSUME bill \in Bill, NEW f, DOMAIN f = 1 .. LineCount,
         \A i \in 1 .. LineCount : f[i] = LineLoyalty(ShareOf(i))
  PROVE  Near(Added(f), LoyaltyTotal, LineCount)
  BY LinesShareAlone, FreeOrder, OrderSharesItsDiscount

-----------------------------------------------------------------------------
(* Pricing: the amounts of a receipt *)

LoyaltyOf(i) == LineLoyalty(ShareOf(i))
TaxOf(i) == LineTax(bill.lines[i], ShareOf(i))

\* No line is discounted below nothing, and its total is what is left with its tax.
LEMMA LineAmounts ==
  ASSUME bill \in Bill, NEW i \in 1 .. LineCount
  PROVE  /\ LoyaltyOf(i) \in Int /\ LoyaltyOf(i) <= LineSubtotal(bill.lines[i])
         /\ TaxOf(i) \in Nat
         /\ LineTotal(bill.lines[i], ShareOf(i)) = LineSubtotal(bill.lines[i]) - LoyaltyOf(i) + TaxOf(i)
<1> DEFINE l == bill.lines[i]
           s == LineSubtotal(l)
           r == LoyaltyOf(i)
           h == ShareOf(i)
           taxable == IF l.preDiscount THEN s ELSE Larger(s - r, 0)
<1>1. l \in BilledLine /\ s \in Nat
  BY BillFacts, LineFacts
<1>2. h \in Int /\ h <= s * 100
  BY ShareInt
<1>3. r = RoundMoney(h)
  BY DEF LoyaltyOf, LineLoyalty
<1>4. r \in Int /\ 100 * r <= h + 50
  <2> HIDE DEF h, r
  <2> QED
    BY <1>2, <1>3, MoneyBounds
<1>5. r <= s
  <2> HIDE DEF s, r, h
  <2> QED
    BY <1>1, <1>2, <1>4
<1>6. TaxOf(i) = RoundMoney(taxable * l.rate + l.surcharge * 100)
  BY DEF TaxOf, LineTax, Tax, LoyaltyOf
<1>7. taxable \in Nat
  <2> HIDE DEF s, r
  <2> QED
    BY <1>1, <1>4 DEF Larger
<1>8. taxable * l.rate + l.surcharge * 100 \in Nat
  <2>1. l.rate \in Nat /\ l.surcharge \in Nat
    BY <1>1 DEF BilledLine
  <2> HIDE DEF taxable
  <2> QED
    BY <1>7, <2>1
<1>9. TaxOf(i) \in Nat
  <2>1. PICK a \in Nat : a = taxable * l.rate + l.surcharge * 100
    BY <1>8
  <2>2. a \in Int /\ a >= 0
    OBVIOUS
  <2>3. RoundMoney(a) \in Int /\ RoundMoney(a) >= 0
    BY <2>2, MoneyBounds
  <2> QED
    BY <1>6, <2>1, <2>3
<1>10. LineTotal(l, h) = Larger(s - r + TaxOf(i), 0)
  BY DEF LineTotal, LoyaltyOf, TaxOf
<1>11. LineTotal(l, h) = s - r + TaxOf(i)
  <2> HIDE DEF s, r, h, l
  <2> QED
    BY <1>1, <1>4, <1>5, <1>9, <1>10 DEF Larger
<1> QED
  BY <1>4, <1>5, <1>9, <1>11

LEMMA LoyaltyTotalBounds ==
  ASSUME bill \in Bill PROVE LoyaltyTotal \in Int /\ LoyaltyTotal <= Subtotal
<1>1. LoyaltyTotal = RoundMoney(Deducted)
  BY DEF LoyaltyTotal, Deducted
<1>2. Deducted \in Int /\ Subtotal \in Int /\ Deducted <= Subtotal * 100
  BY DiscountNat, SubtotalNat, DeductedNat DEF Deducted, Smaller
<1>3. RoundMoney(Deducted) \in Int /\ 100 * RoundMoney(Deducted) <= Deducted + 50
  BY <1>2, MoneyBounds
<1> QED
  BY <1>1, <1>2, <1>3

\* What is on the receipt
LEMMA ReceiptAmounts ==
  ASSUME bill \in Bill
  PROVE  LET r == Amounts(SharesUpTo(LineCount)) IN
         /\ \A i \in 1 .. LineCount :
              /\ r.lines[i].discount = ItemDiscount(bill.lines[i]) + LoyaltyOf(i)
              /\ r.lines[i].tax = TaxOf(i)
              /\ r.lines[i].total = LineSubtotal(bill.lines[i]) - LoyaltyOf(i) + TaxOf(i)
         /\ r.discount = LoyaltyTotal + Added([i \in 1 .. LineCount |-> ItemDiscount(bill.lines[i])])
         /\ r.tax = Added([i \in 1 .. LineCount |-> TaxOf(i)])
         /\ r.total = Subtotal - LoyaltyTotal + r.tax
<1> DEFINE n == LineCount
           r == Amounts(SharesUpTo(n))
           t == [i \in 1 .. n |-> TaxOf(i)]
<1>1. n \in Nat \ {0} /\ DOMAIN bill.lines = 1 .. n
  BY BillFacts
<1>2. \A i \in 1 .. n : SharesUpTo(n)[i] = ShareOf(i)
  BY DEF SharesUpTo
<1>3. [i \in DOMAIN bill.lines |-> LineTax(bill.lines[i], SharesUpTo(n)[i])] = t
  BY <1>1, <1>2 DEF TaxOf
<1>4. \A i \in 1 .. n : /\ r.lines[i].discount = ItemDiscount(bill.lines[i]) + LoyaltyOf(i)
                        /\ r.lines[i].tax = TaxOf(i)
                        /\ r.lines[i].total = LineTotal(bill.lines[i], ShareOf(i))
  BY <1>1, <1>2 DEF Amounts, LoyaltyOf, TaxOf
<1>5. r.discount = LoyaltyTotal + Added([i \in 1 .. n |-> ItemDiscount(bill.lines[i])])
  BY <1>1 DEF Amounts
<1>6. r.tax = Added(t) /\ r.total = Larger(Subtotal - LoyaltyTotal + Added(t), 0)
  BY <1>3 DEF Amounts
<1>7. Added(t) \in Nat
  <2>1. DOMAIN t = 1 .. n /\ \A i \in 1 .. n : t[i] \in Nat
    BY LineAmounts
  <2> HIDE DEF t
  <2> QED
    BY <1>1, <2>1, AddedNat
<1>8. r.total = Subtotal - LoyaltyTotal + Added(t)
  <2> HIDE DEF r, t
  <2> QED
    BY <1>6, <1>7, SubtotalNat, LoyaltyTotalBounds DEF Larger
<1>9. \A i \in 1 .. n : LineTotal(bill.lines[i], ShareOf(i)) = LineSubtotal(bill.lines[i]) - LoyaltyOf(i) + TaxOf(i)
  BY LineAmounts
<1> HIDE DEF r
<1> QED
  BY <1>4, <1>5, <1>6, <1>8, <1>9 DEF r

\* h is f and g, place by place.
PlaceByPlace(n, f, g, h) ==
  /\ DOMAIN f = 1 .. n /\ DOMAIN g = 1 .. n /\ DOMAIN h = 1 .. n
  /\ \A i \in 1 .. n : f[i] \in Int /\ g[i] \in Int /\ h[i] = f[i] + g[i]

LEMMA AddedPlaces ==
  ASSUME NEW n \in Nat, NEW f, NEW g, NEW h, PlaceByPlace(n, f, g, h)
  PROVE  Added(h) = Added(f) + Added(g)
  BY AddedPlus DEF PlaceByPlace

ReceiptIsRight == bill \in Bill /\ receipt = Amounts(SharesUpTo(LineCount))

\* The sums over the lines of a receipt
LEMMA ReceiptSums ==
  ASSUME ReceiptIsRight
  PROVE  /\ receipt.total \in Int /\ receipt.discount \in Int /\ receipt.tax \in Int
         /\ Near(Added([i \in 1 .. LineCount |-> receipt.lines[i].total]), receipt.total, LineCount)
         /\ Near(Added([i \in 1 .. LineCount |-> receipt.lines[i].discount]), receipt.discount, LineCount)
         /\ (\A i \in 1 .. LineCount : bill.lines[i].unit <= bill.lines[i].original) =>
              receipt.total + receipt.discount =
                receipt.tax + Added([i \in 1 .. LineCount |-> bill.lines[i].original * bill.lines[i].quantity])
<1> DEFINE n == LineCount
           s == [i \in 1 .. n |-> LineSubtotal(bill.lines[i])]
           r == [i \in 1 .. n |-> LoyaltyOf(i)]
           t == [i \in 1 .. n |-> TaxOf(i)]
           id == [i \in 1 .. n |-> ItemDiscount(bill.lines[i])]
           u == [i \in 1 .. n |-> LineSubtotal(bill.lines[i]) - LoyaltyOf(i)]
           tot == [i \in 1 .. n |-> receipt.lines[i].total]
           dis == [i \in 1 .. n |-> receipt.lines[i].discount]
           org == [i \in 1 .. n |-> bill.lines[i].original * bill.lines[i].quantity]
<1>1. n \in Nat \ {0} /\ n \in Nat /\ DOMAIN bill.lines = 1 .. n /\ \A i \in 1 .. n : bill.lines[i] \in BilledLine
  BY BillFacts DEF ReceiptIsRight
<1>2. /\ DOMAIN s = 1 .. n /\ DOMAIN r = 1 .. n /\ DOMAIN t = 1 .. n /\ DOMAIN id = 1 .. n
      /\ DOMAIN u = 1 .. n /\ DOMAIN tot = 1 .. n /\ DOMAIN dis = 1 .. n /\ DOMAIN org = 1 .. n
  OBVIOUS
<1>3. \A i \in 1 .. n : s[i] \in Int /\ id[i] \in Int /\ r[i] \in Int /\ t[i] \in Int
  BY <1>1, LineFacts, LineAmounts DEF ReceiptIsRight
<1>4. \A i \in 1 .. n : u[i] \in Int /\ s[i] = u[i] + r[i]
  BY <1>3
<1>5. \A i \in 1 .. n : tot[i] = u[i] + t[i] /\ dis[i] = id[i] + r[i]
  BY ReceiptAmounts DEF ReceiptIsRight
<1>6. /\ receipt.discount = LoyaltyTotal + Added(id)
      /\ receipt.tax = Added(t)
      /\ receipt.total = Subtotal - LoyaltyTotal + receipt.tax
  BY ReceiptAmounts DEF ReceiptIsRight
<1>7. Subtotal = Added(s)
  BY <1>1 DEF Subtotal
<1>8. Near(Added(r), LoyaltyTotal, n)
  <2>1. \A i \in 1 .. LineCount : r[i] = LineLoyalty(ShareOf(i))
    BY DEF LoyaltyOf
  <2> HIDE DEF r
  <2> QED
    BY <1>2, <2>1, SharesAddUp DEF ReceiptIsRight
<1>9. LoyaltyTotal \in Int
  BY LoyaltyTotalBounds DEF ReceiptIsRight
<1>10. ASSUME \A i \in 1 .. n : bill.lines[i].unit <= bill.lines[i].original
       PROVE  \A i \in 1 .. n : id[i] \in Int /\ s[i] \in Int /\ org[i] = id[i] + s[i]
  <2>1. SUFFICES ASSUME NEW i \in 1 .. n PROVE org[i] = id[i] + s[i]
    BY <1>3
  <2> DEFINE l == bill.lines[i]
             p == (l.original - l.unit) * l.quantity
  <2>2. l.quantity \in Nat /\ l.unit \in Nat /\ l.original \in Nat /\ l.unit <= l.original
    BY <1>1, <1>10 DEF BilledLine
  <2>3. p \in Int /\ p >= 0 /\ l.original * l.quantity = p + l.unit * l.quantity
    <3> HIDE DEF l
    <3> QED
      BY <2>2
  <2>4. ItemDiscount(l) = p
    BY <2>3 DEF ItemDiscount, Larger
  <2> QED
    BY <2>3, <2>4 DEF LineSubtotal
<1> HIDE DEF n, s, r, t, id, u, tot, dis, org
<1>11. Added(s) \in Int /\ Added(r) \in Int /\ Added(t) \in Int /\ Added(id) \in Int /\ Added(u) \in Int
  BY <1>1, <1>2, <1>3, <1>4, AddedInt
<1>12. Added(s) = Added(u) + Added(r)
  <2>1. PlaceByPlace(n, u, r, s)
    BY <1>2, <1>3, <1>4 DEF PlaceByPlace
  <2> QED
    BY <1>1, <2>1, AddedPlaces
<1>13. Added(tot) = Added(u) + Added(t)
  <2>1. PlaceByPlace(n, u, t, tot)
    BY <1>2, <1>3, <1>4, <1>5 DEF PlaceByPlace
  <2> QED
    BY <1>1, <2>1, AddedPlaces
<1>14. Added(dis) = Added(id) + Added(r)
  <2>1. PlaceByPlace(n, id, r, dis)
    BY <1>2, <1>3, <1>5 DEF PlaceByPlace
  <2> QED
    BY <1>1, <2>1, AddedPlaces
<1>15. receipt.total \in Int /\ receipt.discount \in Int /\ receipt.tax \in Int
  BY <1>6, <1>7, <1>9, <1>11
<1>16. Near(Added(tot), receipt.total, n)
  BY <1>1, <1>6, <1>7, <1>8, <1>9, <1>11, <1>12, <1>13, SMTT(30) DEF Near
<1>17. Near(Added(dis), receipt.discount, n)
  BY <1>1, <1>6, <1>8, <1>9, <1>11, <1>14 DEF Near
<1>18. ASSUME \A i \in 1 .. n : bill.lines[i].unit <= bill.lines[i].original
       PROVE  receipt.total + receipt.discount = receipt.tax + Added(org)
  <2>1. Added(org) = Added(id) + Added(s)
    <3>1. PlaceByPlace(n, id, s, org)
      BY <1>2, <1>10, <1>18 DEF PlaceByPlace
    <3> QED
      BY <1>1, <3>1, AddedPlaces
  <2> QED
    BY <1>6, <1>7, <1>9, <1>11, <2>1
<1> QED
  BY <1>15, <1>16, <1>17, <1>18 DEF n, tot, dis, org

\* What the client is told
LEMMA QuotedAsCharged ==
  ASSUME ReceiptIsRight,
         \A i \in 1 .. LineCount : bill.lines[i].unit = bill.lines[i].original,
         NEW i \in 1 .. LineCount
  PROVE  LET q == Quoted(bill.lines[i], receipt.lines[i].discount) IN
         q.tax = receipt.lines[i].tax /\ q.total = receipt.lines[i].total
<1> DEFINE l == bill.lines[i]
           s == LineSubtotal(l)
           r == LoyaltyOf(i)
           q == Quoted(l, receipt.lines[i].discount)
<1>1. /\ l \in BilledLine /\ s \in Nat /\ r \in Int /\ r <= s
      /\ receipt.lines[i].discount = ItemDiscount(l) + r
      /\ receipt.lines[i].tax = TaxOf(i)
      /\ receipt.lines[i].total = s - r + TaxOf(i)
      /\ TaxOf(i) \in Nat
  BY BillFacts, LineFacts, LineAmounts, ReceiptAmounts DEF ReceiptIsRight
<1>2. ItemDiscount(l) = 0
  <2>1. l.quantity \in Nat /\ l.unit \in Nat /\ l.original = l.unit
    BY <1>1 DEF BilledLine
  <2>2. (l.original - l.unit) * l.quantity = 0
    <3> HIDE DEF l
    <3> QED
      BY <2>1
  <2> QED
    BY <2>2 DEF ItemDiscount, Larger
<1>3. receipt.lines[i].discount = r /\ l.original * l.quantity = s
  <2>1. l.original = l.unit
    OBVIOUS
  <2> QED
    BY <1>1, <1>2, <2>1 DEF LineSubtotal
<1>4. Larger(s - r, 0) = s - r
  <2> HIDE DEF s, r
  <2> QED
    BY <1>1 DEF Larger
<1>5. TaxOf(i) = Tax(IF l.preDiscount THEN s ELSE s - r, l)
  BY <1>4 DEF TaxOf, LineTax, LoyaltyOf
<1>6. q = [tax |-> TaxOf(i), total |-> s - r + TaxOf(i)]
  BY <1>3, <1>5 DEF Quoted
<1> QED
  BY <1>1, <1>6

-----------------------------------------------------------------------------
(* Pricing: the inductive invariant *)

\* What is shared so far is the shares of the lines reached, as they are computed from the
\* bill alone; the receipt is the amounts of all of the shares, and the cart shows the same.
PricingInv ==
  /\ bill = NoBill => shares = <<>> /\ receipt = <<>> /\ shown = <<>> /\ quote = <<>>
  /\ bill # NoBill => bill \in Bill /\ \E k \in 0 .. LineCount : shares = SharesUpTo(k)
  /\ receipt # <<>> => shares = SharesUpTo(LineCount) /\ receipt = Amounts(SharesUpTo(LineCount))
  /\ shown # <<>> /\ ~changed => SameAmounts(Amounts(SharesUpTo(LineCount)), shown)
  /\ quote # <<>> =>
       receipt # <<>> /\ quote = [i \in DOMAIN bill.lines |-> Quoted(bill.lines[i], receipt.lines[i].discount)]

LEMMA SharesLength == ASSUME NEW k \in Nat PROVE Len(SharesUpTo(k)) = k /\ (k # 0 => SharesUpTo(k) # <<>>)
  BY DEF SharesUpTo

\* Nothing moves while the cart stays.
LEMMA BillStays ==
  ASSUME bill' = bill
  PROVE  /\ LineCount' = LineCount
         /\ \A k : SharesUpTo(k)' = SharesUpTo(k)
         /\ \A given : Amounts(given)' = Amounts(given)
  BY DEF LineCount, SharesUpTo, ShareOf, Early, EarlyShares, OrderShare, OrderModel, Remaining, OwnDiscount,
         LoyaltyDiscount, Subtotal, Amounts, LoyaltyTotal

\* Taxes are not looked at when a discount is shared.
LEMMA SharesStay ==
  ASSUME bill \in Bill, bill' \in Bill, bill'.model = bill.model, bill'.value = bill.value,
         Len(bill'.lines) = Len(bill.lines),
         \A i \in 1 .. LineCount : /\ bill'.lines[i].unit = bill.lines[i].unit
                                   /\ bill'.lines[i].quantity = bill.lines[i].quantity
  PROVE  LineCount' = LineCount /\ \A k \in 0 .. LineCount : SharesUpTo(k)' = SharesUpTo(k)
<1> DEFINE n == LineCount
<1>1. n \in Nat \ {0} /\ DOMAIN bill.lines = 1 .. n /\ DOMAIN bill'.lines = 1 .. n /\ n' = n
  BY DEF Bill, LineCount
<1>2. \A i \in 1 .. n : LineSubtotal(bill'.lines[i]) = LineSubtotal(bill.lines[i])
  BY DEF LineSubtotal
<1>3. [i \in DOMAIN bill'.lines |-> LineSubtotal(bill'.lines[i])]
        = [i \in DOMAIN bill.lines |-> LineSubtotal(bill.lines[i])]
  BY <1>1, <1>2
<1>4. Subtotal' = Subtotal
  BY <1>3 DEF Subtotal
<1>5. \A i \in 1 .. n : OwnDiscount(bill.lines[i])' = OwnDiscount(bill.lines[i])
  BY <1>2 DEF OwnDiscount
<1>6. [i \in DOMAIN bill'.lines |-> OwnDiscount(bill.lines[i])']
        = [i \in DOMAIN bill.lines |-> OwnDiscount(bill.lines[i])]
  BY <1>1, <1>5
<1>7. LoyaltyDiscount' = LoyaltyDiscount
  BY <1>4, <1>6 DEF LoyaltyDiscount
<1>8. OrderModel' <=> OrderModel
  BY DEF OrderModel
<1>9. \A i \in 1 .. n : Early(bill.lines[i])' = Early(bill.lines[i])
  BY <1>2, <1>4, <1>5, <1>7, <1>8 DEF Early
<1>10. EarlyShares(n - 1)' = EarlyShares(n - 1)
  BY <1>1, <1>9 DEF EarlyShares
<1>11. \A i \in 1 .. n : ShareOf(i)' = ShareOf(i)
  BY <1>1, <1>2, <1>4, <1>7, <1>8, <1>9, <1>10 DEF ShareOf, OrderShare, Remaining
<1> QED
  BY <1>1, <1>11 DEF SharesUpTo

-----------------------------------------------------------------------------
(* Pricing: the steps *)

LEMMA PricingInvInit == PricingInit => PricingInv
  BY DEF PricingInit, PricingInv

LEMMA OpenBillStep ==
  ASSUME PricingInv, NEW ls \in BilledLines, NEW d \in Discounts, OpenBill(ls, d) PROVE PricingInv'
<1>1. /\ bill = NoBill /\ bill' = [lines |-> ls, model |-> d.model, value |-> d.value]
      /\ shares' = <<>> /\ receipt' = <<>> /\ shown' = <<>> /\ quote' = <<>>
  BY DEF OpenBill, PricingInv
<1>2. bill' \in Bill
  BY <1>1, PricingAssumption DEF Bill
<1>3. bill' # NoBill
  BY <1>2, PricingAssumption
<1>4. 0 \in 0 .. LineCount'
  BY <1>2 DEF Bill, LineCount
<1>5. shares' = SharesUpTo(0)'
  BY <1>1 DEF SharesUpTo
<1> QED
  BY <1>1, <1>2, <1>3, <1>4, <1>5 DEF PricingInv

LEMMA ShareDiscountStep == ASSUME PricingInv, ShareDiscount PROVE PricingInv'
<1>1. /\ bill # NoBill /\ Len(shares) < LineCount
      /\ shares' = WithShareOf(shares, bill.lines[Len(shares) + 1])
      /\ UNCHANGED <<bill, receipt, shown, changed, quote>>
  BY DEF ShareDiscount, LineCount
<1>2. bill \in Bill /\ LineCount \in Nat \ {0}
  BY <1>1, BillFacts DEF PricingInv
<1>3. PICK k \in 0 .. LineCount : shares = SharesUpTo(k)
  BY <1>1 DEF PricingInv
<1>4. k \in Nat /\ Len(shares) = k /\ Len(SharesUpTo(LineCount)) = LineCount
  BY <1>2, <1>3, SharesLength
<1>5. k \in 0 .. LineCount - 1 /\ k + 1 \in 0 .. LineCount
  BY <1>1, <1>2, <1>4
<1>6. shares' = SharesUpTo(k + 1)
  BY <1>1, <1>2, <1>3, <1>4, <1>5, NextShare
<1>7. receipt = <<>> /\ quote = <<>>
  BY <1>1, <1>2, <1>4 DEF PricingInv
<1>8. LineCount' = LineCount /\ (\A j : SharesUpTo(j)' = SharesUpTo(j)) /\ \A g : Amounts(g)' = Amounts(g)
  BY <1>1, BillStays
<1> QED
  BY <1>1, <1>2, <1>5, <1>6, <1>7, <1>8 DEF PricingInv

LEMMA TotalStep == ASSUME PricingInv, Total PROVE PricingInv'
<1>1. /\ bill # NoBill /\ receipt = <<>> /\ Len(shares) = LineCount /\ receipt' = Amounts(shares)
      /\ UNCHANGED <<bill, shares, shown, changed, quote>>
  BY DEF Total, LineCount
<1>2. bill \in Bill /\ LineCount \in Nat \ {0}
  BY <1>1, BillFacts DEF PricingInv
<1>3. PICK k \in 0 .. LineCount : shares = SharesUpTo(k)
  BY <1>1 DEF PricingInv
<1>4. k = LineCount
  BY <1>1, <1>2, <1>3, SharesLength
<1>5. LineCount' = LineCount /\ (\A j : SharesUpTo(j)' = SharesUpTo(j)) /\ \A g : Amounts(g)' = Amounts(g)
  BY <1>1, BillStays
<1>6. quote' = <<>>
  BY <1>1 DEF PricingInv
<1> QED
  BY <1>1, <1>2, <1>3, <1>4, <1>5, <1>6 DEF PricingInv

LEMMA ShowCartStep == ASSUME PricingInv, ShowCart PROVE PricingInv'
<1>1. /\ bill # NoBill /\ shown' = CartAmounts(CartShares)
      /\ UNCHANGED <<bill, shares, receipt, changed, quote>>
  BY DEF ShowCart
<1>2. SameAmounts(Amounts(SharesUpTo(LineCount)), shown')
  <2>1. shown' = CartAmounts(SharesUpTo(LineCount))
    BY <1>1, CartSharesAre DEF PricingInv
  <2> QED BY <2>1, CartShowsReceipt
<1>3. LineCount' = LineCount /\ (\A j : SharesUpTo(j)' = SharesUpTo(j)) /\ \A g : Amounts(g)' = Amounts(g)
  BY <1>1, BillStays
<1>4. (quote # <<>> => quote = [i \in DOMAIN bill.lines |-> Quoted(bill.lines[i], receipt.lines[i].discount)])'
  BY <1>1 DEF PricingInv
<1> QED
  BY <1>1, <1>2, <1>3, <1>4 DEF PricingInv

LEMMA QuoteStep == ASSUME PricingInv, Quote PROVE PricingInv'
<1>1. /\ receipt # <<>> /\ UNCHANGED <<bill, shares, receipt, shown, changed>>
      /\ quote' = [i \in DOMAIN bill.lines |-> Quoted(bill.lines[i], receipt.lines[i].discount)]
  BY DEF Quote
<1>2. bill # NoBill
  BY <1>1 DEF PricingInv
<1>3. LineCount' = LineCount /\ (\A j : SharesUpTo(j)' = SharesUpTo(j)) /\ \A g : Amounts(g)' = Amounts(g)
  BY <1>1, BillStays
<1>4. (quote # <<>> => quote = [i \in DOMAIN bill.lines |-> Quoted(bill.lines[i], receipt.lines[i].discount)])'
  BY <1>1
<1> QED
  BY <1>1, <1>2, <1>3, <1>4 DEF PricingInv

LEMMA ChangeTaxStep ==
  ASSUME PricingInv, bill # NoBill, NEW i \in DOMAIN bill.lines, NEW rate \in Rates, ChangeTax(i, rate)
  PROVE  PricingInv'
<1>1. /\ shown # <<>> /\ receipt = <<>> /\ bill' = [bill EXCEPT !.lines[i].rate = rate] /\ changed'
      /\ UNCHANGED <<shares, receipt, shown, quote>>
  BY DEF ChangeTax
<1>2. bill \in Bill /\ rate \in Nat /\ quote = <<>>
  BY <1>1, PricingAssumption DEF PricingInv
<1> DEFINE line == [bill.lines[i] EXCEPT !.rate = rate]
           lines == [bill.lines EXCEPT ![i] = line]
<1>3. bill' = [bill EXCEPT !.lines = lines]
  BY <1>1
<1>4. i \in 1 .. LineCount /\ bill.lines \in Seq(BilledLine) /\ bill.lines[i] \in BilledLine
  BY <1>2, BillFacts DEF Bill
<1>5. line \in BilledLine /\ line.unit = bill.lines[i].unit /\ line.quantity = bill.lines[i].quantity
  BY <1>2, <1>4 DEF BilledLine
<1>6. /\ lines \in Seq(BilledLine) /\ lines # <<>> /\ Len(lines) = LineCount
      /\ \A j \in 1 .. LineCount : lines[j] = IF j = i THEN line ELSE bill.lines[j]
  <2> HIDE DEF line
  <2> QED
    BY <1>4, <1>5 DEF LineCount
<1>7. bill' \in Bill /\ bill'.lines = lines /\ bill'.model = bill.model /\ bill'.value = bill.value
  <2> HIDE DEF lines
  <2> QED
    BY <1>2, <1>3, <1>6 DEF Bill
<1>8. \A j \in 1 .. LineCount : /\ bill'.lines[j].unit = bill.lines[j].unit
                                /\ bill'.lines[j].quantity = bill.lines[j].quantity
  <2> HIDE DEF line, lines
  <2> QED
    BY <1>5, <1>6, <1>7
<1>9. LineCount' = LineCount /\ \A k \in 0 .. LineCount : SharesUpTo(k)' = SharesUpTo(k)
  <2>1. Len(bill'.lines) = Len(bill.lines)
    <3> HIDE DEF lines
    <3> QED
      BY <1>6, <1>7 DEF LineCount
  <2> QED
    BY <1>2, <1>7, <1>8, <2>1, SharesStay
<1>10. bill' # NoBill
  BY <1>7, PricingAssumption
<1>11. \E k \in 0 .. LineCount' : shares' = SharesUpTo(k)'
  <2>1. PICK k \in 0 .. LineCount : shares = SharesUpTo(k)
    BY DEF PricingInv
  <2> QED
    BY <1>1, <1>9, <2>1
<1> HIDE DEF line, lines
<1> QED
  BY <1>1, <1>2, <1>7, <1>10, <1>11 DEF PricingInv

LEMMA ChangeTierStep ==
  ASSUME PricingInv, NEW d \in Discounts, ChangeTier(d) PROVE PricingInv'
<1>1. /\ shown # <<>> /\ shares = <<>> /\ changed'
      /\ bill' = [bill EXCEPT !.model = d.model, !.value = d.value]
      /\ UNCHANGED <<shares, receipt, shown, quote>>
  BY DEF ChangeTier
<1>2. bill \in Bill /\ d.model \in STRING /\ d.value \in Nat
  BY <1>1, PricingAssumption DEF PricingInv
<1>3. receipt = <<>> /\ quote = <<>>
  BY <1>1, <1>2, BillFacts, SharesLength DEF PricingInv
<1>4. bill' \in Bill
  BY <1>1, <1>2 DEF Bill
<1>5. bill' # NoBill
  BY <1>4, PricingAssumption
<1>6. 0 \in 0 .. LineCount'
  BY <1>4 DEF Bill, LineCount
<1>7. shares' = SharesUpTo(0)'
  BY <1>1 DEF SharesUpTo
<1> QED
  BY <1>1, <1>3, <1>4, <1>5, <1>6, <1>7 DEF PricingInv

\* Every step keeps the invariant: opening, sharing, totalling, showing, quoting and changes.
LEMMA PricingInvStep == PricingInv /\ [PricingNext]_pricingVars => PricingInv'
<1> SUFFICES ASSUME PricingInv, [PricingNext]_pricingVars PROVE PricingInv'
  OBVIOUS
<1>1. ASSUME NEW ls \in BilledLines, NEW d \in Discounts, OpenBill(ls, d) PROVE PricingInv'
  BY <1>1, OpenBillStep
<1>2. CASE ShareDiscount
  BY <1>2, ShareDiscountStep
<1>3. CASE Total
  BY <1>3, TotalStep
<1>4. CASE ShowCart
  BY <1>4, ShowCartStep
<1>5. CASE Quote
  BY <1>5, QuoteStep
<1>6. ASSUME bill # NoBill, NEW i \in DOMAIN bill.lines, NEW rate \in Rates, ChangeTax(i, rate) PROVE PricingInv'
  BY <1>6, ChangeTaxStep
<1>7. ASSUME NEW d \in Discounts, ChangeTier(d) PROVE PricingInv'
  BY <1>7, ChangeTierStep
<1>8. CASE UNCHANGED pricingVars
  <2>1. UNCHANGED <<bill, shares, receipt, shown, changed, quote>>
    BY <1>8 DEF pricingVars
  <2>2. LineCount' = LineCount /\ (\A j : SharesUpTo(j)' = SharesUpTo(j)) /\ \A g : Amounts(g)' = Amounts(g)
    BY <2>1, BillStays
  <2>3. (quote # <<>> => quote = [i \in DOMAIN bill.lines |-> Quoted(bill.lines[i], receipt.lines[i].discount)])'
    BY <2>1 DEF PricingInv
  <2> QED
    BY <2>1, <2>2, <2>3 DEF PricingInv
<1> QED
  BY <1>1, <1>2, <1>3, <1>4, <1>5, <1>6, <1>7, <1>8 DEF PricingNext

-----------------------------------------------------------------------------
(* Pricing: theorems *)

\* The inductive invariant: whatever is changed in between, a receipt is computed from the
\* lines, the tier and the taxes of its own bill (validateCheckoutCart).
THEOREM PricingInvariant == PricingSpec => []PricingInv
  BY PricingInvInit, PricingInvStep, PTL DEF PricingSpec

LEMMA PricingInvAgrees == PricingInv => AmountsAgree
<1> SUFFICES ASSUME PricingInv PROVE AmountsAgree
  OBVIOUS
<1>1. ASSUME receipt # <<>> PROVE ReceiptIsRight /\ LineCount = Len(bill.lines) /\ DOMAIN bill.lines = 1 .. LineCount
  BY <1>1, BillFacts DEF PricingInv, ReceiptIsRight, LineCount
<1>2. AddsUp
  BY <1>1, ReceiptSums DEF AddsUp
<1>3. ShownIsCharged
  BY DEF ShownIsCharged, PricingInv
<1>4. QuoteIsCharged
  <2> SUFFICES ASSUME quote # <<>>, \A i \in DOMAIN bill.lines : bill.lines[i].unit = bill.lines[i].original
               PROVE  /\ \A i \in 1 .. LineCount : quote[i].tax = receipt.lines[i].tax
                      /\ Near(Added([i \in 1 .. LineCount |-> quote[i].total]), receipt.total, LineCount)
    BY DEF QuoteIsCharged, LineCount
  <2>1. /\ receipt # <<>>
        /\ quote = [i \in DOMAIN bill.lines |-> Quoted(bill.lines[i], receipt.lines[i].discount)]
    BY DEF PricingInv
  <2>2. ReceiptIsRight /\ DOMAIN bill.lines = 1 .. LineCount
    BY <1>1, <2>1
  <2>3. \A i \in 1 .. LineCount : quote[i].tax = receipt.lines[i].tax /\ quote[i].total = receipt.lines[i].total
    BY <2>1, <2>2, QuotedAsCharged
  <2>4. [i \in 1 .. LineCount |-> quote[i].total] = [i \in 1 .. LineCount |-> receipt.lines[i].total]
    BY <2>3
  <2> QED
    BY <2>2, <2>3, <2>4, ReceiptSums
<1> QED
  BY <1>2, <1>3, <1>4 DEF AmountsAgree

\* For every cart, tier and tax rate: what the checkout charges, what the cart shows and
\* what the client is quoted agree, and the lines of a receipt add up to its totals to half
\* a cent each (validateCheckoutCart, calculateCart, validateCartForStore).
THEOREM AmountsAlwaysAgree == PricingSpec => []AmountsAgree
  BY PricingInvariant, PricingInvAgrees, PTL
=============================================================================

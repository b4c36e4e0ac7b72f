----------------------------- MODULE SetInduction -----------------------------
(***************************************************************************)
(* Induction over finite sets, from the least-number principle, and what   *)
(* it tells about the operators of the models that are recursive: a        *)
(* finite set can be listed in order, and SumFunctionOnSet, a fold over    *)
(* the subsets of its set, is defined and does not depend on the order of  *)
(* its terms.                                                              *)
(***************************************************************************)
EXTENDS Integers, FiniteSets, Functions, FiniteSetTheorems, WellFoundedInduction, TLAPS

\* Every inhabited set of numbers has a least member.
LEMMA LeastNumber ==
  ASSUME NEW T, T \subseteq Nat, T # {}
  PROVE  \E m \in T : \A n \in T : m <= n
<1> DEFINE below == {p \in Nat \X Nat : p[1] < p[2]}
<1>1. IsWellFoundedOn(below, Nat)
  BY NatLessThanWellFounded DEF OpToRel
<1>2. PICK m \in T : \A n \in T : <<n, m>> \notin below
  <2> HIDE DEF below
  <2> QED
    BY <1>1, WFMin
<1>3. \A n \in T : ~(n < m)
  BY <1>2
<1> QED
  BY <1>3

LEMMA FirstNumbers ==
  ASSUME NEW n \in Nat
  PROVE  IsFiniteSet(1 .. n) /\ Cardinality(1 .. n) = n
<1>1. 1 \in Int /\ n \in Int
  OBVIOUS
<1>2. IsFiniteSet(1 .. n) /\ Cardinality(1 .. n) = IF 1 > n THEN 0 ELSE n - 1 + 1
  BY <1>1, FS_Interval
<1> QED
  BY <1>2

LEMMA ApartTogether ==
  ASSUME NEW S, NEW T, IsFiniteSet(S), IsFiniteSet(T), S \cap T = {}
  PROVE  /\ IsFiniteSet(S \cup T)
         /\ Cardinality(S \cup T) = Cardinality(S) + Cardinality(T)
<1>1. /\ IsFiniteSet(S \cup T)
      /\ Cardinality(S \cup T) = Cardinality(S) + Cardinality(T) - Cardinality(S \cap T)
  BY FS_Union
<1>2. Cardinality(S \cap T) = 0 /\ Cardinality(S) \in Nat /\ Cardinality(T) \in Nat
  BY FS_EmptySet, FS_CardinalityType
<1> QED
  BY <1>1, <1>2

\* What holds of a finite set as soon as it holds of the sets with one member less
\* holds of all of them; Good stands for the sets it holds of.
LEMMA OneLess ==
  ASSUME NEW S, IsFiniteSet(S), NEW Good,
         \A T \in SUBSET S : (\A x \in T : T \ {x} \in Good) => T \in Good
  PROVE  \A T \in SUBSET S : T \in Good
<1> DEFINE Sizes == {n \in Nat : \E T \in SUBSET S : T \notin Good /\ Cardinality(T) = n}
<1> SUFFICES ASSUME NEW U \in SUBSET S, U \notin Good PROVE FALSE
  OBVIOUS
<1>1. \A T \in SUBSET S : IsFiniteSet(T) /\ Cardinality(T) \in Nat
  BY FS_Subset, FS_CardinalityType
<1>2. Sizes \subseteq Nat /\ Sizes # {}
  BY <1>1
<1>3. PICK m \in Sizes : \A n \in Sizes : m <= n
  <2> HIDE DEF Sizes
  <2> QED
    BY <1>2, LeastNumber
<1>4. PICK T \in SUBSET S : T \notin Good /\ Cardinality(T) = m
  OBVIOUS
<1>5. PICK x \in T : T \ {x} \notin Good
  BY <1>4
<1>6. Cardinality(T \ {x}) = m - 1 /\ m \in Nat
  BY <1>1, <1>4, FS_RemoveElement
<1>7. m - 1 \in Sizes
  <2>1. T \ {x} \in SUBSET S
    OBVIOUS
  <2> QED
    BY <1>1, <1>5, <1>6, <2>1
<1> QED
  BY <1>3, <1>6, <1>7

-----------------------------------------------------------------------------
(* Order *)

\* Some member of an inhabited finite set has the largest value.
LEMMA Farthest ==
  ASSUME NEW S, IsFiniteSet(S), S # {}, NEW d, \A x \in S : d[x] \in Int
  PROVE  \E x \in S : \A y \in S : d[y] <= d[x]
<1> DEFINE Good == {T \in SUBSET S : T # {} => \E x \in T : \A y \in T : d[y] <= d[x]}
<1>1. ASSUME NEW T \in SUBSET S, \A x \in T : T \ {x} \in Good PROVE T \in Good
  <2> SUFFICES ASSUME T # {} PROVE \E x \in T : \A y \in T : d[y] <= d[x]
    OBVIOUS
  <2> PICK z \in T : TRUE
    OBVIOUS
  <2>1. CASE T \ {z} = {}
    BY <2>1
  <2>2. CASE T \ {z} # {}
    <3>1. PICK x \in T \ {z} : \A y \in T \ {z} : d[y] <= d[x]
      BY <1>1, <2>2
    <3>2. CASE d[z] <= d[x]
      BY <3>1, <3>2
    <3>3. CASE ~(d[z] <= d[x])
      <4>1. \A y \in T : d[y] <= d[z]
        BY <3>1, <3>3
      <4> QED
        BY <4>1
    <3> QED
      BY <3>2, <3>3
  <2> QED
    BY <2>1, <2>2
<1>2. \A T \in SUBSET S : T \in Good
  <2> HIDE DEF Good
  <2> QED
    BY <1>1, OneLess
<1>3. S \in Good
  BY <1>2
<1> QED
  BY <1>3

\* A list of a set by the values of its members.
Lists(list, T, d) ==
    /\ list \in [1 .. Cardinality(T) -> T]
    /\ Range(list) = T
    /\ \A i, j \in 1 .. Cardinality(T) : i < j => d[list[i]] <= d[list[j]]

LEMMA InOrder ==
  ASSUME NEW S, IsFiniteSet(S), NEW d, \A x \in S : d[x] \in Int
  PROVE  \E list : Lists(list, S, d)
<1> DEFINE Good == {T \in SUBSET S : \E list : Lists(list, T, d)}
<1>1. ASSUME NEW T \in SUBSET S, \A x \in T : T \ {x} \in Good PROVE T \in Good
  <2>1. IsFiniteSet(T)
    BY FS_Subset
  <2>2. CASE T = {}
    <3> DEFINE list == [i \in 1 .. 0 |-> 0]
    <3>1. Lists(list, T, d)
      BY <2>2, FS_EmptySet DEF Lists, Range
    <3> HIDE DEF list
    <3> QED
      BY <3>1
  <2>3. CASE T # {}
    <3>1. PICK x \in T : \A y \in T : d[y] <= d[x]
      BY <2>1, <2>3, Farthest
    <3>2. PICK list : Lists(list, T \ {x}, d)
      BY <1>1
    <3>3. PICK n \in Nat : n + 1 = Cardinality(T) /\ Cardinality(T \ {x}) = n
      <4>1. Cardinality(T) \in Nat /\ Cardinality(T \ {x}) \in Nat
        BY <2>1, FS_RemoveElement, FS_CardinalityType
      <4>2. Cardinality(T \ {x}) = Cardinality(T) - 1
        BY <2>1, FS_RemoveElement
      <4> QED
        BY <4>1, <4>2
    <3>4. /\ list \in [1 .. n -> T \ {x}] /\ Range(list) = T \ {x}
          /\ \A i, j \in 1 .. n : i < j => d[list[i]] <= d[list[j]]
      BY <3>2, <3>3 DEF Lists
    <3> DEFINE longer == [i \in 1 .. n + 1 |-> IF i = n + 1 THEN x ELSE list[i]]
    <3>5. longer \in [1 .. n + 1 -> T] /\ longer[n + 1] = x /\ \A i \in 1 .. n : longer[i] = list[i]
      BY <3>4
    <3> HIDE DEF longer
    <3>6. Range(longer) = T
      <4>1. \A y \in T \ {x} : \E i \in 1 .. n : list[i] = y
        BY <3>4 DEF Range
      <4>2. \A y \in T : \E i \in 1 .. n + 1 : longer[i] = y
        BY <3>5, <4>1
      <4> QED
        BY <3>5, <4>2 DEF Range
    <3>7. ASSUME NEW i \in 1 .. n + 1, NEW j \in 1 .. n + 1, i < j
          PROVE  d[longer[i]] <= d[longer[j]]
      <4>1. i \in 1 .. n /\ longer[i] \in T
        BY <3>5, <3>7
      <4>2. CASE j = n + 1
        BY <3>1, <3>5, <4>1, <4>2
      <4>3. CASE j # n + 1
        BY <3>4, <3>5, <3>7, <4>1, <4>3
      <4> QED
        BY <4>2, <4>3
    <3>8. Lists(longer, T, d)
      BY <3>3, <3>5, <3>6, <3>7 DEF Lists
    <3> QED
      BY <3>8
  <2> QED
    BY <2>2, <2>3
<1>2. \A T \in SUBSET S : T \in Good
  <2> HIDE DEF Good
  <2> QED
    BY <1>1, OneLess
<1>3. S \in Good
  BY <1>2
<1> QED
  BY <1>3

-----------------------------------------------------------------------------
(* Sums *)

Chosen(T) == CHOOSE x \in T : TRUE

\* What a table of partial sums holds for one set.
PartialSum(g, f, T) == IF T = {} THEN 0 ELSE f[Chosen(T)] + g[T \ {Chosen(T)}]

\* The sums of f over the subsets of S.
IsSums(g, f, S) == g = [T \in SUBSET S |-> PartialSum(g, f, T)]

LEMMA SumIsFold ==
  ASSUME NEW f, NEW S
  PROVE  SumFunctionOnSet(f, S) = (CHOOSE g : IsSums(g, f, S))[S]
  BY DEF SumFunctionOnSet, FoldFunctionOnSet, MapThenFoldSet, IsSums, PartialSum, Chosen

\* The sums exist: those of sets with up to n members give those with one more.
LEMMA SumsExist ==
  ASSUME NEW S, IsFiniteSet(S), NEW f
  PROVE  \E g : IsSums(g, f, S)
<1> DEFINE Layer(n) == {T \in SUBSET S : Cardinality(T) <= n}
           Reaches(n) == \E g : g = [T \in Layer(n) |-> PartialSum(g, f, T)]
           Short == {n \in Nat : ~Reaches(n)}
<1>1. \A T \in SUBSET S : IsFiniteSet(T) /\ Cardinality(T) \in Nat
                             /\ Cardinality(T) <= Cardinality(S)
  BY FS_Subset, FS_CardinalityType
<1>2. \A T \in SUBSET S : T # {} => Chosen(T) \in T
  BY DEF Chosen
<1>3. Short = {}
  <2> SUFFICES ASSUME Short # {} PROVE FALSE
    OBVIOUS
  <2>1. PICK m \in Short : \A n \in Short : m <= n
    <3> Short \subseteq Nat
      OBVIOUS
    <3> HIDE DEF Short
    <3> QED
      BY LeastNumber
  <2>2. m # 0
    <3>1. \A T \in Layer(0) : T = {}
      BY <1>1, FS_EmptySet
    <3> DEFINE g0 == [T \in Layer(0) |-> 0]
    <3>2. g0 = [T \in Layer(0) |-> PartialSum(g0, f, T)]
      BY <3>1 DEF PartialSum
    <3> QED
      BY <3>2
  <2>3. m \in Nat /\ m - 1 \in Nat /\ m - 1 \notin Short
    <3>1. m \in Nat
      OBVIOUS
    <3> HIDE DEF Short
    <3> QED
      BY <2>1, <2>2, <3>1
  <2>4. PICK g : g = [T \in Layer(m - 1) |-> PartialSum(g, f, T)]
    BY <2>3
  <2> DEFINE h == [T \in Layer(m) |-> PartialSum(g, f, T)]
  <2>5. \A T \in Layer(m - 1) : T \in Layer(m) /\ h[T] = g[T]
    BY <1>1, <2>3, <2>4
  <2>6. ASSUME NEW T \in Layer(m) PROVE PartialSum(g, f, T) = PartialSum(h, f, T)
    <3>1. CASE T = {}
      BY <3>1 DEF PartialSum
    <3>2. CASE T # {}
      <4>1. T \ {Chosen(T)} \in Layer(m - 1)
        BY <1>1, <1>2, <2>3, <3>2, FS_RemoveElement
      <4> QED
        BY <2>5, <4>1 DEF PartialSum
    <3> QED
      BY <3>1, <3>2
  <2>7. h = [T \in Layer(m) |-> PartialSum(h, f, T)]
    BY <2>6
  <2>8. Reaches(m)
    <3> HIDE DEF h
    <3> QED
      BY <2>7
  <2> QED
    BY <2>8
<1>4. Reaches(Cardinality(S))
  <2>1. Cardinality(S) \in Nat
    BY FS_CardinalityType
  <2> QED
    BY <1>3, <2>1
<1>5. Layer(Cardinality(S)) = SUBSET S
  BY <1>1
<1> HIDE DEF Layer
<1> QED
  BY <1>4, <1>5 DEF IsSums

\* The sums of f are the same whichever set they are subsets of.
LEMMA SumOfSubset ==
  ASSUME NEW S, IsFiniteSet(S), NEW f, NEW g, IsSums(g, f, S), NEW T \in SUBSET S
  PROVE  SumFunctionOnSet(f, T) = g[T]
<1>1. PICK h : h = CHOOSE k : IsSums(k, f, T)
  OBVIOUS
<1>2. IsSums(h, f, T)
  <2>1. IsFiniteSet(T)
    BY FS_Subset
  <2> QED
    BY <1>1, <2>1, SumsExist
<1>3. SumFunctionOnSet(f, T) = h[T]
  BY <1>1, SumIsFold
<1> DEFINE Good == {U \in SUBSET T : h[U] = g[U]}
<1>4. ASSUME NEW U \in SUBSET T, \A x \in U : U \ {x} \in Good PROVE U \in Good
  <2>1. h[U] = PartialSum(h, f, U) /\ g[U] = PartialSum(g, f, U)
    BY <1>2 DEF IsSums
  <2>2. U # {} => Chosen(U) \in U
    BY DEF Chosen
  <2> QED
    BY <1>4, <2>1, <2>2 DEF PartialSum
<1>5. T \in Good
  <2>1. IsFiniteSet(T)
    BY FS_Subset
  <2> HIDE DEF Good
  <2> QED
    BY <1>4, <2>1, OneLess
<1> QED
  BY <1>3, <1>5

LEMMA SumOfNone == \A f : SumFunctionOnSet(f, {}) = 0
<1> SUFFICES ASSUME NEW f PROVE SumFunctionOnSet(f, {}) = 0
  OBVIOUS
<1>1. PICK g : IsSums(g, f, {})
  BY SumsExist, FS_EmptySet
<1>2. SumFunctionOnSet(f, {}) = g[{}]
  BY <1>1, SumOfSubset, FS_EmptySet
<1> QED
  BY <1>1, <1>2 DEF IsSums, PartialSum

\* A sum is its chosen term and the sum of the rest.
LEMMA SumOfChosen ==
  ASSUME NEW S, IsFiniteSet(S), S # {}, NEW f
  PROVE  /\ Chosen(S) \in S
         /\ SumFunctionOnSet(f, S) = f[Chosen(S)] + SumFunctionOnSet(f, S \ {Chosen(S)})
<1>1. PICK g : IsSums(g, f, S)
  BY SumsExist
<1>2. Chosen(S) \in S
  BY DEF Chosen
<1>3. SumFunctionOnSet(f, S) = g[S]
  BY <1>1, SumOfSubset
<1>4. SumFunctionOnSet(f, S \ {Chosen(S)}) = g[S \ {Chosen(S)}]
  BY <1>1, SumOfSubset
<1>5. g[S] = f[Chosen(S)] + g[S \ {Chosen(S)}]
  BY <1>1 DEF IsSums, PartialSum
<1> QED
  BY <1>2, <1>3, <1>4, <1>5

\* Sums of whole numbers are whole numbers, those of naturals natural.
LEMMA SumType ==
  ASSUME NEW S, IsFiniteSet(S), NEW f, \A x \in S : f[x] \in Int
  PROVE  /\ SumFunctionOnSet(f, S) \in Int
         /\ (\A x \in S : f[x] \in Nat) => SumFunctionOnSet(f, S) \in Nat
<1> DEFINE Fine(T) == /\ SumFunctionOnSet(f, T) \in Int
                      /\ (\A x \in S : f[x] \in Nat) => SumFunctionOnSet(f, T) \in Nat
           Good == {T \in SUBSET S : Fine(T)}
<1>1. ASSUME NEW T \in SUBSET S, \A x \in T : T \ {x} \in Good PROVE T \in Good
  <2>1. CASE T = {}
    BY <2>1, SumOfNone
  <2>2. CASE T # {}
    <3>1. IsFiniteSet(T)
      BY FS_Subset
    <3>2. /\ Chosen(T) \in T
          /\ SumFunctionOnSet(f, T) = f[Chosen(T)] + SumFunctionOnSet(f, T \ {Chosen(T)})
      BY <2>2, <3>1, SumOfChosen
    <3>3. Fine(T \ {Chosen(T)})
      BY <1>1, <3>2
    <3> QED
      BY <3>2, <3>3
  <2> QED
    BY <2>1, <2>2
<1>2. S \in Good
  <2>1. \A T \in SUBSET S : T \in Good
    <3> HIDE DEF Good
    <3> QED
      BY <1>1, OneLess
  <2> QED
    BY <2>1
<1> QED
  BY <1>2

\* Any term can be taken out of a sum.
LEMMA SumOfRest ==
  ASSUME NEW S, IsFiniteSet(S), NEW f, \A x \in S : f[x] \in Int, NEW y \in S
  PROVE  SumFunctionOnSet(f, S) = f[y] + SumFunctionOnSet(f, S \ {y})
<1> DEFINE Sum(T) == SumFunctionOnSet(f, T)
           Good == {T \in SUBSET S : \A x \in T : Sum(T) = f[x] + Sum(T \ {x})}
<1>1. \A T \in SUBSET S : IsFiniteSet(T) /\ Sum(T) \in Int
  BY FS_Subset, SumType
<1>2. ASSUME NEW T \in SUBSET S, \A x \in T : T \ {x} \in Good PROVE T \in Good
  <2> SUFFICES ASSUME NEW x \in T PROVE Sum(T) = f[x] + Sum(T \ {x})
    OBVIOUS
  <2> PICK c : c = Chosen(T)
    OBVIOUS
  <2>1. c \in T /\ Sum(T) = f[c] + Sum(T \ {c})
    BY <1>1, SumOfChosen
  <2>2. CASE x = c
    BY <2>1, <2>2
  <2>3. CASE x # c
    <3>1. x \in T \ {c} /\ c \in T \ {x} /\ (T \ {c}) \ {x} = (T \ {x}) \ {c}
      BY <2>1, <2>3
    <3>2. Sum(T \ {c}) = f[x] + Sum((T \ {c}) \ {x})
      BY <1>2, <2>1, <3>1
    <3>3. Sum(T \ {x}) = f[c] + Sum((T \ {x}) \ {c})
      BY <1>2, <3>1
    <3>4. /\ f[c] \in Int /\ f[x] \in Int /\ Sum((T \ {c}) \ {x}) \in Int
          /\ Sum((T \ {c}) \ {x}) = Sum((T \ {x}) \ {c})
      BY <1>1, <2>1, <3>1
    <3> HIDE DEF Sum
    <3> QED
      BY <2>1, <3>2, <3>3, <3>4
  <2> QED
    BY <2>2, <2>3
<1>3. S \in Good
  <2>1. \A T \in SUBSET S : T \in Good
    <3> HIDE DEF Good
    <3> QED
      BY <1>2, OneLess
  <2> QED
    BY <2>1
<1> QED
  BY <1>3

\* Sums are compared term by term, and equal terms give equal sums.
LEMMA SumCompared ==
  ASSUME NEW S, IsFiniteSet(S), NEW f, NEW h,
         \A x \in S : f[x] \in Int /\ h[x] \in Int /\ f[x] <= h[x]
  PROVE  SumFunctionOnSet(f, S) <= SumFunctionOnSet(h, S)
<1> DEFINE Good == {T \in SUBSET S : SumFunctionOnSet(f, T) <= SumFunctionOnSet(h, T)}
<1>1. \A T \in SUBSET S : /\ IsFiniteSet(T) /\ SumFunctionOnSet(f, T) \in Int
                          /\ SumFunctionOnSet(h, T) \in Int
  BY FS_Subset, SumType
<1>2. ASSUME NEW T \in SUBSET S, \A x \in T : T \ {x} \in Good PROVE T \in Good
  <2>1. CASE T = {}
    BY <2>1, SumOfNone
  <2>2. CASE T # {}
    <3> PICK x \in T : TRUE
      BY <2>2
    <3>1. /\ SumFunctionOnSet(f, T) = f[x] + SumFunctionOnSet(f, T \ {x})
          /\ SumFunctionOnSet(h, T) = h[x] + SumFunctionOnSet(h, T \ {x})
      BY <1>1, SumOfRest
    <3>2. SumFunctionOnSet(f, T \ {x}) <= SumFunctionOnSet(h, T \ {x})
      BY <1>2
    <3> QED
      BY <1>1, <3>1, <3>2
  <2> QED
    BY <2>1, <2>2
<1>3. S \in Good
  <2>1. \A T \in SUBSET S : T \in Good
    <3> HIDE DEF Good
    <3> QED
      BY <1>2, OneLess
  <2> QED
    BY <2>1
<1> QED
  BY <1>3

LEMMA SumSame ==
  ASSUME NEW S, IsFiniteSet(S), NEW f, NEW h,
         \A x \in S : f[x] \in Int /\ h[x] = f[x]
  PROVE  SumFunctionOnSet(h, S) = SumFunctionOnSet(f, S)
<1>1. SumFunctionOnSet(f, S) \in Int /\ SumFunctionOnSet(h, S) \in Int
  BY SumType
<1>2. /\ SumFunctionOnSet(f, S) <= SumFunctionOnSet(h, S)
      /\ SumFunctionOnSet(h, S) <= SumFunctionOnSet(f, S)
  BY SumCompared
<1> QED
  BY <1>1, <1>2

\* Changing one term leaves the sum of the others.
LEMMA SumWith ==
  ASSUME NEW S, IsFiniteSet(S), NEW f, \A x \in S : f[x] \in Int,
         NEW y \in S, NEW h, \A x \in S \ {y} : h[x] = f[x], h[y] \in Int
  PROVE  SumFunctionOnSet(h, S) = h[y] + SumFunctionOnSet(f, S \ {y})
<1>1. IsFiniteSet(S \ {y})
  BY FS_Subset
<1>2. SumFunctionOnSet(h, S \ {y}) = SumFunctionOnSet(f, S \ {y})
  BY <1>1, SumSame
<1>3. SumFunctionOnSet(h, S) = h[y] + SumFunctionOnSet(h, S \ {y})
  BY SumOfRest
<1> QED
  BY <1>2, <1>3

\* A sum of naturals grows with its set.
LEMMA SumGrows ==
  ASSUME NEW S, IsFiniteSet(S), NEW f, \A x \in S : f[x] \in Nat, NEW T \in SUBSET S
  PROVE  SumFunctionOnSet(f, T) <= SumFunctionOnSet(f, S)
<1> DEFINE Sum(U) == SumFunctionOnSet(f, U)
           Good == {U \in SUBSET S : Sum(T \cap U) <= Sum(U)}
<1>1. \A U \in SUBSET S : /\ IsFiniteSet(U) /\ Sum(U) \in Int
                          /\ T \cap U \in SUBSET S /\ Sum(T \cap U) \in Int
  BY FS_Subset, SumType
<1>2. ASSUME NEW U \in SUBSET S, \A x \in U : U \ {x} \in Good PROVE U \in Good
  <2>1. CASE U \subseteq T
    <3>1. T \cap U = U
      BY <2>1
    <3>2. Sum(T \cap U) = Sum(U) /\ Sum(U) \in Int
      BY <1>1, <3>1
    <3>3. Sum(T \cap U) <= Sum(U)
      <4> HIDE DEF Sum
      <4> QED
        BY <3>2
    <3> QED
      BY <3>3
  <2>2. CASE ~(U \subseteq T)
    <3> PICK x \in U : x \notin T
      BY <2>2
    <3>1. Sum(U) = f[x] + Sum(U \ {x})
      <4>1. IsFiniteSet(U)
        BY FS_Subset
      <4>2. \A z \in U : f[z] \in Int
        OBVIOUS
      <4> QED
        BY <4>1, <4>2, SumOfRest
    <3>2. T \cap (U \ {x}) = T \cap U /\ Sum(T \cap (U \ {x})) <= Sum(U \ {x})
      BY <1>2
    <3>3. Sum(U \ {x}) \in Int /\ f[x] \in Nat
      BY <1>1
    <3> HIDE DEF Sum
    <3> QED
      BY <1>1, <3>1, <3>2, <3>3
  <2> QED
    BY <2>1, <2>2
<1>3. S \in Good
  <2>1. \A U \in SUBSET S : U \in Good
    <3> HIDE DEF Good
    <3> QED
      BY <1>2, OneLess
  <2> QED
    BY <2>1
<1>4. T \cap S = T
  OBVIOUS
<1> QED
  BY <1>3, <1>4

-----------------------------------------------------------------------------
(* Folds of sequences *)

\* Induction over the numbers up to n, with a set.
LEMMA Upward ==
  ASSUME NEW n \in Nat, NEW Good, 0 \in Good,
         \A k \in 0 .. n - 1 : k \in Good => k + 1 \in Good
  PROVE  \A k \in 0 .. n : k \in Good
<1> DEFINE Bad == {k \in 0 .. n : k \notin Good}
<1> SUFFICES ASSUME Bad # {} PROVE FALSE
  OBVIOUS
<1>1. PICK m \in Bad : \A k \in Bad : m <= k
  <2> Bad \subseteq Nat
    OBVIOUS
  <2> HIDE DEF Bad
  <2> QED
    BY LeastNumber
<1>2. m # 0 /\ m - 1 \in 0 .. n - 1
  OBVIOUS
<1>3. m - 1 \in Good
  BY <1>1, <1>2
<1> QED
  BY <1>2, <1>3

\* The place FoldLeft takes last.
Top(T) == CHOOSE x \in T : \A y \in T : x >= y

LEMMA TopIsLargest ==
  ASSUME NEW n \in Nat, NEW T \in SUBSET (1 .. n), T # {}
  PROVE  Top(T) \in T /\ \A y \in T : Top(T) >= y
<1>1. \E x \in T : \A y \in T : x >= y
  <2> DEFINE Above == {k \in 0 .. n : \A y \in T : y <= k}
  <2>1. n \in Above /\ Above \subseteq Nat
    OBVIOUS
  <2>2. PICK m \in Above : \A k \in Above : m <= k
    <3> HIDE DEF Above
    <3> QED
      BY <2>1, LeastNumber
  <2>3. m \in 0 .. n /\ \A y \in T : y \in 1 .. n /\ y <= m
    OBVIOUS
  <2>4. m - 1 \notin Above
    BY <2>2, <2>3
  <2>5. \E y \in T : ~(y <= m - 1)
    <3>1. PICK y \in T : y \in 1 .. n /\ y <= m
      BY <2>3
    <3>2. m - 1 \in 0 .. n
      BY <2>3, <3>1
    <3> QED
      BY <2>4, <3>2
  <2> QED
    BY <2>3, <2>5
<1> QED
  BY <1>1 DEF Top

LEMMA TopOfInterval ==
  ASSUME NEW n \in Nat, NEW k \in 1 .. n
  PROVE  /\ 1 .. k \in SUBSET (1 .. n) /\ 1 .. k # {}
         /\ Top(1 .. k) = k /\ (1 .. k) \ {k} = 1 .. k - 1
<1>1. 1 .. k \in SUBSET (1 .. n) /\ 1 .. k # {} /\ k \in 1 .. k
  OBVIOUS
<1>2. Top(1 .. k) \in 1 .. k /\ Top(1 .. k) >= k
  BY <1>1, TopIsLargest
<1>3. (1 .. k) \ {k} = 1 .. k - 1
  OBVIOUS
<1> QED
  BY <1>1, <1>2, <1>3

\* What a fold over the places in T comes to, when step takes it from one to the next.
FoldedSoFar(g, step, base, T) ==
    IF T = {} THEN base ELSE step[<<g[T \ {Top(T)}], Top(T)>>]

IsFold(g, step, base, n) ==
    g = [T \in SUBSET (1 .. n) |-> FoldedSoFar(g, step, base, T)]

\* A fold of a sequence is defined, whatever it does at each place.
LEMMA FoldsExist ==
  ASSUME NEW n \in Nat, NEW step, NEW base
  PROVE  \E g : IsFold(g, step, base, n)
<1> DEFINE Layer(k) == SUBSET (1 .. k)
           Good == {k \in 0 .. n :
                       \E g : g = [T \in Layer(k) |-> FoldedSoFar(g, step, base, T)]}
<1>1. 0 \in Good
  <2> DEFINE g0 == [T \in Layer(0) |-> base]
  <2>1. \A T \in Layer(0) : T = {}
    OBVIOUS
  <2>2. g0 = [T \in Layer(0) |-> FoldedSoFar(g0, step, base, T)]
    BY <2>1 DEF FoldedSoFar
  <2> HIDE DEF g0
  <2> QED
    BY <2>2
<1>2. ASSUME NEW k \in 0 .. n - 1, k \in Good PROVE k + 1 \in Good
  <2>1. PICK g : g = [T \in Layer(k) |-> FoldedSoFar(g, step, base, T)]
    BY <1>2
  <2> DEFINE h == [T \in Layer(k + 1) |-> FoldedSoFar(g, step, base, T)]
  <2>2. \A T \in Layer(k) : T \in Layer(k + 1) /\ h[T] = g[T]
    BY <2>1
  <2>3. ASSUME NEW T \in Layer(k + 1)
        PROVE  FoldedSoFar(g, step, base, T) = FoldedSoFar(h, step, base, T)
    <3>1. CASE T = {}
      BY <3>1 DEF FoldedSoFar
    <3>2. CASE T # {}
      <4>1. Top(T) \in T /\ \A y \in T : Top(T) >= y
        BY <3>2, TopIsLargest, k + 1 \in Nat
      <4> DEFINE top == Top(T)
      <4>2. top \in T /\ \A y \in T : y \in 1 .. k + 1 /\ top >= y
        BY <4>1
      <4> HIDE DEF top
      <4>3. \A y \in T \ {top} : y \in 1 .. k
        BY <4>2
      <4>4. T \ {top} \in Layer(k)
        BY <4>3
      <4> HIDE DEF h
      <4> QED
        BY <2>2, <4>4 DEF FoldedSoFar, top
    <3> QED
      BY <3>1, <3>2
  <2>4. h = [T \in Layer(k + 1) |-> FoldedSoFar(h, step, base, T)]
    BY <2>3
  <2> HIDE DEF h
  <2> QED
    BY <2>4
<1>3. n \in Good
  <2> HIDE DEF Good
  <2> QED
    BY <1>1, <1>2, Upward, n \in 0 .. n
<1> QED
  BY <1>3 DEF IsFold

\* What is true of the base and kept by every step is true of all that is folded.
LEMMA FoldsStayIn ==
  ASSUME NEW n \in Nat, NEW step, NEW State, NEW base \in State,
         \A x \in State, i \in 1 .. n : step[<<x, i>>] \in State,
         NEW g, IsFold(g, step, base, n)
  PROVE  \A T \in SUBSET (1 .. n) : g[T] \in State
<1> DEFINE Good == {k \in 0 .. n : \A T \in SUBSET (1 .. k) : g[T] \in State}
<1>1. \A T \in SUBSET (1 .. n) : g[T] = FoldedSoFar(g, step, base, T)
  BY DEF IsFold
<1>2. 0 \in Good
  <2>1. \A T \in SUBSET (1 .. 0) : T = {}
    OBVIOUS
  <2>2. g[{}] \in State
    BY <1>1 DEF FoldedSoFar
  <2>3. \A T \in SUBSET (1 .. 0) : g[T] \in State
    BY <2>1, <2>2
  <2> QED
    BY <2>3, 0 \in 0 .. n
<1>3. ASSUME NEW k \in 0 .. n - 1, k \in Good PROVE k + 1 \in Good
  <2>0. k + 1 \in 0 .. n
    OBVIOUS
  <2> SUFFICES ASSUME NEW T \in SUBSET (1 .. k + 1) PROVE g[T] \in State
    BY <2>0
  <2>1. T \in SUBSET (1 .. n)
    OBVIOUS
  <2>2. CASE T = {}
    BY <1>1, <2>1, <2>2 DEF FoldedSoFar
  <2>3. CASE T # {}
    <3>1. Top(T) \in T /\ \A y \in T : Top(T) >= y
      BY <2>3, TopIsLargest, k + 1 \in Nat
    <3> DEFINE top == Top(T)
    <3>2. top \in T /\ \A y \in T : y \in 1 .. k + 1 /\ top >= y
      BY <3>1
    <3> HIDE DEF top
    <3>3. \A y \in T \ {top} : y \in 1 .. k
      BY <3>2
    <3>4. g[T \ {top}] \in State /\ top \in 1 .. n
      BY <1>3, <2>1, <3>2, <3>3
    <3> QED
      BY <1>1, <2>1, <2>3, <3>4 DEF FoldedSoFar, top
  <2> QED
    BY <2>2, <2>3
<1>4. n \in Good
  <2> HIDE DEF Good
  <2> QED
    BY <1>2, <1>3, Upward, n \in 0 .. n
<1> QED
  BY <1>4
=============================================================================

--------------------------------- MODULE Sums ---------------------------------
(***************************************************************************)
(* Sums over finite sets, as the components write them (MapThenSumSet of    *)
(* FiniteSetsExt), and what proofs need of them.  A sum is defined by       *)
(* recursion over subsets, and each fact about it is proved by a least      *)
(* counterexample: a smallest set for which it fails.                       *)
(***************************************************************************)
EXTENDS Integers, FiniteSets, FiniteSetsExt, FiniteSetTheorems, WellFoundedInduction, TLAPS

\* The sum of f over S, f a function on S.
SumOver(f, S) == MapThenSumSet(LAMBDA x : f[x], S)

\* One step of the recursion: the sum over s from the sums, in g, over smaller sets.
SumFrom(f, g, s) == IF s = {} THEN 0 ELSE LET x == CHOOSE x \in s : TRUE IN f[x] + g[s \ {x}]
\* g holds the sum of f over every subset of S.
Iterates(g, f, S) == g = [s \in SUBSET S |-> SumFrom(f, g, s)]

-----------------------------------------------------------------------------
(* Least counterexamples. *)

\* A set of natural numbers that is not empty has a least member.
LEMMA LeastNumber ==
    ASSUME NEW T, T \subseteq Nat, T # {}
    PROVE  \E x \in T : \A y \in T : x <= y
<1> DEFINE R == OpToRel(<, Nat)
<1>1. IsWellFoundedOn(R, Nat)
  BY NatLessThanWellFounded
<1> HIDE DEF R
<1>2. PICK x \in T : \A y \in T : ~(<<y, x>> \in R)
  BY <1>1, WFMin
<1>3. ASSUME NEW y \in T PROVE x <= y
  <2>1. y < x => <<y, x>> \in R
    BY DEF R, OpToRel
  <2> QED BY <1>2, <2>1
<1> QED BY <1>3

\* Of finite sets, one is smallest: no member of it can be left out.
LEMMA SmallestSet ==
    ASSUME NEW Bad, Bad # {}, \A T \in Bad : IsFiniteSet(T)
    PROVE  \E T \in Bad : \A x \in T : T \ {x} \notin Bad
<1> DEFINE sizes == {Cardinality(T) : T \in Bad}
<1>1. sizes \subseteq Nat /\ sizes # {}
  BY FS_CardinalityType
<1>2. PICK n \in sizes : \A m \in sizes : n <= m
  BY <1>1, LeastNumber
<1>3. PICK T \in Bad : Cardinality(T) = n
  OBVIOUS
<1>4. ASSUME NEW x \in T, T \ {x} \in Bad PROVE FALSE
  <2>1. Cardinality(T \ {x}) = n - 1
    BY <1>3, FS_RemoveElement
  <2>2. n <= n - 1
    BY <1>2, <1>4, <2>1
  <2> QED BY <1>1, <2>2
<1> QED BY <1>4

-----------------------------------------------------------------------------
(* The recursion is well founded. *)

\* A sum is what the recursion of the community modules assigns to the whole set.
LEMMA SumIsIterated ==
    ASSUME NEW f, NEW S
    PROVE  SumOver(f, S) = (CHOOSE g : Iterates(g, f, S))[S]
  BY DEF SumOver, MapThenSumSet, MapThenFoldSet, Iterates, SumFrom

\* Sums over the subsets of at most n members.
Sized(n, S) == {s \in SUBSET S : Cardinality(s) <= n}
Upto(g, f, S, n) == \A s \in Sized(n, S) : g[s] = SumFrom(f, g, s)

\* The recursion has a solution up to every size.
LEMMA UptoExists ==
    ASSUME NEW S, IsFiniteSet(S), NEW f, NEW n \in Nat
    PROVE  \E g : Upto(g, f, S, n)
<1> DEFINE Bad == {m \in Nat : ~ \E g : Upto(g, f, S, m)}
<1> SUFFICES ASSUME Bad # {} PROVE FALSE
  OBVIOUS
<1>1. PICK m \in Bad : \A k \in Bad : m <= k
  BY LeastNumber
<1>2. CASE m = 0
  <2> DEFINE g == [s \in {{}} |-> 0]
  <2>1. \A s \in Sized(0, S) : s = {}
    BY FS_Subset, FS_EmptySet, FS_CardinalityType DEF Sized
  <2>2. Upto(g, f, S, 0)
    BY <2>1 DEF Upto, SumFrom
  <2> QED BY <1>1, <1>2, <2>2
<1>3. CASE m # 0
  <2>1. m - 1 \in Nat /\ m - 1 \notin Bad
    BY <1>1, <1>3
  <2>2. PICK h : Upto(h, f, S, m - 1)
    BY <2>1
  <2> DEFINE g == [s \in SUBSET S |-> IF s \in Sized(m - 1, S) THEN h[s] ELSE SumFrom(f, h, s)]
  <2>3. ASSUME NEW s \in Sized(m, S), s # {} PROVE g[s] = SumFrom(f, g, s)
    <3> DEFINE x == CHOOSE x \in s : TRUE
    <3>1. x \in s /\ s \in SUBSET S
      BY <2>3 DEF Sized
    <3> HIDE DEF x
    <3>2. IsFiniteSet(s) /\ Cardinality(s) \in Nat /\ Cardinality(s \ {x}) = Cardinality(s) - 1
      BY <3>1, FS_Subset, FS_CardinalityType, FS_RemoveElement
    <3>3. s \ {x} \in Sized(m - 1, S)
      BY <2>1, <2>3, <3>1, <3>2 DEF Sized
    <3>4. g[s \ {x}] = h[s \ {x}]
      BY <3>3, <3>1
    <3>5. SumFrom(f, g, s) = SumFrom(f, h, s)
      BY <2>3, <3>4 DEF SumFrom, x
    <3>6. g[s] = SumFrom(f, h, s)
      BY <2>2, <3>1 DEF Upto
    <3> QED BY <3>5, <3>6
  <2>4. ASSUME {} \in Sized(m, S) PROVE g[{}] = SumFrom(f, g, {})
    BY <2>2 DEF Upto, SumFrom
  <2>5. Upto(g, f, S, m)
    BY <2>3, <2>4 DEF Upto
  <2> QED BY <1>1, <2>5
<1> QED BY <1>2, <1>3

\* The recursion has a solution for every finite set.
LEMMA IterateExists ==
    ASSUME NEW S, IsFiniteSet(S), NEW f
    PROVE  \E g : Iterates(g, f, S)
<1>1. PICK h : Upto(h, f, S, Cardinality(S))
  BY UptoExists, FS_CardinalityType
<1> DEFINE g == [s \in SUBSET S |-> h[s]]
<1>2. \A s \in SUBSET S : s \in Sized(Cardinality(S), S)
  BY FS_Subset DEF Sized
<1>3. ASSUME NEW s \in SUBSET S PROVE g[s] = SumFrom(f, g, s)
  <2>1. h[s] = SumFrom(f, h, s)
    BY <1>1, <1>2 DEF Upto
  <2>2. SumFrom(f, g, s) = SumFrom(f, h, s)
    BY DEF SumFrom
  <2> QED BY <2>1, <2>2
<1>4. Iterates(g, f, S)
  BY <1>3 DEF Iterates
<1> QED BY <1>4

\* Two iterations agree wherever both are defined.
LEMMA IteratesAgree ==
    ASSUME NEW S, IsFiniteSet(S), NEW f, NEW T \in SUBSET S,
           NEW g, Iterates(g, f, S), NEW h, Iterates(h, f, T)
    PROVE  g[T] = h[T]
<1> DEFINE Bad == {s \in SUBSET T : g[s] # h[s]}
<1> SUFFICES ASSUME Bad # {} PROVE FALSE
  OBVIOUS
<1>1. \A s \in Bad : IsFiniteSet(s)
  BY FS_Subset
<1>2. PICK s \in Bad : \A x \in s : s \ {x} \notin Bad
  BY <1>1, SmallestSet
<1>3. g[s] = SumFrom(f, g, s) /\ h[s] = SumFrom(f, h, s)
  BY DEF Iterates
<1>4. CASE s = {}
  BY <1>2, <1>3, <1>4 DEF SumFrom
<1>5. CASE s # {}
  <2> DEFINE x == CHOOSE x \in s : TRUE
  <2>1. x \in s
    BY <1>5
  <2>2. g[s \ {x}] = h[s \ {x}]
    BY <1>2, <2>1
  <2>3. SumFrom(f, g, s) = SumFrom(f, h, s)
    BY <1>5, <2>2 DEF SumFrom
  <2> QED BY <1>2, <1>3, <2>3
<1> QED BY <1>4, <1>5

-----------------------------------------------------------------------------
(* What a sum is. *)

\* The sum over nothing.
LEMMA SumEmpty == ASSUME NEW f PROVE SumOver(f, {}) = 0
<1> DEFINE g == CHOOSE g : Iterates(g, f, {})
<1>1. Iterates(g, f, {})
  BY IterateExists, FS_EmptySet
<1>2. SumOver(f, {}) = g[{}]
  BY SumIsIterated
<1> HIDE DEF g
<1>3. g[{}] = SumFrom(f, g, {})
  BY <1>1 DEF Iterates
<1> QED BY <1>2, <1>3 DEF SumFrom

\* The member the recursion takes first.
LEMMA SumChosen ==
    ASSUME NEW S, IsFiniteSet(S), S # {}, NEW f
    PROVE  LET x == CHOOSE x \in S : TRUE IN x \in S /\ SumOver(f, S) = f[x] + SumOver(f, S \ {x})
<1> DEFINE x == CHOOSE x \in S : TRUE
           g == CHOOSE g : Iterates(g, f, S)
           h == CHOOSE h : Iterates(h, f, S \ {x})
<1>1. x \in S
  OBVIOUS
<1>2. IsFiniteSet(S \ {x})
  BY FS_RemoveElement
<1>3. Iterates(g, f, S)
  BY IterateExists
<1>4. Iterates(h, f, S \ {x})
  BY <1>2, IterateExists
<1>5. SumOver(f, S) = g[S] /\ SumOver(f, S \ {x}) = h[S \ {x}]
  BY SumIsIterated
<1> HIDE DEF g, h
<1>6. g[S \ {x}] = h[S \ {x}]
  BY <1>3, <1>4, IteratesAgree
<1>7. g[S] = SumFrom(f, g, S)
  BY <1>3 DEF Iterates
<1> QED BY <1>1, <1>5, <1>6, <1>7 DEF SumFrom

Integral(f, S) == \A x \in S : f[x] \in Int

\* A sum of integers is an integer.
LEMMA SumInteger ==
    ASSUME NEW S, IsFiniteSet(S), NEW f, Integral(f, S)
    PROVE  SumOver(f, S) \in Int
<1> DEFINE Bad == {T \in SUBSET S : SumOver(f, T) \notin Int}
<1> SUFFICES ASSUME Bad # {} PROVE FALSE
  OBVIOUS
<1>1. PICK T \in Bad : \A x \in T : T \ {x} \notin Bad
  BY SmallestSet, FS_Subset
<1>2. T # {}
  BY <1>1, SumEmpty
<1>3. PICK x \in T : SumOver(f, T) = f[x] + SumOver(f, T \ {x})
  BY <1>2, SumChosen, FS_Subset
<1>4. SumOver(f, T \ {x}) \in Int
  BY <1>1
<1> QED BY <1>3, <1>4 DEF Integral

\* Any member can be taken out of the sum.
LEMMA SumTaken ==
    ASSUME NEW S, IsFiniteSet(S), NEW f, Integral(f, S), NEW x \in S
    PROVE  SumOver(f, S) = f[x] + SumOver(f, S \ {x})
<1> DEFINE Bad == {T \in SUBSET S : \E y \in T : SumOver(f, T) # f[y] + SumOver(f, T \ {y})}
<1> SUFFICES ASSUME Bad # {} PROVE FALSE
  OBVIOUS
<1>1. PICK T \in Bad : \A y \in T : T \ {y} \notin Bad
  BY SmallestSet, FS_Subset
<1>2. PICK y \in T : SumOver(f, T) # f[y] + SumOver(f, T \ {y})
  OBVIOUS
<1>3. PICK c \in T : SumOver(f, T) = f[c] + SumOver(f, T \ {c})
  BY SumChosen, FS_Subset
<1>4. c # y
  BY <1>2, <1>3
<1>5. /\ SumOver(f, T \ {c}) = f[y] + SumOver(f, (T \ {c}) \ {y})
      /\ SumOver(f, T \ {y}) = f[c] + SumOver(f, (T \ {y}) \ {c})
  BY <1>1, <1>4
<1>6. (T \ {c}) \ {y} = (T \ {y}) \ {c}
  OBVIOUS
<1>7. IsFiniteSet((T \ {y}) \ {c}) /\ Integral(f, (T \ {y}) \ {c})
  BY FS_Subset DEF Integral
<1>8. SumOver(f, (T \ {y}) \ {c}) \in Int /\ f[c] \in Int /\ f[y] \in Int
  BY <1>7, SumInteger DEF Integral
<1> QED BY <1>2, <1>3, <1>5, <1>6, <1>8

\* A member more adds its value.
LEMMA SumAdded ==
    ASSUME NEW S, IsFiniteSet(S), NEW f, NEW x, x \notin S, Integral(f, S \cup {x})
    PROVE  SumOver(f, S \cup {x}) = f[x] + SumOver(f, S)
<1>1. IsFiniteSet(S \cup {x})
  BY FS_AddElement
<1>2. (S \cup {x}) \ {x} = S
  OBVIOUS
<1> QED BY <1>1, <1>2, SumTaken

\* Functions that agree on a set have the same sum over it.
LEMMA SumSame ==
    ASSUME NEW S, IsFiniteSet(S), NEW f, NEW g, Integral(f, S), \A x \in S : f[x] = g[x]
    PROVE  SumOver(f, S) = SumOver(g, S)
<1> DEFINE Bad == {T \in SUBSET S : SumOver(f, T) # SumOver(g, T)}
<1> SUFFICES ASSUME Bad # {} PROVE FALSE
  OBVIOUS
<1>1. PICK T \in Bad : \A x \in T : T \ {x} \notin Bad
  BY SmallestSet, FS_Subset
<1>2. T # {}
  BY <1>1, SumEmpty
<1>3. PICK x \in T : TRUE
  BY <1>2
<1>4. IsFiniteSet(T) /\ Integral(f, T) /\ Integral(g, T)
  BY FS_Subset DEF Integral
<1>5. SumOver(f, T) = f[x] + SumOver(f, T \ {x}) /\ SumOver(g, T) = g[x] + SumOver(g, T \ {x})
  BY <1>4, SumTaken
<1> QED BY <1>1, <1>5

\* A larger function has a larger sum.
LEMMA SumMonotone ==
    ASSUME NEW S, IsFiniteSet(S), NEW f, NEW g, Integral(f, S), Integral(g, S),
           \A x \in S : f[x] <= g[x]
    PROVE  SumOver(f, S) <= SumOver(g, S)
<1> DEFINE Bad == {T \in SUBSET S : ~(SumOver(f, T) <= SumOver(g, T))}
<1> SUFFICES ASSUME Bad # {} PROVE FALSE
  OBVIOUS
<1>1. PICK T \in Bad : \A x \in T : T \ {x} \notin Bad
  BY SmallestSet, FS_Subset
<1>2. T # {}
  BY <1>1, SumEmpty
<1>3. PICK x \in T : TRUE
  BY <1>2
<1>4. IsFiniteSet(T) /\ Integral(f, T) /\ Integral(g, T)
  BY FS_Subset DEF Integral
<1>5. SumOver(f, T) = f[x] + SumOver(f, T \ {x}) /\ SumOver(g, T) = g[x] + SumOver(g, T \ {x})
  BY <1>4, SumTaken
<1>6. IsFiniteSet(T \ {x}) /\ Integral(f, T \ {x}) /\ Integral(g, T \ {x})
  BY <1>4, FS_RemoveElement DEF Integral
<1>7. SumOver(f, T \ {x}) \in Int /\ SumOver(g, T \ {x}) \in Int /\ f[x] \in Int /\ g[x] \in Int
  BY <1>4, <1>6, SumInteger DEF Integral
<1>8. SumOver(f, T \ {x}) <= SumOver(g, T \ {x})
  BY <1>1
<1> QED BY <1>1, <1>5, <1>7, <1>8

\* A sum of zeros is zero.
LEMMA SumZero ==
    ASSUME NEW S, IsFiniteSet(S), NEW f, \A x \in S : f[x] = 0
    PROVE  SumOver(f, S) = 0
<1> DEFINE Bad == {T \in SUBSET S : SumOver(f, T) # 0}
<1> SUFFICES ASSUME Bad # {} PROVE FALSE
  OBVIOUS
<1>1. PICK T \in Bad : \A x \in T : T \ {x} \notin Bad
  BY SmallestSet, FS_Subset
<1>2. PICK x \in T : TRUE
  BY <1>1, SumEmpty
<1>3. IsFiniteSet(T) /\ Integral(f, T) /\ f[x] = 0
  BY FS_Subset DEF Integral
<1>4. SumOver(f, T) = f[x] + SumOver(f, T \ {x})
  BY <1>2, <1>3, SumTaken
<1> QED BY <1>1, <1>2, <1>3, <1>4

\* Where all other values are zero, the sum is one value.
LEMMA SumSingle ==
    ASSUME NEW S, IsFiniteSet(S), NEW f, NEW x \in S, f[x] \in Int, \A y \in S \ {x} : f[y] = 0
    PROVE  SumOver(f, S) = f[x]
<1>1. Integral(f, S)
  BY DEF Integral
<1>2. SumOver(f, S \ {x}) = 0
  BY SumZero, FS_RemoveElement
<1> QED BY <1>1, <1>2, SumTaken

\* A sum of natural numbers is one, no smaller than any of them.
LEMMA SumNatural ==
    ASSUME NEW S, IsFiniteSet(S), NEW f, \A x \in S : f[x] \in Nat
    PROVE  SumOver(f, S) \in Nat /\ \A x \in S : f[x] <= SumOver(f, S)
<1>1. \A T \in SUBSET S : SumOver(f, T) \in Nat
  <2> SUFFICES ASSUME NEW T \in SUBSET S PROVE SumOver(f, T) \in Nat
    OBVIOUS
  <2> DEFINE z == [x \in T |-> 0]
  <2>1. IsFiniteSet(T) /\ Integral(z, T) /\ Integral(f, T)
    BY FS_Subset DEF Integral
  <2>2. SumOver(z, T) = 0
    BY <2>1, SumZero
  <2>3. SumOver(z, T) <= SumOver(f, T)
    BY <2>1, SumMonotone
  <2>4. SumOver(f, T) \in Int
    BY <2>1, SumInteger
  <2> QED BY <2>2, <2>3, <2>4
<1>2. Integral(f, S)
  BY DEF Integral
<1>3. ASSUME NEW x \in S PROVE f[x] <= SumOver(f, S)
  <2>1. SumOver(f, S) = f[x] + SumOver(f, S \ {x})
    BY <1>2, SumTaken
  <2>2. SumOver(f, S \ {x}) \in Nat
    BY <1>1
  <2> QED BY <2>1, <2>2
<1> QED BY <1>1, <1>3

\* The sum over two sets without a common member.
LEMMA SumUnion ==
    ASSUME NEW S, NEW R, IsFiniteSet(S), IsFiniteSet(R), S \cap R = {},
           NEW f, Integral(f, S), Integral(f, R)
    PROVE  SumOver(f, S \cup R) = SumOver(f, S) + SumOver(f, R)
<1> DEFINE Bad == {T \in SUBSET S : SumOver(f, T \cup R) # SumOver(f, T) + SumOver(f, R)}
<1> SUFFICES ASSUME Bad # {} PROVE FALSE
  OBVIOUS
<1>0. SumOver(f, R) \in Int
  BY SumInteger
<1>1. PICK T \in Bad : \A x \in T : T \ {x} \notin Bad
  BY SmallestSet, FS_Subset
<1>2. T # {}
  <2>1. {} \cup R = R
    OBVIOUS
  <2>2. SumOver(f, {} \cup R) = SumOver(f, {}) + SumOver(f, R)
    BY <1>0, <2>1, SumEmpty
  <2>3. {} \notin Bad
    BY <2>2
  <2> QED BY <1>1, <2>3
<1>3. PICK x \in T : TRUE
  BY <1>2
<1>4. /\ IsFiniteSet(T) /\ Integral(f, T) /\ IsFiniteSet(T \ {x}) /\ Integral(f, T \ {x})
      /\ IsFiniteSet(T \cup R) /\ Integral(f, T \cup R)
  BY FS_Subset, FS_Union, FS_RemoveElement DEF Integral
<1>5. SumOver(f, T) = f[x] + SumOver(f, T \ {x})
  BY <1>3, <1>4, SumTaken
<1>6. (T \cup R) \ {x} = (T \ {x}) \cup R
  BY <1>3
<1>7. SumOver(f, T \cup R) = f[x] + SumOver(f, (T \ {x}) \cup R)
  <2>1. x \in T \cup R
    BY <1>3
  <2> QED BY <2>1, <1>4, <1>6, SumTaken
<1>8. SumOver(f, (T \ {x}) \cup R) = SumOver(f, T \ {x}) + SumOver(f, R)
  BY <1>1, <1>3
<1>9. SumOver(f, T \ {x}) \in Int /\ f[x] \in Int
  BY <1>3, <1>4, SumInteger DEF Integral
<1> QED BY <1>0, <1>1, <1>5, <1>7, <1>8, <1>9

-----------------------------------------------------------------------------
(* Sums over images, of sums and of multiples. *)

\* A set mapped one to one stays finite.
LEMMA ImageFinite ==
    ASSUME NEW S, IsFiniteSet(S), NEW m
    PROVE  IsFiniteSet({m[x] : x \in S})
<1> DEFINE T == {m[x] : x \in S}
           f == [x \in S |-> m[x]]
<1>1. f \in Surjection(S, T)
  BY DEF Surjection
<1> QED BY <1>1, FS_Surjection

\* Members whose value is zero do not count.
LEMMA SumSupport ==
    ASSUME NEW S, IsFiniteSet(S), NEW T \in SUBSET S, NEW f, Integral(f, T), \A x \in S \ T : f[x] = 0
    PROVE  SumOver(f, S) = SumOver(f, T)
<1>1. IsFiniteSet(T) /\ IsFiniteSet(S \ T) /\ T \cap (S \ T) = {} /\ S = T \cup (S \ T)
  BY FS_Subset
<1>2. SumOver(f, S \ T) = 0
  BY <1>1, SumZero
<1>3. Integral(f, S \ T)
  BY DEF Integral
<1>4. SumOver(f, T \cup (S \ T)) = SumOver(f, T) + SumOver(f, S \ T)
  BY <1>1, <1>3, SumUnion
<1>5. SumOver(f, T) \in Int
  BY <1>1, SumInteger
<1>6. SumOver(f, S) = SumOver(f, T \cup (S \ T))
  BY <1>1
<1>7. 0 \in Int
  OBVIOUS
<1> QED BY <1>2, <1>4, <1>5, <1>6, <1>7

\* A sum over an image is a sum over the set mapped.
LEMMA SumImage ==
    ASSUME NEW S, IsFiniteSet(S), NEW m, \A x, y \in S : m[x] = m[y] => x = y,
           NEW f, \A x \in S : f[m[x]] \in Int
    PROVE  SumOver(f, {m[x] : x \in S}) = SumOver([x \in S |-> f[m[x]]], S)
<1> DEFINE g == [x \in S |-> f[m[x]]]
           Bad == {T \in SUBSET S : SumOver(f, {m[x] : x \in T}) # SumOver(g, T)}
<1> SUFFICES ASSUME Bad # {} PROVE FALSE
  OBVIOUS
<1>1. PICK T \in Bad : \A x \in T : T \ {x} \notin Bad
  BY SmallestSet, FS_Subset
<1>2. T # {}
  <2>1. {m[x] : x \in {}} = {}
    OBVIOUS
  <2> QED BY <1>1, <2>1, SumEmpty
<1>3. PICK x \in T : TRUE
  BY <1>2
<1>4. IsFiniteSet(T) /\ Integral(g, T) /\ IsFiniteSet(T \ {x}) /\ T \in SUBSET S
  BY FS_Subset, FS_RemoveElement DEF Integral
<1>5. SumOver(g, T) = g[x] + SumOver(g, T \ {x})
  BY <1>4, SumTaken
<1> DEFINE R == {m[y] : y \in T \ {x}}
<1>6. /\ IsFiniteSet(R) /\ m[x] \notin R /\ Integral(f, R \cup {m[x]})
      /\ R \cup {m[x]} = {m[y] : y \in T}
  BY <1>4, ImageFinite DEF Integral
<1>7. SumOver(f, {m[y] : y \in T}) = f[m[x]] + SumOver(f, R)
  <2> HIDE DEF R
  <2> QED BY <1>6, SumAdded
<1>8. SumOver(f, R) = SumOver(g, T \ {x})
  BY <1>1, <1>3
<1>9. g[x] = f[m[x]]
  BY <1>4
<1> QED BY <1>1, <1>5, <1>7, <1>8, <1>9

\* The sum of a sum of two functions.
LEMMA SumPlus ==
    ASSUME NEW S, IsFiniteSet(S), NEW f, NEW g, NEW h, Integral(f, S), Integral(g, S),
           \A x \in S : h[x] = f[x] + g[x]
    PROVE  SumOver(h, S) = SumOver(f, S) + SumOver(g, S)
<1> DEFINE Bad == {T \in SUBSET S : SumOver(h, T) # SumOver(f, T) + SumOver(g, T)}
<1> SUFFICES ASSUME Bad # {} PROVE FALSE
  OBVIOUS
<1>1. PICK T \in Bad : \A x \in T : T \ {x} \notin Bad
  BY SmallestSet, FS_Subset
<1>2. T # {}
  BY <1>1, SumEmpty
<1>3. PICK x \in T : TRUE
  BY <1>2
<1>4. /\ IsFiniteSet(T) /\ Integral(f, T) /\ Integral(g, T) /\ Integral(h, T)
      /\ IsFiniteSet(T \ {x}) /\ Integral(f, T \ {x}) /\ Integral(g, T \ {x})
  BY FS_Subset, FS_RemoveElement DEF Integral
<1>5. /\ SumOver(f, T) = f[x] + SumOver(f, T \ {x}) /\ SumOver(g, T) = g[x] + SumOver(g, T \ {x})
      /\ SumOver(h, T) = h[x] + SumOver(h, T \ {x})
  BY <1>3, <1>4, SumTaken
<1>6. SumOver(h, T \ {x}) = SumOver(f, T \ {x}) + SumOver(g, T \ {x})
  BY <1>1, <1>3
<1>7. /\ SumOver(f, T \ {x}) \in Int /\ SumOver(g, T \ {x}) \in Int
      /\ f[x] \in Int /\ g[x] \in Int /\ h[x] = f[x] + g[x]
  BY <1>3, <1>4, SumInteger DEF Integral
<1> QED BY <1>1, <1>5, <1>6, <1>7

\* A common factor.
LEMMA SumScaled ==
    ASSUME NEW S, IsFiniteSet(S), NEW c \in Int, NEW f, NEW h, Integral(f, S),
           \A x \in S : h[x] = c * f[x]
    PROVE  SumOver(h, S) = c * SumOver(f, S)
<1> DEFINE Bad == {T \in SUBSET S : SumOver(h, T) # c * SumOver(f, T)}
<1> SUFFICES ASSUME Bad # {} PROVE FALSE
  OBVIOUS
<1>1. PICK T \in Bad : \A x \in T : T \ {x} \notin Bad
  BY SmallestSet, FS_Subset
<1>2. T # {}
  BY <1>1, SumEmpty
<1>3. PICK x \in T : TRUE
  BY <1>2
<1>4. IsFiniteSet(T) /\ Integral(f, T) /\ Integral(h, T) /\ IsFiniteSet(T \ {x}) /\ Integral(f, T \ {x})
  BY FS_Subset, FS_RemoveElement DEF Integral
<1>5. SumOver(f, T) = f[x] + SumOver(f, T \ {x}) /\ SumOver(h, T) = h[x] + SumOver(h, T \ {x})
  BY <1>3, <1>4, SumTaken
<1>6. SumOver(h, T \ {x}) = c * SumOver(f, T \ {x})
  BY <1>1, <1>3
<1>7. SumOver(f, T \ {x}) \in Int /\ f[x] \in Int /\ h[x] = c * f[x]
  BY <1>3, <1>4, SumInteger DEF Integral
<1>8. PICK a \in Int, b \in Int : a = f[x] /\ b = SumOver(f, T \ {x})
  BY <1>7
<1>9. c * (a + b) = c * a + c * b
  OBVIOUS
<1> QED BY <1>1, <1>5, <1>6, <1>7, <1>8, <1>9
===============================================================================

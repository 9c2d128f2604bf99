--------------------------- MODULE StrategyProofs ---------------------------
(***************************************************************************)
(* The proofs about the formulas: the plans and the simulation of RAVG      *)
(* (Planner), the simulations of TF and LTM (Trend), and what holds of all  *)
(* three in the runs of StrategyMC.                                         *)
(*                                                                          *)
(* RAVG: a part of a plan is known by four totals - what it sells of the    *)
(* fund and of the pair, buys of the pair, and spends - which add up when   *)
(* parts are joined.  A plan that stands was made for the lots as they are; *)
(* its fills go order by order in the passes of the engine, sells first.    *)
(*                                                                          *)
(* Every fill is done on two sides, the lots of the simulation and the     *)
(* rows of the live ledger: what is held of each track stays the same on    *)
(* both, which LiveProofs goes on from.                                     *)
(*                                                                          *)
(* TF and LTM: the plan of a close leaves no share its judgement does not   *)
(* want, and the next open fills it in full unless it buys.                 *)
(***************************************************************************)
EXTENDS StrategyMC, Sums, TLAPS

-----------------------------------------------------------------------------
(* Folds over a sequence, and what is counted of its members. *)

\* A fold from the left over a sequence of n members, as the community modules iterate it:
\* g holds for each set of places what the fold over them gives, the last place taken last.
Folded(g, base, step, n) ==
    g = [t \in SUBSET (1..n) |-> IF t = {} THEN base ELSE step[<<g[t \ {Max(t)}], Max(t)>>]]

\* The last of the first i places.
LEMMA MaxUpto == ASSUME NEW i \in Nat \ {0} PROVE Max(1..i) = i /\ (1..i) \ {i} = 1..(i - 1) /\ 1..i # {}
<1>1. i \in 1..i /\ \A y \in 1..i : i >= y
  OBVIOUS
<1>2. \A x \in 1..i : (\A y \in 1..i : x >= y) => x = i
  <2> SUFFICES ASSUME NEW x \in 1..i, \A y \in 1..i : x >= y PROVE x = i
    OBVIOUS
  <2>1. x >= i /\ x <= i
    BY <1>1
  <2> QED BY <2>1
<1>3. Max(1..i) = i
  BY <1>1, <1>2 DEF Max
<1> QED BY <1>1, <1>3

\* A set of places has a last one.
LEMMA MaxMember == ASSUME NEW n \in Nat, NEW t \in SUBSET (1..n), t # {} PROVE Max(t) \in t /\ Max(t) \in 1..n
<1> DEFINE Down == {n - x : x \in t}
<1>1. Down \subseteq Nat /\ Down # {}
  <2>1. \A x \in t : n - x \in Nat
    OBVIOUS
  <2> QED BY <2>1
<1> HIDE DEF Down
<1>2. PICK m \in Down : \A y \in Down : m <= y
  BY <1>1, LeastNumber
<1>3. PICK x \in t : m = n - x
  BY DEF Down
<1>4. \A y \in t : x >= y
  <2> TAKE y \in t
  <2>1. m <= n - y
    BY <1>2 DEF Down
  <2> QED BY <1>3, <2>1
<1> QED BY <1>4 DEF Max

\* Folds up to sets of k places.
FoldedUpto(g, base, step, n, k) ==
    \A t \in SUBSET (1..n) : Cardinality(t) <= k =>
        g[t] = IF t = {} THEN base ELSE step[<<g[t \ {Max(t)}], Max(t)>>]

\* There is a fold.
LEMMA FoldExists == ASSUME NEW n \in Nat, NEW base, NEW step PROVE \E g : Folded(g, base, step, n)
<1>1. \A t \in SUBSET (1..n) : IsFiniteSet(t) /\ Cardinality(t) \in 0..n
  <2> TAKE t \in SUBSET (1..n)
  <2>1. IsFiniteSet(1..n) /\ Cardinality(1..n) = n
    BY FS_Interval
  <2>2. IsFiniteSet(t) /\ Cardinality(t) <= n /\ Cardinality(t) \in Nat
    BY <2>1, FS_Subset, FS_CardinalityType
  <2> QED BY <2>2
<1> DEFINE Bad == {m \in Nat : ~ \E g : FoldedUpto(g, base, step, n, m)}
<1>2. Bad = {}
  <2> SUFFICES ASSUME Bad # {} PROVE FALSE
    OBVIOUS
  <2>1. PICK m \in Bad : \A k \in Bad : m <= k
    <3>1. Bad \subseteq Nat
      OBVIOUS
    <3> HIDE DEF Bad
    <3> QED BY <3>1, LeastNumber
  <2>2. CASE m = 0
    <3>1. PICK g : g = [t \in SUBSET (1..n) |-> base]
      OBVIOUS
    <3>2. \A t \in SUBSET (1..n) : Cardinality(t) <= 0 => t = {}
      BY <1>1, FS_EmptySet
    <3>3. FoldedUpto(g, base, step, n, 0)
      BY <3>1, <3>2 DEF FoldedUpto
    <3> QED BY <2>2, <3>3
  <2>3. CASE m # 0
    <3>1. PICK j \in Nat : m = j + 1
      BY <2>3
    <3>2. PICK g : FoldedUpto(g, base, step, n, j)
      BY <2>1, <3>1
    <3>3. PICK h : h = [t \in SUBSET (1..n) |->
                          IF Cardinality(t) <= j THEN g[t] ELSE step[<<g[t \ {Max(t)}], Max(t)>>]]
      OBVIOUS
    <3>4. ASSUME NEW t \in SUBSET (1..n), Cardinality(t) <= j + 1
          PROVE  h[t] = IF t = {} THEN base ELSE step[<<h[t \ {Max(t)}], Max(t)>>]
      <4>1. CASE t = {}
        <5>1. Cardinality(t) <= j
          BY <4>1, FS_EmptySet
        <5> QED BY <3>2, <3>3, <4>1, <5>1 DEF FoldedUpto
      <4>2. CASE t # {}
        <5>1. Max(t) \in t
          BY <4>2, MaxMember
        <5>2. PICK u : u = t \ {Max(t)}
          OBVIOUS
        <5>3. u \in SUBSET (1..n) /\ Cardinality(u) = Cardinality(t) - 1
          BY <1>1, <5>1, <5>2, FS_RemoveElement
        <5>4. Cardinality(u) <= j
          BY <1>1, <3>4, <5>3
        <5>5. h[u] = g[u]
          BY <3>3, <5>3, <5>4
        <5>6. CASE Cardinality(t) <= j
          <6>1. h[t] = g[t] /\ g[t] = step[<<g[u], Max(t)>>]
            BY <3>2, <3>3, <4>2, <5>2, <5>6 DEF FoldedUpto
          <6> QED BY <4>2, <5>2, <5>5, <6>1
        <5>7. CASE ~(Cardinality(t) <= j)
          <6>1. h[t] = step[<<g[u], Max(t)>>]
            BY <3>3, <5>2, <5>7
          <6> QED BY <4>2, <5>2, <5>5, <6>1
        <5> QED BY <5>6, <5>7
      <4> QED BY <4>1, <4>2
    <3>5. FoldedUpto(h, base, step, n, j + 1)
      BY <3>4 DEF FoldedUpto
    <3> QED BY <3>1, <3>5
  <2> QED BY <2>2, <2>3
<1>3. PICK g : FoldedUpto(g, base, step, n, n)
  BY <1>2
<1>4. PICK h : h = [t \in SUBSET (1..n) |-> g[t]]
  OBVIOUS
<1>5. \A t \in SUBSET (1..n) : h[t] = IF t = {} THEN base ELSE step[<<h[t \ {Max(t)}], Max(t)>>]
  <2> TAKE t \in SUBSET (1..n)
  <2>1. g[t] = IF t = {} THEN base ELSE step[<<g[t \ {Max(t)}], Max(t)>>]
    BY <1>1, <1>3 DEF FoldedUpto
  <2>2. t \ {Max(t)} \in SUBSET (1..n)
    OBVIOUS
  <2> QED BY <1>4, <2>1, <2>2
<1>6. h = [t \in SUBSET (1..n) |-> h[t]]
  BY <1>4
<1>7. Folded(h, base, step, n)
  BY <1>5, <1>6 DEF Folded
<1> QED BY <1>7

\* What a fold gives, place after place.
LEMMA FoldSteps ==
    ASSUME NEW n \in Nat, NEW base, NEW step, NEW g, Folded(g, base, step, n)
    PROVE  /\ g[1..0] = base
           /\ \A i \in 1..n : g[1..i] = step[<<g[1..(i - 1)], i>>]
<1>1. \A t \in SUBSET (1..n) : g[t] = IF t = {} THEN base ELSE step[<<g[t \ {Max(t)}], Max(t)>>]
  BY DEF Folded
<1>2. g[1..0] = base
  <2>1. 1..0 = {}
    OBVIOUS
  <2> QED BY <1>1, <2>1
<1>3. ASSUME NEW i \in 1..n PROVE g[1..i] = step[<<g[1..(i - 1)], i>>]
  <2>1. 1..i \in SUBSET (1..n)
    OBVIOUS
  <2>2. Max(1..i) = i /\ (1..i) \ {i} = 1..(i - 1) /\ 1..i # {}
    <3>1. i \in Nat \ {0}
      OBVIOUS
    <3> QED BY <3>1, MaxUpto
  <2> QED BY <1>1, <2>1, <2>2
<1> QED BY <1>2, <1>3

\* What a fold gives stays in a set its steps stay in.
LEMMA FoldTyped ==
    ASSUME NEW n \in Nat, NEW base, NEW step, NEW A, base \in A,
           \A a \in A : \A i \in 1..n : step[<<a, i>>] \in A,
           NEW g, Folded(g, base, step, n)
    PROVE  \A t \in SUBSET (1..n) : g[t] \in A
<1> DEFINE Bad == {t \in SUBSET (1..n) : g[t] \notin A}
<1> SUFFICES ASSUME Bad # {} PROVE FALSE
  OBVIOUS
<1>1. \A t \in Bad : IsFiniteSet(t)
  <2>1. IsFiniteSet(1..n)
    <3>1. 1 \in Int /\ n \in Int
      OBVIOUS
    <3> QED BY <3>1, FS_Interval, Zenon
  <2> QED BY <2>1, FS_Subset
<1>2. PICK t \in Bad : \A x \in t : t \ {x} \notin Bad
  BY <1>1, SmallestSet
<1>3. g[t] = IF t = {} THEN base ELSE step[<<g[t \ {Max(t)}], Max(t)>>]
  BY DEF Folded
<1>4. t # {}
  BY <1>2, <1>3
<1>5. Max(t) \in t /\ Max(t) \in 1..n
  BY <1>4, MaxMember
<1>6. PICK u, m : u = t \ {Max(t)} /\ m = Max(t)
  OBVIOUS
<1>7. u \in SUBSET (1..n) /\ u \notin Bad
  BY <1>2, <1>5, <1>6
<1>8. g[u] \in A
  BY <1>7
<1>9. step[<<g[u], m>>] \in A
  BY <1>5, <1>6, <1>8
<1> QED BY <1>2, <1>3, <1>4, <1>6, <1>9

\* The terms of f are the m terms of g, then the n terms of h.
Joined(f, m, g, n, h) == /\ \A i \in 1..m : g[i] \in Int /\ f[i] = g[i]
                         /\ \A i \in 1..n : h[i] \in Int /\ f[m + i] = h[i]

\* A sum over the places of two sequences, one after the other.
LEMMA SumConcat ==
    ASSUME NEW m \in Nat, NEW n \in Nat, NEW f, NEW g, NEW h, Joined(f, m, g, n, h)
    PROVE  SumOver(f, 1..(m + n)) = SumOver(g, 1..m) + SumOver(h, 1..n)
<1>0. /\ \A i \in 1..m : g[i] \in Int /\ f[i] = g[i]
      /\ \A i \in 1..n : h[i] \in Int /\ f[m + i] = h[i]
  BY DEF Joined
<1>1. PICK sh : sh = [i \in 1..n |-> m + i]
  OBVIOUS
<1>2. PICK B, M, N, T : B = {sh[i] : i \in 1..n} /\ M = 1..m /\ N = 1..n /\ T = 1..(m + n)
  OBVIOUS
<1>3. T = M \cup B /\ M \cap B = {}
  <2>1. ASSUME NEW j \in 1..(m + n), j \notin 1..m PROVE j \in B
    <3>1. j - m \in 1..n /\ m + (j - m) = j
      BY <2>1
    <3> QED BY <1>1, <1>2, <3>1
  <2>2. ASSUME NEW j \in B PROVE j \in 1..(m + n) /\ j \notin 1..m
    <3>1. PICK i \in 1..n : j = m + i
      BY <1>1, <1>2
    <3> QED BY <3>1
  <2>3. 1..m \subseteq 1..(m + n)
    OBVIOUS
  <2> QED BY <1>2, <2>1, <2>2, <2>3
<1>4. IsFiniteSet(T) /\ IsFiniteSet(M) /\ IsFiniteSet(N)
  <2>1. m + n \in Nat
    OBVIOUS
  <2> QED BY <1>2, <2>1, FS_Interval
<1>b. B = {sh[x] : x \in N}
  BY <1>2
<1>5. IsFiniteSet(B)
  BY <1>b, <1>4, ImageFinite
<1>6. \A x \in N : f[sh[x]] = h[x] /\ f[sh[x]] \in Int /\ h[x] \in Int
  BY <1>0, <1>1, <1>2
<1>7. Integral(f, M) /\ Integral(f, B) /\ Integral(g, M) /\ Integral(h, N)
  BY <1>0, <1>b, <1>2, <1>6 DEF Integral
<1>8. SumOver(f, M \cup B) = SumOver(f, M) + SumOver(f, B)
  BY <1>3, <1>4, <1>5, <1>7, SumUnion
<1>9. SumOver(f, M) = SumOver(g, M)
  <2>1. \A x \in M : f[x] = g[x]
    BY <1>0, <1>2
  <2> QED BY <2>1, <1>4, <1>7, SumSame
<1>10. SumOver(f, B) = SumOver(h, N)
  <2>1. \A x, y \in N : sh[x] = sh[y] => x = y
    BY <1>1, <1>2
  <2>2. PICK e : e = [x \in N |-> f[sh[x]]]
    OBVIOUS
  <2>3. SumOver(f, {sh[x] : x \in N}) = SumOver([x \in N |-> f[sh[x]]], N)
    BY <1>4, <1>6, <2>1, SumImage
  <2>4. \A x \in N : h[x] = e[x]
    BY <1>6, <2>2
  <2>5. SumOver(h, N) = SumOver(e, N)
    BY <1>4, <1>7, <2>4, SumSame
  <2> QED BY <1>b, <2>2, <2>3, <2>5
<1>11. SumOver(f, T) = SumOver(g, M) + SumOver(h, N)
  BY <1>3, <1>8, <1>9, <1>10
<1> QED BY <1>2, <1>11

\* What holds before the first place and is kept at each, holds at all of them.
LEMMA PlacesAll ==
    ASSUME NEW n \in Nat, NEW G, 0 \in G, \A i \in 1..n : i - 1 \in G => i \in G
    PROVE  \A i \in 0..n : i \in G
<1> DEFINE Bad == {i \in 0..n : i \notin G}
<1> SUFFICES ASSUME Bad # {} PROVE FALSE
  OBVIOUS
<1>1. Bad \subseteq Nat
  OBVIOUS
<1>2. PICK i \in Bad : \A j \in Bad : i <= j
  <2> HIDE DEF Bad
  <2> QED BY <1>1, LeastNumber
<1>3. i \in 1..n
  BY <1>2
<1>4. i - 1 \in 0..n /\ ~(i <= i - 1)
  BY <1>3
<1>5. i - 1 \in G
  BY <1>2, <1>4
<1> QED BY <1>2, <1>3, <1>5

\* The sums over the first places.
LEMMA SumUpto ==
    ASSUME NEW n \in Nat, NEW f, Integral(f, 1..n)
    PROVE  /\ SumOver(f, 1..0) = 0
           /\ \A i \in 1..n : SumOver(f, 1..i) = SumOver(f, 1..(i - 1)) + f[i]
<1>1. SumOver(f, 1..0) = 0
  <2>1. 1..0 = {}
    OBVIOUS
  <2> QED BY <2>1, SumEmpty
<1>2. ASSUME NEW i \in 1..n PROVE SumOver(f, 1..i) = SumOver(f, 1..(i - 1)) + f[i]
  <2>1. PICK S, T : S = 1..i /\ T = 1..(i - 1)
    OBVIOUS
  <2>2. i \in S /\ S \ {i} = T /\ S \subseteq 1..n
    BY <2>1
  <2>3. IsFiniteSet(S)
    BY <2>1, FS_Interval
  <2>4. Integral(f, S) /\ Integral(f, T) /\ IsFiniteSet(T)
    BY <2>2, <2>3, FS_RemoveElement DEF Integral
  <2>5. SumOver(f, S) = f[i] + SumOver(f, S \ {i})
    BY <2>2, <2>3, <2>4, SumTaken
  <2>6. SumOver(f, T) \in Int /\ f[i] \in Int
    BY <2>4, SumInteger DEF Integral
  <2>7. SumOver(f, S) = f[i] + SumOver(f, T)
    BY <2>2, <2>5
  <2>8. SumOver(f, S) = SumOver(f, T) + f[i]
    BY <2>6, <2>7
  <2> QED BY <2>1, <2>8
<1> QED BY <1>1, <1>2

-----------------------------------------------------------------------------
(* Orders and lots are counted. *)

\* Records that carry a quantity.
Counting(X) == \A x \in X : x.qty \in Nat
QtyAt(s, R) == [i \in 1..Len(s) |-> IF s[i] \in R THEN s[i].qty ELSE 0]

\* A quantity is a sum over places.
LEMMA QtyIs == ASSUME NEW s, NEW R PROVE Qty(s, R) = SumOver(QtyAt(s, R), 1..Len(s))
<1> DEFINE S == 1..Len(s)
           F == QtyAt(s, R)
           P(g) == g = [t \in SUBSET S |-> IF t = {} THEN 0 ELSE LET x == CHOOSE x \in t : TRUE
                            IN (IF s[x] \in R THEN s[x].qty ELSE 0) + g[t \ {x}]]
<1>1. Qty(s, R) = (CHOOSE g : P(g))[S]
  BY DEF Qty, MapThenSumSet, MapThenFoldSet
<1>2. ASSUME NEW g PROVE P(g) <=> Iterates(g, F, S)
  <2>1. ASSUME NEW t \in SUBSET S, t # {}
        PROVE LET x == CHOOSE x \in t : TRUE IN F[x] = IF s[x] \in R THEN s[x].qty ELSE 0
    BY <2>1 DEF QtyAt
  <2> HIDE DEF F
  <2> QED BY <2>1 DEF Iterates, SumFrom
<1>3. (CHOOSE g : P(g)) = (CHOOSE g : Iterates(g, F, S))
  <2> HIDE DEF P, F
  <2> QED BY <1>2, Zenon
<1> QED BY <1>1, <1>3, SumIsIterated

\* The places of a sequence, and what is counted there.
LEMMA QtyTerms ==
    ASSUME NEW X, Counting(X), NEW s \in Seq(X), NEW R
    PROVE  /\ IsFiniteSet(1..Len(s)) /\ Len(s) \in Nat
           /\ \A i \in 1..Len(s) : QtyAt(s, R)[i] \in Nat /\ s[i].qty \in Nat
           /\ Integral(QtyAt(s, R), 1..Len(s))
<1>1. Len(s) \in Nat /\ \A i \in 1..Len(s) : s[i] \in X
  OBVIOUS
<1>2. \A i \in 1..Len(s) : s[i].qty \in Nat
  BY <1>1 DEF Counting
<1>3. IsFiniteSet(1..Len(s))
  BY <1>1, FS_Interval
<1>4. \A i \in 1..Len(s) : QtyAt(s, R)[i] \in Nat
  BY <1>2 DEF QtyAt
<1> QED BY <1>1, <1>2, <1>3, <1>4 DEF Integral

\* Quantities are natural numbers, and each counted record is part of them.
LEMMA QtyNat ==
    ASSUME NEW X, Counting(X), NEW s \in Seq(X), NEW R
    PROVE  Qty(s, R) \in Nat /\ \A i \in 1..Len(s) : s[i] \in R => s[i].qty <= Qty(s, R)
<1>1. /\ IsFiniteSet(1..Len(s)) /\ \A i \in 1..Len(s) : QtyAt(s, R)[i] \in Nat
  BY QtyTerms
<1>2. SumOver(QtyAt(s, R), 1..Len(s)) \in Nat
      /\ \A i \in 1..Len(s) : QtyAt(s, R)[i] <= SumOver(QtyAt(s, R), 1..Len(s))
  BY <1>1, SumNatural
<1> QED BY <1>2, QtyIs DEF QtyAt

\* Two sequences that count the same at each place.
LEMMA QtySame ==
    ASSUME NEW X, Counting(X), NEW s \in Seq(X), NEW R, NEW Y, Counting(Y), NEW t \in Seq(Y), NEW S,
           Len(s) = Len(t),
           \A i \in 1..Len(s) : (s[i] \in R <=> t[i] \in S) /\ (s[i] \in R => s[i].qty = t[i].qty)
    PROVE  Qty(s, R) = Qty(t, S)
<1>1. IsFiniteSet(1..Len(s)) /\ Integral(QtyAt(s, R), 1..Len(s))
  BY QtyTerms
<1>2. \A i \in 1..Len(s) : QtyAt(s, R)[i] = QtyAt(t, S)[i]
  BY DEF QtyAt
<1>3. SumOver(QtyAt(s, R), 1..Len(s)) = SumOver(QtyAt(t, S), 1..Len(s))
  BY <1>1, <1>2, SumSame
<1> QED BY <1>3, QtyIs

\* Nothing is counted.
LEMMA QtyNone ==
    ASSUME NEW X, Counting(X), NEW s \in Seq(X), NEW R, \A i \in 1..Len(s) : s[i] \notin R
    PROVE  Qty(s, R) = 0
<1>1. IsFiniteSet(1..Len(s)) /\ \A i \in 1..Len(s) : QtyAt(s, R)[i] = 0
  BY QtyTerms DEF QtyAt
<1>2. SumOver(QtyAt(s, R), 1..Len(s)) = 0
  BY <1>1, SumZero
<1> QED BY <1>2, QtyIs

\* One record.
LEMMA QtyOne ==
    ASSUME NEW x, x.qty \in Nat, NEW R
    PROVE  Qty(<<x>>, R) = IF x \in R THEN x.qty ELSE 0
<1>1. Len(<<x>>) = 1 /\ <<x>>[1] = x /\ 1..1 = {1}
  OBVIOUS
<1>2. QtyAt(<<x>>, R)[1] = (IF x \in R THEN x.qty ELSE 0) /\ QtyAt(<<x>>, R)[1] \in Int
  BY <1>1 DEF QtyAt
<1>3. IsFiniteSet({1})
  BY FS_Singleton
<1>4. SumOver(QtyAt(<<x>>, R), {1}) = QtyAt(<<x>>, R)[1]
  BY <1>2, <1>3, SumSingle
<1> QED BY <1>1, <1>2, <1>4, QtyIs

\* One sequence after the other.
LEMMA QtyConcat ==
    ASSUME NEW X, Counting(X), NEW s \in Seq(X), NEW t \in Seq(X), NEW R
    PROVE  Qty(s \o t, R) = Qty(s, R) + Qty(t, R)
<1>1. PICK m \in Nat, n \in Nat : m = Len(s) /\ n = Len(t)
  OBVIOUS
<1>2. /\ s \o t \in Seq(X) /\ Len(s \o t) = m + n
      /\ \A i \in 1..m : (s \o t)[i] = s[i]
      /\ \A i \in 1..n : (s \o t)[m + i] = t[i]
  BY <1>1
<1>3. PICK f, g, h : f = QtyAt(s \o t, R) /\ g = QtyAt(s, R) /\ h = QtyAt(t, R)
  OBVIOUS
<1>4. (\A i \in 1..m : g[i] \in Int) /\ (\A i \in 1..n : h[i] \in Int)
  BY <1>1, <1>3, QtyTerms
<1>5. \A i \in 1..m : f[i] = g[i]
  <2> TAKE i \in 1..m
  <2>1. i \in 1..(m + n)
    OBVIOUS
  <2> QED BY <1>1, <1>2, <1>3, <2>1 DEF QtyAt
<1>6. \A i \in 1..n : f[m + i] = h[i]
  <2> TAKE i \in 1..n
  <2>1. m + i \in 1..(m + n)
    OBVIOUS
  <2> QED BY <1>1, <1>2, <1>3, <2>1 DEF QtyAt
<1>7. SumOver(f, 1..(m + n)) = SumOver(g, 1..m) + SumOver(h, 1..n)
  <2>1. \A i \in 1..m : g[i] \in Int /\ f[i] = g[i]
    BY <1>4, <1>5
  <2>2. \A i \in 1..n : h[i] \in Int /\ f[m + i] = h[i]
    BY <1>4, <1>6
  <2>3. m \in Nat /\ n \in Nat
    BY <1>1
  <2>4. Joined(f, m, g, n, h)
    BY <2>1, <2>2 DEF Joined
  <2> QED BY <2>3, <2>4, SumConcat
<1> QED BY <1>1, <1>2, <1>3, <1>7, QtyIs

\* What is counted of two sets that share nothing, and of a part.
LEMMA QtySplit ==
    ASSUME NEW X, Counting(X), NEW s \in Seq(X), NEW R, NEW S, NEW T,
           \A i \in 1..Len(s) : /\ s[i] \in T <=> s[i] \in R \/ s[i] \in S
                                /\ ~(s[i] \in R /\ s[i] \in S)
    PROVE  Qty(s, T) = Qty(s, R) + Qty(s, S)
<1>1. /\ IsFiniteSet(1..Len(s)) /\ Integral(QtyAt(s, R), 1..Len(s)) /\ Integral(QtyAt(s, S), 1..Len(s))
      /\ \A i \in 1..Len(s) : s[i].qty \in Nat
  BY QtyTerms
<1>2. \A i \in 1..Len(s) : QtyAt(s, T)[i] = QtyAt(s, R)[i] + QtyAt(s, S)[i]
  BY <1>1 DEF QtyAt
<1>3. SumOver(QtyAt(s, T), 1..Len(s)) = SumOver(QtyAt(s, R), 1..Len(s)) + SumOver(QtyAt(s, S), 1..Len(s))
  BY <1>1, <1>2, SumPlus
<1> QED BY <1>3, QtyIs

\* A part counts at most the whole.
LEMMA QtyPart ==
    ASSUME NEW X, Counting(X), NEW s \in Seq(X), NEW R, NEW S, \A i \in 1..Len(s) : s[i] \in R => s[i] \in S
    PROVE  Qty(s, R) <= Qty(s, S)
<1>1. /\ IsFiniteSet(1..Len(s)) /\ Integral(QtyAt(s, R), 1..Len(s)) /\ Integral(QtyAt(s, S), 1..Len(s))
      /\ \A i \in 1..Len(s) : s[i].qty \in Nat
  BY QtyTerms
<1>2. \A i \in 1..Len(s) : QtyAt(s, R)[i] <= QtyAt(s, S)[i]
  BY <1>1 DEF QtyAt
<1>3. SumOver(QtyAt(s, R), 1..Len(s)) <= SumOver(QtyAt(s, S), 1..Len(s))
  BY <1>1, <1>2, SumMonotone
<1> QED BY <1>3, QtyIs

OrderKinds == LevKinds \cup {"lev_liq", "reduce", "tp", "boot", "grid", "lev_tact_exit", "lev_cap"}
Orders == {o \in [inst : {K200, LEV}, side : {"buy", "sell"}, type : {"market", "limit"}, qty : Nat \ {0},
                  price : Nat, kind : OrderKinds, lot : Nat] :
             o.inst = LEV /\ o.side = "buy" => o.kind \in LevKinds}
FundSells == {o \in Orders : o.inst = K200 /\ o.side = "sell"}
LevSells == {o \in Orders : o.inst = LEV /\ o.side = "sell"}
LevBuys == {o \in Orders : o.inst = LEV /\ o.side = "buy"}

\* Orders are records of a quantity.
LEMMA OrdersCount == Counting(Orders)
  BY DEF Counting, Orders

\* Of the orders of a plan, the sells and the leverage bought.
LEMMA OrderedIs ==
    ASSUME NEW s \in Seq(Orders)
    PROVE  /\ Ordered(s, K200, "sell") = Qty(s, FundSells)
           /\ Ordered(s, LEV, "sell") = Qty(s, LevSells)
           /\ Ordered(s, LEV, "buy") = Qty(s, LevBuys)
<1>1. \A i \in 1..Len(s) : s[i] \in Orders /\ s[i] \in Range(s)
  BY DEF Range
<1>2. PICK A, B, C : A = OfSide(s, K200, "sell") /\ B = OfSide(s, LEV, "sell") /\ C = OfSide(s, LEV, "buy")
  OBVIOUS
<1>3. \A i \in 1..Len(s) : /\ s[i] \in A <=> s[i] \in FundSells
                           /\ s[i] \in B <=> s[i] \in LevSells
                           /\ s[i] \in C <=> s[i] \in LevBuys
  BY <1>1, <1>2 DEF OfSide, FundSells, LevSells, LevBuys
<1>4. Qty(s, A) = Qty(s, FundSells)
  BY <1>3, OrdersCount, QtySame
<1>5. Qty(s, B) = Qty(s, LevSells)
  BY <1>3, OrdersCount, QtySame
<1>6. Qty(s, C) = Qty(s, LevBuys)
  BY <1>3, OrdersCount, QtySame
<1> QED BY <1>2, <1>4, <1>5, <1>6 DEF Ordered

\* What a purchase costs at the prices of the plan.
PriceIn(o, b) == IF o.inst = LEV THEN b.lclose ELSE IF o.price = NoPrice THEN b.close ELSE o.price
CostAt(s, b) == [i \in 1..Len(s) |-> IF s[i].side = "buy" THEN s[i].qty * PriceIn(s[i], b) ELSE 0]

\* What a list of orders may spend is a sum over its places.
LEMMA SpentIs == ASSUME NEW s, NEW b PROVE Spent(s, b) = SumOver(CostAt(s, b), 1..Len(s))
<1> DEFINE S == 1..Len(s)
           F == CostAt(s, b)
           P(g) == g = [t \in SUBSET S |-> IF t = {} THEN 0 ELSE LET x == CHOOSE x \in t : TRUE
                            IN (IF s[x].side = "buy" THEN s[x].qty * PriceIn(s[x], b) ELSE 0) + g[t \ {x}]]
<1>1. Spent(s, b) = (CHOOSE g : P(g))[S]
  BY DEF Spent, MapThenSumSet, MapThenFoldSet, PriceIn
<1>2. ASSUME NEW g PROVE P(g) <=> Iterates(g, F, S)
  <2>1. ASSUME NEW t \in SUBSET S, t # {}
        PROVE LET x == CHOOSE x \in t : TRUE IN F[x] = IF s[x].side = "buy" THEN s[x].qty * PriceIn(s[x], b) ELSE 0
    BY <2>1 DEF CostAt
  <2> HIDE DEF F
  <2> QED BY <2>1 DEF Iterates, SumFrom
<1>3. (CHOOSE g : P(g)) = (CHOOSE g : Iterates(g, F, S))
  <2> HIDE DEF P, F
  <2> QED BY <1>2, Zenon
<1> QED BY <1>1, <1>3, SumIsIterated

\* Prices are those of a bar of the series.
Priced(b) == b.close \in Nat \ {0} /\ b.lclose \in Nat \ {0}

\* No order costs less than nothing.
LEMMA CostNat ==
    ASSUME NEW s \in Seq(Orders), NEW b, Priced(b)
    PROVE  IsFiniteSet(1..Len(s)) /\ Len(s) \in Nat /\ \A i \in 1..Len(s) : CostAt(s, b)[i] \in Nat
<1>1. Len(s) \in Nat /\ \A i \in 1..Len(s) : s[i] \in Orders
  OBVIOUS
<1>2. IsFiniteSet(1..Len(s))
  BY <1>1, FS_Interval
<1>3. ASSUME NEW i \in 1..Len(s) PROVE CostAt(s, b)[i] \in Nat
  <2>1. PICK q \in Nat, r \in Nat : q = s[i].qty /\ r = PriceIn(s[i], b)
    BY <1>1 DEF Orders, PriceIn, Priced
  <2>2. q * r \in Nat
    OBVIOUS
  <2> QED BY <2>1, <2>2 DEF CostAt
<1> QED BY <1>1, <1>2, <1>3

\* Two lists of orders spend what each spends.
LEMMA SpentConcat ==
    ASSUME NEW s \in Seq(Orders), NEW t \in Seq(Orders), NEW b, Priced(b)
    PROVE  Spent(s \o t, b) = Spent(s, b) + Spent(t, b)
<1>1. PICK m \in Nat, n \in Nat : m = Len(s) /\ n = Len(t)
  OBVIOUS
<1>2. /\ s \o t \in Seq(Orders) /\ Len(s \o t) = m + n
      /\ \A i \in 1..m : (s \o t)[i] = s[i]
      /\ \A i \in 1..n : (s \o t)[m + i] = t[i]
  BY <1>1
<1>3. PICK f, g, h : f = CostAt(s \o t, b) /\ g = CostAt(s, b) /\ h = CostAt(t, b)
  OBVIOUS
<1>4. (\A i \in 1..m : g[i] \in Int) /\ (\A i \in 1..n : h[i] \in Int)
  BY <1>1, <1>3, CostNat
<1>5. \A i \in 1..m : f[i] = g[i]
  <2> TAKE i \in 1..m
  <2>1. i \in 1..(m + n)
    OBVIOUS
  <2> QED BY <1>1, <1>2, <1>3, <2>1 DEF CostAt
<1>6. \A i \in 1..n : f[m + i] = h[i]
  <2> TAKE i \in 1..n
  <2>1. m + i \in 1..(m + n)
    OBVIOUS
  <2> QED BY <1>1, <1>2, <1>3, <2>1 DEF CostAt
<1>7. SumOver(f, 1..(m + n)) = SumOver(g, 1..m) + SumOver(h, 1..n)
  <2>1. \A i \in 1..m : g[i] \in Int /\ f[i] = g[i]
    BY <1>4, <1>5
  <2>2. \A i \in 1..n : h[i] \in Int /\ f[m + i] = h[i]
    BY <1>4, <1>6
  <2>3. Joined(f, m, g, n, h)
    BY <2>1, <2>2 DEF Joined
  <2> QED BY <2>3, SumConcat
<1> QED BY <1>1, <1>2, <1>3, <1>7, SpentIs

\* What a sequence of orders comes to: shares of the fund sold, leverage sold and bought,
\* and the money spent.
Totals(s, ks, ls, lb, sp, b) ==
    /\ s \in Seq(Orders) /\ ks \in Nat /\ ls \in Nat /\ lb \in Nat /\ sp \in Nat
    /\ Qty(s, FundSells) = ks /\ Qty(s, LevSells) = ls /\ Qty(s, LevBuys) = lb /\ Spent(s, b) = sp

\* The totals of two lists of orders, one after the other.
LEMMA TotalsJoin ==
    ASSUME NEW b, Priced(b), NEW s, NEW t, NEW k1, NEW l1, NEW b1, NEW p1, Totals(s, k1, l1, b1, p1, b),
           NEW k2, NEW l2, NEW b2, NEW p2, Totals(t, k2, l2, b2, p2, b)
    PROVE  Totals(s \o t, k1 + k2, l1 + l2, b1 + b2, p1 + p2, b)
<1>1. s \in Seq(Orders) /\ t \in Seq(Orders)
  BY DEF Totals
<1>2. s \o t \in Seq(Orders)
  BY <1>1
<1>3. /\ Qty(s \o t, FundSells) = Qty(s, FundSells) + Qty(t, FundSells)
      /\ Qty(s \o t, LevSells) = Qty(s, LevSells) + Qty(t, LevSells)
      /\ Qty(s \o t, LevBuys) = Qty(s, LevBuys) + Qty(t, LevBuys)
  BY <1>1, OrdersCount, QtyConcat
<1>4. Spent(s \o t, b) = Spent(s, b) + Spent(t, b)
  BY <1>1, SpentConcat
<1> QED BY <1>2, <1>3, <1>4 DEF Totals

\* No orders.
LEMMA TotalsNone == ASSUME NEW b, Priced(b) PROVE Totals(<<>>, 0, 0, 0, 0, b)
<1>1. PICK s : s = <<>>
  OBVIOUS
<1>2. s \in Seq(Orders)
  BY <1>1
<1>3. Len(s) = 0 /\ 1..0 = {}
  BY <1>1
<1>4. Qty(s, FundSells) = 0 /\ Qty(s, LevSells) = 0 /\ Qty(s, LevBuys) = 0 /\ Spent(s, b) = 0
  BY <1>3, QtyIs, SpentIs, SumEmpty
<1> QED BY <1>1, <1>2, <1>4 DEF Totals

\* One order.
LEMMA TotalsOne ==
    ASSUME NEW b, Priced(b), NEW o \in Orders
    PROVE  Totals(<<o>>, IF o \in FundSells THEN o.qty ELSE 0, IF o \in LevSells THEN o.qty ELSE 0,
                  IF o \in LevBuys THEN o.qty ELSE 0,
                  IF o.side = "buy" THEN o.qty * PriceIn(o, b) ELSE 0, b)
<1>1. o.qty \in Nat
  BY DEF Orders
<1>2. PICK s : s = <<o>>
  OBVIOUS
<1>3. s \in Seq(Orders) /\ Len(s) = 1 /\ s[1] = o /\ 1..1 = {1}
  BY <1>2
<1>4. PICK c : c = CostAt(s, b)
  OBVIOUS
<1>5. c[1] = (IF o.side = "buy" THEN o.qty * PriceIn(o, b) ELSE 0)
  BY <1>3, <1>4 DEF CostAt
<1>6. c[1] \in Nat
  BY <1>3, <1>4, CostNat
<1>7. SumOver(c, {1}) = c[1]
  <2>1. IsFiniteSet({1})
    BY FS_Singleton
  <2> QED BY <1>6, <2>1, SumSingle
<1>8. Spent(s, b) = c[1]
  BY <1>3, <1>4, <1>7, SpentIs
<1>9. /\ Qty(s, FundSells) = IF o \in FundSells THEN o.qty ELSE 0
      /\ Qty(s, LevSells) = IF o \in LevSells THEN o.qty ELSE 0
      /\ Qty(s, LevBuys) = IF o \in LevBuys THEN o.qty ELSE 0
  BY <1>1, <1>2, QtyOne
<1> QED BY <1>1, <1>2, <1>3, <1>5, <1>6, <1>8, <1>9 DEF Totals

-----------------------------------------------------------------------------
(* Quotients. *)

\* The whole quotient, rounded down.
LEMMA Quotient ==
    ASSUME NEW a \in Int, NEW d \in Int, d > 0
    PROVE  /\ a \div d \in Int /\ (a \div d) * d <= a /\ a < (a \div d) * d + d
           /\ a >= 0 => a \div d \in Nat
<1>1. a = d * (a \div d) + (a % d)
  OBVIOUS
<1>a. a % d \in 0..(d - 1)
  OBVIOUS
<1>b. a \div d \in Int
  OBVIOUS
<1>2. PICK q \in Int, r \in 0..(d - 1) : q = a \div d /\ r = a % d
  BY <1>a, <1>b
<1>3. a = d * q + r
  BY <1>1, <1>2
<1>c. d * q = q * d
  OBVIOUS
<1>4. PICK p \in Int : p = q * d
  OBVIOUS
<1>5. p <= a /\ a < p + d
  BY <1>3, <1>c, <1>4, <1>2
<1>6. a >= 0 => q >= 0
  <2> SUFFICES ASSUME a >= 0, q <= -1 PROVE FALSE
    OBVIOUS
  <2>1. q * d <= -d
    OBVIOUS
  <2> QED BY <2>1, <1>4, <1>5
<1> QED BY <1>2, <1>4, <1>5, <1>6

\* A quotient stays below a bound that its dividend stays below.
LEMMA QuotientAtMost ==
    ASSUME NEW a \in Int, NEW d \in Int, d > 0, NEW q \in Int, a <= q * d
    PROVE  a \div d <= q
<1>1. PICK p \in Int : p = a \div d
  BY Quotient
<1>2. p * d <= a
  BY <1>1, Quotient
<1>3. SUFFICES ASSUME p >= q + 1 PROVE FALSE
  BY <1>1
<1>4. p * d >= (q + 1) * d
  BY <1>3
<1>5. (q + 1) * d = q * d + d
  OBVIOUS
<1> QED BY <1>2, <1>4, <1>5

-----------------------------------------------------------------------------
(* The holdings. *)

LotKinds == LevKinds \cup {"grid", "core"}
SimLots == {l \in [id : Nat \ {0}, inst : {K200, LEV}, qty : Nat \ {0}, price : Nat, kind : LotKinds,
                   tp : Nat, tag : Nat] : l.inst = LEV <=> l.kind \in LevKinds}
FundLots == {l \in SimLots : l.inst = K200}
LevLots == {l \in SimLots : l.inst = LEV}
StratLots == {l \in SimLots : l.kind = "lev_strat"}
TactLots == {l \in SimLots : l.kind \in Tactical}

\* Lots are records of a quantity.
LEMMA SimLotsCount == Counting(SimLots)
  BY DEF Counting, SimLots

\* The holdings are counted over the lots.
LEMMA HeldIs ==
    ASSUME NEW s \in Seq(SimLots)
    PROVE  /\ Held(s, K200) = Qty(s, FundLots) /\ Held(s, LEV) = Qty(s, LevLots)
           /\ HeldKind(s, {"lev_strat"}) = Qty(s, StratLots) /\ HeldKind(s, Tactical) = Qty(s, TactLots)
           /\ Qty(s, LevLots) = Qty(s, StratLots) + Qty(s, TactLots)
           /\ Qty(s, FundLots) \in Nat /\ Qty(s, LevLots) \in Nat
           /\ Qty(s, StratLots) \in Nat /\ Qty(s, TactLots) \in Nat
<1>1. \A i \in 1..Len(s) : s[i] \in SimLots /\ s[i] \in Range(s)
  BY DEF Range
<1>2. PICK A, B, C, D : /\ A = OfInst(s, K200) /\ B = OfInst(s, LEV)
                        /\ C = OfKind(s, {"lev_strat"}) /\ D = OfKind(s, Tactical)
  OBVIOUS
<1>3. \A i \in 1..Len(s) : /\ s[i] \in A <=> s[i] \in FundLots
                           /\ s[i] \in B <=> s[i] \in LevLots
                           /\ s[i] \in C <=> s[i] \in StratLots
                           /\ s[i] \in D <=> s[i] \in TactLots
  BY <1>1, <1>2 DEF OfInst, OfKind, FundLots, LevLots, StratLots, TactLots
<1>4. \A i \in 1..Len(s) : /\ s[i] \in LevLots <=> s[i] \in StratLots \/ s[i] \in TactLots
                           /\ ~(s[i] \in StratLots /\ s[i] \in TactLots)
  BY <1>1 DEF LevLots, StratLots, TactLots, SimLots, LevKinds, Tactical, LotKinds
<1>5. Qty(s, A) = Qty(s, FundLots)
  BY <1>3, SimLotsCount, QtySame
<1>6. Qty(s, B) = Qty(s, LevLots)
  BY <1>3, SimLotsCount, QtySame
<1>7. Qty(s, C) = Qty(s, StratLots)
  BY <1>3, SimLotsCount, QtySame
<1>8. Qty(s, D) = Qty(s, TactLots)
  BY <1>3, SimLotsCount, QtySame
<1>9. Qty(s, LevLots) = Qty(s, StratLots) + Qty(s, TactLots)
  BY <1>4, SimLotsCount, QtySplit
<1>10. /\ Qty(s, FundLots) \in Nat /\ Qty(s, LevLots) \in Nat
       /\ Qty(s, StratLots) \in Nat /\ Qty(s, TactLots) \in Nat
  BY SimLotsCount, QtyNat
<1> QED BY <1>2, <1>5, <1>6, <1>7, <1>8, <1>9, <1>10 DEF Held, HeldKind

-----------------------------------------------------------------------------
(* The context of an evening. *)

BarOK(b) == /\ {b.open, b.high, b.low, b.close, b.lopen, b.lclose} \subseteq Nat \ {0}
            /\ {b.eRaw, b.dip, b.grid, b.gap} \subseteq Nat /\ {b.hot, b.back} \subseteq BOOLEAN
            /\ b.close * (20 - 3 * b.grid) >= 20
\* The bars of a series have prices.
LEMMA BarsOK == ASSUME NEW b \in Bars PROVE BarOK(b) /\ Priced(b)
  BY PlannerAssumption DEF BarOK, Priced

Settled == /\ {flags.noTp, flags.lever, flags.gap, flags.marketBoot} \subseteq BOOLEAN
           /\ cash \in Int /\ lots \in Seq(SimLots)
Fund == Qty(lots, FundLots)
Pair == Qty(lots, LevLots)
Strat == Qty(lots, StratLots)
Tact == Qty(lots, TactLots)

\* The holdings a plan reads, the pair being in its strategic and its tactical track.
LEMMA Holdings == ASSUME Settled
    PROVE /\ Held(lots, K200) = Fund /\ Held(lots, LEV) = Pair /\ HeldKind(lots, {"lev_strat"}) = Strat
          /\ HeldKind(lots, Tactical) = Tact /\ Pair = Strat + Tact
          /\ Fund \in Nat /\ Pair \in Nat /\ Strat \in Nat /\ Tact \in Nat
  BY HeldIs DEF Settled, Fund, Pair, Strat, Tact

InContext(x, b) ==
    /\ x.bar = b /\ x.regime \in Regimes /\ x.equity \in Nat /\ x.wLev \in Nat /\ x.missing \in Int
    /\ x.missing + 20 * Fund * b.close \in Nat
    /\ x.regime # "BULL" => x.forced

\* What an evening reads of the lots, the cash and the bar.
LEMMA ContextIs ==
    ASSUME Settled, NEW b, BarOK(b), Worth(cash, lots, b) >= 0
    PROVE  InContext(Context(b), b)
<1>1. PICK x : x = Context(b)
  OBVIOUS
<1>a. PICK r : r = NextRegime(regime, b)
  OBVIOUS
<1>b. Emax(r) \in 0..40
  BY PlannerAssumption DEF Emax
<1>c. b.eRaw \in Nat /\ b.close \in Nat /\ b.lclose \in Nat
  BY DEF BarOK
<1>d. PICK e \in 0..40 : e = Least(Emax(r), b.eRaw)
  BY <1>b, <1>c DEF Least
<1>e. PICK w \in 0..40 : w = IF flags.lever THEN Least(e, 40 - e) ELSE e
  BY <1>d DEF Least
<1>f. PICK q \in Nat : q = Worth(cash, lots, b)
  <2>5. PICK f \in Nat, p \in Nat, c \in Nat, l \in Nat, k \in Int :
            f = Fund /\ p = Pair /\ c = b.close /\ l = b.lclose /\ k = cash
    BY <1>c, Holdings DEF Settled
  <2>6. f * c \in Nat /\ p * l \in Nat
    OBVIOUS
  <2>7. Worth(cash, lots, b) = k + f * c + p * l
    BY <2>5, Holdings DEF Worth
  <2>8. k + f * c + p * l \in Int
    BY <2>6
  <2> QED BY <2>7, <2>8
<1>2. /\ r = NextRegime(regime, b) /\ e = Least(Emax(r), b.eRaw)
      /\ w = (IF flags.lever THEN Least(e, 40 - e) ELSE e) /\ q = Worth(cash, lots, b)
      /\ e \in Int /\ w \in Nat /\ q \in Nat
  BY <1>a, <1>d, <1>e, <1>f
<1>3. r \in Regimes
  BY <1>2 DEF NextRegime, Regimes
<1>4. /\ x.bar = b /\ x.regime = r /\ x.equity = q /\ x.forced = (r # "BULL" \/ b.hot)
      /\ x.wLev = IF flags.lever THEN Most(0, e - 20) ELSE 0
  BY <1>1, <1>2 DEF Context
<1>5. x.missing = w * q - 20 * Fund * b.close
  BY <1>1, <1>2, Holdings DEF Context
<1>6. w * q \in Nat
  BY <1>2
<1>7. PICK p \in Nat, n \in Nat : p = w * q /\ n = 20 * Fund * b.close
  <2>1. PICK f \in Nat, c \in Nat : f = Fund /\ c = b.close
    BY Holdings DEF BarOK
  <2>2. 20 * f * c \in Nat
    OBVIOUS
  <2> QED BY <1>6, <2>1, <2>2
<1>8. x.missing = p - n /\ x.missing \in Int /\ x.missing + n \in Nat
  BY <1>5, <1>7
<1>9. x.wLev \in Nat
  BY <1>2, <1>4 DEF Most
<1> QED BY <1>1, <1>2, <1>3, <1>4, <1>7, <1>8, <1>9 DEF InContext

-----------------------------------------------------------------------------
(* The parts of a plan. *)

\* The fund is not the leveraged one.
LEMMA Instruments == K200 # LEV
  BY DEF K200, LEV

\* A sale at the market, of the fund or of the pair.
LEMMA MarketTotals ==
    ASSUME NEW b, Priced(b), NEW q \in Nat, NEW kind \in OrderKinds
    PROVE  /\ Totals(MarketOrder(K200, "sell", q, kind), q, 0, 0, 0, b)
           /\ Totals(MarketOrder(LEV, "sell", q, kind), 0, q, 0, 0, b)
<1>1. CASE q = 0
  <2>1. MarketOrder(K200, "sell", q, kind) = <<>> /\ MarketOrder(LEV, "sell", q, kind) = <<>>
    BY <1>1 DEF MarketOrder
  <2> QED BY <1>1, <2>1, TotalsNone
<1>2. CASE q > 0
  <2>1. PICK o, p : /\ o = Order(K200, "sell", "market", q, NoPrice, kind)
                    /\ p = Order(LEV, "sell", "market", q, NoPrice, kind)
    OBVIOUS
  <2>2. MarketOrder(K200, "sell", q, kind) = <<o>> /\ MarketOrder(LEV, "sell", q, kind) = <<p>>
    BY <1>2, <2>1 DEF MarketOrder
  <2>3. o \in Orders /\ p \in Orders
    BY <1>2, <2>1 DEF Orders, Order, NoPrice
  <2>4. /\ o \in FundSells /\ o \notin LevSells /\ o \notin LevBuys
        /\ p \notin FundSells /\ p \in LevSells /\ p \notin LevBuys
        /\ o.qty = q /\ p.qty = q /\ o.side # "buy" /\ p.side # "buy"
    BY <2>1, <2>3, Instruments DEF FundSells, LevSells, LevBuys, Order
  <2>5. Totals(<<o>>, q, 0, 0, 0, b)
    BY <2>3, <2>4, TotalsOne
  <2>6. Totals(<<p>>, 0, q, 0, 0, b)
    BY <2>3, <2>4, TotalsOne
  <2> QED BY <2>2, <2>5, <2>6
<1> QED BY <1>1, <1>2

\* A purchase of the pair.
LEMMA LevBuyTotals ==
    ASSUME NEW b, Priced(b), NEW q \in Nat, NEW kind \in LevKinds
    PROVE  Totals(MarketOrder(LEV, "buy", q, kind), 0, 0, q, q * b.lclose, b)
<1>0. b.lclose \in Nat /\ 0 * b.lclose = 0
  BY DEF Priced
<1>1. CASE q = 0
  <2>1. MarketOrder(LEV, "buy", q, kind) = <<>>
    BY <1>1 DEF MarketOrder
  <2> QED BY <1>0, <1>1, <2>1, TotalsNone
<1>2. CASE q > 0
  <2>1. PICK p : p = Order(LEV, "buy", "market", q, NoPrice, kind)
    OBVIOUS
  <2>2. MarketOrder(LEV, "buy", q, kind) = <<p>>
    BY <1>2, <2>1 DEF MarketOrder
  <2>3. p \in Orders
    BY <1>2, <2>1 DEF Orders, Order, NoPrice, OrderKinds
  <2>4. /\ p \notin FundSells /\ p \notin LevSells /\ p \in LevBuys
        /\ p.qty = q /\ p.side = "buy" /\ PriceIn(p, b) = b.lclose
    BY <2>1, <2>3, Instruments DEF FundSells, LevSells, LevBuys, Order, PriceIn
  <2>5. Totals(<<p>>, 0, 0, q, q * b.lclose, b)
    BY <2>3, <2>4, TotalsOne
  <2> QED BY <2>2, <2>5
<1> QED BY <1>1, <1>2

\* An order for the fund.
LEMMA FundBuyTotals ==
    ASSUME NEW b, Priced(b), NEW o \in Orders, o.inst = K200, o.side = "buy", NEW px \in Nat, PriceIn(o, b) = px
    PROVE  Totals(<<o>>, 0, 0, 0, o.qty * px, b)
<1>1. o \notin FundSells /\ o \notin LevSells /\ o \notin LevBuys
  BY Instruments DEF FundSells, LevSells, LevBuys
<1> QED BY <1>1, TotalsOne

\* The liquidation sells the pair, all of it or nothing.
LEMMA LiquidateTotals ==
    ASSUME Settled, NEW b, Priced(b), NEW x
    PROVE  /\ flags.lever /\ (x.forced \/ x.wLev = 0) => Totals(Liquidate(x), 0, Pair, 0, 0, b)
           /\ ~(flags.lever /\ (x.forced \/ x.wLev = 0)) => Totals(Liquidate(x), 0, 0, 0, 0, b)
<1>1. PICK k \in OrderKinds : k = "lev_liq"
  BY DEF OrderKinds
<1>2. Totals(MarketOrder(LEV, "sell", Pair, k), 0, Pair, 0, 0, b)
  BY Holdings, MarketTotals
<1>3. Held(lots, LEV) = Pair
  BY Holdings
<1> QED BY <1>1, <1>2, <1>3, TotalsNone DEF Liquidate

\* No more of the fund is reduced than is held.
LEMMA ReduceIs ==
    ASSUME Settled, NEW b, BarOK(b), NEW x, InContext(x, b)
    PROVE  ReduceQty(x) \in Nat /\ ReduceQty(x) <= Fund
<1>1. PICK f \in Nat, c \in Nat \ {0}, m \in Int : f = Fund /\ c = b.close /\ m = x.missing
  BY Holdings DEF InContext, BarOK
<1>2. m + 20 * f * c >= 0
  BY <1>1 DEF InContext
<1>3. PICK d \in Int : d = 20 * c
  OBVIOUS
<1>4. d > 0 /\ 20 * f * c = f * d
  <2>1. 20 * f * c = f * (20 * c)
    OBVIOUS
  <2> QED BY <1>3, <2>1
<1>5. PICK e \in Int : e = -m
  OBVIOUS
<1>6. e <= f * d
  <2>1. PICK p \in Int : p = f * d
    OBVIOUS
  <2> QED BY <1>2, <1>4, <1>5, <2>1
<1>7. e \div d <= f
  BY <1>4, <1>6, QuotientAtMost
<1>8. e > 0 => e \div d \in Nat
  BY <1>4, Quotient
<1>9. x.bar = b
  BY DEF InContext
<1>10. (ReduceQty(x) = e \div d /\ e > 0) \/ ReduceQty(x) = 0
  BY <1>1, <1>3, <1>5, <1>9 DEF ReduceQty
<1> QED BY <1>1, <1>7, <1>8, <1>10

-----------------------------------------------------------------------------
(* The ladder. *)

\* The weights of the three steps.
LEMMA WeightsOK == WeightSum \in Nat \ {0} /\ (\A k \in 1..3 : Weight(k) \in Nat)
                   /\ WeightSum = Weight(1) + Weight(2) + Weight(3)
<1>1. \A k \in 1..3 : Weights[k] \in Nat
  BY PlannerAssumption
<1>2. TotalWeight \in Nat
  BY <1>1 DEF TotalWeight
<1> QED BY <1>1, <1>2 DEF WeightSum, Weight, TotalWeight

\* With left units over, the best left of three steps get one each.
LEMMA Ranks ==
    ASSUME NEW p \in 1..3, NEW q \in 1..3, NEW r \in 1..3, p # q, p # r, q # r, NEW left \in 0..2,
           NEW A, NEW B, NEW C, A = {}, B = {p}, C = {p, q}
    PROVE  /\ (IF Cardinality(A) < left THEN 1 ELSE 0) \in 0..1
           /\ (IF Cardinality(B) < left THEN 1 ELSE 0) \in 0..1
           /\ (IF Cardinality(C) < left THEN 1 ELSE 0) \in 0..1
           /\ (IF Cardinality(A) < left THEN 1 ELSE 0) + (IF Cardinality(B) < left THEN 1 ELSE 0)
              + (IF Cardinality(C) < left THEN 1 ELSE 0) = left
<1>1. Cardinality(A) = 0
  BY FS_EmptySet
<1>2. Cardinality(B) = 1 /\ IsFiniteSet(B)
  BY FS_Singleton
<1>3. C = B \cup {q} /\ q \notin B
  OBVIOUS
<1>4. Cardinality(C) = 2
  BY <1>2, <1>3, FS_AddElement
<1>5. PICK x, y, z : x = Cardinality(A) /\ y = Cardinality(B) /\ z = Cardinality(C)
  OBVIOUS
<1>6. x = 0 /\ y = 1 /\ z = 2
  BY <1>1, <1>2, <1>4, <1>5
<1>7. left = 0 \/ left = 1 \/ left = 2
  OBVIOUS
<1>8. /\ (IF x < left THEN 1 ELSE 0) \in 0..1
      /\ (IF y < left THEN 1 ELSE 0) \in 0..1
      /\ (IF z < left THEN 1 ELSE 0) \in 0..1
      /\ (IF x < left THEN 1 ELSE 0) + (IF y < left THEN 1 ELSE 0)
         + (IF z < left THEN 1 ELSE 0) = left
  BY <1>6, <1>7
<1> QED BY <1>5, <1>8

\* The ladder loses no share and adds none.
LEMMA LadderSum ==
    ASSUME NEW n \in Nat
    PROVE  /\ \A k \in 1..3 : Ladder(n)[k] \in Nat
           /\ Ladder(n)[1] + Ladder(n)[2] + Ladder(n)[3] = n
<1>1. PICK W \in Nat \ {0}, w1 \in Nat, w2 \in Nat, w3 \in Nat :
          W = WeightSum /\ w1 = Weight(1) /\ w2 = Weight(2) /\ w3 = Weight(3) /\ W = w1 + w2 + w3
  BY WeightsOK
<1>2. PICK a1 \in Nat, a2 \in Nat, a3 \in Nat : a1 = n * w1 /\ a2 = n * w2 /\ a3 = n * w3
  OBVIOUS
<1>3. a1 + a2 + a3 = n * W
  BY <1>1, <1>2
<1>4. PICK base, rest : /\ base = [k \in 1..3 |-> (n * Weight(k)) \div WeightSum]
                        /\ rest = [k \in 1..3 |-> (n * Weight(k)) % WeightSum]
  OBVIOUS
<1>5. /\ base[1] = a1 \div W /\ base[2] = a2 \div W /\ base[3] = a3 \div W
      /\ rest[1] = a1 % W /\ rest[2] = a2 % W /\ rest[3] = a3 % W
  <2>1. n * Weight(1) = a1 /\ n * Weight(2) = a2 /\ n * Weight(3) = a3 /\ WeightSum = W
    BY <1>1, <1>2
  <2>2. \A k \in 1..3 : base[k] = (n * Weight(k)) \div W /\ rest[k] = (n * Weight(k)) % W
    BY <1>4, <2>1
  <2>3. 1 \in 1..3 /\ 2 \in 1..3 /\ 3 \in 1..3
    OBVIOUS
  <2> QED BY <2>1, <2>2, <2>3, Zenon
<1>6. /\ a1 = W * base[1] + rest[1] /\ base[1] \in Nat /\ rest[1] \in 0..(W - 1)
      /\ a2 = W * base[2] + rest[2] /\ base[2] \in Nat /\ rest[2] \in 0..(W - 1)
      /\ a3 = W * base[3] + rest[3] /\ base[3] \in Nat /\ rest[3] \in 0..(W - 1)
  <2>1. \A a \in Nat : a = W * (a \div W) + (a % W) /\ a \div W \in Nat /\ a % W \in 0..(W - 1)
    OBVIOUS
  <2> QED BY <1>5, <2>1
<1>7. PICK b1 \in Nat, b2 \in Nat, b3 \in Nat, r1 \in 0..(W - 1), r2 \in 0..(W - 1), r3 \in 0..(W - 1) :
          /\ b1 = base[1] /\ b2 = base[2] /\ b3 = base[3]
          /\ r1 = rest[1] /\ r2 = rest[2] /\ r3 = rest[3]
  BY <1>6
<1>8. PICK left \in Int : left = n - (b1 + b2 + b3)
  OBVIOUS
<1>9. left \in 0..2
  <2>1. PICK s \in Int : s = r1 + r2 + r3
    OBVIOUS
  <2>2. W * b1 + W * b2 + W * b3 = W * (b1 + b2 + b3)
    OBVIOUS
  <2>3. n * W = W * (b1 + b2 + b3) + s
    <3>1. PICK c1 \in Int, c2 \in Int, c3 \in Int : c1 = W * b1 /\ c2 = W * b2 /\ c3 = W * b3
      OBVIOUS
    <3>2. a1 = c1 + r1 /\ a2 = c2 + r2 /\ a3 = c3 + r3
      BY <1>6, <1>7, <3>1
    <3> QED BY <1>3, <2>1, <2>2, <3>1, <3>2
  <2>4. n = b1 + b2 + b3 + left
    BY <1>8
  <2>5. n * W = W * (b1 + b2 + b3) + W * left
    BY <2>4
  <2>6. W * left = s
    <3>1. PICK u \in Int, v \in Int : u = W * (b1 + b2 + b3) /\ v = W * left
      OBVIOUS
    <3> QED BY <2>1, <2>3, <2>5, <3>1
  <2>7. s >= 0 /\ s < 3 * W
    BY <2>1
  <2>8. left >= 0
    <3> SUFFICES ASSUME left <= -1 PROVE FALSE
      OBVIOUS
    <3>1. W * left <= -W
      OBVIOUS
    <3> QED BY <3>1, <2>1, <2>6, <2>7
  <2>9. left <= 2
    <3> SUFFICES ASSUME left >= 3 PROVE FALSE
      OBVIOUS
    <3>1. W * left >= 3 * W
      OBVIOUS
    <3> QED BY <3>1, <2>1, <2>6, <2>7
  <2> QED BY <2>8, <2>9
<1> DEFINE ahead(k) == {j \in 1..3 : rest[j] > rest[k] \/ (rest[j] = rest[k] /\ j < k)}
           more(k) == IF Cardinality(ahead(k)) < left THEN 1 ELSE 0
<1>10. \A k \in 1..3 : Ladder(n)[k] = base[k] + more(k)
  <2>1. \A k \in 1..3 : ahead(k) = {j \in 1..3 : (n * Weight(j)) % WeightSum > (n * Weight(k)) % WeightSum
                           \/ ((n * Weight(j)) % WeightSum = (n * Weight(k)) % WeightSum /\ j < k)}
    BY <1>4
  <2>2. left = n - (((n * Weight(1)) \div WeightSum) + ((n * Weight(2)) \div WeightSum)
                    + ((n * Weight(3)) \div WeightSum))
    BY <1>4, <1>7, <1>8
  <2>3. \A k \in 1..3 : base[k] = (n * Weight(k)) \div WeightSum
    BY <1>4
  <2> HIDE DEF ahead
  <2> QED BY <2>1, <2>2, <2>3 DEF Ladder
<1>11. PICK p \in 1..3, q \in 1..3, r \in 1..3 : /\ p # q /\ p # r /\ q # r
          /\ ahead(p) = {} /\ ahead(q) = {p} /\ ahead(r) = {p, q}
  <2>1. /\ ahead(1) = {j \in {2, 3} : rest[j] > rest[1]}
        /\ ahead(2) = {j \in {1, 3} : IF j = 1 THEN rest[1] >= rest[2] ELSE rest[3] > rest[2]}
        /\ ahead(3) = {j \in {1, 2} : rest[j] >= rest[3]}
    BY <1>7
  <2>2. CASE r1 >= r2 /\ r2 >= r3
    <3>1. ahead(1) = {} /\ ahead(2) = {1} /\ ahead(3) = {1, 2}
      BY <1>7, <2>1, <2>2
    <3> HIDE DEF ahead
    <3> QED BY <3>1
  <2>3. CASE r1 >= r3 /\ r3 > r2
    <3>1. ahead(1) = {} /\ ahead(3) = {1} /\ ahead(2) = {1, 3}
      BY <1>7, <2>1, <2>3
    <3> HIDE DEF ahead
    <3> QED BY <3>1
  <2>4. CASE r2 > r1 /\ r1 >= r3
    <3>1. ahead(2) = {} /\ ahead(1) = {2} /\ ahead(3) = {2, 1}
      BY <1>7, <2>1, <2>4
    <3> HIDE DEF ahead
    <3> QED BY <3>1
  <2>5. CASE r2 >= r3 /\ r3 > r1
    <3>1. ahead(2) = {} /\ ahead(3) = {2} /\ ahead(1) = {2, 3}
      BY <1>7, <2>1, <2>5
    <3> HIDE DEF ahead
    <3> QED BY <3>1
  <2>6. CASE r3 > r1 /\ r1 >= r2
    <3>1. ahead(3) = {} /\ ahead(1) = {3} /\ ahead(2) = {3, 1}
      BY <1>7, <2>1, <2>6
    <3> HIDE DEF ahead
    <3> QED BY <3>1
  <2>7. CASE r3 > r2 /\ r2 > r1
    <3>1. ahead(3) = {} /\ ahead(2) = {3} /\ ahead(1) = {3, 2}
      BY <1>7, <2>1, <2>7
    <3> HIDE DEF ahead
    <3> QED BY <3>1
  <2> QED BY <2>2, <2>3, <2>4, <2>5, <2>6, <2>7
<1>12. /\ more(p) \in 0..1 /\ more(q) \in 0..1 /\ more(r) \in 0..1
       /\ more(p) + more(q) + more(r) = left
  <2> HIDE DEF ahead
  <2> QED BY <1>9, <1>11, Ranks
<1>13. PICK m1, m2, m3 : m1 = more(1) /\ m2 = more(2) /\ m3 = more(3)
  OBVIOUS
<1> HIDE DEF more
<1>14. m1 \in 0..1 /\ m2 \in 0..1 /\ m3 \in 0..1 /\ m1 + m2 + m3 = left
  <2>1. {p, q, r} = {1, 2, 3}
    BY <1>11
  <2>2. CASE p = 1
    BY <1>11, <1>12, <1>13, <2>2
  <2>3. CASE p = 2
    BY <1>11, <1>12, <1>13, <2>3
  <2>4. CASE p = 3
    BY <1>11, <1>12, <1>13, <2>4
  <2> QED BY <2>2, <2>3, <2>4
<1>15. Ladder(n)[1] = b1 + m1 /\ Ladder(n)[2] = b2 + m2 /\ Ladder(n)[3] = b3 + m3
  BY <1>7, <1>10, <1>13
<1> QED BY <1>8, <1>14, <1>15

-----------------------------------------------------------------------------
(* The take-profit orders. *)

\* A take-profit order of one lot.
LEMMA TpTotals ==
    ASSUME NEW b, Priced(b), NEW lot \in SimLots, NEW n \in Nat, NEW px \in Nat
    PROVE  Totals(TpOrder(lot, n, px), n, 0, 0, 0, b)
<1>1. CASE n = 0
  <2>1. TpOrder(lot, n, px) = <<>>
    BY <1>1 DEF TpOrder
  <2> QED BY <1>1, <2>1, TotalsNone
<1>2. CASE n > 0
  <2>1. PICK o : o = [Order(K200, "sell", "limit", n, px, "tp") EXCEPT !.lot = lot.id]
    OBVIOUS
  <2>2. TpOrder(lot, n, px) = <<o>>
    BY <1>2, <2>1 DEF TpOrder
  <2>3. o \in Orders
    BY <1>2, <2>1 DEF Orders, Order, OrderKinds, SimLots
  <2>4. o \in FundSells /\ o \notin LevSells /\ o \notin LevBuys /\ o.qty = n /\ o.side # "buy"
    BY <2>1, <2>3, Instruments DEF FundSells, LevSells, LevBuys, Order
  <2>5. Totals(<<o>>, n, 0, 0, 0, b)
    BY <2>3, <2>4, TotalsOne
  <2> QED BY <2>2, <2>5
<1> QED BY <1>1, <1>2

\* All the shares of a lot that are to be offered are.
LEMMA OfferTotals ==
    ASSUME NEW b, BarOK(b), Priced(b), NEW x, x.bar = b, NEW lot \in SimLots, NEW n \in Nat
    PROVE  Totals(Offer(x, lot, n), n, 0, 0, 0, b)
<1>1. CASE lot.kind = "grid"
  <2>1. lot.tp \in Nat
    BY DEF SimLots
  <2>2. Offer(x, lot, n) = TpOrder(lot, n, lot.tp)
    BY <1>1 DEF Offer
  <2> QED BY <2>1, <2>2, TpTotals
<1>2. CASE lot.kind # "grid"
  <2>0. /\ Ladder(n)[1] \in Nat /\ Ladder(n)[2] \in Nat /\ Ladder(n)[3] \in Nat
        /\ Ladder(n)[1] + Ladder(n)[2] + Ladder(n)[3] = n
    BY LadderSum
  <2>1. PICK p1 \in Nat, p2 \in Nat, p3 \in Nat :
            p1 = Ladder(n)[1] /\ p2 = Ladder(n)[2] /\ p3 = Ladder(n)[3] /\ p1 + p2 + p3 = n
    BY <2>0
  <2>2. PICK c \in Nat, g \in Nat : c = b.close /\ g = b.grid
    BY DEF BarOK
  <2>3. \A k \in 1..3 : CeilDiv(c * (20 + k * g), 20) \in Nat
    <3> TAKE k \in 1..3
    <3>1. k * g \in Nat
      OBVIOUS
    <3>2. c * (20 + k * g) \in Nat
      BY <3>1
    <3>3. PICK a \in Nat : a = c * (20 + k * g)
      BY <3>2
    <3>4. (a + 20 - 1) \div 20 \in Nat
      OBVIOUS
    <3> QED BY <3>3, <3>4 DEF CeilDiv
  <2>4. PICK x1 \in Nat, x2 \in Nat, x3 \in Nat :
            /\ x1 = CeilDiv(c * (20 + 1 * g), 20) /\ x2 = CeilDiv(c * (20 + 2 * g), 20)
            /\ x3 = CeilDiv(c * (20 + 3 * g), 20)
    BY <2>3
  <2>5. PICK s1, s2, s3 : s1 = TpOrder(lot, p1, x1) /\ s2 = TpOrder(lot, p2, x2) /\ s3 = TpOrder(lot, p3, x3)
    OBVIOUS
  <2>6. Offer(x, lot, n) = s1 \o s2 \o s3
    BY <1>2, <2>1, <2>2, <2>4, <2>5 DEF Offer
  <2>7. Totals(s1, p1, 0, 0, 0, b) /\ Totals(s2, p2, 0, 0, 0, b) /\ Totals(s3, p3, 0, 0, 0, b)
    BY <2>5, TpTotals
  <2>8. Totals(s1 \o s2, p1 + p2, 0 + 0, 0 + 0, 0 + 0, b)
    BY <2>7, TotalsJoin
  <2>9. Totals((s1 \o s2) \o s3, p1 + p2 + p3, 0 + 0 + 0, 0 + 0 + 0, 0 + 0 + 0, b)
    BY <2>7, <2>8, TotalsJoin
  <2> QED BY <2>1, <2>6, <2>9
<1> QED BY <1>1, <1>2

\* The offers of one lot after the other.
OfferBase(reduce) == [reduce |-> reduce, orders |-> <<>>]
Offering(x, reduce, a) ==
    a[0] = OfferBase(reduce) /\ \A i \in 1..Len(lots) : a[i] = OfferLot(x, a[i - 1], lots[i])
Offers == [reduce : Nat, orders : Seq(Orders)]

\* Offering a lot keeps the account of the offers.
LEMMA OfferTyped ==
    ASSUME NEW b, BarOK(b), Priced(b), NEW x, x.bar = b, NEW lot \in SimLots, NEW acc \in Offers
    PROVE  OfferLot(x, acc, lot) \in Offers
<1>1. PICK r \in Nat, q \in Nat : r = acc.reduce /\ q = lot.qty
  BY DEF Offers, SimLots
<1>2. PICK t \in Nat : t = Least(r, q) /\ r - t \in Nat /\ q - t \in Nat
  BY DEF Least
<1>3. Offer(x, lot, q - t) \in Seq(Orders)
  BY <1>2, OfferTotals DEF Totals
<1>4. acc.orders \o Offer(x, lot, q - t) \in Seq(Orders)
  BY <1>3 DEF Offers
<1> QED BY <1>1, <1>2, <1>4 DEF OfferLot, Offers

\* The offers, lot by lot, as a function.
LEMMA OfferExists ==
    ASSUME Settled, NEW b, BarOK(b), Priced(b), NEW x, x.bar = b, NEW reduce \in Nat
    PROVE  \E a : Offering(x, reduce, a) /\
             TpOrders(x, reduce) = IF x.regime = "NEUTRAL" \/ (x.regime = "BULL" /\ ~flags.noTp)
                                   THEN a[Len(lots)].orders ELSE <<>>
<1> DEFINE base == OfferBase(reduce)
           P(g) == g = [t \in SUBSET (1..Len(lots)) |-> IF t = {} THEN base
                          ELSE OfferLot(x, g[t \ {Max(t)}], lots[Max(t)])]
<1>1. PICK n \in Nat : n = Len(lots) /\ \A i \in 1..n : lots[i] \in SimLots
  BY DEF Settled
<1>2. TpOrders(x, reduce) = IF x.regime = "NEUTRAL" \/ (x.regime = "BULL" /\ ~flags.noTp)
                            THEN (CHOOSE f : P(f))[1..n].orders ELSE <<>>
  <2>1. DOMAIN lots = 1..n
    BY <1>1 DEF Settled
  <2> QED BY <1>1, <2>1 DEF TpOrders, FoldLeft, MapThenFoldSet, OfferBase
<1>3. PICK step : step = [p \in Offers \X (1..n) |-> OfferLot(x, p[1], lots[p[2]])]
  OBVIOUS
<1>4. \A a \in Offers : \A i \in 1..n : step[<<a, i>>] = OfferLot(x, a, lots[i]) /\ step[<<a, i>>] \in Offers
  <2> TAKE a \in Offers
  <2> TAKE i \in 1..n
  <2>1. step[<<a, i>>] = OfferLot(x, a, lots[i])
    BY <1>3
  <2> QED BY <1>1, <2>1, OfferTyped
<1>5. PICK z : z = base
  OBVIOUS
<1>6. z \in Offers
  <2>1. PICK e : e = <<>>
    OBVIOUS
  <2>2. e \in Seq(Orders)
    BY <2>1
  <2> QED BY <1>5, <2>1, <2>2 DEF Offers, OfferBase
<1>7. PICK h : Folded(h, z, step, n)
  BY FoldExists
<1>8. \A t \in SUBSET (1..n) : h[t] \in Offers
  BY <1>4, <1>6, <1>7, FoldTyped
<1>9. P(h)
  <2>1. h = [t \in SUBSET (1..n) |-> IF t = {} THEN z ELSE step[<<h[t \ {Max(t)}], Max(t)>>]]
    BY <1>7 DEF Folded
  <2>2. \A t \in SUBSET (1..n) : t # {} =>
          step[<<h[t \ {Max(t)}], Max(t)>>] = OfferLot(x, h[t \ {Max(t)}], lots[Max(t)])
    <3> SUFFICES ASSUME NEW t \in SUBSET (1..n), t # {}
        PROVE step[<<h[t \ {Max(t)}], Max(t)>>] = OfferLot(x, h[t \ {Max(t)}], lots[Max(t)])
      OBVIOUS
    <3>1. Max(t) \in 1..n
      BY MaxMember
    <3>2. h[t \ {Max(t)}] \in Offers
      BY <1>8
    <3> QED BY <1>4, <3>1, <3>2
  <2> HIDE DEF base
  <2>3. h = [t \in SUBSET (1..n) |-> IF t = {} THEN base ELSE OfferLot(x, h[t \ {Max(t)}], lots[Max(t)])]
    BY <1>5, <2>1, <2>2
  <2> QED BY <1>1, <2>3
<1>10. PICK g : g = (CHOOSE f : P(f)) /\ P(g)
  <2> HIDE DEF P
  <2> QED BY <1>9
<1>11. \A t \in SUBSET (1..n) : g[t] = IF t = {} THEN base ELSE OfferLot(x, g[t \ {Max(t)}], lots[Max(t)])
  BY <1>1, <1>10
<1>12. PICK a : a = [i \in 0..n |-> g[1..i]]
  OBVIOUS
<1>13. a[0] = base
  <2>1. 1..0 = {} /\ 0 \in 0..n
    OBVIOUS
  <2>2. a[0] = g[{}]
    BY <1>12, <2>1
  <2>3. {} \in SUBSET (1..n)
    OBVIOUS
  <2> HIDE DEF base, P
  <2> QED BY <1>11, <2>2, <2>3
<1>14. \A i \in 1..n : a[i] = OfferLot(x, a[i - 1], lots[i])
  <2> TAKE i \in 1..n
  <2>1. Max(1..i) = i /\ (1..i) \ {i} = 1..(i - 1) /\ 1..i # {}
    <3>1. i \in Nat \ {0}
      OBVIOUS
    <3> QED BY <3>1, MaxUpto
  <2>2. 1..i \in SUBSET (1..n)
    OBVIOUS
  <2>3. a[i] = g[1..i] /\ a[i - 1] = g[1..(i - 1)]
    BY <1>12
  <2> HIDE DEF base, P
  <2> QED BY <1>11, <2>1, <2>2, <2>3
<1>15. Offering(x, reduce, a)
  BY <1>1, <1>13, <1>14 DEF Offering
<1>16. a[Len(lots)] = (CHOOSE f : P(f))[1..n]
  <2> HIDE DEF P
  <2> QED BY <1>1, <1>10, <1>12
<1> QED BY <1>2, <1>15, <1>16

\* What is offered after the first i lots: what they hold but for the shares sold first.
OffersUpto(reduce, h, acc, b) ==
    acc.reduce = Most(0, reduce - h) /\ Totals(acc.orders, h - Least(reduce, h), 0, 0, 0, b)

\* Offering one more lot: what is offered and what is still to be reduced add up to what is held.
LEMMA OfferOne ==
    ASSUME NEW b, BarOK(b), Priced(b), NEW x, x.bar = b, NEW reduce \in Nat, NEW h \in Nat, NEW acc,
           OffersUpto(reduce, h, acc, b), NEW lot \in SimLots
    PROVE  OffersUpto(reduce, h + (IF lot \in FundLots THEN lot.qty ELSE 0), OfferLot(x, acc, lot), b)
<1>1. CASE lot.inst # K200
  <2>1. lot \notin FundLots /\ OfferLot(x, acc, lot) = acc
    BY <1>1 DEF FundLots, OfferLot
  <2>2. h + 0 = h
    OBVIOUS
  <2> QED BY <2>1, <2>2
<1>2. CASE lot.inst = K200
  <2>1. lot \in FundLots
    BY <1>2 DEF FundLots
  <2>2. PICK q \in Nat, r \in Nat, t \in Nat : q = lot.qty /\ r = Most(0, reduce - h) /\ t = Least(r, q)
    BY DEF SimLots, Most, Least
  <2>3. q - t \in Nat /\ r - t = Most(0, reduce - (h + q))
    BY <2>2 DEF Most, Least
  <2>4. h - Least(reduce, h) + (q - t) = (h + q) - Least(reduce, h + q)
    BY <2>2 DEF Most, Least
  <2>5. PICK s, u : s = acc.orders /\ u = Offer(x, lot, q - t)
    OBVIOUS
  <2>6. Totals(s, h - Least(reduce, h), 0, 0, 0, b)
    BY <2>5 DEF OffersUpto
  <2>7. Totals(u, q - t, 0, 0, 0, b)
    BY <2>3, <2>5, OfferTotals
  <2>8. Totals(s \o u, (h - Least(reduce, h)) + (q - t), 0 + 0, 0 + 0, 0 + 0, b)
    BY <2>6, <2>7, TotalsJoin
  <2>9. Totals(s \o u, (h + q) - Least(reduce, h + q), 0, 0, 0, b)
    BY <2>4, <2>8
  <2>10. acc.reduce = r
    BY <2>2 DEF OffersUpto
  <2>11. OfferLot(x, acc, lot) = [reduce |-> r - t, orders |-> s \o u]
    BY <1>2, <2>2, <2>5, <2>10 DEF OfferLot
  <2> QED BY <2>1, <2>2, <2>3, <2>9, <2>11 DEF OffersUpto
<1> QED BY <1>1, <1>2

\* Every share of the fund is offered but for those the reduction sells.
LEMMA TpOrdersTotals ==
    ASSUME Settled, NEW b, BarOK(b), Priced(b), NEW x, x.bar = b, NEW reduce \in Nat, reduce <= Fund
    PROVE  /\ x.regime = "NEUTRAL" \/ (x.regime = "BULL" /\ ~flags.noTp) =>
                  Totals(TpOrders(x, reduce), Fund - reduce, 0, 0, 0, b)
           /\ ~(x.regime = "NEUTRAL" \/ (x.regime = "BULL" /\ ~flags.noTp)) =>
                  Totals(TpOrders(x, reduce), 0, 0, 0, 0, b)
<1>1. PICK a : Offering(x, reduce, a) /\
             TpOrders(x, reduce) = IF x.regime = "NEUTRAL" \/ (x.regime = "BULL" /\ ~flags.noTp)
                                   THEN a[Len(lots)].orders ELSE <<>>
  BY OfferExists
<1>a. PICK n \in Nat : n = Len(lots)
  BY DEF Settled
<1>b. PICK Q : Q = QtyAt(lots, FundLots)
  OBVIOUS
<1>2. n = Len(lots) /\ Q = QtyAt(lots, FundLots)
  BY <1>a, <1>b
<1>3. /\ \A i \in 1..n : lots[i] \in SimLots /\ Q[i] = IF lots[i] \in FundLots THEN lots[i].qty ELSE 0
      /\ \A i \in 1..n : Q[i] \in Nat
      /\ Integral(Q, 1..n)
  <2>1. \A i \in 1..n : lots[i] \in SimLots /\ Q[i] = IF lots[i] \in FundLots THEN lots[i].qty ELSE 0
    BY <1>2 DEF Settled, QtyAt
  <2>2. (\A i \in 1..n : Q[i] \in Nat) /\ Integral(Q, 1..n)
    BY <1>2, SimLotsCount, QtyTerms DEF Settled
  <2> QED BY <2>1, <2>2
<1>4. PICK H : H = [i \in 0..n |-> SumOver(Q, 1..i)]
  OBVIOUS
<1>5. \A i \in 0..n : H[i] \in Nat
  <2> TAKE i \in 0..n
  <2>1. PICK T : T = 1..i
    OBVIOUS
  <2>2. IsFiniteSet(T) /\ \A j \in T : Q[j] \in Nat
    BY <1>3, <2>1, FS_Interval
  <2>3. SumOver(Q, T) \in Nat
    BY <2>2, SumNatural
  <2> QED BY <1>4, <2>1, <2>3
<1>6. H[0] = 0 /\ \A i \in 1..n : H[i] = H[i - 1] + Q[i]
  <2>1. SumOver(Q, 1..0) = 0 /\ \A i \in 1..n : SumOver(Q, 1..i) = SumOver(Q, 1..(i - 1)) + Q[i]
    BY <1>3, SumUpto
  <2>2. H[0] = SumOver(Q, 1..0)
    BY <1>4
  <2>3. \A i \in 1..n : H[i] = SumOver(Q, 1..i) /\ H[i - 1] = SumOver(Q, 1..(i - 1))
    BY <1>4
  <2> QED BY <2>1, <2>2, <2>3
<1>7. H[n] = Fund
  <2>1. H[n] = SumOver(Q, 1..n)
    BY <1>4
  <2> QED BY <1>2, <2>1, QtyIs DEF Fund
<1> DEFINE G == {i \in 0..n : OffersUpto(reduce, H[i], a[i], b)}
<1>8. 0 \in G
  <2>1. a[0] = [reduce |-> reduce, orders |-> <<>>]
    BY <1>1 DEF Offering, OfferBase
  <2>2. Most(0, reduce - 0) = reduce /\ 0 - Least(reduce, 0) = 0
    <3>1. reduce - 0 = reduce /\ (~(0 > reduce) \/ reduce = 0)
      OBVIOUS
    <3>2. ~(reduce < 0) /\ 0 - 0 = 0
      OBVIOUS
    <3> QED BY <3>1, <3>2 DEF Most, Least
  <2>3. Totals(<<>>, 0, 0, 0, 0, b)
    BY TotalsNone
  <2>4. OffersUpto(reduce, 0, a[0], b)
    BY <2>1, <2>2, <2>3 DEF OffersUpto
  <2> QED BY <1>6, <2>4
<1>9. ASSUME NEW i \in 1..n, i - 1 \in G PROVE i \in G
  <2>a. PICK acc : acc = a[i - 1]
    OBVIOUS
  <2>b. PICK h \in Nat, lot \in SimLots : h = H[i - 1] /\ lot = lots[i]
    <3>1. i - 1 \in 0..n
      OBVIOUS
    <3>2. H[i - 1] \in Nat /\ lots[i] \in SimLots
      BY <1>3, <1>5, <3>1
    <3> QED BY <3>2
  <2>1. h = H[i - 1] /\ acc = a[i - 1] /\ lot = lots[i]
    BY <2>a, <2>b
  <2>2. OffersUpto(reduce, h, acc, b)
    BY <1>9, <2>1
  <2>3. OffersUpto(reduce, h + (IF lot \in FundLots THEN lot.qty ELSE 0), OfferLot(x, acc, lot), b)
    BY <2>2, OfferOne
  <2>4. a[i] = OfferLot(x, acc, lot)
    BY <1>1, <1>2, <2>1 DEF Offering
  <2>5. H[i] = h + (IF lot \in FundLots THEN lot.qty ELSE 0)
    BY <1>3, <1>6, <2>1
  <2> QED BY <2>3, <2>4, <2>5
<1>10. n \in G
  <2>1. n \in 0..n
    OBVIOUS
  <2> HIDE DEF G
  <2> QED BY <1>8, <1>9, <2>1, PlacesAll
<1>11. Totals(a[n].orders, Fund - Least(reduce, Fund), 0, 0, 0, b)
  BY <1>7, <1>10 DEF OffersUpto
<1>12. Least(reduce, Fund) = reduce
  <2>1. Fund \in Nat
    BY Holdings
  <2> QED BY <2>1 DEF Least
<1>13. Totals(a[n].orders, Fund - reduce, 0, 0, 0, b)
  BY <1>11, <1>12
<1>14. Totals(<<>>, 0, 0, 0, 0, b)
  BY TotalsNone
<1> QED BY <1>1, <1>2, <1>13, <1>14

-----------------------------------------------------------------------------
(* The purchases of the fund. *)

\* Purchases s of the fund out of `from` leave `left`: they stay within it.
Bought(s, from, left, b) ==
    /\ from \in Int /\ left \in Int
    /\ \E sp \in Nat : Totals(s, 0, 0, 0, sp, b) /\ left = from - 20 * sp /\ 20 * sp <= Most(0, from)

\* Nothing bought.
LEMMA BoughtNone == ASSUME NEW b, Priced(b), NEW left \in Int PROVE Bought(<<>>, left, left, b)
<1>1. Totals(<<>>, 0, 0, 0, 0, b)
  BY TotalsNone
<1>2. left = left - 20 * 0 /\ 20 * 0 <= Most(0, left)
  BY DEF Most
<1> QED BY <1>1, <1>2 DEF Bought

\* The purchase of the start stays within the wallet.
LEMMA BootTotals ==
    ASSUME Settled, NEW b, BarOK(b), Priced(b), NEW x, InContext(x, b), NEW left \in Int
    PROVE  /\ Boot(x, left).f \in 0..40
           /\ Bought(Boot(x, left).orders, left, Boot(x, left).left, b)
<1>1. PICK o : o = Boot(x, left)
  OBVIOUS
<1>2. PICK f \in 0..40, c \in Nat \ {0}, m \in Int :
          f = Least(40, IF x.regime = "BEAR" THEN BootFrac ELSE 2 * BootFrac) /\ c = b.close /\ m = x.missing
  <2>1. BootFrac \in 0..20
    BY PlannerAssumption
  <2>2. Least(40, IF x.regime = "BEAR" THEN BootFrac ELSE 2 * BootFrac) \in 0..40
    BY <2>1 DEF Least
  <2>3. b.close \in Nat \ {0} /\ x.missing \in Int
    BY DEF BarOK, InContext
  <2> QED BY <2>2, <2>3
<1>3. PICK q \in Int : q = (f * m) \div (800 * c)
  <2>1. f * m \in Int /\ 800 * c \in Int /\ 800 * c > 0
    OBVIOUS
  <2> QED BY <2>1, Quotient
<1>4. x.bar = b
  BY DEF InContext
<1>5. CASE seed = <<>> /\ (IF firstPlan = 0 THEN 0 ELSE Len(hist) - firstPlan) < BootDays /\ m > 0
           /\ q > 0 /\ 20 * q * c <= left
  <2>1. PICK type \in {"market", "limit"}, px \in Nat :
            /\ type = (IF flags.marketBoot THEN "market" ELSE "limit")
            /\ px = IF flags.marketBoot THEN NoPrice ELSE c
    BY DEF NoPrice
  <2>2. PICK r : r = Order(K200, "buy", type, q, px, "boot")
    OBVIOUS
  <2>3. r \in Orders
    BY <1>5, <2>2, Instruments DEF Orders, Order, OrderKinds
  <2>4. r.inst = K200 /\ r.side = "buy" /\ r.qty = q /\ PriceIn(r, b) = c
    BY <1>2, <2>1, <2>2, Instruments DEF Order, PriceIn, NoPrice
  <2>5. Totals(<<r>>, 0, 0, 0, q * c, b)
    BY <2>3, <2>4, FundBuyTotals
  <2>6. o = [f |-> f, left |-> left - 20 * q * c, orders |-> <<r>>]
    BY <1>1, <1>2, <1>3, <1>4, <1>5, <2>1, <2>2 DEF Boot
  <2>7. PICK sp \in Nat : sp = q * c
    BY <1>5
  <2>8. 20 * q * c = 20 * sp
    BY <2>7
  <2>9. 20 * sp <= Most(0, left) /\ left - 20 * sp \in Int
    BY <1>5, <2>8 DEF Most
  <2>10. Bought(<<r>>, left, left - 20 * sp, b)
    BY <2>5, <2>7, <2>9 DEF Bought
  <2> QED BY <1>1, <2>6, <2>8, <2>10
<1>6. CASE ~(seed = <<>> /\ (IF firstPlan = 0 THEN 0 ELSE Len(hist) - firstPlan) < BootDays /\ m > 0
             /\ q > 0 /\ 20 * q * c <= left)
  <2>1. o = [f |-> 0, left |-> left, orders |-> <<>>]
    BY <1>1, <1>2, <1>3, <1>4, <1>6 DEF Boot
  <2> QED BY <1>1, <2>1, BoughtNone
<1> QED BY <1>5, <1>6

\* Every step of the ladder has a price.
LEMMA StepPriced ==
    ASSUME NEW b, BarOK(b), NEW x, x.bar = b, NEW k \in 1..3
    PROVE  StepPrice(x, k) \in Nat \ {0}
<1>1. PICK c \in Nat \ {0}, g \in Nat : c = b.close /\ g = b.grid
  BY DEF BarOK
<1>2. c * (20 - 3 * g) >= 20
  BY <1>1 DEF BarOK
<1>3. PICK d \in Int, e \in Int : d = 20 - 3 * g /\ e = 20 - k * g
  <2>1. k * g \in Int
    OBVIOUS
  <2> QED BY <2>1
<1>4. e >= d
  <2>1. k * g <= 3 * g
    OBVIOUS
  <2> QED BY <1>3, <2>1
<1>5. c * e >= c * d
  BY <1>4
<1>6. PICK p \in Int : p = c * e
  OBVIOUS
<1>7. p >= 20
  <2>1. PICK q \in Int : q = c * d
    OBVIOUS
  <2> QED BY <1>2, <1>3, <1>5, <1>6, <2>1
<1>8. p \div 20 \in Nat /\ p \div 20 >= 1
  BY <1>7
<1>9. StepPrice(x, k) = p \div 20
  BY <1>1, <1>3, <1>6 DEF StepPrice
<1> QED BY <1>8, <1>9

\* What a step of the ladder asks for.
LEMMA WantedIs ==
    ASSUME Settled, NEW b, BarOK(b), NEW x, InContext(x, b), NEW k \in 1..3, NEW boot, boot.f \in 0..40
    PROVE  Wanted(x, boot, k) \in Int
<1>1. x.bar = b /\ x.missing \in Int /\ x.missing + 20 * Fund * b.close \in Nat
  BY DEF InContext
<1>2. PICK p \in Nat \ {0} : p = StepPrice(x, k)
  BY <1>1, StepPriced
<1>3. PICK W \in Nat \ {0}, w \in Nat : W = WeightSum /\ w = Weight(k)
  BY WeightsOK
<1>4. PICK m \in Int : m = (IF flags.gap THEN Most(0, x.missing) ELSE x.missing + 20 * Held(lots, K200) * x.bar.close)
  BY <1>1, Holdings DEF Most
<1>5. PICK f \in Int : f = 40 - boot.f
  OBVIOUS
<1>6. PICK u \in Int : u = f * m * w
  OBVIOUS
<1>7. PICK d \in Int : d = 800 * W * p /\ d > 0
  <2>1. W * p > 0
    OBVIOUS
  <2>2. 800 * W * p = 800 * (W * p)
    OBVIOUS
  <2> QED BY <2>1, <2>2
<1>8. u \div d \in Int
  BY <1>7, Quotient
<1>9. Wanted(x, boot, k) = u \div d
  BY <1>2, <1>3, <1>4, <1>5, <1>6, <1>7 DEF Wanted, Budget
<1> QED BY <1>8, <1>9

\* The grid so far: purchases within what was left.
GridAccs(from, b) == {acc \in [left : Int, orders : Seq(Orders)] : Bought(acc.orders, from, acc.left, b)}

\* A step of the ladder buys no more than what is left.
LEMMA GridStepKeeps ==
    ASSUME Settled, NEW b, BarOK(b), Priced(b), NEW x, InContext(x, b), NEW k \in 1..3,
           NEW boot, boot.f \in 0..40, NEW from \in Int, NEW acc \in GridAccs(from, b)
    PROVE  GridStep(x, boot, acc, k) \in GridAccs(from, b)
<1>1. PICK l \in Int, s \in Seq(Orders) : l = acc.left /\ s = acc.orders
  BY DEF GridAccs
<1>2. PICK sp \in Nat : Totals(s, 0, 0, 0, sp, b) /\ l = from - 20 * sp /\ 20 * sp <= Most(0, from)
  BY <1>1 DEF GridAccs, Bought
<1>3. x.bar = b
  BY DEF InContext
<1>4. PICK p \in Nat \ {0} : p = StepPrice(x, k)
  BY <1>3, StepPriced
<1>5. PICK w \in Int : w = Wanted(x, boot, k)
  BY WantedIs
<1>6. PICK d \in Int, m \in Nat : d = 20 * p /\ m = Most(0, l)
  BY DEF Most
<1>7. d > 0
  BY <1>6
<1>8. PICK t \in Int : t = m \div d
  BY <1>7, Quotient
<1>9. t * d <= m
  BY <1>7, <1>8, Quotient
<1>10. PICK q \in Int : q = Least(w, t)
  BY DEF Least
<1>11. GridStep(x, boot, acc, k) = GridOrder(x, acc, k, q)
  BY <1>1, <1>4, <1>5, <1>6, <1>8, <1>10 DEF GridStep
<1>12. CASE q <= 0
  BY <1>11, <1>12 DEF GridOrder
<1>13. CASE q > 0
  <2>1. PICK o : o = Order(K200, "buy", "limit", q, p, "grid")
    OBVIOUS
  <2>2. o \in Orders
    BY <1>13, <2>1, Instruments DEF Orders, Order, OrderKinds
  <2>3. o.inst = K200 /\ o.side = "buy" /\ o.qty = q /\ PriceIn(o, b) = p
    BY <1>4, <2>1, Instruments DEF Order, PriceIn, NoPrice
  <2>4. Totals(<<o>>, 0, 0, 0, q * p, b)
    BY <2>2, <2>3, FundBuyTotals
  <2>5. PICK c \in Nat : c = q * p
    BY <1>13
  <2>6. Totals(s \o <<o>>, 0 + 0, 0 + 0, 0 + 0, sp + c, b)
    BY <1>2, <2>4, <2>5, TotalsJoin
  <2>7. Append(s, o) = s \o <<o>>
    OBVIOUS
  <2>8. Totals(Append(s, o), 0, 0, 0, sp + c, b)
    BY <2>6, <2>7
  <2>9. 20 * c <= m
    <3>1. q <= t
      BY <1>10 DEF Least
    <3>2. q * d <= t * d
      BY <1>7, <3>1
    <3>3. q * d = 20 * c
      BY <1>6, <2>5
    <3>4. PICK u \in Int, v \in Int : u = q * d /\ v = t * d
      OBVIOUS
    <3> QED BY <1>9, <3>2, <3>3, <3>4
  <2>10. c > 0
    BY <1>13, <2>5
  <2>11. /\ sp + c \in Nat /\ l - 20 * c = from - 20 * (sp + c) /\ 20 * (sp + c) <= Most(0, from)
         /\ l - 20 * c \in Int
    BY <1>2, <1>6, <2>9, <2>10 DEF Most
  <2>12. Bought(Append(s, o), from, l - 20 * c, b)
    BY <2>8, <2>11 DEF Bought
  <2>13. 20 * q * p = 20 * c
    BY <2>5
  <2>14. GridStep(x, boot, acc, k) = [left |-> l - 20 * c, orders |-> Append(s, o)]
    <3>1. GridOrder(x, acc, k, q) = [left |-> acc.left - 20 * q * StepPrice(x, k),
              orders |-> Append(acc.orders, Order(K200, "buy", "limit", q, StepPrice(x, k), "grid"))]
      BY <1>13 DEF GridOrder
    <3> QED BY <1>1, <1>4, <1>11, <2>1, <2>13, <3>1
  <2>15. Append(s, o) \in Seq(Orders)
    BY <2>2
  <2>16. PICK left \in Int, orders \in Seq(Orders) : left = l - 20 * c /\ orders = Append(s, o)
    BY <2>11, <2>15
  <2>17. [left |-> left, orders |-> orders] \in GridAccs(from, b)
    BY <2>12, <2>16 DEF GridAccs
  <2> QED BY <2>14, <2>16, <2>17
<1> QED BY <1>12, <1>13

\* The ladder stays within what the purchase of the start left.
LEMMA GridTotals ==
    ASSUME Settled, NEW b, BarOK(b), Priced(b), NEW x, InContext(x, b),
           NEW boot, boot.f \in 0..40, boot.left \in Int
    PROVE  Bought(Grid(x, boot).orders, boot.left, Grid(x, boot).left, b)
<1>1. PICK from \in Int : from = boot.left
  OBVIOUS
<1>2. PICK none : none = [left |-> from, orders |-> <<>>]
  OBVIOUS
<1>3. PICK A : A = GridAccs(from, b)
  OBVIOUS
<1>4. none \in A
  <2>1. PICK e : e = <<>>
    OBVIOUS
  <2>2. e \in Seq(Orders)
    BY <2>1
  <2> QED BY <1>2, <1>3, <2>1, <2>2, BoughtNone DEF GridAccs
<1> DEFINE P(g) == g = [t \in SUBSET (1..3) |-> IF t = {} THEN none
                          ELSE GridStep(x, boot, g[t \ {Max(t)}], Steps[Max(t)])]
<1>5. Grid(x, boot) = IF x.regime = "BEAR" THEN none ELSE (CHOOSE f : P(f))[1..3]
  <2>1. DOMAIN Steps = 1..3
    BY DEF Steps
  <2> QED BY <1>1, <1>2, <2>1 DEF Grid, FoldLeft, MapThenFoldSet
<1>6. \A k \in 1..3 : Steps[k] = k
  BY DEF Steps
<1>7. PICK step : step = [p \in A \X (1..3) |-> GridStep(x, boot, p[1], p[2])]
  OBVIOUS
<1>8. \A a \in A : \A i \in 1..3 : step[<<a, i>>] = GridStep(x, boot, a, i) /\ step[<<a, i>>] \in A
  <2> TAKE a \in A
  <2> TAKE i \in 1..3
  <2>1. step[<<a, i>>] = GridStep(x, boot, a, i)
    BY <1>7
  <2> QED BY <1>1, <1>3, <2>1, GridStepKeeps
<1>9. PICK h : Folded(h, none, step, 3)
  BY FoldExists
<1>10. \A t \in SUBSET (1..3) : h[t] \in A
  BY <1>4, <1>8, <1>9, FoldTyped
<1>11. \A t \in SUBSET (1..3) : t # {} =>
          Max(t) \in 1..3 /\ step[<<h[t \ {Max(t)}], Max(t)>>] = GridStep(x, boot, h[t \ {Max(t)}], Steps[Max(t)])
  <2> SUFFICES ASSUME NEW t \in SUBSET (1..3), t # {}
      PROVE Max(t) \in 1..3 /\ step[<<h[t \ {Max(t)}], Max(t)>>] = GridStep(x, boot, h[t \ {Max(t)}], Steps[Max(t)])
    OBVIOUS
  <2>1. Max(t) \in 1..3
    BY MaxMember
  <2>2. h[t \ {Max(t)}] \in A
    BY <1>10
  <2> QED BY <1>6, <1>8, <2>1, <2>2
<1>12. P(h)
  <2>1. h = [t \in SUBSET (1..3) |-> IF t = {} THEN none ELSE step[<<h[t \ {Max(t)}], Max(t)>>]]
    BY <1>9 DEF Folded
  <2> QED BY <1>11, <2>1
<1>13. PICK g : g = (CHOOSE f : P(f)) /\ P(g)
  <2> HIDE DEF P
  <2> QED BY <1>12
<1>14. \A t \in SUBSET (1..3) : g[t] = IF t = {} THEN none ELSE GridStep(x, boot, g[t \ {Max(t)}], Steps[Max(t)])
  BY <1>13
<1>15. g[1..3] \in A
  <2>1. \A i \in 1..3 : Max(1..i) = i /\ (1..i) \ {i} = 1..(i - 1) /\ 1..i # {} /\ 1..i \in SUBSET (1..3)
    <3> TAKE i \in 1..3
    <3>1. i \in Nat \ {0} /\ 1..i \in SUBSET (1..3)
      OBVIOUS
    <3> QED BY <3>1, MaxUpto
  <2>2. g[1..0] = none
    <3>1. 1..0 = {}
      OBVIOUS
    <3> HIDE DEF P
    <3> QED BY <1>14, <3>1
  <2>3. \A i \in 1..3 : g[1..i] = GridStep(x, boot, g[1..(i - 1)], i)
    <3> HIDE DEF P
    <3> TAKE i \in 1..3
    <3>1. Max(1..i) = i /\ (1..i) \ {i} = 1..(i - 1) /\ 1..i # {} /\ 1..i \in SUBSET (1..3)
      BY <2>1
    <3>2. g[1..i] = GridStep(x, boot, g[(1..i) \ {Max(1..i)}], Steps[Max(1..i)])
      BY <1>14, <3>1
    <3> QED BY <1>6, <3>1, <3>2
  <2>4. \A i \in 1..3 : g[1..(i - 1)] \in A => g[1..i] \in A
    <3> HIDE DEF P
    <3> SUFFICES ASSUME NEW i \in 1..3, g[1..(i - 1)] \in A PROVE g[1..i] \in A
      OBVIOUS
    <3>1. PICK acc : acc = g[1..(i - 1)]
      OBVIOUS
    <3>2. acc \in GridAccs(from, b)
      BY <1>3, <3>1
    <3>3. GridStep(x, boot, acc, i) \in GridAccs(from, b)
      BY <1>1, <3>2, GridStepKeeps
    <3> QED BY <1>3, <2>3, <3>1, <3>3
  <2>5. 1 - 1 = 0 /\ 2 - 1 = 1 /\ 3 - 1 = 2
    OBVIOUS
  <2> HIDE DEF P
  <2>6. g[1..1] \in A
    BY <1>4, <2>2, <2>4, <2>5
  <2>7. g[1..2] \in A
    BY <2>4, <2>5, <2>6
  <2> QED BY <2>4, <2>5, <2>7
<1>16. Grid(x, boot) \in A
  <2> HIDE DEF P
  <2> QED BY <1>4, <1>5, <1>13, <1>15
<1> QED BY <1>1, <1>3, <1>16 DEF GridAccs

-----------------------------------------------------------------------------
(* The leverage. *)

\* The shares of leverage at price p an amount and the money l left allow.
Allowed(amount, l, M, p) == Least(amount, 20 * M * Most(0, l)) \div (400 * M * p)

\* What is bought of leverage stays within the amount and within the money left.
LEMMA BuyWithin ==
    ASSUME NEW amount \in Nat, NEW l \in Int, NEW M \in Nat \ {0}, NEW p \in Nat \ {0},
           NEW q, q = Allowed(amount, l, M, p)
    PROVE  q \in Nat /\ q * (400 * M * p) <= amount /\ 20 * (q * p) <= Most(0, l)
<1>1. PICK m \in Nat : m = Most(0, l)
  BY DEF Most
<1>2. PICK N \in Nat \ {0} : N = 20 * M
  OBVIOUS
<1>3. PICK d \in Nat \ {0} : d = 400 * M * p
  <2>1. M * p > 0
    OBVIOUS
  <2>2. 400 * M * p = 400 * (M * p)
    OBVIOUS
  <2> QED BY <2>1, <2>2
<1>4. N * m \in Nat
  OBVIOUS
<1>5. PICK a \in Nat : a = Least(amount, N * m)
  BY <1>4 DEF Least
<1>6. a <= amount /\ a <= N * m
  BY <1>4, <1>5 DEF Least
<1>7. q = a \div d
  BY <1>1, <1>2, <1>3, <1>5 DEF Allowed
<1>8. q \in Nat /\ q * d <= a
  BY <1>7, Quotient
<1>9. PICK c \in Nat : c = q * p
  BY <1>8
<1>10. q * d = N * (20 * c)
  <2>1. \A x, y, z \in Nat : x * (400 * y * z) = (20 * y) * (20 * (x * z))
    OBVIOUS
  <2> QED BY <1>2, <1>3, <1>8, <1>9, <2>1
<1>11. N * (20 * c) <= N * m
  <2>1. PICK u \in Int, v \in Int, w \in Int : u = q * d /\ v = N * m /\ w = N * (20 * c)
    BY <1>8
  <2> QED BY <1>6, <1>8, <1>10, <2>1
<1>12. 20 * c <= m
  <2> SUFFICES ASSUME 20 * c >= m + 1 PROVE FALSE
    OBVIOUS
  <2>1. N * (20 * c) >= N * (m + 1)
    OBVIOUS
  <2>2. N * (m + 1) = N * m + N
    OBVIOUS
  <2>3. PICK v \in Int, w \in Int : v = N * m /\ w = N * (20 * c)
    OBVIOUS
  <2> QED BY <1>11, <2>1, <2>2, <2>3
<1>13. q * d <= amount
  <2>1. PICK u \in Int : u = q * d
    BY <1>8
  <2> QED BY <1>6, <1>8, <2>1
<1> QED BY <1>1, <1>3, <1>8, <1>9, <1>12, <1>13

\* A product of natural numbers, and what is linear in one factor.
LEMMA TargetSplit ==
    ASSUME NEW w \in Nat, NEW s \in 0..20, NEW e \in Nat
    PROVE  /\ 2 * w * s * e \in Nat /\ w * (20 - s) * e \in Nat /\ 2 * w * e \in Nat
           /\ 2 * w * s * e + 2 * (w * (20 - s) * e) = 20 * (2 * w * e)
<1>1. PICK v \in Nat : v = w * e
  OBVIOUS
<1>2. PICK r \in Nat : r = 20 - s
  OBVIOUS
<1>3. 2 * w * s * e = 2 * (v * s) /\ w * r * e = v * r /\ 2 * w * e = 2 * v
  BY <1>1
<1>4. PICK a \in Nat, c \in Nat : a = v * s /\ c = v * r
  OBVIOUS
<1>5. a + c = 20 * v
  BY <1>2, <1>4
<1> QED BY <1>2, <1>3, <1>4, <1>5

Unit(b) == 20 * Multiple * b.lclose

\* Leverage of an evening: n0 shares bought and s sold of the strategic track, n1 and n2 bought of the
\* tactical kinds, each only while none of it is held.
LeverageOf(t, x, n0, s, n1, n2) ==
    /\ n0 \in Nat /\ s \in Nat /\ n1 \in Nat /\ n2 \in Nat /\ s <= Strat
    /\ n1 > 0 => HeldKind(lots, {"lev_tact1"}) = 0
    /\ n2 > 0 => HeldKind(lots, {"lev_tact2"}) = 0
    /\ t = IF ~flags.lever \/ x.forced \/ x.wLev = 0 THEN <<>>
           ELSE MarketOrder(LEV, "buy", n0, "lev_strat") \o MarketOrder(LEV, "sell", s, "lev_strat")
                \o MarketOrder(LEV, "buy", n1, "lev_tact1") \o MarketOrder(LEV, "buy", n2, "lev_tact2")

\* The leverage bought is worth at most its target and what is left of the wallet, and none of it is
\* bought or reduced where leverage is forced out.
LEMMA LeverageTotals ==
    ASSUME Settled, NEW b, BarOK(b), Priced(b), NEW x, InContext(x, b), NEW left \in Int
    PROVE  /\ ~flags.lever \/ x.forced \/ x.wLev = 0 => Totals(Leverage(x, left), 0, 0, 0, 0, b)
           /\ \E ls \in Nat, lb \in Nat, sp \in Nat :
                /\ Totals(Leverage(x, left), 0, ls, lb, sp, b)
                /\ ls <= Strat /\ lb * Unit(b) <= 2 * x.wLev * x.equity /\ 20 * sp <= Most(0, left)
           /\ \E n0, s, n1, n2 : LeverageOf(Leverage(x, left), x, n0, s, n1, n2)
<1>0. PICK M \in Nat \ {0}, p \in Nat \ {0}, w \in Nat, e \in Nat, S \in 0..20, B \in Nat, h \in Nat :
          /\ M = Multiple /\ p = b.lclose /\ w = x.wLev /\ e = x.equity /\ S = StratRatio
          /\ B = Band /\ h = Strat /\ x.bar = b
  <2>a. Multiple \in {2, 3} /\ StratRatio \in 0..20 /\ Band \in 0..20
    BY PlannerAssumption
  <2>1. Multiple \in Nat \ {0} /\ StratRatio \in 0..20 /\ Band \in Nat
    BY <2>a
  <2>2. b.lclose \in Nat \ {0} /\ x.wLev \in Nat /\ x.equity \in Nat /\ x.bar = b
    BY DEF InContext, BarOK
  <2>3. Strat \in Nat
    BY Holdings
  <2> QED BY <2>1, <2>2, <2>3
<1>1. PICK T1 \in Nat, T2 \in Nat, T \in Nat :
          T1 = 2 * w * S * e /\ T2 = w * (20 - S) * e /\ T = 2 * w * e /\ T1 + 2 * T2 = 20 * T
  BY TargetSplit
<1>2. PICK U \in Nat \ {0}, C \in Nat \ {0} : U = 400 * M * p /\ C = 20 * M * p /\ U = 20 * C
  <2>1. PICK c \in Nat \ {0} : c = M * p
    OBVIOUS
  <2>2. 400 * M * p = 400 * c /\ 20 * M * p = 20 * c
    BY <2>1
  <2> QED BY <2>2
<1>3. PICK band \in Nat : band = 20 * M * B * e
  OBVIOUS
<1>4. PICK diff \in Int, neg \in Int : diff = T1 - U * h /\ neg = -diff
  OBVIOUS
<1> DEFINE Buys(a, l) == Least(a, 20 * M * Most(0, l)) \div U
<1>5. \A a \in Nat : \A l \in Int : /\ Buys(a, l) \in Nat /\ Buys(a, l) * U <= a
                                     /\ 20 * (Buys(a, l) * p) <= Most(0, l)
  <2> SUFFICES ASSUME NEW a \in Nat, NEW l \in Int
      PROVE Buys(a, l) \in Nat /\ Buys(a, l) * U <= a /\ 20 * (Buys(a, l) * p) <= Most(0, l)
    OBVIOUS
  <2>1. PICK q : q = Allowed(a, l, M, p)
    OBVIOUS
  <2>2. q \in Nat /\ q * (400 * M * p) <= a /\ 20 * (q * p) <= Most(0, l)
    BY <2>1, BuyWithin
  <2>3. Buys(a, l) = q /\ q * U = q * (400 * M * p)
    BY <1>2, <2>1 DEF Allowed
  <2> HIDE DEF Buys
  <2> QED BY <2>2, <2>3
<1>6. PICK n0 : n0 = IF diff > 0 /\ (h = 0 \/ diff > band) THEN Buys(diff, left) ELSE 0
  OBVIOUS
<1>7. n0 \in Nat /\ n0 * U <= T1 /\ 20 * (n0 * p) <= Most(0, left)
  <2>1. Most(0, left) >= 0 /\ 0 * U = 0 /\ 20 * (0 * p) = 0
    BY DEF Most
  <2>2. diff <= T1
    <3>1. U * h \in Nat
      OBVIOUS
    <3> QED BY <1>4, <3>1
  <2>3. CASE diff > 0 /\ (h = 0 \/ diff > band)
    <3>1. n0 \in Nat /\ n0 * U <= diff /\ 20 * (n0 * p) <= Most(0, left)
      <4>1. diff \in Nat
        BY <2>3
      <4> HIDE DEF Buys
      <4> QED BY <1>5, <1>6, <2>3, <4>1
    <3>2. n0 * U \in Int
      BY <3>1
    <3> QED BY <2>2, <3>1, <3>2
  <2>4. CASE ~(diff > 0 /\ (h = 0 \/ diff > band))
    <3>1. n0 = 0
      BY <1>6, <2>4
    <3> QED BY <2>1, <3>1
  <2> QED BY <2>3, <2>4
<1>8. PICK c0 \in Nat, l1 \in Int : c0 = n0 * p /\ l1 = left - 20 * c0
  BY <1>7
<1>9. PICK n1 : n1 = IF x.bar.dip >= 1 /\ HeldKind(lots, {"lev_tact1"}) = 0 THEN Buys(T2, l1) ELSE 0
  OBVIOUS
<1>10. n1 \in Nat /\ n1 * U <= T2 /\ 20 * (n1 * p) <= Most(0, l1)
  <2>1. Most(0, l1) >= 0 /\ 0 * U = 0 /\ 20 * (0 * p) = 0
    BY DEF Most
  <2>2. n1 = Buys(T2, l1) \/ n1 = 0
    BY <1>9
  <2>3. T2 \in Nat /\ l1 \in Int
    BY <1>1, <1>8
  <2> HIDE DEF Buys
  <2>4. /\ Buys(T2, l1) \in Nat /\ Buys(T2, l1) * U <= T2 /\ 20 * (Buys(T2, l1) * p) <= Most(0, l1)
    BY <1>5, <2>3
  <2>5. CASE n1 = 0
    BY <2>1, <2>3, <2>5
  <2>6. CASE n1 = Buys(T2, l1)
    BY <2>4, <2>6
  <2> QED BY <2>2, <2>5, <2>6
<1>11. PICK c1 \in Nat, l2 \in Int : c1 = n1 * p /\ l2 = l1 - 20 * c1
  BY <1>10
<1>12. PICK n2 : n2 = IF x.bar.dip >= 2 /\ HeldKind(lots, {"lev_tact2"}) = 0 THEN Buys(T2, l2) ELSE 0
  OBVIOUS
<1>13. n2 \in Nat /\ n2 * U <= T2 /\ 20 * (n2 * p) <= Most(0, l2)
  <2>1. Most(0, l2) >= 0 /\ 0 * U = 0 /\ 20 * (0 * p) = 0
    BY DEF Most
  <2>2. n2 = Buys(T2, l2) \/ n2 = 0
    BY <1>12
  <2>3. T2 \in Nat /\ l2 \in Int
    BY <1>1, <1>11
  <2> HIDE DEF Buys
  <2>4. /\ Buys(T2, l2) \in Nat /\ Buys(T2, l2) * U <= T2 /\ 20 * (Buys(T2, l2) * p) <= Most(0, l2)
    BY <1>5, <2>3
  <2>5. CASE n2 = 0
    BY <2>1, <2>3, <2>5
  <2>6. CASE n2 = Buys(T2, l2)
    BY <2>4, <2>6
  <2> QED BY <2>2, <2>5, <2>6
<1>14. PICK c2 \in Nat : c2 = n2 * p
  BY <1>13
<1>15. PICK s : s = IF neg > band THEN neg \div U ELSE 0
  OBVIOUS
<1>16. s \in Nat /\ s <= h
  <2>1. neg <= h * U
    <3>1. U * h = h * U /\ h * U \in Int
      OBVIOUS
    <3> QED BY <1>4, <3>1
  <2>2. neg \div U <= h
    BY <2>1, QuotientAtMost
  <2>3. neg > band => neg \div U \in Nat
    BY Quotient
  <2> QED BY <1>15, <2>2, <2>3
<1>17. PICK k0 \in OrderKinds \cap LevKinds, k1 \in LevKinds, k2 \in LevKinds :
           k0 = "lev_strat" /\ k1 = "lev_tact1" /\ k2 = "lev_tact2"
  BY DEF OrderKinds, LevKinds, Tactical
<1>18. PICK A0, A1, A2, A3 : /\ A0 = MarketOrder(LEV, "buy", n0, k0) /\ A1 = MarketOrder(LEV, "sell", s, k0)
                             /\ A2 = MarketOrder(LEV, "buy", n1, k1) /\ A3 = MarketOrder(LEV, "buy", n2, k2)
  OBVIOUS
<1>19. Leverage(x, left) = IF ~flags.lever \/ x.forced \/ x.wLev = 0 THEN <<>> ELSE A0 \o A1 \o A2 \o A3
  <2>1. HeldKind(lots, {"lev_strat"}) = h
    BY <1>0, Holdings
  <2>2. 20 * n0 * x.bar.lclose = 20 * c0 /\ 20 * n1 * x.bar.lclose = 20 * c1
    BY <1>0, <1>7, <1>8, <1>10, <1>11
  <2> DEFINE unit == 400 * Multiple * x.bar.lclose
             bnd == 20 * Multiple * Band * x.equity
             dif == 2 * x.wLev * StratRatio * x.equity - unit * HeldKind(lots, {"lev_strat"})
             each == x.wLev * (20 - StratRatio) * x.equity
             buys(a, l) == Least(a, 20 * Multiple * Most(0, l)) \div unit
  <2>3. unit = U /\ bnd = band /\ each = T2
    BY <1>0, <1>1, <1>2, <1>3
  <2>4. dif = diff
    BY <1>0, <1>1, <1>4, <2>1, <2>3
  <2>5. -dif = neg
    BY <1>4, <2>4
  <2>6. \A a, l : buys(a, l) = Buys(a, l)
    BY <1>0, <2>3
  <2>7. Leverage(x, left) =
          LET strat == IF dif > 0 /\ (HeldKind(lots, {"lev_strat"}) = 0 \/ dif > bnd) THEN buys(dif, left) ELSE 0
              sold == IF -dif > bnd THEN (-dif) \div unit ELSE 0
              left1 == left - 20 * strat * x.bar.lclose
              tact1 == IF x.bar.dip >= 1 /\ HeldKind(lots, {"lev_tact1"}) = 0 THEN buys(each, left1) ELSE 0
              left2 == left1 - 20 * tact1 * x.bar.lclose
              tact2 == IF x.bar.dip >= 2 /\ HeldKind(lots, {"lev_tact2"}) = 0 THEN buys(each, left2) ELSE 0
          IN  IF ~flags.lever \/ x.forced \/ x.wLev = 0 THEN <<>>
              ELSE MarketOrder(LEV, "buy", strat, "lev_strat") \o MarketOrder(LEV, "sell", sold, "lev_strat")
                   \o MarketOrder(LEV, "buy", tact1, "lev_tact1") \o MarketOrder(LEV, "buy", tact2, "lev_tact2")
    BY DEF Leverage
  <2> HIDE DEF unit, bnd, dif, each, buys, Buys
  <2>8. n0 = IF dif > 0 /\ (HeldKind(lots, {"lev_strat"}) = 0 \/ dif > bnd) THEN buys(dif, left) ELSE 0
    BY <1>6, <2>1, <2>3, <2>4, <2>6
  <2>9. s = IF -dif > bnd THEN (-dif) \div unit ELSE 0
    BY <1>15, <2>3, <2>5
  <2>10. l1 = left - 20 * n0 * x.bar.lclose
    BY <1>8, <2>2
  <2>11. n1 = IF x.bar.dip >= 1 /\ HeldKind(lots, {"lev_tact1"}) = 0 THEN buys(each, l1) ELSE 0
    BY <1>9, <2>3, <2>6
  <2>12. l2 = l1 - 20 * n1 * x.bar.lclose
    BY <1>11, <2>2
  <2>13. n2 = IF x.bar.dip >= 2 /\ HeldKind(lots, {"lev_tact2"}) = 0 THEN buys(each, l2) ELSE 0
    BY <1>12, <2>3, <2>6
  <2> QED BY <1>17, <1>18, <2>7, <2>8, <2>9, <2>10, <2>11, <2>12, <2>13
<1>20. /\ Totals(A0, 0, 0, n0, c0, b) /\ Totals(A1, 0, s, 0, 0, b)
       /\ Totals(A2, 0, 0, n1, c1, b) /\ Totals(A3, 0, 0, n2, c2, b)
  BY <1>0, <1>7, <1>8, <1>10, <1>11, <1>13, <1>14, <1>16, <1>17, <1>18, LevBuyTotals, MarketTotals
<1>21. Totals(A0 \o A1, 0 + 0, 0 + s, n0 + 0, c0 + 0, b)
  BY <1>20, TotalsJoin
<1>22. Totals((A0 \o A1) \o A2, 0 + 0 + 0, 0 + s + 0, n0 + 0 + n1, c0 + 0 + c1, b)
  BY <1>20, <1>21, TotalsJoin
<1>23. Totals(((A0 \o A1) \o A2) \o A3, 0 + 0 + 0 + 0, 0 + s + 0 + 0, n0 + 0 + n1 + n2, c0 + 0 + c1 + c2, b)
  BY <1>20, <1>22, TotalsJoin
<1>24. Totals(A0 \o A1 \o A2 \o A3, 0, s, n0 + n1 + n2, c0 + c1 + c2, b)
  <2>1. 0 + s + 0 + 0 = s /\ n0 + 0 + n1 + n2 = n0 + n1 + n2 /\ c0 + 0 + c1 + c2 = c0 + c1 + c2
    BY <1>7, <1>10, <1>13, <1>16
  <2> QED BY <1>23, <2>1
<1>25. (n0 + n1 + n2) * C <= T
  <2>1. PICK u0 \in Int, u1 \in Int, u2 \in Int : u0 = n0 * C /\ u1 = n1 * C /\ u2 = n2 * C
    BY <1>7, <1>10, <1>13
  <2>2. n0 * U = 20 * u0 /\ n1 * U = 20 * u1 /\ n2 * U = 20 * u2
    BY <1>2, <1>7, <1>10, <1>13, <2>1
  <2>3. (n0 + n1 + n2) * C = u0 + u1 + u2
    BY <1>7, <1>10, <1>13, <2>1
  <2> QED BY <1>1, <1>7, <1>10, <1>13, <2>2, <2>3
<1>26. 20 * (c0 + c1 + c2) <= Most(0, left)
  BY <1>7, <1>8, <1>10, <1>11, <1>13, <1>14 DEF Most
<1>27. Unit(b) = C /\ 2 * x.wLev * x.equity = T
  BY <1>0, <1>1, <1>2 DEF Unit
<1>28. Totals(<<>>, 0, 0, 0, 0, b)
  BY TotalsNone
<1>29. 0 * Unit(b) = 0 /\ 0 <= Most(0, left)
  BY <1>2, <1>27 DEF Most
<1>30. n0 + n1 + n2 \in Nat /\ c0 + c1 + c2 \in Nat
  BY <1>7, <1>10, <1>13
<1>31. LeverageOf(Leverage(x, left), x, n0, s, n1, n2)
  <2>1. (n1 > 0 => HeldKind(lots, {"lev_tact1"}) = 0) /\ (n2 > 0 => HeldKind(lots, {"lev_tact2"}) = 0)
    BY <1>9, <1>12
  <2>2. s <= Strat
    BY <1>0, <1>16
  <2> HIDE DEF Buys
  <2> QED BY <1>7, <1>10, <1>13, <1>16, <1>17, <1>18, <1>19, <2>1, <2>2 DEF LeverageOf
<1>32. CASE ~flags.lever \/ x.forced \/ x.wLev = 0
  <2>1. Leverage(x, left) = <<>>
    BY <1>19, <1>32
  <2>2. 0 <= Strat /\ 0 * Unit(b) <= 2 * x.wLev * x.equity /\ 20 * 0 <= Most(0, left)
    BY <1>0, <1>1, <1>27, <1>29
  <2> QED BY <1>28, <1>31, <2>1, <2>2
<1>33. CASE ~(~flags.lever \/ x.forced \/ x.wLev = 0)
  <2>1. Leverage(x, left) = A0 \o A1 \o A2 \o A3
    BY <1>19, <1>33
  <2>2. PICK lb \in Nat, sp \in Nat : lb = n0 + n1 + n2 /\ sp = c0 + c1 + c2
    BY <1>30
  <2>3. /\ Totals(Leverage(x, left), 0, s, lb, sp, b)
        /\ s <= Strat /\ lb * Unit(b) <= 2 * x.wLev * x.equity /\ 20 * sp <= Most(0, left)
    BY <1>0, <1>16, <1>24, <1>25, <1>26, <1>27, <2>1, <2>2
  <2> QED BY <1>16, <1>31, <1>33, <2>2, <2>3
<1> QED BY <1>32, <1>33

\* The tactical track leaves with all it holds or not at all.
LEMMA ExitTotals ==
    ASSUME Settled, NEW b, Priced(b), NEW x
    PROVE  /\ Totals(TacticalExit(x), 0, 0, 0, 0, b) \/ Totals(TacticalExit(x), 0, Tact, 0, 0, b)
           /\ ~flags.lever \/ x.forced \/ x.wLev = 0 => Totals(TacticalExit(x), 0, 0, 0, 0, b)
<1>1. PICK k \in OrderKinds : k = "lev_tact_exit"
  BY DEF OrderKinds
<1>2. Totals(MarketOrder(LEV, "sell", Tact, k), 0, Tact, 0, 0, b)
  BY Holdings, MarketTotals
<1>3. HeldKind(lots, Tactical) = Tact
  BY Holdings
<1>4. Totals(<<>>, 0, 0, 0, 0, b)
  BY TotalsNone
<1>5. TacticalExit(x) = MarketOrder(LEV, "sell", Tact, k) \/ TacticalExit(x) = <<>>
  BY <1>1, <1>3 DEF TacticalExit
<1>6. ~flags.lever \/ x.forced \/ x.wLev = 0 => TacticalExit(x) = <<>>
  BY DEF TacticalExit
<1> QED BY <1>2, <1>4, <1>5, <1>6

OutOfLeverage(x) == ~flags.lever \/ x.forced \/ x.wLev = 0
BandOf(x) == Multiple * Band * x.equity

\* The cut never sells what another order of the plan sells, and leaves no more than the
\* target, the band, and part of a share.
LEMMA CapTotals ==
    ASSUME Settled, NEW b, BarOK(b), Priced(b), NEW x, InContext(x, b), NEW s,
           NEW ks, NEW ls, NEW lb, NEW sp, Totals(s, ks, ls, lb, sp, b),
           ls <= Pair, lb * Unit(b) <= 2 * x.wLev * x.equity
    PROVE  \E cs \in Nat :
             /\ Totals(Cap(x, s), 0, cs, 0, 0, b) /\ ls + cs <= Pair
             /\ OutOfLeverage(x) => cs = 0
             /\ ~OutOfLeverage(x) => (Pair + lb - (ls + cs)) * Unit(b) - 2 * x.wLev * x.equity
                                     <= Most(BandOf(x), Unit(b) - 1)
<1>1. PICK h \in Nat, w \in Nat, e \in Nat, l \in Nat, m \in Nat :
          h = Pair /\ w = x.wLev /\ e = x.equity /\ l = ls /\ m = lb
  BY Holdings DEF InContext, Totals
<1>2. PICK U \in Nat \ {0} : U = Unit(b) /\ U = 20 * Multiple * x.bar.lclose
  <2>a. Multiple \in {2, 3}
    BY PlannerAssumption
  <2>1. PICK M \in Nat \ {0}, p \in Nat \ {0} : M = Multiple /\ p = b.lclose
    BY <2>a DEF BarOK
  <2>2. 20 * M * p \in Nat \ {0}
    <3>1. PICK c \in Nat \ {0} : c = M * p
      OBVIOUS
    <3>2. 20 * M * p = 20 * c
      BY <3>1
    <3> QED BY <3>2
  <2>3. x.bar = b
    BY DEF InContext
  <2> QED BY <2>1, <2>2, <2>3 DEF Unit
<1>3. PICK T \in Nat : T = 2 * w * e
  OBVIOUS
<1>4. PICK B \in Nat : B = BandOf(x)
  <2>1. Multiple \in {2, 3} /\ Band \in 0..20
    BY PlannerAssumption
  <2>2. Multiple \in Nat /\ Band \in Nat
    BY <2>1
  <2>3. PICK M \in Nat, N \in Nat : M = Multiple /\ N = Band
    BY <2>2
  <2>4. M * N * e \in Nat
    OBVIOUS
  <2> QED BY <1>1, <2>3, <2>4 DEF BandOf
<1>5. l <= h /\ m * U <= T
  BY <1>1, <1>2, <1>3
<1>6. PICK planned \in Int : planned = m - l
  OBVIOUS
<1>7. PICK ex \in Int : ex = (h + planned) * U - T
  OBVIOUS
<1>8. PICK d \in Int : d = ex \div U
  BY Quotient
<1>9. d * U <= ex /\ ex < d * U + U /\ (ex >= 0 => d \in Nat)
  BY <1>8, Quotient
<1>10. ex <= (h - l) * U
  <2>1. (h + planned) * U = (h - l) * U + m * U
    BY <1>6
  <2>2. PICK a \in Int, c \in Int, f \in Int : a = (h + planned) * U /\ c = (h - l) * U /\ f = m * U
    OBVIOUS
  <2> QED BY <1>5, <1>7, <2>1, <2>2
<1>11. d <= h - l
  BY <1>8, <1>10, QuotientAtMost
<1>12. Least(d, h + Most(0, planned)) = d
  BY <1>11 DEF Least, Most
<1>13. PICK k \in OrderKinds : k = "lev_cap"
  BY DEF OrderKinds
<1>14. Ordered(s, LEV, "buy") = m /\ Ordered(s, LEV, "sell") = l /\ Held(lots, LEV) = h
  <2>1. s \in Seq(Orders) /\ Qty(s, LevBuys) = m /\ Qty(s, LevSells) = l
    BY <1>1 DEF Totals
  <2>2. Ordered(s, LEV, "buy") = Qty(s, LevBuys) /\ Ordered(s, LEV, "sell") = Qty(s, LevSells)
    BY <2>1, OrderedIs
  <2>3. Held(lots, LEV) = h
    BY <1>1, Holdings
  <2> QED BY <2>1, <2>2, <2>3
<1>15. Cap(x, s) = IF flags.lever /\ ~x.forced /\ w > 0 /\ h > 0 /\ ex > B
                   THEN MarketOrder(LEV, "sell", d, k) ELSE <<>>
  <2>1. (Held(lots, LEV) + (Ordered(s, LEV, "buy") - Ordered(s, LEV, "sell"))) * (20 * Multiple * x.bar.lclose)
          - 2 * x.wLev * x.equity = ex
    BY <1>1, <1>2, <1>3, <1>6, <1>7, <1>14
  <2>2. Least(ex \div (20 * Multiple * x.bar.lclose), h + Most(0, planned)) = d
    BY <1>2, <1>8, <1>12
  <2>3. Ordered(s, LEV, "buy") - Ordered(s, LEV, "sell") = planned
    BY <1>6, <1>14
  <2> QED BY <1>1, <1>4, <1>13, <1>14, <2>1, <2>2, <2>3 DEF Cap, BandOf
<1>16. Totals(<<>>, 0, 0, 0, 0, b)
  BY TotalsNone
<1>17. T = 2 * x.wLev * x.equity
  BY <1>1, <1>3
<1>18. CASE flags.lever /\ ~x.forced /\ w > 0 /\ h > 0 /\ ex > B
  <2>1. d \in Nat
    BY <1>9, <1>18
  <2>2. Totals(Cap(x, s), 0, d, 0, 0, b)
    BY <1>15, <1>18, <2>1, MarketTotals
  <2>3. (h + m - (l + d)) * U - T <= Most(B, U - 1)
    <3>1. (h + m - (l + d)) * U = (h + planned) * U - d * U
      BY <1>6
    <3>2. PICK a \in Int, c \in Int, f \in Int : a = (h + m - (l + d)) * U /\ c = (h + planned) * U /\ f = d * U
      OBVIOUS
    <3> QED BY <1>7, <1>9, <3>1, <3>2 DEF Most
  <2>4. ~OutOfLeverage(x)
    BY <1>1, <1>18 DEF OutOfLeverage
  <2>5. l + d <= h
    BY <1>11
  <2> QED BY <1>1, <1>2, <1>4, <1>17, <2>1, <2>2, <2>3, <2>4, <2>5
<1>19. CASE ~(flags.lever /\ ~x.forced /\ w > 0 /\ h > 0 /\ ex > B)
  <2>1. Totals(Cap(x, s), 0, 0, 0, 0, b)
    BY <1>15, <1>16, <1>19
  <2>2. ASSUME ~OutOfLeverage(x) PROVE (h + m - (l + 0)) * U - T <= Most(B, U - 1)
    <3>1. flags.lever /\ ~x.forced /\ w > 0
      BY <1>1, <2>2 DEF OutOfLeverage
    <3>2. CASE ~(ex > B)
      <4>1. (h + m - (l + 0)) * U = (h + planned) * U
        BY <1>6
      <4>2. PICK c \in Int : c = (h + planned) * U
        OBVIOUS
      <4> QED BY <1>7, <3>2, <4>1, <4>2 DEF Most
    <3>3. CASE h = 0
      <4>1. l = 0 /\ h + m - (l + 0) = m
        BY <1>5, <3>3
      <4>2. PICK c \in Int : c = m * U
        OBVIOUS
      <4> QED BY <1>5, <4>1, <4>2 DEF Most
    <3> QED BY <1>19, <3>1, <3>2, <3>3
  <2>3. l + 0 <= h
    BY <1>5
  <2> QED BY <1>1, <1>2, <1>4, <1>17, <2>1, <2>2, <2>3
<1> QED BY <1>18, <1>19

-----------------------------------------------------------------------------
(* The whole plan. *)

Opens(s, o) == s \in Seq(Orders) /\ Len(s) >= 1 /\ s[1] = o
\* The first order stays the first.
LEMMA OpensStill ==
    ASSUME NEW s, NEW o, Opens(s, o), NEW t \in Seq(Orders)
    PROVE  Opens(s \o t, o)
  BY DEF Opens

LiquidateAll(n) == Order(LEV, "sell", "market", n, NoPrice, "lev_liq")

\* What holds of a plan for the holdings it is made for, and of the bar it is made on.
Sold(p, n, m) ==
    /\ Qty(p.orders, FundSells) <= n /\ (p.regime = "NEUTRAL" => Qty(p.orders, FundSells) = n)
    /\ Qty(p.orders, LevSells) <= m
Cut(p, m, b) ==
    flags.lever /\ p.regime = "BULL" =>
      (m + Qty(p.orders, LevBuys) - Qty(p.orders, LevSells)) * Unit(b) - 2 * p.wLev * p.equity
         <= Most(Multiple * Band * p.equity, Unit(b) - 1)
Leaves(p, m) ==
    flags.lever /\ p.regime # "BULL" =>
        Qty(p.orders, LevBuys) = 0 /\ (m = 0 \/ Opens(p.orders, LiquidateAll(m)))
PlanMade(p, n, m, b) ==
    /\ p.ok = TRUE /\ p.planned = TRUE /\ p.regime \in Regimes /\ p.grid = b.grid /\ p.wallet \in Int
    /\ p.wLev \in Nat /\ p.equity \in Nat
    /\ p.orders \in Seq(Orders) /\ 20 * Spent(p.orders, b) <= Most(0, p.wallet)
    /\ Sold(p, n, m) /\ Cut(p, m, b) /\ Leaves(p, m)

\* A forced exit begins with the sale of the whole pair.
LEMMA LiquidateFirst ==
    ASSUME Settled, NEW x, flags.lever, x.forced, Pair > 0
    PROVE  Opens(Liquidate(x), LiquidateAll(Pair))
<1>1. Held(lots, LEV) = Pair /\ Pair \in Nat
  BY Holdings
<1>2. PICK o : o = LiquidateAll(Pair)
  OBVIOUS
<1>3. o \in Orders
  BY <1>1, <1>2 DEF Orders, Order, OrderKinds, NoPrice, LiquidateAll
<1>4. Liquidate(x) = <<o>>
  BY <1>1, <1>2 DEF Liquidate, MarketOrder, LiquidateAll
<1> QED BY <1>2, <1>3, <1>4 DEF Opens

\* What the plan of an evening promises of the account it is made for.
LEMMA PlanHolds ==
    ASSUME Settled, NEW b, BarOK(b), Priced(b), Worth(cash, lots, b) >= 0
    PROVE  PlanMade(PlanOf(b), Fund, Pair, b)
<1>1. PICK x : x = Context(b)
  OBVIOUS
<1>2. InContext(x, b)
  BY <1>1, ContextIs
<1>3. x.bar = b /\ x.regime \in Regimes /\ x.equity \in Nat /\ x.wLev \in Nat
      /\ (x.regime # "BULL" => x.forced)
  BY <1>2 DEF InContext
<1>4. Fund \in Nat /\ Pair \in Nat /\ Strat \in Nat /\ Tact \in Nat /\ Pair = Strat + Tact
  BY Holdings
<1>5. PICK r \in Nat : r = ReduceQty(x) /\ r <= Fund
  BY <1>2, ReduceIs
<1>6. PICK wallet \in Int : wallet = 20 * (cash + r * b.close) - Buffer * x.equity
  <2>a. Buffer \in 0..20
    BY PlannerAssumption
  <2>b. b.close \in Nat /\ Buffer \in Nat
    BY <2>a DEF Priced
  <2>c. cash \in Int
    BY DEF Settled
  <2>1. PICK c \in Nat, k \in Int, e \in Nat, u \in Nat : c = b.close /\ k = cash /\ e = x.equity /\ u = Buffer
    BY <1>3, <2>b, <2>c
  <2>2. r * c \in Nat /\ u * e \in Nat
    OBVIOUS
  <2>3. 20 * (k + r * c) - u * e \in Int
    BY <2>2
  <2> QED BY <2>1, <2>3
<1>7. PICK boot : boot = Boot(x, wallet)
  OBVIOUS
<1>8. boot.f \in 0..40 /\ Bought(boot.orders, wallet, boot.left, b)
  BY <1>2, <1>7, BootTotals
<1>9. PICK grid : grid = Grid(x, boot)
  OBVIOUS
<1>10. boot.left \in Int
  BY <1>8 DEF Bought
<1>11. Bought(grid.orders, boot.left, grid.left, b)
  BY <1>2, <1>8, <1>9, <1>10, GridTotals
<1>12. grid.left \in Int
  BY <1>11 DEF Bought
<1>13. PICK L, R, T, V, X, Y, Z :
          /\ L = Liquidate(x) /\ R = MarketOrder(K200, "sell", r, "reduce") /\ T = TpOrders(x, r)
          /\ V = boot.orders /\ X = grid.orders /\ Y = Leverage(x, grid.left) /\ Z = TacticalExit(x)
  OBVIOUS
<1>14. PICK before : before = L \o R \o T \o V \o X \o Y \o Z
  OBVIOUS
<1>15. PICK C : C = Cap(x, before)
  OBVIOUS
<1>16. PICK p : p = PlanOf(b)
  OBVIOUS
<1>17. /\ p.ok = TRUE /\ p.planned = TRUE /\ p.regime = x.regime /\ p.grid = b.grid
       /\ p.orders = before \o C /\ p.wallet = wallet /\ p.wLev = x.wLev /\ p.equity = x.equity
  BY <1>1, <1>5, <1>6, <1>7, <1>9, <1>13, <1>14, <1>15, <1>16 DEF PlanOf
<1> DEFINE out == OutOfLeverage(x)
           offered == x.regime = "NEUTRAL" \/ (x.regime = "BULL" /\ ~flags.noTp)
<1>18. PICK lq \in Nat : Totals(L, 0, lq, 0, 0, b) /\ lq = IF flags.lever /\ out THEN Pair ELSE 0
  BY <1>4, <1>13, LiquidateTotals DEF OutOfLeverage
<1>19. Totals(R, r, 0, 0, 0, b)
  <2>1. PICK k \in OrderKinds : k = "reduce"
    BY DEF OrderKinds
  <2> QED BY <1>13, <2>1, MarketTotals
<1>20. PICK tq \in Nat : Totals(T, tq, 0, 0, 0, b) /\ tq = IF offered THEN Fund - r ELSE 0
  <2>1. Fund - r \in Nat
    BY <1>4, <1>5
  <2> QED BY <1>3, <1>5, <1>13, <2>1, TpOrdersTotals
<1>21. PICK c1 \in Nat : Totals(V, 0, 0, 0, c1, b) /\ boot.left = wallet - 20 * c1 /\ 20 * c1 <= Most(0, wallet)
  BY <1>8, <1>13 DEF Bought
<1>22. PICK c2 \in Nat : Totals(X, 0, 0, 0, c2, b) /\ grid.left = boot.left - 20 * c2 /\ 20 * c2 <= Most(0, boot.left)
  BY <1>11, <1>13 DEF Bought
<1>23. PICK ls \in Nat, lb \in Nat, c3 \in Nat :
           /\ Totals(Y, 0, ls, lb, c3, b) /\ ls <= Strat /\ lb * Unit(b) <= 2 * x.wLev * x.equity
           /\ 20 * c3 <= Most(0, grid.left)
           /\ out => ls = 0 /\ lb = 0 /\ c3 = 0
  <2>1. out => Totals(Y, 0, 0, 0, 0, b)
    BY <1>2, <1>12, <1>13, LeverageTotals DEF OutOfLeverage
  <2>2. PICK ls \in Nat, lb \in Nat, c3 \in Nat :
           /\ Totals(Y, 0, ls, lb, c3, b) /\ ls <= Strat /\ lb * Unit(b) <= 2 * x.wLev * x.equity
           /\ 20 * c3 <= Most(0, grid.left)
    BY <1>2, <1>12, <1>13, LeverageTotals
  <2>3. out => ls = 0 /\ lb = 0 /\ c3 = 0
    BY <2>1, <2>2 DEF Totals
  <2> QED BY <2>2, <2>3
<1>24. PICK xq \in Nat : Totals(Z, 0, xq, 0, 0, b) /\ xq <= Tact /\ (out => xq = 0)
  <2>1. Totals(Z, 0, 0, 0, 0, b) \/ Totals(Z, 0, Tact, 0, 0, b)
    BY <1>13, ExitTotals
  <2>2. out => Totals(Z, 0, 0, 0, 0, b)
    BY <1>13, ExitTotals DEF OutOfLeverage
  <2>3. 0 <= Tact /\ Tact <= Tact
    BY <1>4
  <2> QED BY <1>4, <2>1, <2>2, <2>3
<1>25. /\ L \in Seq(Orders) /\ R \in Seq(Orders) /\ T \in Seq(Orders) /\ V \in Seq(Orders)
       /\ X \in Seq(Orders) /\ Y \in Seq(Orders) /\ Z \in Seq(Orders)
  BY <1>18, <1>19, <1>20, <1>21, <1>22, <1>23, <1>24 DEF Totals
<1>26. Totals(before, r + tq, lq + ls + xq, lb, c1 + c2 + c3, b)
  <2>1. Totals(L \o R, 0 + r, lq + 0, 0 + 0, 0 + 0, b)
    BY <1>18, <1>19, TotalsJoin
  <2>2. Totals((L \o R) \o T, 0 + r + tq, lq + 0 + 0, 0 + 0 + 0, 0 + 0 + 0, b)
    BY <2>1, <1>20, TotalsJoin
  <2>3. Totals((L \o R) \o T, r + tq, lq, 0, 0, b)
    <3>1. 0 + r + tq = r + tq /\ lq + 0 + 0 = lq /\ 0 + 0 + 0 = 0
      OBVIOUS
    <3> QED BY <2>2, <3>1
  <2>4. Totals(((L \o R) \o T) \o V, r + tq + 0, lq + 0, 0 + 0, 0 + c1, b)
    BY <2>3, <1>21, TotalsJoin
  <2>5. Totals((((L \o R) \o T) \o V) \o X, r + tq + 0 + 0, lq + 0 + 0, 0 + 0 + 0, 0 + c1 + c2, b)
    BY <2>4, <1>22, TotalsJoin
  <2>6. Totals((((L \o R) \o T) \o V) \o X, r + tq, lq, 0, c1 + c2, b)
    <3>1. r + tq + 0 + 0 = r + tq /\ lq + 0 + 0 = lq /\ 0 + 0 + 0 = 0 /\ 0 + c1 + c2 = c1 + c2
      OBVIOUS
    <3> QED BY <2>5, <3>1
  <2>7. Totals(((((L \o R) \o T) \o V) \o X) \o Y, r + tq + 0, lq + ls, 0 + lb, c1 + c2 + c3, b)
    BY <2>6, <1>23, TotalsJoin
  <2>8. Totals((((((L \o R) \o T) \o V) \o X) \o Y) \o Z, r + tq + 0 + 0, lq + ls + xq, 0 + lb + 0, c1 + c2 + c3 + 0, b)
    BY <2>7, <1>24, TotalsJoin
  <2>9. r + tq + 0 + 0 = r + tq /\ 0 + lb + 0 = lb /\ c1 + c2 + c3 + 0 = c1 + c2 + c3
    OBVIOUS
  <2> QED BY <1>14, <2>8, <2>9
<1>27. PICK fs \in Nat, os \in Nat, sp \in Nat : fs = r + tq /\ os = lq + ls + xq /\ sp = c1 + c2 + c3
  OBVIOUS
<1>28. os <= Pair
  BY <1>4, <1>18, <1>23, <1>24, <1>27
<1>29. PICK cs \in Nat :
         /\ Totals(C, 0, cs, 0, 0, b) /\ os + cs <= Pair
         /\ out => cs = 0
         /\ ~out => (Pair + lb - (os + cs)) * Unit(b) - 2 * x.wLev * x.equity <= Most(BandOf(x), Unit(b) - 1)
  <2>1. Totals(before, fs, os, lb, sp, b)
    BY <1>26, <1>27
  <2> HIDE DEF out
  <2>2. \E cs \in Nat :
             /\ Totals(Cap(x, before), 0, cs, 0, 0, b) /\ os + cs <= Pair
             /\ OutOfLeverage(x) => cs = 0
             /\ ~OutOfLeverage(x) => (Pair + lb - (os + cs)) * Unit(b) - 2 * x.wLev * x.equity
                                     <= Most(BandOf(x), Unit(b) - 1)
    BY <1>2, <1>23, <1>28, <2>1, CapTotals
  <2> QED BY <1>15, <2>2 DEF out
<1>30. Totals(before \o C, fs, os + cs, lb, sp, b)
  <2>1. Totals(before \o C, fs + 0, os + cs, lb + 0, sp + 0, b)
    BY <1>26, <1>27, <1>29, TotalsJoin
  <2> QED BY <2>1
<1>31. /\ p.orders \in Seq(Orders) /\ Qty(p.orders, FundSells) = fs /\ Qty(p.orders, LevSells) = os + cs
       /\ Qty(p.orders, LevBuys) = lb /\ Spent(p.orders, b) = sp
  BY <1>17, <1>30 DEF Totals
<1>32. Sold(p, Fund, Pair)
  <2>1. fs <= Fund /\ (x.regime = "NEUTRAL" => fs = Fund)
    BY <1>4, <1>5, <1>20, <1>27
  <2> QED BY <1>17, <1>29, <1>31, <2>1 DEF Sold
<1>33. 20 * sp <= Most(0, wallet)
  BY <1>21, <1>22, <1>23, <1>27 DEF Most
<1>34. Cut(p, Pair, b)
  <2> SUFFICES ASSUME flags.lever, x.regime = "BULL"
      PROVE (Pair + lb - (os + cs)) * Unit(b) - 2 * x.wLev * x.equity <= Most(Multiple * Band * x.equity, Unit(b) - 1)
    BY <1>17, <1>31 DEF Cut
  <2>1. CASE out
    <3>1. lq = Pair /\ ls = 0 /\ lb = 0 /\ xq = 0 /\ cs = 0
      BY <1>18, <1>23, <1>24, <1>29, <2>1
    <3>2. Pair + lb - (os + cs) = 0
      BY <1>4, <1>27, <3>1
    <3>3. PICK U \in Nat \ {0}, t \in Nat : U = Unit(b) /\ t = 2 * x.wLev * x.equity
      <4>a. Multiple \in {2, 3}
        BY PlannerAssumption
      <4>b. PICK M \in Nat \ {0} : M = Multiple
        BY <4>a
      <4>c. PICK q \in Nat \ {0} : q = b.lclose
        BY DEF BarOK
      <4>1. PICK w \in Nat, e \in Nat : w = x.wLev /\ e = x.equity
        BY <1>3
      <4>2. PICK c \in Nat \ {0} : c = M * q
        OBVIOUS
      <4>3. 20 * M * q = 20 * c /\ 2 * w * e \in Nat
        BY <4>2
      <4> QED BY <4>b, <4>c, <4>1, <4>2, <4>3 DEF Unit
    <3>4. 0 * U = 0 /\ 0 - t <= U - 1
      OBVIOUS
    <3>5. PICK bd \in Int : bd = Multiple * Band * x.equity
      <4>b. Multiple \in {2, 3} /\ Band \in 0..20
        BY PlannerAssumption
      <4>a. Multiple \in Nat /\ Band \in Nat
        BY <4>b
      <4>1. PICK M \in Nat, q \in Nat, e \in Nat : M = Multiple /\ q = Band /\ e = x.equity
        BY <1>3, <4>a
      <4>2. M * q * e \in Int
        OBVIOUS
      <4> QED BY <4>1, <4>2
    <3>6. 0 - t <= Most(bd, U - 1)
      BY <3>4 DEF Most
    <3> QED BY <3>2, <3>3, <3>4, <3>5, <3>6
  <2>2. CASE ~out
    BY <1>29, <2>2 DEF BandOf
  <2> QED BY <2>1, <2>2
<1>35. Leaves(p, Pair)
  <2> SUFFICES ASSUME flags.lever, x.regime # "BULL"
      PROVE lb = 0 /\ (Pair = 0 \/ Opens(before \o C, LiquidateAll(Pair)))
    BY <1>17, <1>31 DEF Leaves
  <2>1. x.forced /\ out
    BY <1>3 DEF OutOfLeverage
  <2>2. lb = 0
    BY <1>23, <2>1
  <2>3. ASSUME Pair > 0 PROVE Opens(before \o C, LiquidateAll(Pair))
    <3>1. PICK o : o = LiquidateAll(Pair)
      OBVIOUS
    <3>2. Opens(L, o)
      BY <1>13, <2>1, <2>3, <3>1, LiquidateFirst
    <3>3. Opens(L \o R, o)
      BY <1>25, <3>2, OpensStill
    <3>4. Opens((L \o R) \o T, o)
      BY <1>25, <3>3, OpensStill
    <3>5. Opens(((L \o R) \o T) \o V, o)
      BY <1>25, <3>4, OpensStill
    <3>6. Opens((((L \o R) \o T) \o V) \o X, o)
      BY <1>25, <3>5, OpensStill
    <3>7. Opens(((((L \o R) \o T) \o V) \o X) \o Y, o)
      BY <1>25, <3>6, OpensStill
    <3>8. Opens((((((L \o R) \o T) \o V) \o X) \o Y) \o Z, o)
      BY <1>25, <3>7, OpensStill
    <3>9. C \in Seq(Orders)
      BY <1>29 DEF Totals
    <3>10. Opens(before \o C, o)
      BY <1>14, <3>8, <3>9, OpensStill
    <3> QED BY <3>1, <3>10
  <2> QED BY <1>4, <2>2, <2>3
<1> QED BY <1>3, <1>16, <1>17, <1>31, <1>32, <1>33, <1>34, <1>35 DEF PlanMade

-----------------------------------------------------------------------------
(* Taking shares from lots. *)

\* Records with a quantity that may shrink, and a part of them that does not depend on it.
Lotted(X) == \A l \in X : l.qty \in Nat \ {0} /\ \A q \in Nat \ {0} : [l EXCEPT !.qty = q] \in X
Steady(X, Q) == \A l \in X : \A q \in Nat \ {0} : [l EXCEPT !.qty = q] \in Q <=> l \in Q
Takings(X) == [rest : Nat, lots : Seq(X)]

\* They can be counted.
LEMMA LottedCount == ASSUME NEW X, Lotted(X) PROVE Counting(X)
  BY DEF Lotted, Counting

\* One record more.
LEMMA QtyAppend ==
    ASSUME NEW X, Counting(X), NEW s \in Seq(X), NEW l \in X, NEW Q
    PROVE  Qty(Append(s, l), Q) = Qty(s, Q) + IF l \in Q THEN l.qty ELSE 0
<1>1. PICK t : t = <<l>>
  OBVIOUS
<1>2. t \in Seq(X)
  BY <1>1
<1>3. Qty(t, Q) = IF l \in Q THEN l.qty ELSE 0
  BY <1>1, QtyOne DEF Counting
<1>4. Qty(s \o t, Q) = Qty(s, Q) + Qty(t, Q)
  BY <1>2, QtyConcat
<1>5. Append(s, l) = s \o t
  BY <1>1
<1> QED BY <1>3, <1>4, <1>5

\* What one record gives: k shares, the rest of it staying.
Gives(R, acc, l, k) ==
    /\ k <= acc.rest /\ k <= l.qty /\ IF l \in R THEN k = acc.rest \/ k = l.qty ELSE k = 0
    /\ TakeOne(R, acc, l).rest = acc.rest - k
    /\ TakeOne(R, acc, l).lots = IF k = l.qty THEN acc.lots ELSE Append(acc.lots, [l EXCEPT !.qty = l.qty - k])
    /\ k # l.qty => l.qty - k \in Nat \ {0}

\* What one lot gives to an order.
LEMMA TakeOneGives ==
    ASSUME NEW X, Lotted(X), NEW R, NEW acc \in Takings(X), NEW l \in X
    PROVE  TakeOne(R, acc, l) \in Takings(X) /\ \E k \in Nat : Gives(R, acc, l, k)
<1>1. PICK q \in Nat \ {0}, r \in Nat : q = l.qty /\ r = acc.rest
  BY DEF Lotted, Takings
<1>2. PICK k \in Nat : k <= r /\ k <= q /\ k = IF l \in R THEN Least(r, q) ELSE 0
  BY DEF Least
<1>3. k # q => q - k \in Nat \ {0}
  BY <1>2
<1>4. k # q => [l EXCEPT !.qty = q - k] \in X
  BY <1>3 DEF Lotted
<1>5. PICK ls : ls = IF k = q THEN acc.lots ELSE Append(acc.lots, [l EXCEPT !.qty = q - k])
  OBVIOUS
<1>6. ls \in Seq(X)
  BY <1>4, <1>5 DEF Takings
<1>7. TakeOne(R, acc, l) = [rest |-> r - k, lots |-> ls]
  BY <1>1, <1>2, <1>5 DEF TakeOne
<1>8. r - k \in Nat
  BY <1>2
<1>9. [rest |-> r - k, lots |-> ls] \in Takings(X)
  BY <1>6, <1>8 DEF Takings
<1>10. PICK t : t = TakeOne(R, acc, l)
  OBVIOUS
<1>11. t \in Takings(X) /\ t.rest = r - k /\ t.lots = ls
  BY <1>7, <1>9, <1>10
<1>12. Gives(R, acc, l, k)
  BY <1>1, <1>2, <1>3, <1>5, <1>10, <1>11 DEF Gives, Least
<1> QED BY <1>10, <1>11, <1>12

\* The records one after the other.
Taking(s, n, R, a) ==
    /\ a[0] = [rest |-> n, lots |-> <<>>]
    /\ \A i \in 1..Len(s) : a[i] = TakeOne(R, a[i - 1], s[i])

\* Take goes through them.
LEMMA TakeSteps ==
    ASSUME NEW X, Lotted(X), NEW s \in Seq(X), NEW n \in Nat, NEW R
    PROVE  \E a : Taking(s, n, R, a) /\ Take(s, n, R) = a[Len(s)] /\ \A i \in 0..Len(s) : a[i] \in Takings(X)
<1> DEFINE base == [rest |-> n, lots |-> <<>>]
           P(g) == g = [t \in SUBSET (1..Len(s)) |-> IF t = {} THEN base
                          ELSE TakeOne(R, g[t \ {Max(t)}], s[Max(t)])]
<1>1. PICK m \in Nat : m = Len(s) /\ \A i \in 1..m : s[i] \in X
  OBVIOUS
<1>2. Take(s, n, R) = (CHOOSE f : P(f))[1..m]
  <2>1. DOMAIN s = 1..m
    BY <1>1
  <2> QED BY <1>1, <2>1 DEF Take, FoldLeft, MapThenFoldSet
<1>a. PICK A : A = Takings(X)
  OBVIOUS
<1>3. PICK step : step = [p \in A \X (1..m) |-> TakeOne(R, p[1], s[p[2]])]
  OBVIOUS
<1>4. \A a \in A : \A i \in 1..m : step[<<a, i>>] = TakeOne(R, a, s[i]) /\ step[<<a, i>>] \in A
  <2> TAKE a \in A
  <2> TAKE i \in 1..m
  <2>1. step[<<a, i>>] = TakeOne(R, a, s[i])
    BY <1>3
  <2>2. PICK l \in X : l = s[i]
    BY <1>1
  <2>3. TakeOne(R, a, l) \in A
    BY <1>a, TakeOneGives
  <2> QED BY <2>1, <2>2, <2>3
<1>5. PICK z : z = base
  OBVIOUS
<1>6. z \in A
  <2>1. PICK e : e = <<>>
    OBVIOUS
  <2>2. e \in Seq(X)
    BY <2>1
  <2> QED BY <1>5, <1>a, <2>1, <2>2 DEF Takings
<1>7. PICK h : Folded(h, z, step, m)
  BY FoldExists
<1>8. \A t \in SUBSET (1..m) : h[t] \in A
  BY <1>4, <1>6, <1>7, FoldTyped
<1>9. P(h)
  <2>1. h = [t \in SUBSET (1..m) |-> IF t = {} THEN z ELSE step[<<h[t \ {Max(t)}], Max(t)>>]]
    BY <1>7 DEF Folded
  <2>2. \A t \in SUBSET (1..m) : t # {} =>
          step[<<h[t \ {Max(t)}], Max(t)>>] = TakeOne(R, h[t \ {Max(t)}], s[Max(t)])
    <3> SUFFICES ASSUME NEW t \in SUBSET (1..m), t # {}
        PROVE step[<<h[t \ {Max(t)}], Max(t)>>] = TakeOne(R, h[t \ {Max(t)}], s[Max(t)])
      OBVIOUS
    <3>1. Max(t) \in 1..m
      BY MaxMember
    <3>2. h[t \ {Max(t)}] \in A
      BY <1>8
    <3> QED BY <1>4, <3>1, <3>2
  <2> HIDE DEF base
  <2>3. h = [t \in SUBSET (1..m) |-> IF t = {} THEN base ELSE TakeOne(R, h[t \ {Max(t)}], s[Max(t)])]
    BY <1>5, <2>1, <2>2
  <2> QED BY <1>1, <2>3
<1>10. PICK g : g = (CHOOSE f : P(f)) /\ P(g)
  <2> HIDE DEF P
  <2> QED BY <1>9
<1>11. \A t \in SUBSET (1..m) : g[t] = IF t = {} THEN base ELSE TakeOne(R, g[t \ {Max(t)}], s[Max(t)])
  BY <1>1, <1>10
<1>12. PICK a : a = [i \in 0..m |-> g[1..i]]
  OBVIOUS
<1>13. a[0] = base
  <2>1. 1..0 = {} /\ 0 \in 0..m
    OBVIOUS
  <2>2. a[0] = g[{}]
    BY <1>12, <2>1
  <2>3. {} \in SUBSET (1..m)
    OBVIOUS
  <2> HIDE DEF base, P
  <2> QED BY <1>11, <2>2, <2>3
<1>14. \A i \in 1..m : a[i] = TakeOne(R, a[i - 1], s[i])
  <2> TAKE i \in 1..m
  <2>1. Max(1..i) = i /\ (1..i) \ {i} = 1..(i - 1) /\ 1..i # {}
    <3>1. i \in Nat \ {0}
      OBVIOUS
    <3> QED BY <3>1, MaxUpto
  <2>2. 1..i \in SUBSET (1..m)
    OBVIOUS
  <2>3. a[i] = g[1..i] /\ a[i - 1] = g[1..(i - 1)]
    BY <1>12
  <2> HIDE DEF base, P
  <2> QED BY <1>11, <2>1, <2>2, <2>3
<1>15. Taking(s, n, R, a)
  BY <1>1, <1>13, <1>14 DEF Taking
<1>16. a[Len(s)] = (CHOOSE f : P(f))[1..m]
  <2> HIDE DEF P
  <2> QED BY <1>1, <1>10, <1>12
<1>17. \A i \in 0..m : a[i] \in A
  <2>1. PICK G : G = {i \in 0..m : a[i] \in A}
    OBVIOUS
  <2>2. 0 \in G
    BY <1>5, <1>6, <1>13, <2>1
  <2>3. \A i \in 1..m : i - 1 \in G => i \in G
    <3> SUFFICES ASSUME NEW i \in 1..m, i - 1 \in G PROVE i \in G
      OBVIOUS
    <3>1. a[i - 1] \in A /\ s[i] \in X
      BY <1>1, <2>1
    <3>2. PICK acc \in Takings(X), l \in X : acc = a[i - 1] /\ l = s[i]
      BY <1>a, <3>1
    <3>3. TakeOne(R, acc, l) \in A
      BY <1>a, TakeOneGives
    <3> HIDE DEF base, P
    <3> QED BY <1>14, <2>1, <3>2, <3>3
  <2>4. \A i \in 0..m : i \in G
    BY <2>2, <2>3, PlacesAll
  <2> QED BY <2>1, <2>4
<1> QED BY <1>1, <1>2, <1>a, <1>15, <1>16, <1>17

\* It takes at most what it is asked for, and what it leaves are records again.
LEMMA TakeTyped ==
    ASSUME NEW X, Lotted(X), NEW s \in Seq(X), NEW n \in Nat, NEW R
    PROVE  Take(s, n, R).lots \in Seq(X) /\ Take(s, n, R).rest \in 0..n
<1>1. PICK m \in Nat : m = Len(s) /\ \A i \in 1..m : s[i] \in X
  OBVIOUS
<1>2. PICK a : Taking(s, n, R, a) /\ Take(s, n, R) = a[m] /\ \A i \in 0..m : a[i] \in Takings(X)
  BY <1>1, TakeSteps
<1>3. PICK G : G = {i \in 0..m : a[i].rest \in 0..n}
  OBVIOUS
<1>4. 0 \in G
  BY <1>2, <1>3 DEF Taking
<1>5. \A i \in 1..m : i - 1 \in G => i \in G
  <2> SUFFICES ASSUME NEW i \in 1..m, i - 1 \in G PROVE i \in G
    OBVIOUS
  <2>1. PICK acc \in Takings(X), l \in X : acc = a[i - 1] /\ l = s[i]
    BY <1>1, <1>2
  <2>2. a[i] = TakeOne(R, acc, l)
    BY <1>1, <1>2, <2>1 DEF Taking
  <2>b. PICK k \in Nat : Gives(R, acc, l, k)
    BY TakeOneGives
  <2>3. k <= acc.rest /\ TakeOne(R, acc, l).rest = acc.rest - k
    BY <2>b DEF Gives
  <2>4. acc.rest \in 0..n
    BY <1>3, <2>1
  <2> QED BY <1>3, <2>2, <2>3, <2>4
<1>6. \A i \in 0..m : i \in G
  BY <1>4, <1>5, PlacesAll
<1>7. m \in G /\ a[m] \in Takings(X)
  BY <1>2, <1>6
<1> QED BY <1>2, <1>3, <1>7 DEF Takings

\* A holding never grows by it, and all of it is gone when all of it is asked for.
LEMMA TakeLeaves ==
    ASSUME NEW X, Lotted(X), NEW s \in Seq(X), NEW n \in Nat, NEW R, NEW Q, Steady(X, Q)
    PROVE  /\ Qty(Take(s, n, R).lots, Q) <= Qty(s, Q)
           /\ (n >= Qty(s, Q) /\ \A i \in 1..Len(s) : s[i] \in R <=> s[i] \in Q) => Qty(Take(s, n, R).lots, Q) = 0
<1>1. PICK m \in Nat : m = Len(s) /\ \A i \in 1..m : s[i] \in X
  OBVIOUS
<1>2. PICK a : Taking(s, n, R, a) /\ Take(s, n, R) = a[m] /\ \A i \in 0..m : a[i] \in Takings(X)
  BY <1>1, TakeSteps
<1>3. PICK f : f = QtyAt(s, Q)
  OBVIOUS
<1>4. Integral(f, 1..m) /\ \A i \in 1..m : f[i] = IF s[i] \in Q THEN s[i].qty ELSE 0
  BY <1>1, <1>3, LottedCount, QtyTerms DEF QtyAt
<1>5. PICK u : u = [i \in 0..m |-> SumOver(f, 1..i)]
  OBVIOUS
<1>6. u[0] = 0 /\ \A i \in 1..m : u[i] = u[i - 1] + f[i]
  <2>1. SumOver(f, 1..0) = 0 /\ \A i \in 1..m : SumOver(f, 1..i) = SumOver(f, 1..(i - 1)) + f[i]
    BY <1>4, SumUpto
  <2>2. 0 \in 0..m /\ \A i \in 1..m : i \in 0..m /\ i - 1 \in 0..m
    OBVIOUS
  <2> QED BY <1>5, <2>1, <2>2
<1>7. PICK v : v = [i \in 0..m |-> Qty(a[i].lots, Q)]
  OBVIOUS
<1>8. v[0] = 0
  <2>1. a[0].lots = <<>> /\ 0 \in 0..m
    BY <1>2 DEF Taking
  <2>2. PICK e : e = <<>>
    OBVIOUS
  <2>3. Len(e) = 0 /\ 1..0 = {}
    BY <2>2
  <2>4. Qty(e, Q) = 0
    BY <2>3, QtyIs, SumEmpty
  <2> QED BY <1>7, <2>1, <2>2, <2>4
<1> DEFINE all == \A i \in 1..Len(s) : s[i] \in R <=> s[i] \in Q
<1>10. PICK r : r = [i \in 0..m |-> a[i].rest]
  OBVIOUS
<1>p. PICK P, W : P = {i \in 1..m : s[i] \in Q} /\ W = {i \in 1..m : s[i] \in R}
  OBVIOUS
<1>11. ASSUME NEW i \in 1..m
       PROVE \E k \in Nat, q \in Nat \ {0}, r0 \in Nat, v0 \in Nat :
               /\ r0 = r[i - 1] /\ v0 = v[i - 1]
               /\ k <= q /\ k <= r0
               /\ i \in W => k = r0 \/ k = q
               /\ i \notin W => k = 0
               /\ r[i] = r0 - k
               /\ i \in P => v[i] = v0 + (q - k) /\ f[i] = q
               /\ i \notin P => v[i] = v0 /\ f[i] = 0
  <2>1. PICK acc \in Takings(X), l \in X : acc = a[i - 1] /\ l = s[i]
    BY <1>1, <1>2
  <2>2. a[i] = TakeOne(R, acc, l)
    BY <1>1, <1>2, <2>1 DEF Taking
  <2>b. PICK k \in Nat : Gives(R, acc, l, k)
    BY TakeOneGives
  <2>3. /\ k <= acc.rest /\ k <= l.qty /\ IF l \in R THEN k = acc.rest \/ k = l.qty ELSE k = 0
        /\ TakeOne(R, acc, l).rest = acc.rest - k
        /\ TakeOne(R, acc, l).lots = IF k = l.qty THEN acc.lots ELSE Append(acc.lots, [l EXCEPT !.qty = l.qty - k])
        /\ k # l.qty => l.qty - k \in Nat \ {0}
    BY <2>b DEF Gives
  <2>4. PICK q \in Nat \ {0} : q = l.qty
    BY DEF Lotted
  <2>5. r[i - 1] = acc.rest /\ r[i] = a[i].rest /\ v[i - 1] = Qty(acc.lots, Q) /\ v[i] = Qty(a[i].lots, Q)
    BY <1>7, <1>10, <2>1
  <2>6. acc.lots \in Seq(X) /\ acc.rest \in Nat
    BY DEF Takings
  <2>7. v[i - 1] \in Nat
    BY <2>5, <2>6, LottedCount, QtyNat
  <2>8. (l \in Q => v[i] = v[i - 1] + (q - k)) /\ (l \notin Q => v[i] = v[i - 1])
    <3>1. CASE k = q
      BY <2>2, <2>3, <2>4, <2>5, <2>7, <3>1
    <3>2. CASE k # q
      <4>0. q - k \in Nat \ {0}
        BY <2>3, <2>4, <3>2
      <4>1. PICK c \in X : c = [l EXCEPT !.qty = q - k]
        BY <4>0 DEF Lotted
      <4>2. q - k \in Nat \ {0}
        BY <2>3, <2>4, <3>2
      <4>3. c \in Q <=> l \in Q
        BY <4>1, <4>2 DEF Steady
      <4>4. a[i].lots = Append(acc.lots, c)
        BY <2>2, <2>3, <2>4, <3>2, <4>1
      <4>5. Qty(Append(acc.lots, c), Q) = Qty(acc.lots, Q) + IF c \in Q THEN c.qty ELSE 0
        BY <2>6, LottedCount, QtyAppend
      <4>6. c.qty = q - k
        <5>1. l \in X /\ l.qty \in Nat
          BY <2>4
        <5> QED BY <4>1, <4>2 DEF Lotted
      <4>7. (c \in Q => v[i] = v[i - 1] + c.qty) /\ (c \notin Q => v[i] = v[i - 1])
        BY <2>5, <2>7, <4>4, <4>5
      <4> QED BY <4>3, <4>6, <4>7
    <3> QED BY <3>1, <3>2
  <2>9. (l \in Q <=> i \in P) /\ (l \in R <=> i \in W)
    BY <1>p, <2>1
  <2>10. (l \in Q => f[i] = q) /\ (l \notin Q => f[i] = 0)
    BY <1>4, <2>1, <2>4
  <2>11. PICK r0 \in Nat, v0 \in Nat : r0 = acc.rest /\ v0 = v[i - 1] /\ r0 = r[i - 1]
    BY <2>5, <2>6, <2>7
  <2>12. /\ k <= q /\ k <= r0 /\ (i \in W => k = r0 \/ k = q) /\ (i \notin W => k = 0)
         /\ r[i] = r0 - k
    BY <2>2, <2>3, <2>4, <2>5, <2>9, <2>11
  <2>13. (i \in P => v[i] = v0 + (q - k) /\ f[i] = q) /\ (i \notin P => v[i] = v0 /\ f[i] = 0)
    BY <2>8, <2>9, <2>10, <2>11
  <2> QED BY <2>11, <2>12, <2>13
<1>12. PICK G : G = {i \in 0..m : /\ v[i] \in Nat /\ u[i] \in Nat /\ r[i] \in Nat /\ v[i] <= u[i]
                                  /\ all => v[i] + n = u[i] + r[i] /\ (r[i] = 0 \/ v[i] = 0)}
  OBVIOUS
<1>13. 0 \in G
  <2>1. r[0] = n
    BY <1>2, <1>10 DEF Taking
  <2> QED BY <1>6, <1>8, <1>12, <2>1
<1>14. \A i \in 1..m : i - 1 \in G => i \in G
  <2> SUFFICES ASSUME NEW i \in 1..m, i - 1 \in G PROVE i \in G
    OBVIOUS
  <2> HIDE DEF all
  <2>1. PICK k \in Nat, q \in Nat \ {0}, r0 \in Nat, v0 \in Nat :
               /\ r0 = r[i - 1] /\ v0 = v[i - 1]
               /\ k <= q /\ k <= r0
               /\ i \in W => k = r0 \/ k = q
               /\ i \notin W => k = 0
               /\ r[i] = r0 - k
               /\ i \in P => v[i] = v0 + (q - k) /\ f[i] = q
               /\ i \notin P => v[i] = v0 /\ f[i] = 0
    BY <1>11
  <2>2. PICK u0 \in Nat : u0 = u[i - 1] /\ v0 <= u0 /\ (all => v0 + n = u0 + r0 /\ (r0 = 0 \/ v0 = 0))
    BY <1>12, <2>1
  <2>3. (i \in P => u[i] = u0 + q) /\ (i \notin P => u[i] = u0)
    BY <1>6, <2>1, <2>2
  <2>a. PICK v1, r1, u1 : v1 = v[i] /\ r1 = r[i] /\ u1 = u[i]
    OBVIOUS
  <2>b. /\ k \in Nat /\ q \in Nat /\ r0 \in Nat /\ v0 \in Nat /\ u0 \in Nat
        /\ k <= q /\ k <= r0 /\ v0 <= u0 /\ r1 = r0 - k
        /\ i \in P => v1 = v0 + (q - k) /\ u1 = u0 + q
        /\ i \notin P => v1 = v0 /\ u1 = u0
        /\ (i \in W => k = r0 \/ k = q) /\ (i \notin W => k = 0)
    BY <2>1, <2>2, <2>3, <2>a
  <2>c. all => v0 + n = u0 + r0 /\ (r0 = 0 \/ v0 = 0)
    BY <2>2
  <2>4. v1 \in Nat /\ u1 \in Nat /\ r1 \in Nat /\ v1 <= u1
    BY <2>b
  <2>5. ASSUME all PROVE v1 + n = u1 + r1 /\ (r1 = 0 \/ v1 = 0)
    <3>1. i \in W <=> i \in P
      BY <1>1, <1>p, <2>5 DEF all
    <3>2. CASE i \in P
      BY <2>b, <2>c, <2>5, <3>1, <3>2
    <3>3. CASE i \notin P
      BY <2>b, <2>c, <2>5, <3>1, <3>3
    <3> QED BY <3>2, <3>3
  <2>6. i \in 0..m
    OBVIOUS
  <2> QED BY <1>12, <2>a, <2>4, <2>5, <2>6
<1>15. \A i \in 0..m : i \in G
  BY <1>13, <1>14, PlacesAll
<1>16. m \in G /\ m \in 0..m
  BY <1>15
<1>17. v[m] = Qty(Take(s, n, R).lots, Q) /\ u[m] = Qty(s, Q)
  BY <1>1, <1>2, <1>3, <1>5, <1>7, <1>16, QtyIs
<1>18. v[m] <= u[m] /\ (n >= u[m] /\ all => v[m] = 0)
  BY <1>12, <1>16
<1> QED BY <1>17, <1>18

-----------------------------------------------------------------------------
(* The fills of a plan. *)

\* Cash that purchases did not take below zero; lots numbered so far, rows of the first m bars,
\* and the account they make.
Funds == {c \in Int : c >= 0 \/ (cash \in Int /\ c >= cash)}
LotsTo(k) == {l \in SimLots : l.id < k}
Rows(m) == [inst : {K200, LEV}, qty : Nat \ {0}, price : Nat, at : 0..m, kind : LotKinds \cup {"none"}, tp : Nat]
Accounts(m) == {t \in [cash : Funds, lots : Seq(SimLots), rows : Seq(Rows(m)), next : Nat \ {0}] :
                  t.lots \in Seq(LotsTo(t.next))}
Leveraged(t) == Qty(t.lots, LevLots)

\* Lots can be taken from, and stay what they are.
LEMMA LotsLotted ==
    ASSUME NEW k \in Nat
    PROVE  Lotted(LotsTo(k)) /\ Steady(LotsTo(k), LevLots) /\ LotsTo(k) \subseteq SimLots
<1>1. ASSUME NEW l \in LotsTo(k), NEW q \in Nat \ {0}
      PROVE  [l EXCEPT !.qty = q] \in LotsTo(k) /\ ([l EXCEPT !.qty = q] \in LevLots <=> l \in LevLots)
  <2>1. PICK c : c = [l EXCEPT !.qty = q]
    OBVIOUS
  <2>2. /\ l.id \in Nat \ {0} /\ l.inst \in {K200, LEV} /\ l.price \in Nat /\ l.kind \in LotKinds
        /\ l.tp \in Nat /\ l.tag \in Nat /\ (l.inst = LEV <=> l.kind \in LevKinds) /\ l.id < k
        /\ l = [id |-> l.id, inst |-> l.inst, qty |-> l.qty, price |-> l.price, kind |-> l.kind,
                tp |-> l.tp, tag |-> l.tag]
    BY DEF LotsTo, SimLots
  <2>3. c = [id |-> l.id, inst |-> l.inst, qty |-> q, price |-> l.price, kind |-> l.kind,
                tp |-> l.tp, tag |-> l.tag]
    BY <2>1, <2>2
  <2>4. c \in SimLots /\ c.id = l.id /\ c.inst = l.inst
    BY <2>2, <2>3 DEF SimLots
  <2> QED BY <2>1, <2>2, <2>4 DEF LotsTo, LevLots
<1>2. \A l \in LotsTo(k) : l.qty \in Nat \ {0}
  BY DEF LotsTo, SimLots
<1>3. LotsTo(k) \subseteq SimLots
  BY DEF LotsTo
<1> QED BY <1>1, <1>2, <1>3 DEF Lotted, Steady

\* So can rows.
LEMMA RowsLotted == ASSUME NEW m \in Nat PROVE Lotted(Rows(m))
<1>1. \A l \in Rows(m) : l.qty \in Nat \ {0}
  BY DEF Rows
<1>2. \A l \in Rows(m) : \A q \in Nat \ {0} : [l EXCEPT !.qty = q] \in Rows(m)
  BY DEF Rows
<1> QED BY <1>1, <1>2 DEF Lotted

\* The rows a sell is taken from.
LEMMA ConsumeTyped ==
    ASSUME NEW m \in Nat, NEW s \in Seq(Rows(m)), NEW o, NEW n \in Nat
    PROVE  Consume(s, o, n) \in Seq(Rows(m))
<1>1. PICK X : X = Rows(m) /\ Lotted(X)
  BY RowsLotted
<1>2. PICK R : R = {r \in OfInst(s, o.inst) : Prefers(o, r)}
  OBVIOUS
<1>3. PICK pass : pass = Take(s, n, R)
  OBVIOUS
<1>4. pass.lots \in Seq(X) /\ pass.rest \in 0..n
  BY <1>1, <1>3, TakeTyped
<1>5. PICK T : T = {r \in OfInst(pass.lots, o.inst) : ~Prefers(o, r)}
  OBVIOUS
<1>6. PICK u \in Seq(X), k \in Nat : u = pass.lots /\ k = pass.rest
  BY <1>4
<1>7. Take(u, k, T).lots \in Seq(X)
  BY <1>1, TakeTyped
<1>8. Consume(s, o, n) = Take(u, k, T).lots
  BY <1>2, <1>3, <1>5, <1>6 DEF Consume
<1> QED BY <1>1, <1>7, <1>8

\* The lots a sell is taken from: leverage never grows, and the first order of a plan that
\* liquidates it leaves none.
LEMMA SellLotsTyped ==
    ASSUME NEW k \in Nat, NEW s \in Seq(LotsTo(k)), NEW o, NEW n \in Nat
    PROVE  /\ SellLots(s, o, n).lots \in Seq(LotsTo(k)) /\ SellLots(s, o, n).rest \in 0..n
           /\ Qty(SellLots(s, o, n).lots, LevLots) <= Qty(s, LevLots)
           /\ (o.kind = "lev_liq" /\ o.inst = LEV /\ n >= Qty(s, LevLots)) =>
                Qty(SellLots(s, o, n).lots, LevLots) = 0
<1>1. PICK X, Q : X = LotsTo(k) /\ Q = LevLots /\ Lotted(X) /\ Steady(X, Q) /\ X \subseteq SimLots
  BY LotsLotted
<1>2. s \in Seq(X)
  BY <1>1
<1>3. PICK R : R = CASE o.kind = "tp" -> {l \in Range(s) : l.id = o.lot}
                     [] o.kind = "lev_strat" -> OfKind(s, {"lev_strat"})
                     [] o.kind \in {"lev_tact_exit", "lev_cap"} -> OfKind(s, Tactical)
                     [] OTHER -> OfInst(s, o.inst)
  OBVIOUS
<1>4. PICK pass : pass = Take(s, n, R)
  OBVIOUS
<1>5. pass.lots \in Seq(X) /\ pass.rest \in 0..n
  BY <1>1, <1>2, <1>4, TakeTyped
<1>6. /\ Qty(pass.lots, Q) <= Qty(s, Q)
      /\ (n >= Qty(s, Q) /\ \A i \in 1..Len(s) : s[i] \in R <=> s[i] \in Q) => Qty(pass.lots, Q) = 0
  BY <1>1, <1>2, <1>4, TakeLeaves
<1>7. PICK T, u, j : T = OfKind(pass.lots, {"lev_strat"}) /\ u = pass.lots /\ j = pass.rest
  OBVIOUS
<1>8. PICK more : more = Take(u, j, T)
  OBVIOUS
<1>9. u \in Seq(X) /\ j \in Nat
  BY <1>5, <1>7
<1>10. more.lots \in Seq(X) /\ more.rest \in 0..j
  BY <1>1, <1>8, <1>9, TakeTyped
<1>11. Qty(more.lots, Q) <= Qty(u, Q)
  BY <1>1, <1>8, <1>9, TakeLeaves
<1>12. SellLots(s, o, n) = IF o.kind = "lev_cap" THEN more ELSE pass
  BY <1>3, <1>4, <1>7, <1>8 DEF SellLots
<1>13. Counting(X)
  BY <1>1, LottedCount
<1>14. Qty(more.lots, Q) \in Nat /\ Qty(pass.lots, Q) \in Nat /\ Qty(s, Q) \in Nat
  BY <1>2, <1>5, <1>10, <1>13, QtyNat
<1>15. CASE o.kind = "lev_cap"
  BY <1>1, <1>5, <1>6, <1>7, <1>10, <1>11, <1>12, <1>14, <1>15
<1>16. CASE o.kind # "lev_cap"
  <2>1. ASSUME o.kind = "lev_liq", o.inst = LEV PROVE \A i \in 1..Len(s) : s[i] \in R <=> s[i] \in Q
    <3>1. R = OfInst(s, LEV)
      BY <1>3, <2>1
    <3>2. \A i \in 1..Len(s) : s[i] \in SimLots /\ s[i] \in Range(s)
      BY <1>1, <1>2 DEF Range
    <3> QED BY <1>1, <3>1, <3>2 DEF OfInst, LevLots
  <2> QED BY <1>1, <1>5, <1>6, <1>12, <1>16, <2>1
<1> QED BY <1>15, <1>16

\* A sell keeps the account one, and its leverage does not grow.
LEMMA SellKeeps ==
    ASSUME NEW m \in Nat, NEW t \in Accounts(m), NEW o, NEW n \in Nat, NEW px \in Nat
    PROVE  /\ Sell(t, o, n, px) \in Accounts(m) /\ Leveraged(Sell(t, o, n, px)) <= Leveraged(t)
           /\ (o.kind = "lev_liq" /\ o.inst = LEV /\ n >= Leveraged(t)) => Leveraged(Sell(t, o, n, px)) = 0
<1>1. PICK k, c : k \in Nat \ {0} /\ c \in Funds /\ k = t.next /\ c = t.cash
  BY DEF Accounts
<1>2. PICK s, w : s = t.lots /\ w = t.rows
  OBVIOUS
<1>3. s \in Seq(LotsTo(k)) /\ w \in Seq(Rows(m)) /\ t = [cash |-> c, lots |-> s, rows |-> w, next |-> k]
  BY <1>1, <1>2 DEF Accounts
<1>4. PICK sold : sold = SellLots(s, o, n)
  OBVIOUS
<1>5. /\ sold.lots \in Seq(LotsTo(k)) /\ sold.rest \in 0..n
      /\ Qty(sold.lots, LevLots) <= Qty(s, LevLots)
      /\ (o.kind = "lev_liq" /\ o.inst = LEV /\ n >= Qty(s, LevLots)) => Qty(sold.lots, LevLots) = 0
  BY <1>1, <1>3, <1>4, SellLotsTyped
<1>6. Consume(w, o, n) \in Seq(Rows(m))
  BY <1>3, ConsumeTyped
<1>7. PICK g \in Funds : g = c + (n - sold.rest) * px
  <2>1. PICK d \in Nat : d = n - sold.rest
    BY <1>5
  <2>2. PICK e \in Nat : e = d * px
    OBVIOUS
  <2>3. c + e \in Funds
    BY <1>1, <2>2 DEF Funds
  <2> QED BY <2>1, <2>2, <2>3
<1>8. PICK v, z : v = sold.lots /\ z = Consume(w, o, n)
  OBVIOUS
<1>9. Sell(t, o, n, px) = [cash |-> g, lots |-> v, rows |-> z, next |-> k]
  <2>1. Sell(t, o, n, px) = [t EXCEPT !.cash = c + (n - sold.rest) * px, !.lots = v, !.rows = z]
    BY <1>1, <1>2, <1>4, <1>8 DEF Sell
  <2>2. Sell(t, o, n, px) = [t EXCEPT !.cash = g, !.lots = v, !.rows = z]
    BY <1>7, <2>1
  <2> QED BY <1>3, <2>2
<1>10. v \in Seq(SimLots)
  <2>1. LotsTo(k) \subseteq SimLots
    BY DEF LotsTo
  <2> QED BY <1>5, <1>8, <2>1
<1>11. PICK a : a = [cash |-> g, lots |-> v, rows |-> z, next |-> k]
  OBVIOUS
<1>12. a \in Accounts(m)
  BY <1>1, <1>5, <1>6, <1>8, <1>10, <1>11 DEF Accounts
<1>13. Leveraged(a) = Qty(sold.lots, LevLots) /\ Leveraged(t) = Qty(s, LevLots)
  BY <1>2, <1>8, <1>11 DEF Leveraged
<1> QED BY <1>5, <1>9, <1>11, <1>12, <1>13

\* The plan a fill is made of.
Fillable == plan.orders \in Seq(Orders) /\ plan.grid \in Nat /\ Len(hist) \in Nat

\* A price to sell at.
LEMMA TakeProfitNat == ASSUME NEW px \in Nat, NEW g \in Nat PROVE TakeProfit(px, g) \in Nat
<1>1. PICK a \in Nat : a = px * (20 + g)
  OBVIOUS
<1>2. (a + 20 - 1) \div 20 \in Nat
  OBVIOUS
<1> QED BY <1>1, <1>2 DEF TakeProfit, CeilDiv

\* A purchase keeps the account one, and its leverage too when it is of the fund.
LEMMA BuyKeeps ==
    ASSUME Fillable, NEW t \in Accounts(Len(hist) + 1), NEW o \in Orders, o.side = "buy", NEW px \in Nat
    PROVE  /\ Buy(t, o, px) \in Accounts(Len(hist) + 1)
           /\ o \notin LevBuys => Leveraged(Buy(t, o, px)) <= Leveraged(t)
<1>0. PICK m \in Nat : m = Len(hist) + 1
  BY DEF Fillable
<1>1. PICK k, c : k \in Nat \ {0} /\ c \in Funds /\ k = t.next /\ c = t.cash
  BY DEF Accounts
<1>2. PICK s, w : s = t.lots /\ w = t.rows
  OBVIOUS
<1>3. s \in Seq(LotsTo(k)) /\ w \in Seq(Rows(m)) /\ t = [cash |-> c, lots |-> s, rows |-> w, next |-> k]
  BY <1>0, <1>1, <1>2 DEF Accounts
<1>4. PICK tag : tag = Tag(o, px)
  OBVIOUS
<1>5. /\ tag.tp \in Nat /\ tag.kind \in LotKinds /\ (o.inst = LEV <=> tag.kind \in LevKinds)
  <2>1. TakeProfit(px, plan.grid) \in Nat
    BY TakeProfitNat DEF Fillable
  <2>2. o.inst = LEV => o.kind \in LevKinds
    BY DEF Orders
  <2>3. "grid" \notin LevKinds /\ "core" \notin LevKinds
    BY DEF LevKinds, Tactical
  <2> QED BY <1>4, <2>1, <2>2, <2>3 DEF Tag, LotKinds, NoPrice
<1>6. PICK q \in Nat \ {0} : q = o.qty
  BY DEF Orders
<1>7. PICK lot : lot = [id |-> k, inst |-> o.inst, qty |-> q, price |-> px,
                        kind |-> tag.kind, tp |-> tag.tp, tag |-> tag.tp]
  OBVIOUS
<1>8. PICK row : row = [inst |-> o.inst, qty |-> q, price |-> px, at |-> m, kind |-> tag.kind, tp |-> tag.tp]
  OBVIOUS
<1>9. o.inst \in {K200, LEV}
  BY DEF Orders
<1>10. lot \in SimLots /\ lot.id = k /\ lot.inst = o.inst
  BY <1>1, <1>5, <1>7, <1>9 DEF SimLots
<1>11. row \in Rows(m)
  BY <1>5, <1>8, <1>9 DEF Rows
<1>12. PICK cost \in Nat : cost = q * px
  OBVIOUS
<1>13. Buy(t, o, px) = IF cost > c THEN t
                       ELSE [cash |-> c - cost, lots |-> Append(s, lot), rows |-> Append(w, row), next |-> k + 1]
  BY <1>0, <1>1, <1>2, <1>4, <1>6, <1>7, <1>8, <1>12 DEF Buy, WithLot
<1>14. CASE cost > c
  <2>1. Buy(t, o, px) = t
    BY <1>13, <1>14
  <2>2. Leveraged(t) \in Nat
    <3>1. s \in Seq(SimLots)
      BY <1>2 DEF Accounts
    <3> QED BY <1>2, <3>1, SimLotsCount, QtyNat DEF Leveraged
  <2> QED BY <2>1, <2>2
<1>15. CASE ~(cost > c)
  <2>1. PICK a : a = [cash |-> c - cost, lots |-> Append(s, lot), rows |-> Append(w, row), next |-> k + 1]
    OBVIOUS
  <2>2. LotsTo(k) \subseteq LotsTo(k + 1) /\ LotsTo(k) \subseteq SimLots /\ lot \in LotsTo(k + 1)
    BY <1>10 DEF LotsTo, SimLots
  <2>3. s \in Seq(LotsTo(k + 1)) /\ s \in Seq(SimLots)
    BY <1>3, <2>2
  <2>4. Append(s, lot) \in Seq(LotsTo(k + 1)) /\ Append(s, lot) \in Seq(SimLots)
    BY <1>10, <2>2, <2>3
  <2>5. Append(w, row) \in Seq(Rows(m))
    BY <1>3, <1>11
  <2>6. c - cost \in Funds /\ k + 1 \in Nat \ {0}
    BY <1>1, <1>15 DEF Funds
  <2>7. a \in Accounts(m)
    BY <2>1, <2>4, <2>5, <2>6 DEF Accounts
  <2>8. Qty(Append(s, lot), LevLots) = Qty(s, LevLots) + IF lot \in LevLots THEN lot.qty ELSE 0
    BY <1>10, <2>3, SimLotsCount, QtyAppend
  <2>9. Qty(s, LevLots) \in Nat
    BY <2>3, SimLotsCount, QtyNat
  <2>10. o \notin LevBuys => lot \notin LevLots
    BY <1>10 DEF LevBuys, LevLots
  <2>11. Leveraged(a) = Qty(Append(s, lot), LevLots) /\ Leveraged(t) = Qty(s, LevLots)
    BY <1>2, <2>1 DEF Leveraged
  <2>12. o \notin LevBuys => Leveraged(a) <= Leveraged(t)
    BY <2>8, <2>9, <2>10, <2>11
  <2> QED BY <1>0, <1>13, <1>15, <2>1, <2>7, <2>12
<1> QED BY <1>14, <1>15

\* What one order does in a pass.
LEMMA FillKeeps ==
    ASSUME Fillable, NEW n, NEW t \in Accounts(Len(hist) + 1), NEW o \in Orders, NEW b, BarOK(b)
    PROVE  /\ Fill(n, t, o, b) \in Accounts(Len(hist) + 1)
           /\ o \notin LevBuys => Leveraged(Fill(n, t, o, b)) <= Leveraged(t)
<1>0. PICK m \in Nat : m = Len(hist) + 1
  BY DEF Fillable
<1>1. OpenOf(o, b) \in Nat /\ Least(b.open, o.price) \in Nat /\ Most(b.open, o.price) \in Nat /\ o.qty \in Nat
  <2>1. PICK x \in Nat, y \in Nat, z \in Nat : x = b.open /\ y = b.lopen /\ z = o.price
    BY DEF BarOK, Orders
  <2> QED BY <2>1 DEF OpenOf, Least, Most, Orders
<1>2. CASE n = 1 /\ Is(o, "market", "sell")
  <2>1. Fill(n, t, o, b) = Sell(t, o, o.qty, OpenOf(o, b))
    BY <1>2 DEF Fill
  <2>2. PICK q \in Nat, px \in Nat : q = o.qty /\ px = OpenOf(o, b)
    BY <1>1
  <2>3. Sell(t, o, q, px) \in Accounts(m) /\ Leveraged(Sell(t, o, q, px)) <= Leveraged(t)
    BY <1>0, SellKeeps
  <2> QED BY <1>0, <2>1, <2>2, <2>3
<1>3. CASE n = 2 /\ Is(o, "market", "buy") /\ ~(o.kind = "boot" /\ GapHit(b))
  <2>1. Fill(n, t, o, b) = Buy(t, o, OpenOf(o, b)) /\ o.side = "buy"
    BY <1>3 DEF Fill, Is
  <2> QED BY <1>1, <2>1, BuyKeeps
<1>4. CASE n = 3 /\ Is(o, "limit", "buy") /\ b.low <= o.price /\ ~GapHit(b)
  <2>1. Fill(n, t, o, b) = Buy(t, o, Least(b.open, o.price)) /\ o.side = "buy"
    BY <1>4 DEF Fill, Is
  <2> QED BY <1>1, <2>1, BuyKeeps
<1>5. CASE n = 4 /\ Is(o, "limit", "sell") /\ b.high >= o.price /\ (\E l \in Range(t.lots) : l.id = o.lot)
  <2>1. PICK lot : lot = CHOOSE l \in Range(t.lots) : l.id = o.lot
    OBVIOUS
  <2>2. lot \in Range(t.lots)
    BY <1>5, <2>1
  <2>3. Range(t.lots) \subseteq SimLots
    BY DEF Accounts, Range
  <2>4. lot.qty \in Nat
    BY <2>2, <2>3 DEF SimLots
  <2>5. PICK q \in Nat, px \in Nat : q = Least(o.qty, lot.qty) /\ px = Most(b.open, o.price)
    BY <1>1, <2>4 DEF Least
  <2>6. Fill(n, t, o, b) = Sell(t, o, q, px)
    BY <1>5, <2>1, <2>5 DEF Fill
  <2>7. Sell(t, o, q, px) \in Accounts(m) /\ Leveraged(Sell(t, o, q, px)) <= Leveraged(t)
    BY <1>0, SellKeeps
  <2> QED BY <1>0, <2>6, <2>7
<1>6. CASE /\ ~(n = 1 /\ Is(o, "market", "sell"))
           /\ ~(n = 2 /\ Is(o, "market", "buy") /\ ~(o.kind = "boot" /\ GapHit(b)))
           /\ ~(n = 3 /\ Is(o, "limit", "buy") /\ b.low <= o.price /\ ~GapHit(b))
           /\ ~(n = 4 /\ Is(o, "limit", "sell") /\ b.high >= o.price /\ (\E l \in Range(t.lots) : l.id = o.lot))
  <2>1. Fill(n, t, o, b) = t
    BY <1>6 DEF Fill
  <2>2. Leveraged(t) \in Nat
    <3>1. t.lots \in Seq(SimLots)
      BY DEF Accounts
    <3> QED BY <3>1, SimLotsCount, QtyNat DEF Leveraged
  <2> QED BY <2>1, <2>2
<1> QED BY <1>2, <1>3, <1>4, <1>5, <1>6

\* The liquidation at the open leaves no leverage.
LEMMA FillLiquidates ==
    ASSUME Fillable, NEW t \in Accounts(Len(hist) + 1), NEW n \in Nat, n >= Leveraged(t), NEW b, BarOK(b)
    PROVE  Leveraged(Fill(1, t, LiquidateAll(n), b)) = 0
<1>0. PICK m \in Nat : m = Len(hist) + 1
  BY DEF Fillable
<1>1. PICK o : o = LiquidateAll(n)
  OBVIOUS
<1>2. o.inst = LEV /\ o.side = "sell" /\ o.type = "market" /\ o.qty = n /\ o.kind = "lev_liq"
  BY <1>1 DEF LiquidateAll, Order
<1>3. PICK px \in Nat : px = OpenOf(o, b)
  BY DEF OpenOf, BarOK
<1>4. Fill(1, t, o, b) = Sell(t, o, n, px)
  BY <1>2, <1>3 DEF Fill, Is
<1>5. Leveraged(Sell(t, o, n, px)) = 0
  <2>1. t \in Accounts(m)
    BY <1>0
  <2>2. (o.kind = "lev_liq" /\ o.inst = LEV /\ n >= Leveraged(t)) => Leveraged(Sell(t, o, n, px)) = 0
    BY <2>1, SellKeeps
  <2> QED BY <1>2, <2>2
<1> QED BY <1>1, <1>4, <1>5

-----------------------------------------------------------------------------
(* A pass over the plan. *)

Passing(n, t, b, a) ==
    a[0] = t /\ \A i \in 1..Len(plan.orders) : a[i] = Fill(n, a[i - 1], plan.orders[i], b)

\* A pass goes through the orders, and keeps the account one.
LEMMA PassSteps ==
    ASSUME Fillable, NEW n, NEW t \in Accounts(Len(hist) + 1), NEW b, BarOK(b)
    PROVE  \E a : /\ Passing(n, t, b, a) /\ Pass(n, t, b) = a[Len(plan.orders)]
                  /\ \A i \in 0..Len(plan.orders) : a[i] \in Accounts(Len(hist) + 1)
<1> DEFINE s == plan.orders
           P(g) == g = [v \in SUBSET (1..Len(s)) |-> IF v = {} THEN t
                          ELSE Fill(n, g[v \ {Max(v)}], s[Max(v)], b)]
<1>1. PICK m \in Nat : m = Len(s) /\ \A i \in 1..m : s[i] \in Orders
  BY DEF Fillable
<1>2. Pass(n, t, b) = (CHOOSE f : P(f))[1..m]
  <2>1. DOMAIN s = 1..m
    BY <1>1 DEF Fillable
  <2> QED BY <1>1, <2>1 DEF Pass, FoldLeft, MapThenFoldSet
<1> HIDE DEF s
<1>a. PICK A : A = Accounts(Len(hist) + 1)
  OBVIOUS
<1>3. PICK step : step = [p \in A \X (1..m) |-> Fill(n, p[1], s[p[2]], b)]
  OBVIOUS
<1>4. \A a \in A : \A i \in 1..m : step[<<a, i>>] = Fill(n, a, s[i], b) /\ step[<<a, i>>] \in A
  <2> TAKE a \in A
  <2> TAKE i \in 1..m
  <2>1. step[<<a, i>>] = Fill(n, a, s[i], b)
    BY <1>3
  <2>2. PICK o \in Orders : o = s[i]
    BY <1>1
  <2>3. Fill(n, a, o, b) \in A
    BY <1>a, FillKeeps
  <2> QED BY <2>1, <2>2, <2>3
<1>6. t \in A
  BY <1>a
<1>7. PICK h : Folded(h, t, step, m)
  BY FoldExists
<1>8. \A v \in SUBSET (1..m) : h[v] \in A
  BY <1>4, <1>6, <1>7, FoldTyped
<1>9. P(h)
  <2>1. h = [v \in SUBSET (1..m) |-> IF v = {} THEN t ELSE step[<<h[v \ {Max(v)}], Max(v)>>]]
    BY <1>7 DEF Folded
  <2>2. \A v \in SUBSET (1..m) : v # {} =>
          step[<<h[v \ {Max(v)}], Max(v)>>] = Fill(n, h[v \ {Max(v)}], s[Max(v)], b)
    <3> SUFFICES ASSUME NEW v \in SUBSET (1..m), v # {}
        PROVE step[<<h[v \ {Max(v)}], Max(v)>>] = Fill(n, h[v \ {Max(v)}], s[Max(v)], b)
      OBVIOUS
    <3>1. Max(v) \in 1..m
      BY MaxMember
    <3>2. h[v \ {Max(v)}] \in A
      BY <1>8
    <3> QED BY <1>4, <3>1, <3>2
  <2>3. h = [v \in SUBSET (1..m) |-> IF v = {} THEN t ELSE Fill(n, h[v \ {Max(v)}], s[Max(v)], b)]
    BY <2>1, <2>2
  <2> QED BY <1>1, <2>3
<1>10. PICK g : g = (CHOOSE f : P(f)) /\ P(g)
  <2> HIDE DEF P
  <2> QED BY <1>9
<1>11. \A v \in SUBSET (1..m) : g[v] = IF v = {} THEN t ELSE Fill(n, g[v \ {Max(v)}], s[Max(v)], b)
  BY <1>1, <1>10
<1>12. PICK a : a = [i \in 0..m |-> g[1..i]]
  OBVIOUS
<1>13. a[0] = t
  <2>1. 1..0 = {} /\ 0 \in 0..m
    OBVIOUS
  <2>2. a[0] = g[{}]
    BY <1>12, <2>1
  <2>3. {} \in SUBSET (1..m)
    OBVIOUS
  <2> HIDE DEF P
  <2> QED BY <1>11, <2>2, <2>3
<1>14. \A i \in 1..m : a[i] = Fill(n, a[i - 1], s[i], b)
  <2> TAKE i \in 1..m
  <2>1. Max(1..i) = i /\ (1..i) \ {i} = 1..(i - 1) /\ 1..i # {}
    <3>1. i \in Nat \ {0}
      OBVIOUS
    <3> QED BY <3>1, MaxUpto
  <2>2. 1..i \in SUBSET (1..m)
    OBVIOUS
  <2>3. a[i] = g[1..i] /\ a[i - 1] = g[1..(i - 1)]
    BY <1>12
  <2> HIDE DEF P
  <2> QED BY <1>11, <2>1, <2>2, <2>3
<1>15. Passing(n, t, b, a)
  BY <1>1, <1>13, <1>14 DEF Passing, s
<1>16. a[m] = (CHOOSE f : P(f))[1..m]
  <2>1. m \in 0..m
    OBVIOUS
  <2> HIDE DEF P
  <2> QED BY <1>10, <1>12, <2>1
<1>17. \A i \in 0..m : a[i] \in A
  <2>1. PICK G : G = {i \in 0..m : a[i] \in A}
    OBVIOUS
  <2>2. 0 \in G
    BY <1>6, <1>13, <2>1
  <2>3. \A i \in 1..m : i - 1 \in G => i \in G
    <3> SUFFICES ASSUME NEW i \in 1..m, i - 1 \in G PROVE i \in G
      OBVIOUS
    <3>1. PICK c \in A, o \in Orders : c = a[i - 1] /\ o = s[i]
      BY <1>1, <2>1
    <3>2. Fill(n, c, o, b) \in A
      BY <1>a, FillKeeps
    <3> HIDE DEF P
    <3> QED BY <1>14, <2>1, <3>1, <3>2
  <2>4. \A i \in 0..m : i \in G
    BY <2>2, <2>3, PlacesAll
  <2> QED BY <2>1, <2>4
<1>18. Pass(n, t, b) = a[Len(plan.orders)]
  <2> HIDE DEF P
  <2> QED BY <1>1, <1>2, <1>16 DEF s
<1>19. \A i \in 0..Len(plan.orders) : a[i] \in Accounts(Len(hist) + 1)
  BY <1>1, <1>a, <1>17 DEF s
<1> QED BY <1>15, <1>18, <1>19

\* The plan buys no leverage.
NoneBought == \A i \in 1..Len(plan.orders) : plan.orders[i] \notin LevBuys

\* A plan without purchases of the pair.
LEMMA NoneBoughtIs == ASSUME Fillable, Qty(plan.orders, LevBuys) = 0 PROVE NoneBought
<1>1. PICK s \in Seq(Orders) : s = plan.orders
  BY DEF Fillable
<1>2. \A i \in 1..Len(s) : s[i] \in LevBuys => s[i].qty <= 0
  BY <1>1, OrdersCount, QtyNat
<1>3. \A i \in 1..Len(s) : s[i].qty \in Nat \ {0}
  <2>1. \A o \in Orders : o.qty \in Nat \ {0}
    BY DEF Orders
  <2> QED BY <2>1
<1>4. \A i \in 1..Len(s) : s[i] \notin LevBuys
  BY <1>2, <1>3
<1> QED BY <1>1, <1>4 DEF NoneBought

\* A pass keeps an account one, and without purchases its leverage does not grow; what
\* the liquidation has sold stays sold.
LEMMA PassKeeps ==
    ASSUME Fillable, NEW n, NEW t \in Accounts(Len(hist) + 1), NEW b, BarOK(b)
    PROVE  /\ Pass(n, t, b) \in Accounts(Len(hist) + 1)
           /\ NoneBought /\ Leveraged(t) = 0 => Leveraged(Pass(n, t, b)) = 0
           /\ (NoneBought /\ n = 1 /\ Opens(plan.orders, LiquidateAll(Leveraged(t)))) => Leveraged(Pass(n, t, b)) = 0
<1>1. PICK m \in Nat : m = Len(plan.orders) /\ \A i \in 1..m : plan.orders[i] \in Orders
  BY DEF Fillable
<1>2. PICK A : A = Accounts(Len(hist) + 1)
  OBVIOUS
<1>3. PICK a : Passing(n, t, b, a) /\ Pass(n, t, b) = a[m] /\ \A i \in 0..m : a[i] \in A
  BY <1>1, <1>2, PassSteps
<1>4. \A c \in A : Leveraged(c) \in Nat
  <2>1. \A c \in A : c.lots \in Seq(SimLots)
    BY <1>2 DEF Accounts
  <2> QED BY <2>1, SimLotsCount, QtyNat DEF Leveraged
<1>5. ASSUME NoneBought, NEW i \in 1..m, Leveraged(a[i - 1]) = 0 PROVE Leveraged(a[i]) = 0
  <2>1. PICK c \in A, o \in Orders : c = a[i - 1] /\ o = plan.orders[i]
    BY <1>1, <1>3
  <2>2. o \notin LevBuys
    BY <1>1, <1>5, <2>1 DEF NoneBought
  <2>3. PICK d : d = Fill(n, c, o, b)
    OBVIOUS
  <2>4. Leveraged(d) <= Leveraged(c)
    BY <1>2, <2>2, <2>3, FillKeeps
  <2>5. a[i] = d
    BY <1>1, <1>3, <2>1, <2>3 DEF Passing
  <2>6. a[i] \in A
    BY <1>3
  <2>7. Leveraged(d) \in Nat /\ Leveraged(c) = 0
    BY <1>4, <1>5, <2>1, <2>5, <2>6
  <2> QED BY <2>4, <2>5, <2>7
<1>6. ASSUME NoneBought, Leveraged(t) = 0 PROVE Leveraged(a[m]) = 0
  <2>1. PICK G : G = {i \in 0..m : Leveraged(a[i]) = 0}
    OBVIOUS
  <2>2. 0 \in G
    BY <1>3, <1>6, <2>1 DEF Passing
  <2>3. \A i \in 1..m : i - 1 \in G => i \in G
    BY <1>5, <1>6, <2>1
  <2>4. \A i \in 0..m : i \in G
    BY <2>2, <2>3, PlacesAll
  <2> QED BY <2>1, <2>4
<1>7. ASSUME NoneBought, n = 1, Opens(plan.orders, LiquidateAll(Leveraged(t))) PROVE Leveraged(a[m]) = 0
  <2>1. PICK q \in Nat : q = Leveraged(t)
    BY <1>2, <1>4
  <2>2. m >= 1 /\ plan.orders[1] = LiquidateAll(q)
    BY <1>1, <1>7, <2>1 DEF Opens
  <2>3. a[1] = Fill(1, t, LiquidateAll(q), b)
    <3>1. 1 \in 1..m /\ 1 - 1 = 0
      BY <2>2
    <3> QED BY <1>1, <1>3, <1>7, <2>2, <3>1 DEF Passing
  <2>4. Leveraged(a[1]) = 0
    <3>1. q >= Leveraged(t)
      BY <2>1
    <3> QED BY <2>3, <3>1, FillLiquidates
  <2>5. PICK G : G = {i \in 0..m : i = 0 \/ Leveraged(a[i]) = 0}
    OBVIOUS
  <2>6. 0 \in G
    BY <2>5
  <2>7. \A i \in 1..m : i - 1 \in G => i \in G
    <3> SUFFICES ASSUME NEW i \in 1..m, i - 1 \in G PROVE i \in G
      OBVIOUS
    <3>1. CASE i = 1
      BY <2>4, <2>5, <3>1
    <3>2. CASE i # 1
      <4>1. Leveraged(a[i - 1]) = 0
        BY <2>5, <3>2
      <4> QED BY <1>5, <1>7, <2>5, <4>1
    <3> QED BY <3>1, <3>2
  <2>8. \A i \in 0..m : i \in G
    BY <2>6, <2>7, PlacesAll
  <2>9. m \in 0..m /\ m # 0
    BY <2>2
  <2> QED BY <2>5, <2>8, <2>9
<1>8. a[m] \in A
  BY <1>3
<1> QED BY <1>2, <1>3, <1>6, <1>7, <1>8

-----------------------------------------------------------------------------
(* The conversion of the lots when the regime changes. *)

\* It changes kinds and prices only: the lots stay lots, and what is held stays held.
LEMMA ConvertKeeps ==
    ASSUME NEW k \in Nat, NEW s \in Seq(LotsTo(k)), NEW old, NEW new, NEW b, BarOK(b)
    PROVE  /\ Convert(s, old, new, b) \in Seq(LotsTo(k))
           /\ Qty(Convert(s, old, new, b), FundLots) = Qty(s, FundLots)
           /\ Qty(Convert(s, old, new, b), LevLots) = Qty(s, LevLots)
<1> DEFINE one(l) ==
            IF l.inst # K200 \/ old = new THEN l
            ELSE IF new = "BULL" /\ flags.noTp /\ l.kind = "grid"
                 THEN [l EXCEPT !.kind = "core", !.tp = NoPrice]
            ELSE IF old = "BULL" /\ l.kind = "core"
                 THEN [l EXCEPT !.kind = "grid", !.tp = TakeProfit(b.close, b.grid)]
            ELSE l
<1>1. PICK m \in Nat : m = Len(s) /\ \A i \in 1..m : s[i] \in LotsTo(k)
  OBVIOUS
<1>2. PICK t : t = Convert(s, old, new, b)
  OBVIOUS
<1>3. t = [i \in 1..m |-> one(s[i])]
  BY <1>1, <1>2 DEF Convert
<1>4. PICK p \in Nat : p = TakeProfit(b.close, b.grid)
  BY TakeProfitNat DEF BarOK
<1>5. ASSUME NEW l \in LotsTo(k)
      PROVE  one(l) \in LotsTo(k) /\ one(l).inst = l.inst /\ one(l).qty = l.qty
  <2>1. /\ l.id \in Nat \ {0} /\ l.inst \in {K200, LEV} /\ l.price \in Nat /\ l.kind \in LotKinds
        /\ l.tp \in Nat /\ l.tag \in Nat /\ (l.inst = LEV <=> l.kind \in LevKinds) /\ l.id < k
        /\ l.qty \in Nat \ {0}
        /\ l = [id |-> l.id, inst |-> l.inst, qty |-> l.qty, price |-> l.price, kind |-> l.kind,
                tp |-> l.tp, tag |-> l.tag]
    BY DEF LotsTo, SimLots
  <2>2. "core" \in LotKinds /\ "grid" \in LotKinds /\ "core" \notin LevKinds /\ "grid" \notin LevKinds
    BY DEF LotKinds, LevKinds, Tactical
  <2>3. PICK x, y : x = [l EXCEPT !.kind = "core", !.tp = NoPrice] /\ y = [l EXCEPT !.kind = "grid", !.tp = p]
    OBVIOUS
  <2>4. one(l) = l \/ (l.inst = K200 /\ (one(l) = x \/ one(l) = y))
    BY <1>4, <2>3
  <2>5. ASSUME l.inst = K200 PROVE x \in LotsTo(k) /\ x.inst = l.inst /\ x.qty = l.qty
    <3>1. x = [id |-> l.id, inst |-> l.inst, qty |-> l.qty, price |-> l.price, kind |-> "core",
                tp |-> NoPrice, tag |-> l.tag]
      BY <2>1, <2>3
    <3>2. x \in SimLots
      BY <2>1, <2>2, <2>5, <3>1, Instruments DEF SimLots, NoPrice
    <3> QED BY <2>1, <3>1, <3>2 DEF LotsTo
  <2>6. ASSUME l.inst = K200 PROVE y \in LotsTo(k) /\ y.inst = l.inst /\ y.qty = l.qty
    <3>1. y = [id |-> l.id, inst |-> l.inst, qty |-> l.qty, price |-> l.price, kind |-> "grid",
                tp |-> p, tag |-> l.tag]
      BY <2>1, <2>3
    <3>2. y \in SimLots
      BY <1>4, <2>1, <2>2, <2>6, <3>1, Instruments DEF SimLots
    <3> QED BY <2>1, <3>1, <3>2 DEF LotsTo
  <2> HIDE DEF one
  <2> QED BY <2>4, <2>5, <2>6
<1>6. \A i \in 1..m : t[i] \in LotsTo(k) /\ t[i].inst = s[i].inst /\ t[i].qty = s[i].qty
  <2> HIDE DEF one
  <2> QED BY <1>1, <1>3, <1>5
<1>7. t \in Seq(LotsTo(k)) /\ Len(t) = m
  <2> HIDE DEF one
  <2> QED BY <1>3, <1>6
<1>8. Counting(LotsTo(k)) /\ LotsTo(k) \subseteq SimLots
  BY LotsLotted, LottedCount
<1>9. \A i \in 1..m : (t[i] \in FundLots <=> s[i] \in FundLots) /\ (t[i] \in LevLots <=> s[i] \in LevLots)
  BY <1>1, <1>6, <1>8 DEF FundLots, LevLots
<1>10. Qty(t, FundLots) = Qty(s, FundLots)
  BY <1>1, <1>6, <1>7, <1>8, <1>9, QtySame
<1>11. Qty(t, LevLots) = Qty(s, LevLots)
  BY <1>1, <1>6, <1>7, <1>8, <1>9, QtySame
<1> QED BY <1>2, <1>7, <1>10, <1>11

-----------------------------------------------------------------------------
(* The simulation. *)

PlannerTypes ==
    /\ {flags.noTp, flags.lever, flags.gap, flags.marketBoot} \subseteq BOOLEAN
    /\ cash \in Int /\ fees \in Nat /\ cash + fees >= 0
    /\ nextLot \in Nat \ {0} /\ lots \in Seq(LotsTo(nextLot)) /\ rows \in Seq(Rows(Len(hist)))
    /\ hist \in Seq(Bars) /\ Len(hist) <= LastBar
    /\ regimes \in Seq(Regimes \cup {"NONE"}) /\ Len(regimes) = Len(hist)
    /\ regime \in Regimes /\ first \in 1..LastBar

\* A plan of the evening is made for the lots as they are, on the last bar.
PlanCurrent ==
    \/ plan = NoPlan
    \/ plan = [ok |-> FALSE, planned |-> TRUE]
    \/ Len(hist) >= first /\ PlanMade(plan, Fund, Pair, bar)

PlannerInv == PlannerTypes /\ PlanCurrent

\* The lots and the bar are what a plan expects.
LEMMA InvSettles == PlannerTypes => Settled /\ (Len(hist) >= 1 => bar \in Bars)
<1> SUFFICES ASSUME PlannerTypes PROVE Settled /\ (Len(hist) >= 1 => bar \in Bars)
  OBVIOUS
<1>1. LotsTo(nextLot) \subseteq SimLots
  BY DEF LotsTo
<1>2. lots \in Seq(SimLots)
  BY <1>1 DEF PlannerTypes
<1>3. Len(hist) >= 1 => bar \in Bars
  BY DEF bar, PlannerTypes
<1> QED BY <1>2, <1>3 DEF Settled, PlannerTypes

\* The simulation starts without a plan.
LEMMA PlannerStarts == PlannerInit => PlannerInv
<1> SUFFICES ASSUME PlannerInit PROVE PlannerInv
  OBVIOUS
<1>1. Seeds \subseteq Seq([inst : {K200, LEV}, qty : Nat \ {0}, price : Nat]) /\ Capital \in Nat /\ Starts \subseteq 1..LastBar
      /\ LastBar \in Nat /\ {flags.noTp, flags.lever, flags.gap, flags.marketBoot} \subseteq BOOLEAN
  BY PlannerAssumption DEF PlannerInit
<1>a. PICK H : H = [inst : {K200, LEV}, qty : Nat \ {0}, price : Nat]
  OBVIOUS
<1>b. seed \in Seq(H)
  BY <1>1, <1>a DEF PlannerInit
<1>2. PICK n \in Nat : n = Len(seed) /\ \A i \in 1..n : seed[i] \in H
  BY <1>b
<1>3. ASSUME NEW i \in 1..n PROVE SeedLot(i) \in LotsTo(n + 1) /\ SeedRow(i) \in Rows(0)
  <2>1. PICK h : h = seed[i] /\ h.inst \in {K200, LEV} /\ h.qty \in Nat \ {0} /\ h.price \in Nat
    <3>1. seed[i] \in H
      BY <1>2
    <3> QED BY <1>a, <3>1
  <2>2. PICK kind : kind = IF h.inst = K200 THEN "core" ELSE "lev_strat"
    OBVIOUS
  <2>3. kind \in LotKinds /\ (h.inst = LEV <=> kind \in LevKinds)
    BY <2>1, <2>2, Instruments DEF LotKinds, LevKinds, Tactical
  <2>4. SeedLot(i) = [id |-> i, inst |-> h.inst, qty |-> h.qty, price |-> h.price, kind |-> kind,
                      tp |-> 0, tag |-> 0]
    BY <2>1, <2>2 DEF SeedLot, NoPrice
  <2>5. SeedLot(i) \in SimLots /\ SeedLot(i).id = i
    BY <2>1, <2>3, <2>4 DEF SimLots
  <2>6. SeedRow(i) = [inst |-> h.inst, qty |-> h.qty, price |-> h.price, at |-> 0, kind |-> "none", tp |-> 0]
    BY <2>1 DEF SeedRow, NoPrice
  <2>7. SeedRow(i) \in Rows(0)
    BY <2>1, <2>6 DEF Rows
  <2> QED BY <2>5, <2>7 DEF LotsTo
<1>4. lots = [i \in 1..n |-> SeedLot(i)] /\ rows = [i \in 1..n |-> SeedRow(i)] /\ nextLot = n + 1
  BY <1>2 DEF PlannerInit
<1>5. lots \in Seq(LotsTo(n + 1)) /\ rows \in Seq(Rows(0))
  BY <1>3, <1>4
<1>6. hist = <<>> /\ regimes = <<>> /\ Len(hist) = 0 /\ Len(regimes) = 0
  BY DEF PlannerInit
<1>7. hist \in Seq(Bars) /\ regimes \in Seq(Regimes \cup {"NONE"})
  <2>1. PICK e : e = <<>>
    OBVIOUS
  <2>2. e \in Seq(Bars) /\ e \in Seq(Regimes \cup {"NONE"})
    BY <2>1
  <2> QED BY <1>6, <2>1, <2>2
<1>8. cash \in Nat /\ fees = 0 /\ first \in 1..LastBar /\ regime \in Regimes /\ 0 <= LastBar /\ plan = NoPlan
  BY <1>1 DEF PlannerInit, Regimes
<1>9. nextLot \in Nat \ {0} /\ lots \in Seq(LotsTo(nextLot)) /\ rows \in Seq(Rows(Len(hist)))
  BY <1>4, <1>5, <1>6
<1>10. PlannerTypes
  BY <1>1, <1>6, <1>7, <1>8, <1>9 DEF PlannerTypes
<1> QED BY <1>8, <1>10 DEF PlannerInv, PlanCurrent

\* Rows of the first bars are rows of all of them.
LEMMA RowsLater ==
    ASSUME NEW m \in Nat, NEW s \in Seq(Rows(m))
    PROVE  s \in Seq(Rows(m + 1))
<1>1. Rows(m) \subseteq Rows(m + 1)
  BY DEF Rows
<1> QED BY <1>1

\* A bar of the warm-up.
LEMMA WarmupKeeps == PlannerInv /\ Warmup => PlannerInv'
<1> SUFFICES ASSUME PlannerInv, Warmup PROVE PlannerInv'
  OBVIOUS
<1>1. PlannerTypes /\ PlanCurrent
  BY DEF PlannerInv
<1>2. PICK b \in Bars : /\ hist' = Append(hist, b) /\ regimes' = Append(regimes, "NONE")
                        /\ regime' = IF Len(hist) + 1 < first THEN RegimeAt(regime, Len(hist) + 1, b) ELSE regime
  BY DEF Warmup
<1>3. /\ Len(hist) < first /\ UNCHANGED <<flags, first, cash, fees, lots, nextLot, plan, rows>>
  BY DEF Warmup
<1>4. PICK n \in Nat : n = Len(hist) /\ n + 1 <= LastBar
  <2>1. LastBar \in Nat
    BY PlannerAssumption
  <2>2. first \in 1..LastBar /\ Len(hist) \in Nat
    BY <1>1 DEF PlannerTypes
  <2> QED BY <1>3, <2>1, <2>2
<1>5. hist' \in Seq(Bars) /\ Len(hist') = n + 1
  BY <1>1, <1>2, <1>4 DEF PlannerTypes
<1>6. regimes' \in Seq(Regimes \cup {"NONE"}) /\ Len(regimes') = n + 1
  BY <1>1, <1>2, <1>4 DEF PlannerTypes
<1>7. regime' \in Regimes
  BY <1>1, <1>2 DEF PlannerTypes, RegimeAt, NextRegime, Regimes
<1>8. rows \in Seq(Rows(n + 1))
  BY <1>1, <1>4, RowsLater DEF PlannerTypes
<1>9. PlannerTypes'
  BY <1>1, <1>3, <1>4, <1>5, <1>6, <1>7, <1>8 DEF PlannerTypes
<1>10. plan' = NoPlan \/ plan' = [ok |-> FALSE, planned |-> TRUE]
  <2>1. ~(n >= first)
    BY <1>1, <1>3, <1>4 DEF PlannerTypes
  <2> QED BY <1>1, <1>3, <1>4, <2>1 DEF PlanCurrent
<1>11. PlanCurrent'
  BY <1>10 DEF PlanCurrent, NoPlan
<1> QED BY <1>9, <1>11 DEF PlannerInv

\* The plan of an evening.
LEMMA MakePlanKeeps == PlannerInv /\ MakePlan => PlannerInv'
<1> SUFFICES ASSUME PlannerInv, MakePlan PROVE PlannerInv'
  OBVIOUS
<1>1. PlannerTypes
  BY DEF PlannerInv
<1>2. Len(hist) >= first /\ UNCHANGED <<flags, first, hist, regimes, cash, fees, nextLot, rows>>
  BY DEF MakePlan
<1>3. CASE Len(hist) < FirstOk
  <2>1. plan' = [NoPlan EXCEPT !.planned = TRUE] /\ regime' = "NEUTRAL" /\ lots' = lots
    BY <1>3 DEF MakePlan
  <2>2. plan' = [ok |-> FALSE, planned |-> TRUE]
    BY <2>1 DEF NoPlan
  <2>3. regime' \in Regimes
    BY <2>1 DEF Regimes
  <2>4. PlannerTypes'
    BY <1>1, <1>2, <2>1, <2>3 DEF PlannerTypes
  <2> QED BY <2>2, <2>4 DEF PlannerInv, PlanCurrent
<1>4. CASE ~(Len(hist) < FirstOk)
  <2>1. PICK p, b, r, f, m : p = PlanOf(bar) /\ b = bar /\ r = regime /\ f = Fund /\ m = Pair
    OBVIOUS
  <2>2. plan' = p /\ regime' = p.regime /\ lots' = Convert(lots, r, p.regime, b)
    BY <1>4, <2>1 DEF MakePlan
  <2>3. Settled /\ BarOK(b) /\ Priced(b) /\ Worth(cash, lots, b) >= 0
    <3>1. Len(hist) >= 1
      BY <1>1, <1>2 DEF PlannerTypes
    <3>2. Worth(cash, lots, bar) >= 0
      BY DEF MakePlan, Solvent
    <3> QED BY <1>1, <2>1, <3>1, <3>2, InvSettles, BarsOK
  <2>4. PlanMade(p, f, m, b)
    BY <2>1, <2>3, PlanHolds
  <2>5. PICK k \in Nat : k = nextLot
    BY <1>1 DEF PlannerTypes
  <2>6. PICK s \in Seq(LotsTo(k)) : s = lots
    BY <1>1, <2>5 DEF PlannerTypes
  <2>7. PICK t : t = Convert(s, r, p.regime, b)
    OBVIOUS
  <2>8. t \in Seq(LotsTo(k)) /\ Qty(t, FundLots) = Qty(s, FundLots) /\ Qty(t, LevLots) = Qty(s, LevLots)
    BY <2>3, <2>7, ConvertKeeps
  <2>9. lots' = t /\ lots' \in Seq(LotsTo(k))
    BY <2>2, <2>6, <2>7, <2>8
  <2>10. Fund' = f /\ Pair' = m
    <3>1. Qty(lots', FundLots) = f /\ Qty(lots', LevLots) = m
      BY <2>1, <2>6, <2>8, <2>9 DEF Fund, Pair
    <3>2. Fund' = Qty(lots', FundLots) /\ Pair' = Qty(lots', LevLots)
      BY DEF Fund, Pair
    <3> QED BY <3>1, <3>2
  <2>11. bar' = b
    BY <1>2, <2>1 DEF bar
  <2>12. PlanMade(plan, Fund, Pair, bar)'
    BY <1>2, <2>2, <2>4, <2>10, <2>11 DEF PlanMade, Sold, Cut, Leaves
  <2>13. p.regime \in Regimes
    BY <2>4 DEF PlanMade
  <2>14. PlannerTypes'
    BY <1>1, <1>2, <2>2, <2>5, <2>9, <2>13 DEF PlannerTypes
  <2> QED BY <1>2, <2>12, <2>14 DEF PlannerInv, PlanCurrent
<1> QED BY <1>3, <1>4

\* The account of a plan that can be filled.
AccountNow == [cash |-> cash, lots |-> lots, rows |-> rows, next |-> nextLot]
Filled(b) == Pass(4, Pass(3, Pass(2, Pass(1, AccountNow, b), b), b), b)

\* The account before the fills, whatever cash it has.
LEMMA AccountHolds == ASSUME PlannerTypes PROVE AccountNow \in Accounts(Len(hist) + 1)
<1>1. PICK n \in Nat : n = Len(hist)
  BY DEF PlannerTypes
<1>2. rows \in Seq(Rows(n + 1))
  BY <1>1, RowsLater DEF PlannerTypes
<1>3. lots \in Seq(SimLots)
  BY InvSettles DEF Settled
<1>4. cash \in Funds
  BY DEF PlannerTypes, Funds
<1> QED BY <1>1, <1>2, <1>3, <1>4 DEF AccountNow, Accounts, PlannerTypes

\* A plan that stands is one for the holdings of now, and can be filled.
LEMMA PlanFills ==
    ASSUME PlannerInv, plan.ok
    PROVE  Fillable /\ Len(hist) >= 1 /\ PlanMade(plan, Fund, Pair, bar)
<1>1. PlanMade(plan, Fund, Pair, bar) /\ Len(hist) >= first
  BY DEF PlannerInv, PlanCurrent, NoPlan
<1>2. first >= 1 /\ first \in Nat /\ Len(hist) \in Nat
  BY PlannerAssumption DEF PlannerInv, PlannerTypes
<1>3. Len(hist) >= 1
  BY <1>1, <1>2
<1>4. BarOK(bar)
  BY <1>3, InvSettles, BarsOK DEF PlannerInv
<1>5. plan.grid \in Nat /\ plan.orders \in Seq(Orders)
  BY <1>1, <1>4 DEF PlanMade, BarOK
<1> QED BY <1>1, <1>2, <1>3, <1>5 DEF Fillable

\* Filled, the account is one again; without leverage if the market does not rise.
LEMMA FilledHolds ==
    ASSUME PlannerInv, plan.ok, NEW b \in Bars
    PROVE  /\ Filled(b) \in Accounts(Len(hist) + 1)
           /\ flags.lever /\ plan.regime # "BULL" => Leveraged(Filled(b)) = 0
<1>1. Fillable /\ PlanMade(plan, Fund, Pair, bar)
  BY PlanFills
<1>2. BarOK(b)
  BY BarsOK
<1>3. PICK t \in Accounts(Len(hist) + 1) : t = AccountNow
  BY AccountHolds DEF PlannerInv
<1>4. PICK t1, t2, t3, t4 : /\ t1 = Pass(1, t, b) /\ t2 = Pass(2, t1, b)
                            /\ t3 = Pass(3, t2, b) /\ t4 = Pass(4, t3, b)
  OBVIOUS
<1>5. t1 \in Accounts(Len(hist) + 1)
  BY <1>1, <1>2, <1>4, PassKeeps
<1>6. t2 \in Accounts(Len(hist) + 1)
  BY <1>1, <1>2, <1>4, <1>5, PassKeeps
<1>7. t3 \in Accounts(Len(hist) + 1)
  BY <1>1, <1>2, <1>4, <1>6, PassKeeps
<1>8. t4 \in Accounts(Len(hist) + 1)
  BY <1>1, <1>2, <1>4, <1>7, PassKeeps
<1>9. ASSUME flags.lever, plan.regime # "BULL" PROVE Leveraged(t4) = 0
  <2>1. Qty(plan.orders, LevBuys) = 0 /\ (Pair = 0 \/ Opens(plan.orders, LiquidateAll(Pair)))
    BY <1>1, <1>9 DEF PlanMade, Leaves
  <2>2. NoneBought
    BY <1>1, <2>1, NoneBoughtIs
  <2>3. Leveraged(t) = Pair
    BY <1>3 DEF Leveraged, AccountNow, Pair
  <2>4. Leveraged(t1) = 0
    <3>1. CASE Pair = 0
      <4>1. NoneBought /\ Leveraged(t) = 0
        BY <2>2, <2>3, <3>1
      <4> QED BY <1>1, <1>2, <1>4, <4>1, PassKeeps
    <3>2. CASE Opens(plan.orders, LiquidateAll(Pair))
      <4>1. NoneBought /\ 1 = 1 /\ Opens(plan.orders, LiquidateAll(Leveraged(t)))
        BY <2>2, <2>3, <3>2
      <4> QED BY <1>1, <1>2, <1>4, <4>1, PassKeeps
    <3> QED BY <2>1, <3>1, <3>2
  <2>5. Leveraged(t2) = 0
    BY <1>1, <1>2, <1>4, <1>5, <2>2, <2>4, PassKeeps
  <2>6. Leveraged(t3) = 0
    BY <1>1, <1>2, <1>4, <1>6, <2>2, <2>5, PassKeeps
  <2> QED BY <1>1, <1>2, <1>4, <1>7, <2>2, <2>6, PassKeeps
<1> QED BY <1>3, <1>4, <1>8, <1>9 DEF Filled

\* What a trade leaves.
LEMMA TradeDoes ==
    ASSUME Trade
    PROVE  \E b \in Bars :
             LET after == IF plan.ok THEN Filled(b) ELSE AccountNow
                 fee == HoldingFee(after.lots, b)
             IN  cash' = after.cash - fee /\ lots' = after.lots /\ rows' = after.rows /\ nextLot' = after.next
                 /\ fees' = (IF after.cash >= 0 THEN 0 ELSE fees) + fee
                 /\ hist' = Append(hist, b)
  BY DEF Trade, Filled, AccountNow

\* The fee for what is held is a whole amount.
LEMMA HoldingFeeNat == ASSUME NEW s \in Seq(SimLots), NEW b, BarOK(b) PROVE HoldingFee(s, b) \in Nat
<1>1. PICK x \in Nat, y \in Nat : x = Held(s, K200) /\ y = Held(s, LEV)
  BY HeldIs
<1>2. PICK c \in Nat, l \in Nat, d \in Nat \ {0} : c = b.close /\ l = b.lclose /\ d = HoldDiv
  BY PlannerAssumption DEF BarOK
<1>3. PICK v \in Nat : v = 0 + x * c + y * l
  <2>1. x * c \in Nat /\ y * l \in Nat
    OBVIOUS
  <2> QED BY <2>1
<1>4. (v + d - 1) \div d \in Nat
  OBVIOUS
<1>5. HoldingFee(s, b) = (v + d - 1) \div d
  BY <1>1, <1>2, <1>3 DEF HoldingFee, Worth, CeilDiv
<1> QED BY <1>4, <1>5

\* The fills of the next bar.
LEMMA TradeKeeps == PlannerInv /\ Trade => PlannerInv'
<1> SUFFICES ASSUME PlannerInv, Trade PROVE PlannerInv'
  OBVIOUS
<1>1. PlannerTypes
  BY DEF PlannerInv
<1>2. PICK b \in Bars :
             LET after == IF plan.ok THEN Filled(b) ELSE AccountNow
                 fee == HoldingFee(after.lots, b)
             IN  cash' = after.cash - fee /\ lots' = after.lots /\ rows' = after.rows /\ nextLot' = after.next
                 /\ fees' = (IF after.cash >= 0 THEN 0 ELSE fees) + fee
                 /\ hist' = Append(hist, b)
  BY TradeDoes
<1>3. PICK a : a = IF plan.ok THEN Filled(b) ELSE AccountNow
  OBVIOUS
<1>4. /\ cash' = a.cash - HoldingFee(a.lots, b) /\ lots' = a.lots /\ rows' = a.rows /\ nextLot' = a.next
      /\ fees' = (IF a.cash >= 0 THEN 0 ELSE fees) + HoldingFee(a.lots, b) /\ hist' = Append(hist, b)
  BY <1>2, <1>3
<1>5. a \in Accounts(Len(hist) + 1)
  BY <1>1, <1>3, AccountHolds, FilledHolds
<1>6. plan' = NoPlan /\ regimes' = Append(regimes, regime) /\ UNCHANGED <<flags, first, regime>> /\ Len(hist) < LastBar
  BY DEF Trade
<1>7. PICK n \in Nat : n = Len(hist) /\ n + 1 <= LastBar
  <2>1. LastBar \in Nat /\ Len(hist) \in Nat
    BY <1>1, PlannerAssumption DEF PlannerTypes
  <2> QED BY <1>6, <2>1
<1>8. hist' \in Seq(Bars) /\ Len(hist') = n + 1
  BY <1>1, <1>4, <1>7 DEF PlannerTypes
<1>9. regimes' \in Seq(Regimes \cup {"NONE"}) /\ Len(regimes') = n + 1
  BY <1>1, <1>6, <1>7 DEF PlannerTypes
<1>10. nextLot' \in Nat \ {0} /\ lots' \in Seq(LotsTo(nextLot')) /\ rows' \in Seq(Rows(n + 1))
  BY <1>4, <1>5, <1>7 DEF Accounts
<1>a. cash' \in Int /\ fees' \in Nat /\ cash' + fees' >= 0
  <2>1. PICK f \in Nat : f = HoldingFee(a.lots, b)
    <3>1. a.lots \in Seq(SimLots) /\ BarOK(b)
      BY <1>5, BarsOK DEF Accounts
    <3> QED BY <3>1, HoldingFeeNat
  <2>2. PICK c \in Int, k \in Int, u \in Nat : c = a.cash /\ k = cash /\ u = fees
    BY <1>1, <1>5 DEF PlannerTypes, Accounts, Funds
  <2>3. (c >= 0 \/ c >= k) /\ k + u >= 0
    BY <1>1, <1>5, <2>2 DEF PlannerTypes, Accounts, Funds
  <2>4. cash' = c - f /\ fees' = (IF c >= 0 THEN 0 ELSE u) + f
    BY <1>4, <2>1, <2>2
  <2> QED BY <2>3, <2>4
<1>11. PlannerTypes'
  BY <1>1, <1>6, <1>7, <1>8, <1>9, <1>10, <1>a DEF PlannerTypes
<1> QED BY <1>6, <1>11 DEF PlannerInv, PlanCurrent, NoPlan

\* The inductive invariant of a simulation.
LEMMA PlannerSteps == PlannerInv /\ [PlannerNext]_plannerVars => PlannerInv'
<1> SUFFICES ASSUME PlannerInv, [PlannerNext]_plannerVars PROVE PlannerInv'
  OBVIOUS
<1>1. CASE Warmup
  BY <1>1, WarmupKeeps
<1>2. CASE MakePlan
  BY <1>2, MakePlanKeeps
<1>3. CASE Trade
  BY <1>3, TradeKeeps
<1>4. CASE UNCHANGED plannerVars
  <2>1. UNCHANGED <<flags, first, hist, regimes, regime, cash, fees, lots, nextLot, plan, rows>>
    BY <1>4 DEF plannerVars
  <2>2. PlannerTypes'
    BY <2>1 DEF PlannerInv, PlannerTypes
  <2>3. Fund' = Fund /\ Pair' = Pair /\ bar' = bar
    BY <2>1 DEF Fund, Pair, bar
  <2>4. PlanCurrent'
    BY <2>1, <2>3 DEF PlannerInv, PlanCurrent, PlanMade, Sold, Cut, Leaves
  <2> QED BY <2>2, <2>4 DEF PlannerInv
<1> QED BY <1>1, <1>2, <1>3, <1>4 DEF PlannerNext

\* Types.
LEMMA TypesGiven == PlannerInv => PlannerTypeOK
<1> SUFFICES ASSUME PlannerInv PROVE PlannerTypeOK
  OBVIOUS
<1>1. PlannerTypes
  BY DEF PlannerInv
<1>2. Range(lots) \subseteq LotsTo(nextLot) /\ Range(rows) \subseteq Rows(Len(hist))
  BY <1>1 DEF PlannerTypes, Range
<1>3. nextLot \in Nat /\ Len(hist) \in Nat
  BY <1>1 DEF PlannerTypes
<1>4. ASSUME NEW l \in Range(lots)
      PROVE  /\ l.id \in 1..(nextLot - 1) /\ l.qty \in Nat \ {0} /\ l.price \in Nat /\ l.tp \in Nat
             /\ IF l.inst = LEV THEN l.kind \in LevKinds ELSE l.kind \in {"grid", "core"}
  <2>1. /\ l.id \in Nat \ {0} /\ l.id < nextLot /\ l.qty \in Nat \ {0} /\ l.price \in Nat /\ l.tp \in Nat
        /\ l.kind \in LotKinds /\ (l.inst = LEV <=> l.kind \in LevKinds)
    BY <1>2 DEF LotsTo, SimLots
  <2>2. l.id \in 1..(nextLot - 1)
    BY <1>3, <2>1
  <2> QED BY <2>1, <2>2 DEF LotKinds
<1>5. ASSUME NEW r \in Range(rows) PROVE r.qty \in Nat \ {0} /\ r.at \in 0..Len(hist)
  BY <1>2 DEF Rows
<1> QED BY <1>1, <1>4, <1>5 DEF PlannerTypeOK, PlannerTypes

\* What the invariant says of the orders.
LEMMA OrdersGiven ==
    ASSUME PlannerInv, plan.ok
    PROVE  /\ Planned(K200, "sell") = Qty(plan.orders, FundSells) /\ Planned(LEV, "sell") = Qty(plan.orders, LevSells)
           /\ Planned(LEV, "buy") = Qty(plan.orders, LevBuys)
           /\ Held(lots, K200) = Fund /\ Held(lots, LEV) = Pair
<1>1. Settled
  BY InvSettles DEF PlannerInv
<1>2. plan.orders \in Seq(Orders)
  BY PlanFills DEF Fillable
<1> QED BY <1>1, <1>2, OrderedIs, Holdings DEF Planned

\* What is sold of each instrument.
LEMMA OffersGiven == PlannerInv => EveryShareOffered
<1> SUFFICES ASSUME PlannerInv, plan.ok PROVE EveryShareOffered
  BY DEF EveryShareOffered, SellsCovered
<1>1. Sold(plan, Fund, Pair)
  BY PlanFills DEF PlanMade
<1> QED BY <1>1, OrdersGiven DEF Sold, EveryShareOffered, SellsCovered

\* What is bought, against the wallet.
LEMMA WalletGiven == PlannerInv => BuysWithinWallet
<1> SUFFICES ASSUME PlannerInv PROVE BuysWithinWallet
  OBVIOUS
<1>1. plan.ok => 20 * Spent(plan.orders, bar) <= Most(0, plan.wallet)
  BY PlanFills DEF PlanMade
<1>2. cash + fees >= 0
  BY DEF PlannerInv, PlannerTypes
<1> QED BY <1>1, <1>2, TypesGiven DEF BuysWithinWallet

\* What the leverage comes to.
LEMMA CapGiven == PlannerInv => LeverageCapped
<1> SUFFICES ASSUME PlannerInv, plan.ok, flags.lever, plan.regime = "BULL" PROVE LeverageCapped
  BY DEF LeverageCapped
<1>1. Cut(plan, Pair, bar)
  BY PlanFills DEF PlanMade
<1>2. (Pair + Qty(plan.orders, LevBuys) - Qty(plan.orders, LevSells)) * Unit(bar) - 2 * plan.wLev * plan.equity
         <= Most(Multiple * Band * plan.equity, Unit(bar) - 1)
  BY <1>1 DEF Cut
<1> QED BY <1>2, OrdersGiven DEF LeverageCapped, Unit

\* A simulation keeps its account and its plan in order: cash that only the fees for holding take
\* below zero, lots and rows of whole shares, and a plan made for the lots as they are
\* (backtest.run_backtest).
THEOREM PlannerSafe == PlannerSpec => []PlannerInv
BY PlannerStarts, PlannerSteps, PTL DEF PlannerSpec

\* What a plan sells of an instrument is never more than what is held, and in a neutral
\* market every share of the fund is offered (planner.py:220).
THEOREM SharesOffered == PlannerSpec => []EveryShareOffered
BY PlannerStarts, PlannerSteps, OffersGiven, PTL DEF PlannerSpec

\* The purchases of a plan share one wallet (planner.py:196), and never take the cash below zero:
\* what is missing is at most the fees since the fills last left none missing (backtest.py:340).
THEOREM WalletKept == PlannerSpec => []BuysWithinWallet
BY PlannerStarts, PlannerSteps, WalletGiven, PTL DEF PlannerSpec

\* Leverage after a plan is at most its target and the band (planner.py:370).
THEOREM CapKept == PlannerSpec => []LeverageCapped
BY PlannerStarts, PlannerSteps, CapGiven, PTL DEF PlannerSpec

\* Once filled, the plan of a market that does not rise leaves no leverage.
LEMMA LiquidatedStep == PlannerInv /\ [PlannerNext]_plannerVars => NoLeverageOutsideBull
<1> SUFFICES ASSUME PlannerInv, [PlannerNext]_plannerVars, plan.ok, flags.lever, plan.regime # "BULL", ~plan'.planned
    PROVE  Held(lots', LEV) = 0
  BY DEF NoLeverageOutsideBull
<1>1. plan.planned
  BY PlanFills DEF PlanMade
<1>2. Trade
  BY <1>1 DEF PlannerNext, Warmup, MakePlan, plannerVars
<1>3. PICK b \in Bars :
             LET after == IF plan.ok THEN Filled(b) ELSE AccountNow
                 fee == HoldingFee(after.lots, b)
             IN  cash' = after.cash - fee /\ lots' = after.lots /\ rows' = after.rows /\ nextLot' = after.next
                 /\ fees' = (IF after.cash >= 0 THEN 0 ELSE fees) + fee
                 /\ hist' = Append(hist, b)
  BY <1>2, TradeDoes
<1>4. PICK a : a = Filled(b) /\ lots' = a.lots
  BY <1>3
<1>5. a \in Accounts(Len(hist) + 1) /\ Leveraged(a) = 0
  BY <1>4, FilledHolds
<1>6. PICK s \in Seq(SimLots) : s = a.lots
  BY <1>5 DEF Accounts
<1>7. Held(s, LEV) = Qty(s, LevLots)
  BY HeldIs
<1> QED BY <1>4, <1>5, <1>6, <1>7 DEF Leveraged

\* The day after its plan no leverage is left in a market that does not rise: the liquidation is
\* the first order and takes the whole pair, and nothing is bought beside it (planner.py:207).
THEOREM Liquidated == PlannerSpec => [][NoLeverageOutsideBull]_plannerVars
<1>1. PlannerInv /\ [PlannerNext]_plannerVars => [NoLeverageOutsideBull]_plannerVars
  BY LiquidatedStep
<1> QED BY PlannerStarts, PlannerSteps, <1>1, PTL DEF PlannerSpec
-----------------------------------------------------------------------------
(* The simulations of TF and LTM: the account through the trades of an open. *)

AccountRec == [cash : Nat, due : Nat, q1 : Nat, qL : Nat, charged : Nat, flows : Int]
\* Nothing of an account is negative, and what it owes explains its cash.
Even(a) == a \in AccountRec /\ a.cash - a.due = TrendCapital + a.flows - a.charged
Legs == {"q1", "qL"}

\* What can be bought costs no more than there is.
LEMMA Affordable ==
    ASSUME NEW n \in Nat, NEW px \in Nat \ {0}, NEW k \in Nat, k <= n \div px
    PROVE  k * px <= n /\ n \div px \in Nat
<1>1. n = px * (n \div px) + (n % px) /\ n % px \in 0 .. px - 1 /\ n \div px \in Int
  OBVIOUS
<1>2. PICK d \in Int : d = n \div px
  BY <1>1
<1>3. PICK m \in Nat : m = n % px
  BY <1>1
<1>4. n = px * d + m /\ px * d \in Int
  BY <1>1, <1>2, <1>3
<1>5. d >= k
  BY <1>2
<1>6. PICK j \in Nat : j = d - k
  BY <1>5
<1>7. k * px + j * px = px * d /\ k * px \in Nat /\ j * px \in Nat
  <2>1. \A x, y, z \in Int : x * (y + z) = y * x + z * x
    OBVIOUS
  <2>2. px * (k + j) = k * px + j * px
    BY <2>1
  <2> QED BY <1>6, <2>2
<1> QED BY <1>2, <1>4, <1>5, <1>7

\* Fees put off are paid out of the cash.
LEMMA SettleEven ==
    ASSUME NEW a, Even(a)
    PROVE  Even(Settle(a)) /\ Settle(a).q1 = a.q1 /\ Settle(a).qL = a.qL
<1>1. a \in AccountRec /\ a.cash - a.due = TrendCapital + a.flows - a.charged /\ TrendCapital \in Nat
  BY TrendAssumption DEF Even, TrendAssumption
<1>2. PICK p \in Nat : p = Least(a.due, a.cash) /\ p <= a.due /\ p <= a.cash
  BY <1>1 DEF Least, AccountRec
<1>3. PICK s : s = Settle(a)
  OBVIOUS
<1>4. s = [a EXCEPT !.cash = @ - p, !.due = @ - p]
  BY <1>2, <1>3 DEF Settle
<1>6. PICK x \in Nat, y \in Nat : x = a.cash - p /\ y = a.due - p
  BY <1>1, <1>2 DEF AccountRec
<1>7. s = [a EXCEPT !.cash = x, !.due = y]
  BY <1>4, <1>6
<1>5. /\ s \in AccountRec /\ s.cash = a.cash - p /\ s.due = a.due - p /\ s.flows = a.flows /\ s.charged = a.charged
      /\ s.q1 = a.q1 /\ s.qL = a.qL
  BY <1>1, <1>6, <1>7 DEF AccountRec
<1> QED BY <1>1, <1>2, <1>3, <1>5 DEF Even, AccountRec

\* A change of one leg and of the cash.
Change(a, leg, x, y, z) == [a EXCEPT ![leg] = x, !.cash = y, !.flows = z]
\* It leaves the rest as it was.
LEMMA Changed ==
    ASSUME NEW a \in AccountRec, NEW x \in Nat, NEW y \in Nat, NEW z \in Int, NEW leg \in Legs, NEW m,
           m = Change(a, leg, x, y, z)
    PROVE  /\ m \in AccountRec /\ m.cash = y /\ m.flows = z /\ m.due = a.due /\ m.charged = a.charged
           /\ m[leg] = x /\ \A other \in Legs : other # leg => m[other] = a[other]
<1>1. CASE leg = "q1"
  BY <1>1 DEF AccountRec, Legs, Change
<1>2. CASE leg = "qL"
  BY <1>2 DEF AccountRec, Legs, Change
<1> QED BY <1>1, <1>2 DEF Legs

\* A sale takes what is held at most, and its proceeds are counted.
LEMMA SellEven ==
    ASSUME NEW a, Even(a), NEW n \in Int, NEW px \in Nat, NEW leg \in Legs, NEW s, s = SellShares(a, n, px, leg)
    PROVE  /\ Even(s)
           /\ leg = "q1" => s.q1 = (IF n <= 0 THEN a.q1 ELSE Most(0, a.q1 - n)) /\ s.qL = a.qL
           /\ leg = "qL" => s.qL = (IF n <= 0 THEN a.qL ELSE Most(0, a.qL - n)) /\ s.q1 = a.q1
<1>1. a \in AccountRec /\ a.cash - a.due = TrendCapital + a.flows - a.charged /\ TrendCapital \in Nat
  BY TrendAssumption DEF Even, TrendAssumption
<1>0. a[leg] \in Nat
  BY <1>1 DEF AccountRec, Legs
<1>2. PICK k \in Int : k = Least(n, a[leg]) /\ k <= n /\ k <= a[leg] /\ (n > a[leg] => k = a[leg]) /\ (n <= a[leg] => k = n)
  BY <1>0 DEF Least
<1>3. CASE k <= 0
  <2>1. s = a
    BY <1>2, <1>3 DEF SellShares
  <2> QED BY <1>0, <1>2, <1>3, <2>1 DEF Most, Legs
<1>4. CASE k > 0
  <2>1. PICK v \in Nat : v = k * px
    BY <1>4
  <2>2. PICK m : m = [a EXCEPT ![leg] = @ - k, !.cash = @ + v, !.flows = @ + v]
    OBVIOUS
  <2>3. s = Settle(m)
    <3>1. ~(Least(n, a[leg]) <= 0)
      BY <1>2, <1>4
    <3>2. s = Settle([a EXCEPT ![leg] = @ - Least(n, a[leg]), !.cash = @ + Least(n, a[leg]) * px,
                               !.flows = @ + Least(n, a[leg]) * px])
      BY <3>1, Zenon DEF SellShares
    <3> QED BY <1>2, <2>1, <2>2, <3>2, Zenon
  <2>4. /\ m \in AccountRec /\ m.cash = a.cash + v /\ m.flows = a.flows + v /\ m.due = a.due /\ m.charged = a.charged
        /\ m[leg] = a[leg] - k /\ \A other \in Legs : other # leg => m[other] = a[other]
    <3>1. PICK x \in Nat, y \in Nat, z \in Int : x = a[leg] - k /\ y = a.cash + v /\ z = a.flows + v
      BY <1>0, <1>1, <1>2, <1>4 DEF AccountRec
    <3>2. m = Change(a, leg, x, y, z)
      BY <2>2, <3>1 DEF Change
    <3>3. /\ m \in AccountRec /\ m.cash = y /\ m.flows = z /\ m.due = a.due /\ m.charged = a.charged
          /\ m[leg] = x /\ \A other \in Legs : other # leg => m[other] = a[other]
      <4>1. a \in AccountRec /\ x \in Nat /\ y \in Nat /\ z \in Int /\ leg \in Legs
        BY <1>1, <3>1
      <4> QED BY <4>1, <3>2, Changed
    <3> QED BY <3>1, <3>3
  <2>5. Even(m)
    <3>1. a.cash \in Nat /\ a.due \in Nat /\ a.charged \in Nat /\ a.flows \in Int
      BY <1>1 DEF AccountRec
    <3>2. m.cash - m.due = TrendCapital + m.flows - m.charged
      BY <1>1, <2>1, <2>4, <3>1
    <3> QED BY <2>4, <3>2 DEF Even
  <2>6. Even(s) /\ \A l \in Legs : s[l] = m[l]
    BY <2>3, <2>5, SettleEven DEF Legs
  <2>7. n > 0 /\ a[leg] - k = Most(0, a[leg] - n)
    BY <1>0, <1>2, <1>4 DEF Most
  <2>8. CASE leg = "q1"
    BY <2>4, <2>6, <2>7, <2>8 DEF Legs
  <2>9. CASE leg = "qL"
    BY <2>4, <2>6, <2>7, <2>9 DEF Legs
  <2> QED BY <2>6, <2>8, <2>9 DEF Legs
<1> QED BY <1>3, <1>4

\* A purchase is cut down to the cash.
LEMMA BuyEven ==
    ASSUME NEW a, Even(a), NEW n \in Nat, NEW px \in Nat \ {0}, NEW leg \in Legs, NEW s, s = BuyShares(a, n, px, leg)
    PROVE  /\ Even(s)
           /\ leg = "q1" => (n = 0 => s.q1 = a.q1) /\ s.qL = a.qL
           /\ leg = "qL" => (n = 0 => s.qL = a.qL) /\ s.q1 = a.q1
           /\ n = 0 => s.flows = a.flows
<1>1. a \in AccountRec /\ a.cash - a.due = TrendCapital + a.flows - a.charged /\ TrendCapital \in Nat
  BY TrendAssumption DEF Even, TrendAssumption
<1>7. a[leg] \in Nat
  BY <1>1 DEF AccountRec, Legs
<1>2. a.cash \in Nat /\ a.cash \div px \in Nat
  BY <1>1 DEF AccountRec
<1>3. PICK k \in Nat : k = Least(n, a.cash \div px) /\ k <= a.cash \div px /\ k <= n
  BY <1>2 DEF Least
<1>4. PICK v \in Nat : v = k * px /\ v <= a.cash
  BY <1>2, <1>3, Affordable
<1>5. s = [a EXCEPT ![leg] = @ + k, !.cash = @ - v, !.flows = @ - v]
  <2>1. s = [a EXCEPT ![leg] = @ + Least(n, a.cash \div px), !.cash = @ - Least(n, a.cash \div px) * px,
                      !.flows = @ - Least(n, a.cash \div px) * px]
    BY Zenon DEF BuyShares
  <2> QED BY <1>3, <1>4, <2>1, Zenon
<1>6. /\ s \in AccountRec /\ s.cash = a.cash - v /\ s.flows = a.flows - v /\ s.due = a.due /\ s.charged = a.charged
      /\ s[leg] = a[leg] + k /\ \A other \in Legs : other # leg => s[other] = a[other]
  <2>1. PICK x \in Nat, y \in Nat, z \in Int : x = a[leg] + k /\ y = a.cash - v /\ z = a.flows - v
    BY <1>1, <1>4, <1>7 DEF AccountRec
  <2>2. s = Change(a, leg, x, y, z)
    BY <1>5, <2>1 DEF Change
  <2>3. /\ s \in AccountRec /\ s.cash = y /\ s.flows = z /\ s.due = a.due /\ s.charged = a.charged
        /\ s[leg] = x /\ \A other \in Legs : other # leg => s[other] = a[other]
    <3>1. a \in AccountRec /\ x \in Nat /\ y \in Nat /\ z \in Int /\ leg \in Legs
      BY <1>1, <2>1
    <3> QED BY <2>2, <3>1, Changed
  <2> QED BY <2>1, <2>3
<1>8. Even(s)
  BY <1>1, <1>6 DEF Even, AccountRec
<1>11. n = 0 => s.flows = a.flows
  BY <1>1, <1>3, <1>4, <1>6 DEF AccountRec
<1>9. CASE leg = "q1"
  BY <1>3, <1>6, <1>7, <1>8, <1>9, <1>11 DEF Legs
<1>10. CASE leg = "qL"
  BY <1>3, <1>6, <1>7, <1>8, <1>10, <1>11 DEF Legs
<1> QED BY <1>9, <1>10 DEF Legs

\* A sale of the fund.
LEMMA SellFund ==
    ASSUME NEW a, Even(a), NEW n \in Int, NEW px \in Nat, NEW s, s = SellShares(a, n, px, "q1")
    PROVE  /\ Even(s) /\ s.qL = a.qL
           /\ s.q1 = IF n <= 0 THEN a.q1 ELSE Most(0, a.q1 - n)
<1>1. "q1" \in Legs
  BY DEF Legs
<1>2. Even(s)
  BY <1>1, SellEven
<1>3. s.qL = a.qL
  BY <1>1, SellEven
<1> QED BY <1>1, <1>2, <1>3, SellEven

\* A sale of the pair.
LEMMA SellPair ==
    ASSUME NEW a, Even(a), NEW n \in Int, NEW px \in Nat, NEW s, s = SellShares(a, n, px, "qL")
    PROVE  /\ Even(s) /\ s.q1 = a.q1
           /\ s.qL = IF n <= 0 THEN a.qL ELSE Most(0, a.qL - n)
<1>1. "qL" \in Legs
  BY DEF Legs
<1>2. Even(s)
  BY <1>1, SellEven
<1>3. s.q1 = a.q1
  BY <1>1, SellEven
<1> QED BY <1>1, <1>2, <1>3, SellEven

\* A purchase of n shares for account a ends in account s: the fund, the pair.
Buys1(a, n, px, s) == n \in Nat /\ px \in Nat \ {0} /\ s = BuyShares(a, n, px, "q1")
BuysL(a, n, px, s) == n \in Nat /\ px \in Nat \ {0} /\ s = BuyShares(a, n, px, "qL")

\* A purchase of the fund,
LEMMA BuyFund ==
    ASSUME NEW a, Even(a), NEW n, NEW px, NEW s, Buys1(a, n, px, s)
    PROVE  /\ Even(s) /\ s.qL = a.qL
           /\ n = 0 => s.q1 = a.q1 /\ s.flows = a.flows
<1>1. "q1" \in Legs /\ px \in Nat \ {0} /\ n \in Nat /\ s = BuyShares(a, n, px, "q1")
  BY DEF Legs, Buys1
<1>2. Even(s)
  BY <1>1, BuyEven
<1>3. s.qL = a.qL
  BY <1>1, BuyEven
<1> QED BY <1>1, <1>2, <1>3, BuyEven

\* and of the pair.
LEMMA BuyPair ==
    ASSUME NEW a, Even(a), NEW n, NEW px, NEW s, BuysL(a, n, px, s)
    PROVE  /\ Even(s) /\ s.q1 = a.q1
           /\ n = 0 => s.qL = a.qL /\ s.flows = a.flows
<1>1. "qL" \in Legs /\ px \in Nat \ {0} /\ n \in Nat /\ s = BuyShares(a, n, px, "qL")
  BY DEF Legs, BuysL
<1>2. Even(s)
  BY <1>1, BuyEven
<1>3. s.q1 = a.q1
  BY <1>1, BuyEven
<1> QED BY <1>1, <1>2, <1>3, BuyEven

\* What is invested of an amount.
LEMMA InvestedIs == ASSUME NEW n \in Int PROVE Invested(n) \in Int /\ (n >= 0 => Invested(n) \in Nat)
<1>1. Reserve \in 0..99
  BY TrendAssumption DEF TrendAssumption
<1>2. PICK m \in Int : m = n * (100 - Reserve) /\ (n >= 0 => m >= 0)
  BY <1>1
<1> QED BY <1>2 DEF Invested

\* A bar of the series.
LEMMA BarIs ==
    ASSUME NEW b \in TrendBars
    PROVE  /\ b.o1 \in Nat \ {0} /\ b.c1 \in Nat \ {0} /\ b.oL \in Nat \ {0} /\ b.cL \in Nat \ {0}
           /\ b.side \in -2..2 /\ b.up \in BOOLEAN /\ b.drop \in BOOLEAN
BY TrendAssumption DEF TrendAssumption

\* A change that only sells.
Left(n, d) == IF d < 0 THEN Most(0, n + d) ELSE n

\* The trades of an open: the books stay even, and a leg that is not bought keeps what
\* its sale leaves.
LEMMA OpenEven ==
    ASSUME NEW a, Even(a), NEW b \in TrendBars, pending \in Int \X Int
    PROVE  /\ Even(AtOpen(a, b))
           /\ pending[1] <= 0 => AtOpen(a, b).q1 = Left(a.q1, pending[1])
           /\ pending[2] <= 0 => AtOpen(a, b).qL = Left(a.qL, pending[2])
<1>1. PICK d \in Int, e \in Int : d = pending[1] /\ e = pending[2]
  OBVIOUS
<1>20. PICK g \in Nat, h \in Nat, i \in Nat : g = Most(0, -d) /\ h = Most(0, -e) /\ i = Most(0, e)
  BY DEF Most
<1>22. PICK p \in Nat \ {0}, m \in Nat \ {0} : p = b.o1 /\ m = b.oL
  BY BarIs
<1>2. PICK s : s = SellShares(a, g, p, "q1")
  OBVIOUS
<1>3. PICK t : t = SellShares(s, h, m, "qL")
  OBVIOUS
<1>4. PICK w : w = IF formula = "TF" /\ d > 0 THEN Invested(a.cash) \div b.o1 ELSE Most(0, d)
  OBVIOUS
<1>5. PICK u : u = BuyShares(t, w, p, "q1")
  OBVIOUS
<1>6. PICK v : v = BuyShares(u, i, m, "qL")
  OBVIOUS
<1>7. AtOpen(a, b) = v
  BY <1>1, <1>2, <1>3, <1>4, <1>5, <1>6, <1>20, <1>22, Zenon DEF AtOpen
<1>8. b.o1 \in Nat /\ b.oL \in Nat /\ b.o1 \in Nat \ {0} /\ b.oL \in Nat \ {0}
  BY BarIs
<1>9. g \in Int /\ h \in Int /\ i \in Nat /\ (e <= 0 => i = 0) /\ (d <= 0 => w = 0 /\ g = -d) /\ (e <= 0 => h = -e)
  BY <1>1, <1>4, <1>20 DEF Most
<1>10. w \in Nat
  <2>1. a.cash \in Nat
    BY DEF Even, AccountRec
  <2>2. Invested(a.cash) \in Nat
    BY <2>1, InvestedIs
  <2>3. Invested(a.cash) \div b.o1 \in Nat
    BY <1>8, <2>2
  <2> QED BY <1>1, <1>4, <2>3 DEF Most
<1>12. Even(s) /\ s.q1 = (IF g <= 0 THEN a.q1 ELSE Most(0, a.q1 - g)) /\ s.qL = a.qL
  BY <1>2, <1>9, <1>22, SellFund
<1>13. Even(t) /\ t.qL = (IF h <= 0 THEN s.qL ELSE Most(0, s.qL - h)) /\ t.q1 = s.q1
  BY <1>3, <1>9, <1>22, <1>12, SellPair
<1>14. Even(u) /\ (w = 0 => u.q1 = t.q1) /\ u.qL = t.qL
  <2>1. Buys1(t, w, p, u)
    BY <1>5, <1>10, <1>22 DEF Buys1
  <2>2. Even(t)
    BY <1>13
  <2> QED BY <2>1, <2>2, BuyFund, Zenon
<1>15. Even(v) /\ (i = 0 => v.qL = u.qL) /\ v.q1 = u.q1
  <2>1. BuysL(u, i, m, v)
    BY <1>6, <1>9, <1>22 DEF BuysL
  <2>2. Even(u)
    BY <1>14
  <2> QED BY <2>1, <2>2, BuyPair, Zenon
<1>16. a.q1 \in Nat /\ a.qL \in Nat
  BY DEF Even, AccountRec
<1>17. ASSUME d <= 0 PROVE v.q1 = Left(a.q1, d)
  BY <1>9, <1>12, <1>13, <1>14, <1>15, <1>16, <1>17 DEF Left, Most
<1>18. ASSUME e <= 0 PROVE v.qL = Left(a.qL, e)
  BY <1>9, <1>12, <1>13, <1>14, <1>15, <1>16, <1>18 DEF Left, Most
<1> QED BY <1>1, <1>7, <1>15, <1>17, <1>18

\* A sale of nothing changes nothing.
LEMMA SellNothing == ASSUME NEW a, NEW px, NEW leg, a[leg] \in Nat PROVE SellShares(a, 0, px, leg) = a
<1>1. Least(0, a[leg]) = 0
  BY DEF Least
<1>2. Least(0, a[leg]) <= 0
  BY <1>1
<1> QED BY <1>2, Zenon DEF SellShares

\* Nothing to sell and nothing to buy.
LEMMA MostNone == ASSUME NEW d \in Int, d <= 0, d >= 0 PROVE Most(0, -d) = 0 /\ Most(0, d) = 0
BY DEF Most

\* An open without orders trades nothing.
LEMMA OpenNone ==
    ASSUME NEW a, Even(a), NEW b \in TrendBars, pending = None
    PROVE  AtOpen(a, b).flows = a.flows /\ AtOpen(a, b).q1 = a.q1 /\ AtOpen(a, b).qL = a.qL
<1>2. a.q1 \in Nat /\ a.qL \in Nat /\ a["q1"] \in Nat /\ a["qL"] \in Nat
  BY DEF Even, AccountRec
<1>3. PICK p \in Nat \ {0}, m \in Nat \ {0} : p = b.o1 /\ m = b.oL
  BY BarIs
<1>4. SellShares(a, 0, p, "q1") = a /\ SellShares(a, 0, m, "qL") = a
  BY <1>2, SellNothing
<1>6. PICK u : u = BuyShares(a, 0, p, "q1")
  OBVIOUS
<1>7. Buys1(a, 0, p, u)
  BY <1>3, <1>6 DEF Buys1
<1>8. Even(u) /\ u.q1 = a.q1 /\ u.qL = a.qL /\ u.flows = a.flows
  BY <1>7, BuyFund
<1>9. PICK v : v = BuyShares(u, 0, m, "qL")
  OBVIOUS
<1>10. BuysL(u, 0, m, v)
  BY <1>3, <1>9 DEF BuysL
<1>11. v.q1 = u.q1 /\ v.qL = u.qL /\ v.flows = u.flows
  BY <1>8, <1>10, BuyPair
<1>12. AtOpen(a, b) = v
  <2>1. pending[1] = 0 /\ pending[2] = 0 /\ ~(pending[1] > 0)
    BY DEF None
  <2>2. Most(0, -pending[1]) = 0 /\ Most(0, -pending[2]) = 0 /\ Most(0, pending[1]) = 0 /\ Most(0, pending[2]) = 0
    <3>1. \A d \in Int : d <= 0 /\ d >= 0 => Most(0, -d) = 0 /\ Most(0, d) = 0
      BY MostNone
    <3>2. pending[1] \in Int /\ pending[1] <= 0 /\ pending[1] >= 0 /\ pending[2] \in Int /\ pending[2] <= 0 /\ pending[2] >= 0
      BY <2>1
    <3> QED BY <3>1, <3>2, Zenon
  <2>3. PICK w : w = IF formula = "TF" /\ pending[1] > 0 THEN Invested(a.cash) \div b.o1 ELSE Most(0, pending[1])
    OBVIOUS
  <2>4. w = 0
    BY <2>1, <2>2, <2>3, Zenon
  <2>5. AtOpen(a, b) = BuyShares(BuyShares(SellShares(SellShares(a, 0, p, "q1"), 0, m, "qL"), w, p, "q1"), 0, m, "qL")
    BY <1>3, <2>2, <2>3, Zenon DEF AtOpen
  <2>6. AtOpen(a, b) = BuyShares(BuyShares(a, w, p, "q1"), 0, m, "qL")
    BY <1>4, <2>5, Zenon
  <2> QED BY <1>6, <1>9, <2>4, <2>6, Zenon
<1> QED BY <1>8, <1>11, <1>12

\* The fee of a day is charged once, paid or put off.
LEMMA FeeEven ==
    ASSUME NEW a, Even(a), NEW b \in TrendBars
    PROVE  Even(Fee(a, b)) /\ Fee(a, b).q1 = a.q1 /\ Fee(a, b).qL = a.qL /\ Fee(a, b).flows = a.flows
<1>1. a \in AccountRec /\ a.cash - a.due = TrendCapital + a.flows - a.charged /\ TrendCapital \in Nat
      /\ FeeDiv \in Nat \ {0}
  BY TrendAssumption DEF Even, TrendAssumption
<1>2. PICK v \in Nat : v = ValueAt(a, b)
  BY <1>1, BarIs DEF ValueAt, AccountRec
<1>3. PICK f \in Nat : f = CeilDiv(ValueAt(a, b), FeeDiv)
  BY <1>1, <1>2 DEF CeilDiv
<1>4. a.cash \in Nat /\ a.due \in Nat /\ a.charged \in Nat
  BY <1>1 DEF AccountRec
<1>5. PICK p \in Nat : p = Least(f, Most(a.cash, 0)) /\ p <= f /\ p <= a.cash
  BY <1>4 DEF Least, Most
<1>6. PICK x \in Nat, y \in Nat, z \in Nat : x = a.cash - p /\ y = a.due + f - p /\ z = a.charged + f
  BY <1>4, <1>5
<1>7. PICK s : s = Fee(a, b)
  OBVIOUS
<1>8. s = [a EXCEPT !.cash = x, !.due = y, !.charged = z]
  BY <1>3, <1>5, <1>6, <1>7 DEF Fee
<1>9. s \in AccountRec /\ s.cash = x /\ s.due = y /\ s.charged = z /\ s.flows = a.flows /\ s.q1 = a.q1 /\ s.qL = a.qL
  BY <1>1, <1>6, <1>8 DEF AccountRec
<1> QED BY <1>1, <1>5, <1>6, <1>7, <1>9 DEF Even, AccountRec

-----------------------------------------------------------------------------
(* The plan of a close against what the next open makes of it. *)

\* Every variable holds what it may.
TrendTypes ==
    /\ formula \in {"TF", "LTM"} /\ brought \in TrendSeeds
    /\ tbars \in Seq(TrendBars) /\ start \in {1, WarmBars + 1}
    /\ trendOn \in BOOLEAN /\ shockUntil \in Nat
    /\ target \in {NoTarget, 0, 1, 2} /\ pending \in Int \X Int

\* LTM has traded nothing, and will trade nothing at the next open.
Idle == pending = None /\ (formula = "LTM" => Untouched)

\* Before the start, and before the first judgement, nothing is traded.
Untraded(i) ==
    /\ target = NoTarget <=> i <= WarmBars
    /\ i <= start \/ target = NoTarget => Idle

\* What the plan of the last close leaves after the next open, if LTM does not leave what was
\* brought along alone.
PlanLeaves(i) ==
    /\ formula = "TF" => qL = 0 /\ pending[2] = 0
    /\ formula = "LTM" /\ i > start /\ target \in {0, 1} => qL + pending[2] <= 0 \/ LeftAlone
    /\ formula = "LTM" /\ i > start /\ target = 0
          => (q1 + pending[1] <= 0 /\ qL + pending[2] <= 0) \/ Idle

\* The last judged close, below the exit level, sells the fund, and LTM is out.
ExitPlanned(i) ==
    i > start /\ i > WarmBars /\ tbars[i].side = -2
        => (formula = "TF" => q1 + pending[1] <= 0) /\ target = 0

\* Each drop blocks leverage for its days; leverage is chosen past all of them.
ShocksKept(i) ==
    /\ \A j \in 2..i : tbars[j].drop => shockUntil >= j + ShockDays
    /\ target = 2 => i > shockUntil

\* What holds of a simulation in every state.
TrendInv ==
    /\ TrendTypes /\ Even(Account)
    /\ Untraded(Index) /\ PlanLeaves(Index) /\ ExitPlanned(Index) /\ ShocksKept(Index) /\ OutOfTrend

\* The constants of the series.
LEMMA TrendConstants ==
    /\ WarmBars \in Nat /\ TrendCapital \in Nat /\ ShockDays \in Nat /\ TrendSeeds \subseteq Nat \X Nat
    /\ Mult \in Nat /\ Mult - 1 \in Nat \ {0} /\ NoTarget = -1 /\ None = <<0, 0>>
BY TrendAssumption DEF TrendAssumption, NoTarget, None

\* The account read field by field.
LEMMA AccountIs ==
    /\ Account.cash = tcash /\ Account.due = due /\ Account.q1 = q1 /\ Account.qL = qL
    /\ Account.charged = charged /\ Account.flows = flows
    /\ Even(Account) <=> /\ tcash \in Nat /\ due \in Nat /\ q1 \in Nat /\ qL \in Nat /\ charged \in Nat
                         /\ flows \in Int /\ tcash - due = TrendCapital + flows - charged
BY DEF Account, Even, AccountRec

\* What the invariant says of the properties the runs check.
LEMMA TrendInvGives == TrendInv => FeesAreOwed /\ OutOfTrend
<1> SUFFICES ASSUME TrendInv PROVE FeesAreOwed /\ OutOfTrend
  OBVIOUS
<1>1. /\ tcash \in Nat /\ due \in Nat /\ q1 \in Nat /\ qL \in Nat
      /\ tcash - due = TrendCapital + flows - charged
  BY AccountIs DEF TrendInv
<1> QED BY <1>1 DEF TrendInv, FeesAreOwed, CashNeverNegative

\* and of leverage: a drop of the last ShockDays would have blocked it.
LEMMA CalmGives == TrendInv => LeverageNeedsCalm
<1> SUFFICES ASSUME TrendInv, target = 2 PROVE \A i \in Most(2, Index - ShockDays)..Index : ~tbars[i].drop
  BY DEF LeverageNeedsCalm
<1> TAKE i \in Most(2, Index - ShockDays)..Index
<1>1. Index \in Nat /\ shockUntil \in Nat /\ ShockDays \in Nat
  BY TrendConstants DEF TrendInv, TrendTypes, Index
<1>2. i \in 2..Index /\ i >= Index - ShockDays
  BY <1>1 DEF Most
<1>3. Index > shockUntil /\ (tbars[i].drop => shockUntil >= i + ShockDays)
  BY <1>2 DEF TrendInv, ShocksKept
<1> QED BY <1>1, <1>2, <1>3

\* What goes into the pair, and into the fund, when it is not wanted.
LEMMA WeightsOut ==
    ASSUME NEW n \in Int, NEW e \in {0, 1}
    PROVE  Weights2(e, n)[2] = 0 /\ (e = 0 => Weights2(e, n)[1] = 0)
BY DEF Weights2

\* The parts of an amount are whole.
LEMMA WeightsAre ==
    ASSUME NEW n \in Int, NEW e \in {0, 1, 2}
    PROVE  Weights2(e, n) \in Int \X Int
<1>1. n \div (Mult - 1) \in Int
  BY TrendConstants
<1>2. PICK d \in Int : d = n \div (Mult - 1)
  BY <1>1
<1>3. n - d \in Int
  OBVIOUS
<1> QED BY <1>2, <1>3 DEF Weights2

\* The orders of LTM: whole, and when they are given or the target stays the same,
\* nothing is left of what is not wanted.
LEMMA LtmOrders ==
    ASSUME NEW a, Even(a), NEW b \in TrendBars, NEW e \in {0, 1, 2}, NEW o, o = OrdersLTM(a, b, e)
    PROVE  /\ o \in Int \X Int
           /\ \/ /\ e # 2 => o[2] = 0 - a.qL
                 /\ e = 0 => o[1] = 0 - a.q1
              \/ o = None /\ ~Switched(e) /\ ~OffBand(a, b, a.cash + ValueAt(a, b) - a.due, e)
<1>1. b.c1 \in Nat \ {0} /\ b.cL \in Nat \ {0}
  BY BarIs
<1>2. a.cash \in Nat /\ a.due \in Nat /\ a.q1 \in Nat /\ a.qL \in Nat
  BY DEF Even, AccountRec
<1>3. ValueAt(a, b) \in Int
  BY <1>1, <1>2 DEF ValueAt
<1>4. PICK v \in Int : v = a.cash + ValueAt(a, b) - a.due
  BY <1>2, <1>3
<1>5. PICK part : part = Weights2(e, Invested(v))
  OBVIOUS
<1>6. Invested(v) \in Int
  BY InvestedIs
<1>7. part \in Int \X Int /\ (e # 2 => part[2] = 0) /\ (e = 0 => part[1] = 0)
  <2>1. part \in Int \X Int
    BY <1>5, <1>6, WeightsAre
  <2>2. ASSUME e # 2 PROVE part[2] = 0 /\ (e = 0 => part[1] = 0)
    <3>1. e \in {0, 1}
      BY <2>2
    <3> QED BY <1>5, <1>6, <3>1, WeightsOut
  <2> QED BY <2>1, <2>2
<1>8. \/ o = <<part[1] \div b.c1 - a.q1, part[2] \div b.cL - a.qL>>
      \/ o = None /\ ~Switched(e) /\ ~OffBand(a, b, a.cash + ValueAt(a, b) - a.due, e)
  BY <1>4, <1>5, Zenon DEF OrdersLTM, Rebalance
<1>9. CASE o = <<part[1] \div b.c1 - a.q1, part[2] \div b.cL - a.qL>>
  <2>1. PICK x \in Int, y \in Int : x = part[1] \div b.c1 /\ y = part[2] \div b.cL
    BY <1>1, <1>7
  <2>2. o = <<x - a.q1, y - a.qL>>
    BY <1>9, <2>1
  <2>3. (e # 2 => y = 0) /\ (e = 0 => x = 0)
    BY <1>1, <1>7, <2>1
  <2> QED BY <1>2, <2>2, <2>3
<1>10. CASE o = None /\ ~Switched(e) /\ ~OffBand(a, b, a.cash + ValueAt(a, b) - a.due, e)
  BY <1>10 DEF None
<1> QED BY <1>8, <1>9, <1>10

\* The orders of TF: whole, of the fund alone; below the exit level all of it is sold.
LEMMA TfOrders ==
    ASSUME NEW a, Even(a), NEW b \in TrendBars, NEW o, o = OrdersTF(a, b)
    PROVE  o \in Int \X Int /\ o[2] = 0 /\ (b.side = -2 => a.q1 + o[1] <= 0)
<1>1. b.side \in -2..2
  BY BarIs
<1>2. a.q1 \in Nat
  BY DEF Even, AccountRec
<1> QED BY <1>1, <1>2 DEF OrdersTF, None

\* At the beginning.
LEMMA TrendStarts == TrendInit => TrendInv
<1> SUFFICES ASSUME TrendInit PROVE TrendInv
  OBVIOUS
<1> USE DEF TrendInit
<1>1. TrendTypes
  <2>1. tbars \in Seq(TrendBars)
    <3>1. tbars = <<>>
      OBVIOUS
    <3> QED BY <3>1
  <2>3. trendOn \in BOOLEAN /\ shockUntil \in Nat
    OBVIOUS
  <2>2. target \in {NoTarget, 0, 1, 2} /\ pending \in Int \X Int
    BY DEF None
  <2> QED BY <2>1, <2>2, <2>3 DEF TrendTypes
<1>2. Index = 0
  BY DEF Index
<1>b. PICK x \in Nat, y \in Nat : brought = <<x, y>>
  BY TrendConstants
<1>a. /\ q1 = x /\ formula = "LTM" => qL = y
      /\ formula = "TF" => qL = 0
      /\ qL \in Nat
  BY <1>b
<1>3. Even(Account)
  BY <1>a, AccountIs, TrendConstants
<1>4. Untraded(0) /\ PlanLeaves(0) /\ ExitPlanned(0) /\ ShocksKept(0)
  <2>1. Idle
    BY <1>a, <1>b DEF Idle, Untouched
  <2>2. start \in Nat /\ ~(0 > start)
    BY TrendConstants
  <2> QED BY <1>a, <2>1, <2>2, TrendConstants DEF Untraded, PlanLeaves, ExitPlanned, ShocksKept
<1>5. OutOfTrend
  BY <1>2, TrendConstants DEF OutOfTrend, Most
<1> QED BY <1>1, <1>2, <1>3, <1>4, <1>5 DEF TrendInv

\* Judging a close leaves the types, and the shocks that count.
LEMMA JudgeKeeps ==
    ASSUME TrendTypes, ShocksKept(Index), NEW b \in TrendBars, Judge(b), NEW i, i = Index + 1
    PROVE  /\ i \in Nat /\ Index' = i /\ tbars' \in Seq(TrendBars) /\ tbars'[i] = b
           /\ \A j \in 1..Index : tbars'[j] = tbars[j]
           /\ formula' = formula /\ brought' = brought /\ start' = start /\ target' = Target(i, b)
           /\ trendOn' \in BOOLEAN /\ shockUntil' \in Nat /\ target' \in {NoTarget, 0, 1, 2}
           /\ target' = NoTarget <=> i <= WarmBars
           /\ i > WarmBars /\ b.side = -2 => target' = 0
           /\ ShocksKept(i)'
<1>1. tbars \in Seq(TrendBars) /\ tbars' = Append(tbars, b) /\ Index \in Nat /\ i \in Nat /\ i > Index
  BY DEF TrendTypes, Judge, Index
<1>2. /\ Index' = i /\ tbars' \in Seq(TrendBars) /\ tbars'[i] = b
      /\ \A j \in 1..Index : tbars'[j] = tbars[j]
  BY <1>1 DEF Index
<1>3. formula' = formula /\ brought' = brought /\ start' = start /\ target' = Target(i, b)
  BY DEF Judge
<1>4. b.side \in -2..2 /\ b.up \in BOOLEAN /\ b.drop \in BOOLEAN
  BY BarIs
<1>5. trendOn' \in BOOLEAN
  <2>1. (b.side # -2) \in BOOLEAN /\ (b.side > 0) \in BOOLEAN
    BY <1>4
  <2>2. PICK x \in BOOLEAN, y \in BOOLEAN : x = (b.side # -2) /\ y = (b.side > 0)
    BY <2>1
  <2>3. trendOn' = IF i > WarmBars THEN (IF trendOn THEN x ELSE y) ELSE trendOn
    BY <2>2 DEF Judge, OnAfter
  <2> QED BY <2>3 DEF TrendTypes
<1>6. shockUntil' = IF b.drop /\ i > 1 THEN i + ShockDays ELSE shockUntil
  BY DEF Judge, Shock
<1>7. shockUntil' \in Nat
  BY <1>1, <1>6, TrendConstants DEF TrendTypes
<1>8. /\ target' \in {NoTarget, 0, 1, 2}
      /\ target' = NoTarget <=> i <= WarmBars
      /\ target' = 2 => i > shockUntil'
  <2>1. target' = 2 => i > Shock(i, b)
    BY <1>3, TrendConstants DEF Target
  <2>2. Shock(i, b) = shockUntil'
    BY <1>6 DEF Shock
  <2> QED BY <1>1, <1>3, <2>1, <2>2, TrendConstants DEF Target
<1>9. i > WarmBars /\ b.side = -2 => target' = 0
  BY <1>1, <1>3, TrendConstants DEF Target, OnAfter
<1>10. \A j \in 2..i : tbars'[j].drop => shockUntil' >= j + ShockDays
  <2> TAKE j \in 2..i
  <2> HAVE tbars'[j].drop
  <2>1. CASE j = i
    <3>2. tbars'[j] = b
      BY <1>2, <2>1
    <3>3. b.drop
      BY <3>2, Zenon
    <3>4. i > 1
      BY <1>1, <2>1
    <3>1. b.drop /\ i > 1
      BY <3>3, <3>4
    <3> QED BY <1>1, <1>6, <2>1, <3>1, TrendConstants
  <2>2. CASE j < i
    <3>1. j \in 1..Index /\ j \in 2..Index
      BY <1>1, <2>2
    <3>2. shockUntil >= j + ShockDays
      BY <1>2, <3>1 DEF ShocksKept
    <3>3. shockUntil \in Nat
      BY DEF TrendTypes
    <3> QED BY <1>1, <1>6, <3>1, <3>2, <3>3, TrendConstants
  <2> QED BY <1>1, <2>1, <2>2
<1>11. ShocksKept(i)'
  BY <1>8, <1>10 DEF ShocksKept
<1> QED BY <1>1, <1>2, <1>3, <1>5, <1>7, <1>8, <1>9, <1>11

\* A close before the start trades nothing.
LEMMA BeforeKeeps == TrendInv /\ Before => TrendInv'
<1> SUFFICES ASSUME TrendInv, Before PROVE TrendInv'
  OBVIOUS
<1>1. PICK b \in TrendBars : Judge(b)
  BY DEF Before
<1>2. TrendTypes /\ ShocksKept(Index) /\ Untraded(Index) /\ PlanLeaves(Index) /\ Even(Account) /\ OutOfTrend
  BY DEF TrendInv
<1>3. PICK i : i = Index + 1
  OBVIOUS
<1>4. /\ i \in Nat /\ Index' = i /\ tbars' \in Seq(TrendBars) /\ tbars'[i] = b
      /\ \A j \in 1..Index : tbars'[j] = tbars[j]
      /\ formula' = formula /\ brought' = brought /\ start' = start /\ target' = Target(i, b)
      /\ trendOn' \in BOOLEAN /\ shockUntil' \in Nat /\ target' \in {NoTarget, 0, 1, 2}
      /\ target' = NoTarget <=> i <= WarmBars
      /\ i > WarmBars /\ b.side = -2 => target' = 0
      /\ ShocksKept(i)'
  BY <1>1, <1>2, <1>3, JudgeKeeps
<1>5. /\ tcash' = tcash /\ due' = due /\ q1' = q1 /\ qL' = qL /\ charged' = charged /\ flows' = flows
      /\ pending' = pending /\ i <= start /\ Index <= start
  <2>1. Index \in Nat /\ start \in Nat /\ Index < start
    BY <1>2, TrendConstants DEF Before, TrendTypes, Index
  <2> QED BY <1>3, <2>1 DEF Before, account
<1>6. TrendTypes'
  BY <1>2, <1>4, <1>5 DEF TrendTypes
<1>7. Even(Account)'
  BY <1>2, <1>5, AccountIs DEF Even, AccountRec, Account
<1>8. Idle'
  <2>1. Idle
    BY <1>2, <1>5 DEF Untraded
  <2> QED BY <1>4, <1>5, <2>1 DEF Idle, Untouched
<1>9. Untraded(i)'
  BY <1>4, <1>5, <1>8 DEF Untraded
<1>10. PlanLeaves(i)'
  <2>1. ~(i > start)
    BY <1>2, <1>4, <1>5, TrendConstants DEF TrendTypes
  <2>2. formula' = "TF" => qL' = 0 /\ pending'[2] = 0
    <3>1. formula = "TF" => qL = 0 /\ pending[2] = 0
      BY <1>2 DEF PlanLeaves
    <3> QED BY <1>4, <1>5, <3>1
  <2> QED BY <1>4, <2>1, <2>2, Zenon DEF PlanLeaves
<1>11. ExitPlanned(i)' /\ OutOfTrend'
  <2>1. start \in Nat /\ WarmBars \in Nat
    BY <1>2, TrendConstants DEF TrendTypes
  <2>2. ~(i > start) /\ ~(i > Most(start, WarmBars) + 1)
    BY <1>4, <1>5, <2>1 DEF Most
  <2> QED BY <1>4, <2>1, <2>2 DEF ExitPlanned, OutOfTrend
<1> QED BY <1>4, <1>6, <1>7, <1>9, <1>10, <1>11 DEF TrendInv

\* A day of the simulation: what the open leaves, and the plan of its close.
LEMMA DayDoes ==
    ASSUME TrendTypes, Even(Account), NEW b \in TrendBars, NEW a,
           a = Fee(AtOpen(Account, b), b)
    PROVE  /\ Even(a)
           /\ pending[1] <= 0 => a.q1 = Left(q1, pending[1])
           /\ pending[2] <= 0 => a.qL = Left(qL, pending[2])
           /\ pending = None => a.q1 = q1 /\ a.qL = qL /\ a.flows = flows
<1>1. PICK o : o = AtOpen(Account, b)
  OBVIOUS
<1>2. /\ Even(o)
      /\ pending[1] <= 0 => o.q1 = Left(q1, pending[1])
      /\ pending[2] <= 0 => o.qL = Left(qL, pending[2])
  <2>1. pending \in Int \X Int /\ Account.q1 = q1 /\ Account.qL = qL
    BY AccountIs DEF TrendTypes
  <2> QED BY <1>1, <2>1, OpenEven
<1>3. Even(a) /\ a.q1 = o.q1 /\ a.qL = o.qL /\ a.flows = o.flows
  BY <1>1, <1>2, FeeEven
<1>4. ASSUME pending = None PROVE o.q1 = q1 /\ o.qL = qL /\ o.flows = flows
  BY <1>1, <1>4, OpenNone, AccountIs
<1> QED BY <1>2, <1>3, <1>4

\* A plan that sells a leg whole leaves none of it.
LEMMA LeftNone ==
    ASSUME NEW n \in Nat, NEW d \in Int, n + d <= 0
    PROVE  d <= 0 /\ Left(n, d) = 0
BY DEF Left, Most

\* A day.
LEMMA DayKeeps == TrendInv /\ Day => TrendInv'
<1> SUFFICES ASSUME TrendInv, Day PROVE TrendInv'
  OBVIOUS
<1>1. PICK b \in TrendBars :
          LET a == Fee(AtOpen(Account, b), b)
              e == Target(Index + 1, b)
          IN  /\ Judge(b)
              /\ tcash' = a.cash /\ due' = a.due /\ q1' = a.q1 /\ qL' = a.qL
              /\ charged' = a.charged /\ flows' = a.flows
              /\ pending' = IF e = NoTarget THEN None
                            ELSE IF formula = "TF" THEN OrdersTF(a, b)
                            ELSE OrdersLTM(a, b, e)
  BY DEF Day
<1>2. TrendTypes /\ ShocksKept(Index) /\ Untraded(Index) /\ PlanLeaves(Index) /\ ExitPlanned(Index)
      /\ Even(Account) /\ OutOfTrend
  BY DEF TrendInv
<1>3. PICK i : i = Index + 1
  OBVIOUS
<1>4. /\ i \in Nat /\ Index' = i /\ tbars' \in Seq(TrendBars) /\ tbars'[i] = b
      /\ \A j \in 1..Index : tbars'[j] = tbars[j]
      /\ formula' = formula /\ brought' = brought /\ start' = start /\ target' = Target(i, b)
      /\ trendOn' \in BOOLEAN /\ shockUntil' \in Nat /\ target' \in {NoTarget, 0, 1, 2}
      /\ target' = NoTarget <=> i <= WarmBars
      /\ i > WarmBars /\ b.side = -2 => target' = 0
      /\ ShocksKept(i)'
  BY <1>1, <1>2, <1>3, JudgeKeeps
<1>5. PICK a : a = Fee(AtOpen(Account, b), b)
  OBVIOUS
<1>6. PICK e : e = Target(i, b)
  OBVIOUS
<1>7. /\ tcash' = a.cash /\ due' = a.due /\ q1' = a.q1 /\ qL' = a.qL
      /\ charged' = a.charged /\ flows' = a.flows
      /\ pending' = IF e = NoTarget THEN None
                    ELSE IF formula = "TF" THEN OrdersTF(a, b) ELSE OrdersLTM(a, b, e)
  BY <1>1, <1>3, <1>5, <1>6
<1>8. target' = e /\ e \in {NoTarget, 0, 1, 2}
  BY <1>4, <1>6
<1>9. /\ Even(a)
      /\ pending[1] <= 0 => a.q1 = Left(q1, pending[1])
      /\ pending[2] <= 0 => a.qL = Left(qL, pending[2])
      /\ pending = None => a.q1 = q1 /\ a.qL = qL /\ a.flows = flows
  BY <1>2, <1>5, DayDoes
<1>10. /\ q1 \in Nat /\ qL \in Nat /\ pending[1] \in Int /\ pending[2] \in Int
       /\ Index \in Nat /\ start \in Nat /\ WarmBars \in Nat /\ i = Index + 1 /\ Index >= start
       /\ a.q1 \in Nat /\ a.qL \in Nat
  <2>1. q1 \in Nat /\ qL \in Nat
    BY <1>2, AccountIs
  <2>2. a.q1 \in Nat /\ a.qL \in Nat
    BY <1>9 DEF Even, AccountRec
  <2>3. pending[1] \in Int /\ pending[2] \in Int /\ start \in Nat /\ WarmBars \in Nat /\ Index \in Nat
    BY <1>2, TrendConstants DEF TrendTypes, Index
  <2>4. i = Index + 1 /\ Index >= start
    BY <1>3 DEF Day
  <2> QED BY <2>1, <2>2, <2>3, <2>4
<1>11. q1 + pending[1] <= 0 => a.q1 = 0
  BY <1>9, <1>10, LeftNone
<1>12. qL + pending[2] <= 0 => a.qL = 0
  BY <1>9, <1>10, LeftNone
<1>13. Even(Account)'
  BY <1>7, <1>9, AccountIs DEF Even, AccountRec, Account
<1>a. PICK o : o = pending'
  OBVIOUS
\* Nothing traded before, and nothing at this open: nothing is traded still.
<1>b. ASSUME Idle PROVE formula = "LTM" => Untouched'
  BY <1>4, <1>7, <1>9, <1>b DEF Idle, Untouched
<1>14. CASE e = NoTarget
  <2>1. i <= WarmBars /\ target = NoTarget
    BY <1>2, <1>4, <1>8, <1>10, <1>14 DEF Untraded
  <2>2. Idle /\ pending' = None
    BY <1>2, <1>7, <1>14, <2>1 DEF Untraded
  <2>3. Idle'
    BY <1>4, <1>b, <2>2 DEF Idle
  <2>4. TrendTypes'
    BY <1>2, <1>4, <2>2, TrendConstants DEF TrendTypes
  <2>5. Untraded(i)'
    BY <1>4, <2>3 DEF Untraded
  <2>6. PlanLeaves(i)'
    <3>1. formula = "TF" => a.qL = 0 /\ pending'[2] = 0
      BY <1>2, <1>9, <2>2, TrendConstants DEF PlanLeaves, Idle
    <3>2. target' \notin {0, 1} /\ target' # 0
      BY <1>8, <1>14, TrendConstants
    <3> QED BY <1>4, <1>7, <3>1, <3>2 DEF PlanLeaves
  <2>7. ExitPlanned(i)' /\ OutOfTrend'
    <3>1. ~(i > WarmBars) /\ ~(i > Most(start, WarmBars) + 1)
      BY <1>10, <2>1 DEF Most
    <3> QED BY <1>4, <3>1 DEF ExitPlanned, OutOfTrend
  <2> QED BY <1>4, <1>13, <2>4, <2>5, <2>6, <2>7 DEF TrendInv
<1>15. CASE e # NoTarget
  <2>1. e \in {0, 1, 2} /\ i > WarmBars /\ i > start
    BY <1>4, <1>8, <1>10, <1>15
  <2>3. formula \in {"TF", "LTM"}
    BY <1>2 DEF TrendTypes
  <2>4. ASSUME formula = "TF" PROVE o \in Int \X Int /\ o[2] = 0 /\ a.qL = 0 /\ (b.side = -2 => a.q1 + o[1] <= 0)
    <3>1. o = OrdersTF(a, b)
      BY <1>7, <1>15, <1>a, <2>4
    <3>2. o \in Int \X Int /\ o[2] = 0 /\ (b.side = -2 => a.q1 + o[1] <= 0)
      BY <1>9, <3>1, TfOrders
    <3>3. qL + pending[2] <= 0
      BY <1>2, <2>4 DEF PlanLeaves
    <3> QED BY <1>12, <3>2, <3>3
  \* The plan of LTM leaves none of a leg it does not want, or it leaves alone what was brought.
  <2>5. ASSUME formula = "LTM"
        PROVE  /\ o \in Int \X Int
               /\ e \in {0, 1} => a.qL + o[2] <= 0 \/ LeftAlone'
               /\ e = 0 => (a.q1 + o[1] <= 0 /\ a.qL + o[2] <= 0) \/ Idle'
    <3> DEFINE off == OffBand(a, b, a.cash + ValueAt(a, b) - a.due, e)
    <3>1. o = OrdersLTM(a, b, e)
      BY <1>7, <1>15, <1>a, <2>3, <2>5
    <3>2. /\ o \in Int \X Int
          /\ \/ /\ e # 2 => o[2] = 0 - a.qL
                /\ e = 0 => o[1] = 0 - a.q1
             \/ o = None /\ ~Switched(e) /\ ~off
      BY <1>9, <2>1, <3>1, LtmOrders
    <3>3. CASE (e # 2 => o[2] = 0 - a.qL) /\ (e = 0 => o[1] = 0 - a.q1)
      BY <1>10, <3>2, <3>3
    <3>4. CASE o = None /\ ~Switched(e) /\ ~off
      <4>1. /\ target # NoTarget
            /\ e \in {0, 1} => target \in {0, 1}
            /\ e = 0 => target = 0
        BY <1>2, <3>4 DEF Switched, TrendTypes
      <4>2. ASSUME Idle PROVE LeftAlone' /\ Idle'
        <5>1. Untouched' /\ pending' = None
          BY <1>a, <1>b, <2>5, <3>4, <4>2
        <5>2. Account' = a
          BY <1>7, <1>9 DEF Account, Even, AccountRec
        <5>3. tbars[Index]' = b /\ target' = e /\ tcash' = a.cash /\ due' = a.due
          BY <1>4, <1>7, <1>8
        <5>4. ~OffBand(Account, tbars[Index], tcash + ValueAt(Account, tbars[Index]) - due, target)'
          BY <3>4, <5>2, <5>3
        <5> QED BY <5>1, <5>4 DEF LeftAlone, Idle
      <4>3. CASE Index = start
        BY <1>2, <1>10, <3>2, <4>2, <4>3 DEF Untraded
      <4>4. CASE Index > start
        <5>1. ASSUME e \in {0, 1} PROVE a.qL + o[2] <= 0 \/ LeftAlone'
          <6>1. qL + pending[2] <= 0 \/ LeftAlone
            BY <1>2, <2>5, <4>1, <4>4, <5>1 DEF PlanLeaves
          <6>2. LeftAlone => Idle
            BY DEF LeftAlone, Idle
          <6> QED BY <1>12, <3>4, <4>2, <6>1, <6>2, TrendConstants
        <5>2. ASSUME e = 0 PROVE (a.q1 + o[1] <= 0 /\ a.qL + o[2] <= 0) \/ Idle'
          <6>1. (q1 + pending[1] <= 0 /\ qL + pending[2] <= 0) \/ Idle
            BY <1>2, <2>5, <4>1, <4>4, <5>2 DEF PlanLeaves
          <6> QED BY <1>11, <1>12, <3>4, <4>2, <6>1, TrendConstants
        <5> QED BY <3>2, <5>1, <5>2
      <4> QED BY <1>10, <4>3, <4>4
    <3> QED BY <3>2, <3>3, <3>4
  <2>6. TrendTypes'
    BY <1>2, <1>4, <1>a, <2>3, <2>4, <2>5 DEF TrendTypes
  <2>7. Untraded(i)'
    BY <1>4, <1>8, <1>10, <1>15, <2>1 DEF Untraded
  <2>8. PlanLeaves(i)'
    BY <1>4, <1>7, <1>8, <1>15, <1>a, <2>4, <2>5 DEF PlanLeaves
  <2>9. ExitPlanned(i)'
    BY <1>4, <1>7, <1>a, <2>1, <2>4 DEF ExitPlanned
  <2>10. OutOfTrend'
    <3> SUFFICES ASSUME i > Most(start, WarmBars) + 1, b.side = -2, tbars'[i - 1].side = -2
                 PROVE  (a.q1 = 0 /\ a.qL = 0) \/ (formula = "LTM" /\ Untouched')
      BY <1>4, <1>7 DEF OutOfTrend
    <3>1. Index > start /\ Index > WarmBars /\ i - 1 = Index /\ Index \in 1..Index
      BY <1>10 DEF Most
    <3>2. tbars[Index].side = -2
      BY <1>4, <3>1
    <3>3. target = 0 /\ (formula = "TF" => q1 + pending[1] <= 0)
      BY <1>2, <3>1, <3>2 DEF ExitPlanned
    <3>4. (q1 + pending[1] <= 0 /\ qL + pending[2] <= 0) \/ (formula = "LTM" /\ Idle)
      BY <1>2, <1>10, <2>3, <3>1, <3>3 DEF PlanLeaves
    <3> QED BY <1>11, <1>12, <1>b, <3>4
  <2> QED BY <1>4, <1>13, <2>6, <2>7, <2>8, <2>9, <2>10 DEF TrendInv
<1> QED BY <1>14, <1>15

\* A step of a simulation keeps it.
LEMMA TrendSteps == TrendInv /\ [TrendNext]_trendVars => TrendInv'
<1> SUFFICES ASSUME TrendInv, [TrendNext]_trendVars PROVE TrendInv'
  OBVIOUS
<1>1. CASE Before
  BY <1>1, BeforeKeeps
<1>2. CASE Day
  BY <1>2, DayKeeps
<1>3. CASE UNCHANGED trendVars
  <2>1. /\ formula' = formula /\ brought' = brought /\ tbars' = tbars /\ start' = start /\ trendOn' = trendOn
        /\ shockUntil' = shockUntil /\ target' = target /\ pending' = pending
        /\ tcash' = tcash /\ due' = due /\ q1' = q1 /\ qL' = qL /\ charged' = charged /\ flows' = flows
    BY <1>3 DEF trendVars, account
  <2>2. TrendTypes' /\ Index' = Index
    BY <2>1 DEF TrendInv, TrendTypes, Index
  <2>5. Account' = Account /\ Untouched' = Untouched
    BY <2>1 DEF Account, Untouched
  <2>6. LeftAlone' = LeftAlone /\ Idle' = Idle
    BY <2>1, <2>2, <2>5 DEF LeftAlone, Idle
  <2>7. PlanLeaves(Index)' /\ Untraded(Index)'
    BY <2>1, <2>2, <2>6 DEF TrendInv, PlanLeaves, Untraded
  <2>3. Even(Account)'
    BY <2>1 DEF TrendInv, Even, AccountRec, Account
  <2>4. ExitPlanned(Index)' /\ ShocksKept(Index)' /\ OutOfTrend'
    BY <2>1, <2>5 DEF TrendInv, ExitPlanned, ShocksKept, OutOfTrend, Index
  <2> QED BY <2>2, <2>3, <2>4, <2>7 DEF TrendInv
<1> QED BY <1>1, <1>2, <1>3 DEF TrendNext

\* In every state of every simulation (ltm.py, trendfilter.py): the books of the account are
\* even, and the last plan leaves no share its judgement does not want, but for shares
\* brought along that have never left the band.
THEOREM TrendSafe == TrendSpec => []TrendInv
BY TrendSteps, TrendStarts, PTL DEF TrendSpec

\* The fees of a simulation are counted once, paid or still owed, and neither its cash nor a
\* holding is ever negative, whatever the opens are (a purchase is cut down to the cash,
\* ltm.py and trendfilter.py: fee_due).
THEOREM FeesOwed == TrendSpec => []FeesAreOwed
BY TrendSafe, TrendInvGives, PTL

\* Two judged closes below the exit level: nothing is held (the sale of the first one has
\* been executed in full, and nothing was bought beside it), but for an account of LTM that
\* has never traded what it was brought.
THEOREM TrendLeft == TrendSpec => []OutOfTrend
BY TrendSafe, TrendInvGives, PTL

\* The pair is never the target within ShockDays of a drop, drops of the warm-up included
\* (ltm_states).
THEOREM CalmNeeded == TrendSpec => []LeverageNeedsCalm
BY TrendSafe, CalmGives, PTL

\* An open after a close judged without leverage.
LEMMA JudgedStep == TrendInv /\ [TrendNext]_trendVars => [LeverageFollowsJudgement]_trendVars
<1> SUFFICES ASSUME TrendInv, TrendNext, formula = "LTM", Index > start, Index' > Index, target \in {0, 1}
             PROVE  qL' = 0 \/ (LeftAlone /\ qL' = qL)
  BY DEF LeverageFollowsJudgement
<1>1. Day
  <2>1. ~Before
    <3>1. start \in Nat /\ Index \in Nat
      BY TrendConstants DEF TrendInv, TrendTypes, Index
    <3> QED BY <3>1 DEF Before
  <2> QED BY <2>1 DEF TrendNext
<1>2. PICK b \in TrendBars : qL' = Fee(AtOpen(Account, b), b).qL
  BY <1>1 DEF Day
<1>3. PICK a : a = Fee(AtOpen(Account, b), b)
  OBVIOUS
<1>4. TrendTypes /\ Even(Account) /\ qL \in Nat /\ pending[2] \in Int
  BY AccountIs DEF TrendInv, TrendTypes
<1>5. qL + pending[2] <= 0 \/ LeftAlone
  BY DEF TrendInv, PlanLeaves
<1>6. /\ pending[2] <= 0 => a.qL = Left(qL, pending[2])
      /\ pending = None => a.qL = qL
  BY <1>3, <1>4, DayDoes
<1>7. CASE qL + pending[2] <= 0
  <2>1. a.qL = 0
    BY <1>4, <1>6, <1>7, LeftNone
  <2> QED BY <1>2, <1>3, <2>1
<1>8. CASE LeftAlone
  <2>1. a.qL = qL
    BY <1>6, <1>8 DEF LeftAlone
  <2> QED BY <1>2, <1>3, <1>8, <2>1
<1> QED BY <1>5, <1>7, <1>8

\* The open after a close judged without leverage leaves no share of the pair, also when an
\* unfinished plan of an earlier close would have kept some; only what was brought along, and
\* never traded, may stay, as long as its exposure is within the band of the judgement (ltm.py:128,
\* ltm.py:212).
THEOREM JudgementFollowed == TrendSpec => [][LeverageFollowsJudgement]_trendVars
BY JudgedStep, TrendSafe, PTL DEF TrendSpec

-----------------------------------------------------------------------------
(* The regime of RAVG is a function of the series. *)

\* The regimes of the first n bars of s, one after the other: g[k] after bar k.
IsHistory(g, s, n) ==
    g = [k \in 0..n |-> IF k < FirstOk THEN "NEUTRAL" ELSE NextRegime(g[k - 1], s[k])]

\* r is the regime after bar n of s.
RegimeOf(s, n, r) == \E g : IsHistory(g, s, n) /\ r = g[n]

\* A history one bar longer.
LEMMA HistoryGrows ==
    ASSUME NEW n \in Nat, NEW s, NEW g, IsHistory(g, s, n)
    PROVE  \E h : IsHistory(h, s, n + 1) /\ h[n] = g[n] /\ h[n + 1] = RegimeAt(g[n], n + 1, s[n + 1])
<1>0. FirstOk \in Nat \ {0}
  BY PlannerAssumption DEF PlannerAssumption
<1>1. PICK h : h = [k \in 0..(n + 1) |-> IF k = n + 1 THEN RegimeAt(g[n], n + 1, s[n + 1]) ELSE g[k]]
  OBVIOUS
<1>2. h[n + 1] = RegimeAt(g[n], n + 1, s[n + 1]) /\ \A k \in 0..n : h[k] = g[k]
  BY <1>1
<1>3. \A k \in 0..n : g[k] = IF k < FirstOk THEN "NEUTRAL" ELSE NextRegime(g[k - 1], s[k])
  BY DEF IsHistory
<1>4. \A k \in 0..(n + 1) : h[k] = IF k < FirstOk THEN "NEUTRAL" ELSE NextRegime(h[k - 1], s[k])
  <2> TAKE k \in 0..(n + 1)
  <2>1. CASE k = n + 1
    <3>1. h[k - 1] = g[n]
      BY <1>2, <2>1
    <3> QED BY <1>2, <2>1, <3>1 DEF RegimeAt
  <2>2. CASE k \in 0..n
    <3>1. h[k] = g[k] /\ (k >= FirstOk => h[k - 1] = g[k - 1])
      <4>1. k >= FirstOk => k - 1 \in 0..n
        BY <1>0, <2>2
      <4> QED BY <1>2, <2>2, <4>1
    <3> QED BY <1>0, <1>3, <2>2, <3>1
  <2> QED BY <2>1, <2>2
<1>5. IsHistory(h, s, n + 1)
  <2>1. h = [k \in 0..(n + 1) |-> h[k]]
    BY <1>1
  <2> QED BY <1>4, <2>1 DEF IsHistory
<1> QED BY <1>2, <1>5

\* There is a history of any length.
LEMMA HistoryExists == ASSUME NEW n \in Nat, NEW s PROVE \E g : IsHistory(g, s, n)
<1> DEFINE Bad == {k \in Nat : ~ \E g : IsHistory(g, s, k)}
<1>1. SUFFICES ASSUME Bad # {} PROVE FALSE
  OBVIOUS
<1>2. PICK m \in Bad : \A k \in Bad : m <= k
  <2>1. Bad \subseteq Nat
    OBVIOUS
  <2> HIDE DEF Bad
  <2> QED BY <1>1, <2>1, LeastNumber
<1>3. CASE m = 0
  <2>1. PICK g : g = [k \in 0..0 |-> "NEUTRAL"]
    OBVIOUS
  <2>2. FirstOk > 0 /\ FirstOk \in Nat
    BY PlannerAssumption DEF PlannerAssumption
  <2>3. \A k \in 0..0 : k < FirstOk
    BY <2>2
  <2>4. IsHistory(g, s, 0)
    BY <2>1, <2>3 DEF IsHistory
  <2> QED BY <1>3, <2>4
<1>4. CASE m # 0
  <2>1. PICK j \in Nat : m = j + 1
    BY <1>4
  <2>2. PICK g : IsHistory(g, s, j)
    BY <1>2, <2>1
  <2>3. \E h : IsHistory(h, s, j + 1)
    BY <2>2, HistoryGrows
  <2> QED BY <2>1, <2>3
<1> QED BY <1>3, <1>4

\* Histories of series that begin alike agree on what they share.
LEMMA HistoriesAgree ==
    ASSUME NEW n \in Nat, NEW m \in Nat, n <= m, NEW s, NEW t, \A k \in 1..n : s[k] = t[k],
           NEW g, IsHistory(g, s, n), NEW h, IsHistory(h, t, m)
    PROVE  g[n] = h[n]
<1> DEFINE Bad == {k \in 0..n : g[k] # h[k]}
<1>0. FirstOk \in Nat \ {0}
  BY PlannerAssumption DEF PlannerAssumption
<1>1. /\ \A k \in 0..n : g[k] = IF k < FirstOk THEN "NEUTRAL" ELSE NextRegime(g[k - 1], s[k])
      /\ \A k \in 0..m : h[k] = IF k < FirstOk THEN "NEUTRAL" ELSE NextRegime(h[k - 1], t[k])
  BY DEF IsHistory
<1>2. SUFFICES ASSUME Bad # {} PROVE FALSE
  OBVIOUS
<1>3. PICK k \in Bad : \A j \in Bad : k <= j
  <2>1. Bad \subseteq Nat
    OBVIOUS
  <2> HIDE DEF Bad
  <2> QED BY <1>2, <2>1, LeastNumber
<1>4. k \in 0..n /\ k \in 0..m /\ g[k] # h[k]
  OBVIOUS
<1>5. CASE k < FirstOk
  BY <1>1, <1>4, <1>5
<1>6. CASE ~(k < FirstOk)
  <2>1. k - 1 \in 0..n /\ k - 1 < k /\ k \in 1..n
    BY <1>0, <1>4, <1>6
  <2>2. g[k - 1] = h[k - 1]
    BY <1>3, <2>1
  <2>3. g[k] = NextRegime(g[k - 1], s[k]) /\ h[k] = NextRegime(h[k - 1], t[k]) /\ s[k] = t[k]
    BY <1>1, <1>4, <1>6, <2>1
  <2> QED BY <1>4, <2>2, <2>3
<1> QED BY <1>5, <1>6

\* The regime after one more bar, and of the same bars in a longer series.
LEMMA RegimeStep ==
    ASSUME NEW n \in Nat, NEW s, NEW t, \A k \in 1..n : s[k] = t[k], NEW r, RegimeOf(s, n, r)
    PROVE  RegimeOf(t, n, r) /\ RegimeOf(t, n + 1, RegimeAt(r, n + 1, t[n + 1]))
<1>1. PICK g : IsHistory(g, s, n) /\ r = g[n]
  BY DEF RegimeOf
<1>2. PICK h : IsHistory(h, t, n)
  BY HistoryExists
<1>3. h[n] = r
  BY <1>1, <1>2, HistoriesAgree
<1>4. \E e : IsHistory(e, t, n + 1) /\ e[n + 1] = RegimeAt(r, n + 1, t[n + 1])
  BY <1>2, <1>3, HistoryGrows
<1> QED BY <1>2, <1>3, <1>4 DEF RegimeOf

\* The warm-up.
LEMMA RegimeCold == ASSUME NEW n \in Nat, n < FirstOk, NEW s PROVE RegimeOf(s, n, "NEUTRAL")
<1>1. PICK g : IsHistory(g, s, n)
  BY HistoryExists
<1>2. g[n] = "NEUTRAL"
  BY <1>1 DEF IsHistory
<1> QED BY <1>1, <1>2 DEF RegimeOf

\* The regime is that of the bars judged so far: all in the warm-up and once the evening's
\* plan is made, all but the last until then.
RegimeInv ==
    /\ hist \in Seq(Bars) /\ first \in Nat \ {0} /\ plan.planned \in BOOLEAN
    /\ plan.planned => Len(hist) >= first
    /\ RegimeOf(hist, IF Len(hist) < first \/ plan.planned THEN Len(hist) ELSE Len(hist) - 1, regime)

\* The history the property writes down is the one the invariant speaks of.
LEMMA RegimeGives == RegimeInv => RegimeIsHistory
<1> SUFFICES ASSUME RegimeInv, Len(hist) >= first
             PROVE  LET of[k \in 0..Len(hist)] == IF k < FirstOk THEN "NEUTRAL" ELSE NextRegime(of[k - 1], hist[k])
                    IN  regime = of[IF plan.planned THEN Len(hist) ELSE Len(hist) - 1]
  BY DEF RegimeIsHistory
<1> DEFINE of[k \in 0..Len(hist)] == IF k < FirstOk THEN "NEUTRAL" ELSE NextRegime(of[k - 1], hist[k])
<1>1. Len(hist) \in Nat /\ first \in Nat \ {0}
  BY DEF RegimeInv
<1>2. \E g : IsHistory(g, hist, Len(hist))
  BY <1>1, HistoryExists
<1>3. IsHistory(of, hist, Len(hist))
  <2>1. of = CHOOSE g : IsHistory(g, hist, Len(hist))
    BY DEF IsHistory
  <2> HIDE DEF of
  <2> QED BY <1>2, <2>1
<1> HIDE DEF of
<1>8. PICK l \in Nat : l = Len(hist) /\ l >= 1
  BY <1>1
<1>4. PICK n \in Nat : n = (IF plan.planned THEN l ELSE l - 1) /\ n <= l
  <2>1. l - 1 \in Nat /\ l - 1 <= l /\ l <= l
    BY <1>8
  <2>2. (IF plan.planned THEN l ELSE l - 1) \in {l, l - 1}
    OBVIOUS
  <2> QED BY <1>8, <2>1, <2>2
<1>5. RegimeOf(hist, n, regime) /\ n <= Len(hist)
  BY <1>1, <1>4, <1>8 DEF RegimeInv
<1>6. PICK g : IsHistory(g, hist, n) /\ regime = g[n]
  BY <1>5 DEF RegimeOf
<1>7. g[n] = of[n]
  BY <1>1, <1>3, <1>5, <1>6, HistoriesAgree
<1> QED BY <1>4, <1>6, <1>7, <1>8 DEF of

\* Before the first bar the market is neutral.
LEMMA RegimeStarts == PlannerInit => RegimeInv
<1> SUFFICES ASSUME PlannerInit PROVE RegimeInv
  OBVIOUS
<1>1. hist = <<>> /\ Len(hist) = 0 /\ first \in Nat \ {0} /\ regime = "NEUTRAL" /\ plan = NoPlan /\ 0 < FirstOk
  BY PlannerAssumption DEF PlannerInit, PlannerAssumption
<1>2. RegimeOf(hist, 0, regime)
  BY <1>1, RegimeCold
<1>3. hist \in Seq(Bars)
  <2>1. hist = <<>>
    BY <1>1
  <2> QED BY <2>1
<1> QED BY <1>1, <1>2, <1>3 DEF RegimeInv, NoPlan

\* A bar of the warm-up and a plan judge one bar more, a trade none.
LEMMA RegimeKept == RegimeInv /\ [PlannerNext]_plannerVars => RegimeInv'
<1> SUFFICES ASSUME RegimeInv, [PlannerNext]_plannerVars PROVE RegimeInv'
  OBVIOUS
<1>1. PICK n \in Nat : n = Len(hist)
  BY DEF RegimeInv
<1>2. hist \in Seq(Bars) /\ first \in Nat \ {0} /\ plan.planned \in BOOLEAN
  BY DEF RegimeInv
<1>3. ASSUME NEW b \in Bars, hist' = Append(hist, b)
      PROVE  /\ hist' \in Seq(Bars) /\ Len(hist') = n + 1 /\ hist'[n + 1] = b
             /\ \A k \in 1..n : hist[k] = hist'[k]
  BY <1>1, <1>2, <1>3
<1>4. CASE Warmup
  <2>1. PICK b \in Bars :
            /\ hist' = Append(hist, b)
            /\ regime' = IF n + 1 < first THEN RegimeAt(regime, n + 1, b) ELSE regime
    BY <1>1, <1>4 DEF Warmup
  <2>2. n < first /\ first' = first /\ plan' = plan /\ ~plan.planned
    BY <1>1, <1>2, <1>4 DEF Warmup, RegimeInv
  <2>3. /\ hist' \in Seq(Bars) /\ Len(hist') = n + 1 /\ hist'[n + 1] = b
        /\ \A k \in 1..n : hist[k] = hist'[k]
    BY <1>3, <2>1
  <2>4. RegimeOf(hist, n, regime)
    BY <1>1, <2>2 DEF RegimeInv
  <2>5. RegimeOf(hist', n, regime) /\ RegimeOf(hist', n + 1, RegimeAt(regime, n + 1, b))
    BY <2>3, <2>4, RegimeStep
  <2>6. CASE n + 1 < first
    BY <1>2, <2>1, <2>2, <2>3, <2>5, <2>6 DEF RegimeInv
  <2>7. CASE ~(n + 1 < first)
    <3>1. RegimeOf(hist', Len(hist') - 1, regime')
      BY <2>1, <2>3, <2>5, <2>7
    <3> QED BY <1>2, <2>2, <2>3, <2>7, <3>1 DEF RegimeInv
  <2> QED BY <2>6, <2>7
<1>5. CASE MakePlan
  <2>1. ~plan.planned /\ n >= first /\ first' = first /\ hist' = hist
    BY <1>1, <1>5 DEF MakePlan
  <2>2. RegimeOf(hist, n, regime') /\ plan'.planned = TRUE
    <3>1. CASE n < FirstOk
      <4>1. regime' = "NEUTRAL" /\ plan'.planned = TRUE
        BY <1>1, <1>5, <3>1 DEF MakePlan, NoPlan
      <4> QED BY <3>1, <4>1, RegimeCold
    <3>2. CASE ~(n < FirstOk)
      <4>1. plan' = PlanOf(bar) /\ regime' = plan'.regime
        BY <1>1, <1>5, <3>2 DEF MakePlan
      <4>2. PlanOf(bar).planned = TRUE /\ PlanOf(bar).regime = Context(bar).regime
        BY DEF PlanOf
      <4>3. Context(bar).regime = NextRegime(regime, bar)
        BY DEF Context
      <4>4. PICK m \in Nat : n = m + 1
        BY <1>2, <2>1
      <4>5. RegimeOf(hist, m, regime)
        <5>1. Len(hist) - 1 = m /\ ~(Len(hist) < first)
          BY <1>1, <2>1, <4>4, <1>2
        <5> QED BY <2>1, <5>1 DEF RegimeInv
      <4>6. RegimeOf(hist, m + 1, RegimeAt(regime, m + 1, hist[m + 1]))
        BY <4>5, RegimeStep
      <4>7. RegimeAt(regime, m + 1, hist[m + 1]) = regime'
        BY <1>1, <3>2, <4>1, <4>2, <4>3, <4>4 DEF RegimeAt, bar
      <4> QED BY <4>1, <4>2, <4>4, <4>6, <4>7
    <3> QED BY <3>1, <3>2
  <2> QED BY <1>1, <1>2, <2>1, <2>2 DEF RegimeInv
<1>6. CASE Trade
  <2>1. PICK b \in Bars : hist' = Append(hist, b)
    BY <1>6 DEF Trade
  <2>2. plan.planned /\ plan' = NoPlan /\ regime' = regime /\ first' = first
    BY <1>6 DEF Trade
  <2>3. n >= first /\ RegimeOf(hist, n, regime)
    BY <1>1, <2>2 DEF RegimeInv
  <2>4. /\ hist' \in Seq(Bars) /\ Len(hist') = n + 1
        /\ \A k \in 1..n : hist[k] = hist'[k]
    BY <1>3, <2>1
  <2>5. RegimeOf(hist', n, regime)
    BY <2>3, <2>4, RegimeStep
  <2>6. Len(hist') - 1 = n /\ ~(Len(hist') < first)
    BY <1>2, <2>3, <2>4
  <2> QED BY <1>2, <2>2, <2>4, <2>5, <2>6 DEF RegimeInv, NoPlan
<1>7. CASE UNCHANGED plannerVars
  BY <1>7 DEF plannerVars, RegimeInv
<1> QED BY <1>4, <1>5, <1>6, <1>7 DEF PlannerNext

\* A simulation plans with the regime of the whole series, at whatever bar it starts
\* (backtest.warm_regime, regime.py).
THEOREM RegimeTrue == PlannerSpec => []RegimeIsHistory
BY RegimeStarts, RegimeKept, RegimeGives, PTL DEF PlannerSpec

-----------------------------------------------------------------------------
(* The three formulas in one behaviour: one simulation runs and the other has not begun. *)

TrendRests == formula = "none" /\ tbars = <<>> /\ start = 0 /\ target = NoTarget

StrategyInv == \/ PlannerInv /\ TrendRests
               \/ TrendInv /\ plan = NoPlan

\* Only a formula that is simulated has bars.
LEMMA OneRuns == /\ TrendInv => formula # "none"
                 /\ TrendRests => Index = 0 /\ OutOfTrend /\ LeverageNeedsCalm
<1>1. TrendInv => formula # "none"
  BY DEF TrendInv, TrendTypes
<1>2. ASSUME TrendRests PROVE Index = 0
  BY <1>2 DEF TrendRests, Index
<1>3. ASSUME TrendRests PROVE OutOfTrend
  <2>1. WarmBars \in Nat /\ start = 0
    BY <1>3, TrendAssumption DEF TrendRests
  <2>2. Most(start, WarmBars) \in Nat
    BY <2>1 DEF Most
  <2>3. ~(Index > Most(start, WarmBars) + 1)
    BY <1>2, <1>3, <2>2
  <2> QED BY <2>3 DEF OutOfTrend
<1>4. ASSUME TrendRests PROVE LeverageNeedsCalm
  BY <1>4 DEF TrendRests, LeverageNeedsCalm, NoTarget
<1> QED BY <1>1, <1>2, <1>3, <1>4

\* The simulation that begins.
LEMMA StrategyStarts == Init => StrategyInv
<1>1. ASSUME PlannerInit, formula = "none", tbars = <<>>, start = 0, target = NoTarget PROVE StrategyInv
  BY <1>1, PlannerStarts DEF StrategyInv, TrendRests
<1>2. ASSUME TrendInit, plan = NoPlan PROVE StrategyInv
  BY <1>2, TrendStarts DEF StrategyInv
<1> QED BY <1>1, <1>2 DEF Init

\* A step is one of the simulation that runs.
LEMMA StrategyMoves ==
    ASSUME StrategyInv, [Next]_<<plannerVars, trendVars>>
    PROVE  \/ PlannerInv /\ [PlannerNext]_plannerVars /\ TrendRests /\ UNCHANGED trendVars
           \/ TrendInv /\ [TrendNext]_trendVars /\ plan = NoPlan /\ UNCHANGED plannerVars
<1>1. CASE PlannerInv /\ TrendRests
  <2>1. formula = "none"
    BY <1>1 DEF TrendRests
  <2> QED BY <1>1, <2>1 DEF Next
<1>2. CASE TrendInv /\ plan = NoPlan
  <2>1. formula # "none"
    BY <1>2, OneRuns
  <2> QED BY <1>2, <2>1 DEF Next
<1> QED BY <1>1, <1>2 DEF StrategyInv

\* The simulation that rests.
LEMMA RestStays == /\ TrendRests /\ UNCHANGED trendVars => TrendRests'
                   /\ plan = NoPlan /\ UNCHANGED plannerVars => (plan = NoPlan)'
<1>1. ASSUME TrendRests, UNCHANGED trendVars PROVE TrendRests'
  BY <1>1 DEF TrendRests, trendVars
<1>2. ASSUME plan = NoPlan, UNCHANGED plannerVars PROVE (plan = NoPlan)'
  BY <1>2 DEF plannerVars, NoPlan
<1> QED BY <1>1, <1>2

\* A step of either keeps the invariant.
LEMMA StrategyStep == StrategyInv /\ [Next]_<<plannerVars, trendVars>> => StrategyInv'
<1> SUFFICES ASSUME StrategyInv, [Next]_<<plannerVars, trendVars>> PROVE StrategyInv'
  OBVIOUS
<1>1. CASE PlannerInv /\ [PlannerNext]_plannerVars /\ TrendRests /\ UNCHANGED trendVars
  BY <1>1, PlannerSteps, RestStays DEF StrategyInv
<1>2. CASE TrendInv /\ [TrendNext]_trendVars /\ plan = NoPlan /\ UNCHANGED plannerVars
  BY <1>2, TrendSteps, RestStays DEF StrategyInv
<1> QED BY <1>1, <1>2, StrategyMoves

\* Without a plan there is nothing to bound.
LEMMA NoPlanBounds == plan = NoPlan => LeverageCapped /\ ~plan.ok
BY DEF NoPlan, LeverageCapped

\* What the invariants of both say of the leverage.
LEMMA BoundedGives == StrategyInv => LeverageBounded
<1>1. ASSUME PlannerInv, TrendRests PROVE LeverageBounded
  BY <1>1, CapGiven, OneRuns DEF LeverageBounded
<1>2. ASSUME TrendInv, plan = NoPlan PROVE LeverageBounded
  BY <1>2, CalmGives, TrendInvGives, NoPlanBounds DEF LeverageBounded
<1> QED BY <1>1, <1>2 DEF StrategyInv

\* Whatever formula is simulated, its leverage is bounded: RAVG's by its target and the band
\* (planner.py:370), LTM's by the days since a drop (ltm.py:74), and two closes after the
\* trend has ended nothing is left, but for what LTM was opened with and has never traded.
THEOREM LeverageIsBounded == Spec => []LeverageBounded
BY StrategyStarts, StrategyStep, BoundedGives, PTL DEF Spec

\* The open after a close that does not allow leverage sells all of it, in RAVG, where the
\* liquidation comes before what a band or a track planned, and in LTM, but for a pair that was
\* brought along and lies within the band (planner.py:207, ltm.py:211).
THEOREM LeverageIsLeft == Spec => LeverageLeaves
<1>1. ASSUME StrategyInv, [Next]_<<plannerVars, trendVars>>
      PROVE  [NoLeverageOutsideBull /\ LeverageFollowsJudgement]_<<plannerVars, trendVars>>
  <2>1. CASE PlannerInv /\ [PlannerNext]_plannerVars /\ TrendRests /\ UNCHANGED trendVars
    <3>1. NoLeverageOutsideBull
      BY <2>1, LiquidatedStep
    <3>2. LeverageFollowsJudgement
      BY <2>1 DEF TrendRests, LeverageFollowsJudgement
    <3> QED BY <3>1, <3>2
  <2>2. CASE TrendInv /\ [TrendNext]_trendVars /\ plan = NoPlan /\ UNCHANGED plannerVars
    <3>1. NoLeverageOutsideBull
      BY <2>2, NoPlanBounds DEF NoLeverageOutsideBull
    <3>2. [LeverageFollowsJudgement]_trendVars
      BY <2>2, JudgedStep
    <3>3. UNCHANGED trendVars \/ LeverageFollowsJudgement
      BY <3>2
    <3>4. UNCHANGED <<plannerVars, trendVars>> \/ LeverageFollowsJudgement
      BY <2>2, <3>3
    <3> QED BY <3>1, <3>4
  <2> QED BY <1>1, <2>1, <2>2, StrategyMoves
<1>2. StrategyInv /\ [Next]_<<plannerVars, trendVars>>
        => [NoLeverageOutsideBull /\ LeverageFollowsJudgement]_<<plannerVars, trendVars>>
  BY <1>1
<1> QED BY StrategyStarts, StrategyStep, <1>2, PTL DEF Spec, LeverageLeaves

-----------------------------------------------------------------------------
\* Lots and rows are sold and bought side by side: the lots of the simulation oldest first, the rows
\* of the live replay in two passes. What is held of the fund, of the strategic leverage and of each
\* tactical kind stays the same on both sides.

\* What one record adds to the count of Q: q shares before, q - k of them left, of the r0 asked for.
CountStep(u, v, r, inQ, inR, i) ==
    \E k \in Nat, q \in Nat \ {0}, r0 \in Nat, v0 \in Nat, u0 \in Nat :
       /\ r0 = r[i - 1] /\ v0 = v[i - 1] /\ u0 = u[i - 1]
       /\ k <= q /\ k <= r0
       /\ inR => k = r0 \/ k = q
       /\ ~inR => k = 0
       /\ r[i] = r0 - k
       /\ inQ => v[i] = v0 + (q - k) /\ u[i] = u0 + q
       /\ ~inQ => v[i] = v0 /\ u[i] = u0
\* Shares of Q counted along a sale of n shares of R out of s: u those met, v those left, r still
\* to be sold.
Counted(s, n, R, Q, m, u, v, r) ==
    /\ u[0] = 0 /\ v[0] = 0 /\ r[0] = n
    /\ \A i \in 1..m : CountStep(u, v, r, s[i] \in Q, s[i] \in R, i)
    /\ v[m] = Qty(Take(s, n, R).lots, Q) /\ u[m] = Qty(s, Q) /\ r[m] = Take(s, n, R).rest

\* A sale counted record by record.
LEMMA TakeCounts ==
    ASSUME NEW X, Lotted(X), NEW s \in Seq(X), NEW n \in Nat, NEW R, NEW Q, Steady(X, Q)
    PROVE  \E u, v, r : Counted(s, n, R, Q, Len(s), u, v, r)
<1>1. PICK m \in Nat : m = Len(s) /\ \A i \in 1..m : s[i] \in X
  OBVIOUS
<1>2. PICK a : Taking(s, n, R, a) /\ Take(s, n, R) = a[m] /\ \A i \in 0..m : a[i] \in Takings(X)
  BY <1>1, TakeSteps
<1>3. PICK f : f = QtyAt(s, Q)
  OBVIOUS
<1>4. Integral(f, 1..m) /\ \A i \in 1..m : f[i] = IF s[i] \in Q THEN s[i].qty ELSE 0
  BY <1>1, <1>3, LottedCount, QtyTerms DEF QtyAt
<1>5. PICK u : u = [i \in 0..m |-> SumOver(f, 1..i)]
  OBVIOUS
<1>6. u[0] = 0 /\ \A i \in 1..m : u[i] = u[i - 1] + f[i]
  <2>1. SumOver(f, 1..0) = 0 /\ \A i \in 1..m : SumOver(f, 1..i) = SumOver(f, 1..(i - 1)) + f[i]
    BY <1>4, SumUpto
  <2>2. 0 \in 0..m /\ \A i \in 1..m : i \in 0..m /\ i - 1 \in 0..m
    OBVIOUS
  <2> QED BY <1>5, <2>1, <2>2
<1>7. PICK v : v = [i \in 0..m |-> Qty(a[i].lots, Q)]
  OBVIOUS
<1>8. v[0] = 0
  <2>1. a[0].lots = <<>> /\ 0 \in 0..m
    BY <1>2 DEF Taking
  <2>2. PICK e : e = <<>>
    OBVIOUS
  <2>3. Len(e) = 0 /\ 1..0 = {}
    BY <2>2
  <2>4. Qty(e, Q) = 0
    BY <2>3, QtyIs, SumEmpty
  <2> QED BY <1>7, <2>1, <2>2, <2>4
<1>10. PICK r : r = [i \in 0..m |-> a[i].rest]
  OBVIOUS
<1>p. PICK P, W : P = {i \in 1..m : s[i] \in Q} /\ W = {i \in 1..m : s[i] \in R}
  OBVIOUS
<1>11. ASSUME NEW i \in 1..m
       PROVE \E k \in Nat, q \in Nat \ {0}, r0 \in Nat, v0 \in Nat :
               /\ r0 = r[i - 1] /\ v0 = v[i - 1]
               /\ k <= q /\ k <= r0
               /\ i \in W => k = r0 \/ k = q
               /\ i \notin W => k = 0
               /\ r[i] = r0 - k
               /\ i \in P => v[i] = v0 + (q - k) /\ f[i] = q
               /\ i \notin P => v[i] = v0 /\ f[i] = 0
  <2>1. PICK acc \in Takings(X), l \in X : acc = a[i - 1] /\ l = s[i]
    BY <1>1, <1>2
  <2>2. a[i] = TakeOne(R, acc, l)
    BY <1>1, <1>2, <2>1 DEF Taking
  <2>b. PICK k \in Nat : Gives(R, acc, l, k)
    BY TakeOneGives
  <2>3. /\ k <= acc.rest /\ k <= l.qty /\ IF l \in R THEN k = acc.rest \/ k = l.qty ELSE k = 0
        /\ TakeOne(R, acc, l).rest = acc.rest - k
        /\ TakeOne(R, acc, l).lots = IF k = l.qty THEN acc.lots ELSE Append(acc.lots, [l EXCEPT !.qty = l.qty - k])
        /\ k # l.qty => l.qty - k \in Nat \ {0}
    BY <2>b DEF Gives
  <2>4. PICK q \in Nat \ {0} : q = l.qty
    BY DEF Lotted
  <2>5. r[i - 1] = acc.rest /\ r[i] = a[i].rest /\ v[i - 1] = Qty(acc.lots, Q) /\ v[i] = Qty(a[i].lots, Q)
    BY <1>7, <1>10, <2>1
  <2>6. acc.lots \in Seq(X) /\ acc.rest \in Nat
    BY DEF Takings
  <2>7. v[i - 1] \in Nat
    BY <2>5, <2>6, LottedCount, QtyNat
  <2>8. (l \in Q => v[i] = v[i - 1] + (q - k)) /\ (l \notin Q => v[i] = v[i - 1])
    <3>1. CASE k = q
      BY <2>2, <2>3, <2>4, <2>5, <2>7, <3>1
    <3>2. CASE k # q
      <4>0. q - k \in Nat \ {0}
        BY <2>3, <2>4, <3>2
      <4>1. PICK c \in X : c = [l EXCEPT !.qty = q - k]
        BY <4>0 DEF Lotted
      <4>2. q - k \in Nat \ {0}
        BY <2>3, <2>4, <3>2
      <4>3. c \in Q <=> l \in Q
        BY <4>1, <4>2 DEF Steady
      <4>4. a[i].lots = Append(acc.lots, c)
        BY <2>2, <2>3, <2>4, <3>2, <4>1
      <4>5. Qty(Append(acc.lots, c), Q) = Qty(acc.lots, Q) + IF c \in Q THEN c.qty ELSE 0
        BY <2>6, LottedCount, QtyAppend
      <4>6. c.qty = q - k
        <5>1. l \in X /\ l.qty \in Nat
          BY <2>4
        <5> QED BY <4>1, <4>2 DEF Lotted
      <4>7. (c \in Q => v[i] = v[i - 1] + c.qty) /\ (c \notin Q => v[i] = v[i - 1])
        BY <2>5, <2>7, <4>4, <4>5
      <4> QED BY <4>3, <4>6, <4>7
    <3> QED BY <3>1, <3>2
  <2>9. (l \in Q <=> i \in P) /\ (l \in R <=> i \in W)
    BY <1>p, <2>1
  <2>10. (l \in Q => f[i] = q) /\ (l \notin Q => f[i] = 0)
    BY <1>4, <2>1, <2>4
  <2>11. PICK r0 \in Nat, v0 \in Nat : r0 = acc.rest /\ v0 = v[i - 1] /\ r0 = r[i - 1]
    BY <2>5, <2>6, <2>7
  <2>12. /\ k <= q /\ k <= r0 /\ (i \in W => k = r0 \/ k = q) /\ (i \notin W => k = 0)
         /\ r[i] = r0 - k
    BY <2>2, <2>3, <2>4, <2>5, <2>9, <2>11
  <2>13. (i \in P => v[i] = v0 + (q - k) /\ f[i] = q) /\ (i \notin P => v[i] = v0 /\ f[i] = 0)
    BY <2>8, <2>9, <2>10, <2>11
  <2> QED BY <2>11, <2>12, <2>13
<1>12. \A i \in 0..m : u[i] \in Nat
  <2>1. PICK U : U = {i \in 0..m : u[i] \in Nat}
    OBVIOUS
  <2>2. 0 \in U
    BY <1>6, <2>1
  <2>3. \A i \in 1..m : i - 1 \in U => i \in U
    <3> SUFFICES ASSUME NEW i \in 1..m, i - 1 \in U PROVE i \in U
      OBVIOUS
    <3>1. PICK q \in Nat \ {0} : (i \in P => f[i] = q) /\ (i \notin P => f[i] = 0)
      BY <1>11
    <3>2. PICK u0 \in Nat : u0 = u[i - 1]
      BY <2>1
    <3>3. u[i] = u0 + f[i]
      BY <1>6, <3>2
    <3>4. f[i] \in Nat
      BY <3>1
    <3>5. u0 + f[i] \in Nat
      BY <3>4
    <3> QED BY <2>1, <3>3, <3>5
  <2>4. \A i \in 0..m : i \in U
    BY <2>2, <2>3, PlacesAll
  <2> QED BY <2>1, <2>4
<1>13. ASSUME NEW i \in 1..m PROVE CountStep(u, v, r, s[i] \in Q, s[i] \in R, i)
  <2>1. PICK k \in Nat, q \in Nat \ {0}, r0 \in Nat, v0 \in Nat :
               /\ r0 = r[i - 1] /\ v0 = v[i - 1]
               /\ k <= q /\ k <= r0
               /\ i \in W => k = r0 \/ k = q
               /\ i \notin W => k = 0
               /\ r[i] = r0 - k
               /\ i \in P => v[i] = v0 + (q - k) /\ f[i] = q
               /\ i \notin P => v[i] = v0 /\ f[i] = 0
    BY <1>11
  <2>2. PICK u0 \in Nat : u0 = u[i - 1]
    <3>1. i - 1 \in 0..m
      OBVIOUS
    <3> QED BY <1>12, <3>1
  <2>3. u[i] = u0 + f[i]
    BY <1>6, <2>2
  <2>4. (i \in P => u[i] = u0 + q) /\ (i \notin P => u[i] = u0)
    BY <2>1, <2>2, <2>3
  <2>5. (i \in P <=> s[i] \in Q) /\ (i \in W <=> s[i] \in R)
    BY <1>p
  <2>6. /\ s[i] \in R => k = r0 \/ k = q
        /\ s[i] \notin R => k = 0
        /\ s[i] \in Q => v[i] = v0 + (q - k) /\ u[i] = u0 + q
        /\ s[i] \notin Q => v[i] = v0 /\ u[i] = u0
    BY <2>1, <2>4, <2>5
  <2> QED BY <2>1, <2>2, <2>6 DEF CountStep
<1>14. r[0] = n
  BY <1>2, <1>10 DEF Taking
<1>15. v[m] = Qty(Take(s, n, R).lots, Q) /\ u[m] = Qty(s, Q) /\ r[m] = Take(s, n, R).rest
  <2>1. m \in 0..m
    OBVIOUS
  <2> QED BY <1>1, <1>2, <1>3, <1>5, <1>7, <1>10, <2>1, QtyIs
<1>16. Counted(s, n, R, Q, m, u, v, r)
  BY <1>6, <1>8, <1>13, <1>14, <1>15 DEF Counted
<1> QED BY <1>1, <1>16

\* All records of A that are sold from come before the others that are.
Precede(s, A, R) == \A i, j \in 1..Len(s) : i < j /\ s[i] \in R /\ s[j] \in A => s[i] \in A

\* Up to place i n shares have been taken from the part, and no others if the places B were not met.
SoldFirst(u, v, r, B, n, i) ==
    /\ u[i] \in Nat /\ v[i] \in Nat /\ r[i] \in Nat
    /\ (u[i] <= n => v[i] = 0) /\ (u[i] >= n => v[i] = u[i] - n)
    /\ (\A j \in 1..i : j \notin B) => (u[i] <= n => r[i] = n - u[i]) /\ (u[i] >= n => r[i] = 0)

\* What is left of a part that is sold first; and how much is left to sell when it is all there is.
LEMMA TakeOrder ==
    ASSUME NEW X, Lotted(X), NEW s \in Seq(X), NEW n \in Nat, NEW R, NEW A, Steady(X, A),
           \A i \in 1..Len(s) : s[i] \in A => s[i] \in R, Precede(s, A, R)
    PROVE  /\ Qty(Take(s, n, R).lots, A) = Most(0, Qty(s, A) - n)
           /\ (\A i \in 1..Len(s) : s[i] \in R => s[i] \in A) => Take(s, n, R).rest = Most(0, n - Qty(s, A))
<1>1. PICK m \in Nat : m = Len(s)
  OBVIOUS
<1>2. PICK u, v, r : Counted(s, n, R, A, m, u, v, r)
  BY <1>1, TakeCounts
<1>3. PICK B : B = {i \in 1..m : s[i] \in R /\ s[i] \notin A}
  OBVIOUS
<1>4. PICK G : G = {i \in 0..m : SoldFirst(u, v, r, B, n, i)}
  OBVIOUS
<1>5. 0 \in G
  BY <1>2, <1>4 DEF Counted, SoldFirst
<1>6. \A i \in 1..m : i - 1 \in G => i \in G
  <2> SUFFICES ASSUME NEW i \in 1..m, i - 1 \in G PROVE i \in G
    OBVIOUS
  <2>1. CountStep(u, v, r, s[i] \in A, s[i] \in R, i)
    BY <1>2 DEF Counted
  <2>2. PICK k \in Nat, q \in Nat \ {0}, r0 \in Nat, v0 \in Nat, u0 \in Nat :
       /\ r0 = r[i - 1] /\ v0 = v[i - 1] /\ u0 = u[i - 1]
       /\ k <= q /\ k <= r0
       /\ s[i] \in R => k = r0 \/ k = q
       /\ s[i] \notin R => k = 0
       /\ r[i] = r0 - k
       /\ s[i] \in A => v[i] = v0 + (q - k) /\ u[i] = u0 + q
       /\ s[i] \notin A => v[i] = v0 /\ u[i] = u0
    BY <2>1 DEF CountStep
  <2>a. /\ u[i - 1] <= n => v[i - 1] = 0
        /\ u[i - 1] >= n => v[i - 1] = u[i - 1] - n
        /\ (\A j \in 1..(i - 1) : j \notin B) =>
              (u[i - 1] <= n => r[i - 1] = n - u[i - 1]) /\ (u[i - 1] >= n => r[i - 1] = 0)
    BY <1>4 DEF SoldFirst
  <2>3. /\ u0 <= n => v0 = 0
        /\ u0 >= n => v0 = u0 - n
        /\ (\A j \in 1..(i - 1) : j \notin B) => (u0 <= n => r0 = n - u0) /\ (u0 >= n => r0 = 0)
    BY <2>2, <2>a
  <2>4. PICK u1, v1, r1 : u1 = u[i] /\ v1 = v[i] /\ r1 = r[i]
    OBVIOUS
  <2>5. CASE s[i] \in A
    <3>1. s[i] \in R /\ i \notin B
      BY <1>1, <1>3, <2>5
    <3>2. \A j \in 1..(i - 1) : j \notin B
      <4> SUFFICES ASSUME NEW j \in 1..(i - 1), j \in B PROVE FALSE
        OBVIOUS
      <4>1. j \in 1..m /\ j < i
        OBVIOUS
      <4> QED BY <1>1, <1>3, <2>5, <4>1 DEF Precede
    <3>3. (u0 <= n => r0 = n - u0) /\ (u0 >= n => r0 = 0)
      BY <2>3, <3>2
    <3>4. k <= q /\ k <= r0 /\ (k = r0 \/ k = q) /\ r1 = r0 - k /\ v1 = v0 + (q - k) /\ u1 = u0 + q
      BY <2>2, <2>4, <2>5, <3>1
    <3>5. /\ u1 \in Nat /\ v1 \in Nat /\ r1 \in Nat
          /\ (u1 <= n => v1 = 0) /\ (u1 >= n => v1 = u1 - n)
          /\ (u1 <= n => r1 = n - u1) /\ (u1 >= n => r1 = 0)
      <4>1. (u0 <= n => v0 = 0) /\ (u0 >= n => v0 = u0 - n)
        BY <2>3
      <4>2. CASE u0 <= n
        BY <3>3, <3>4, <4>1, <4>2
      <4>3. CASE u0 >= n
        BY <3>3, <3>4, <4>1, <4>3
      <4> QED BY <4>2, <4>3
    <3>6. SoldFirst(u, v, r, B, n, i)
      BY <2>4, <3>5 DEF SoldFirst
    <3> QED BY <1>4, <3>6
  <2>6. CASE s[i] \notin A
    <3>1. v1 = v0 /\ u1 = u0 /\ r1 = r0 - k /\ r1 \in Nat
      BY <2>2, <2>4, <2>6
    <3>2. ASSUME \A j \in 1..i : j \notin B PROVE (u1 <= n => r1 = n - u1) /\ (u1 >= n => r1 = 0)
      <4>1. s[i] \notin R
        BY <1>3, <2>6, <3>2
      <4>2. k = 0
        BY <2>2, <4>1
      <4>3. \A j \in 1..(i - 1) : j \notin B
        BY <3>2
      <4> QED BY <2>3, <3>1, <4>2, <4>3
    <3>3. (u1 <= n => v1 = 0) /\ (u1 >= n => v1 = u1 - n) /\ u1 \in Nat /\ v1 \in Nat
      BY <2>3, <3>1
    <3>4. SoldFirst(u, v, r, B, n, i)
      BY <2>4, <3>1, <3>2, <3>3 DEF SoldFirst
    <3> QED BY <1>4, <3>4
  <2> QED BY <2>5, <2>6
<1>7. \A i \in 0..m : i \in G
  BY <1>5, <1>6, PlacesAll
<1>8. m \in G
  BY <1>7
<1>9. PICK x, y, z : x = u[m] /\ y = v[m] /\ z = r[m]
  OBVIOUS
<1>a. /\ u[m] \in Nat /\ v[m] \in Nat /\ r[m] \in Nat
      /\ (u[m] <= n => v[m] = 0) /\ (u[m] >= n => v[m] = u[m] - n)
      /\ (\A j \in 1..m : j \notin B) => (u[m] <= n => r[m] = n - u[m]) /\ (u[m] >= n => r[m] = 0)
  BY <1>4, <1>8 DEF SoldFirst
<1>10. /\ x \in Nat /\ y \in Nat /\ z \in Nat /\ (x <= n => y = 0) /\ (x >= n => y = x - n)
       /\ (\A j \in 1..m : j \notin B) => (x <= n => z = n - x) /\ (x >= n => z = 0)
  BY <1>9, <1>a
<1>11. y = Most(0, x - n)
  BY <1>10 DEF Most
<1>12. (\A j \in 1..m : j \notin B) => z = Most(0, n - x)
  BY <1>10 DEF Most
<1>13. x = Qty(s, A) /\ y = Qty(Take(s, n, R).lots, A) /\ z = Take(s, n, R).rest
  BY <1>2, <1>9 DEF Counted
<1>14. (\A i \in 1..Len(s) : s[i] \in R => s[i] \in A) => \A j \in 1..m : j \notin B
  BY <1>1, <1>3
<1> QED BY <1>11, <1>12, <1>13, <1>14

\* A part that is not sold from stays as it is.
LEMMA TakeOther ==
    ASSUME NEW X, Lotted(X), NEW s \in Seq(X), NEW n \in Nat, NEW R, NEW A, Steady(X, A),
           \A i \in 1..Len(s) : s[i] \in A => s[i] \notin R
    PROVE  Qty(Take(s, n, R).lots, A) = Qty(s, A)
<1>1. PICK m \in Nat : m = Len(s)
  OBVIOUS
<1>2. PICK u, v, r : Counted(s, n, R, A, m, u, v, r)
  BY <1>1, TakeCounts
<1>3. PICK G : G = {i \in 0..m : u[i] = v[i]}
  OBVIOUS
<1>4. 0 \in G
  BY <1>2, <1>3 DEF Counted
<1>5. \A i \in 1..m : i - 1 \in G => i \in G
  <2> SUFFICES ASSUME NEW i \in 1..m, i - 1 \in G PROVE i \in G
    OBVIOUS
  <2>1. CountStep(u, v, r, s[i] \in A, s[i] \in R, i)
    BY <1>2 DEF Counted
  <2>2. PICK k \in Nat, q \in Nat \ {0}, r0 \in Nat, v0 \in Nat, u0 \in Nat :
       /\ r0 = r[i - 1] /\ v0 = v[i - 1] /\ u0 = u[i - 1]
       /\ k <= q /\ k <= r0
       /\ s[i] \in R => k = r0 \/ k = q
       /\ s[i] \notin R => k = 0
       /\ r[i] = r0 - k
       /\ s[i] \in A => v[i] = v0 + (q - k) /\ u[i] = u0 + q
       /\ s[i] \notin A => v[i] = v0 /\ u[i] = u0
    BY <2>1 DEF CountStep
  <2>3. u0 = v0
    BY <1>3, <2>2
  <2>4. s[i] \in A => k = 0
    BY <1>1, <2>2
  <2>5. s[i] \in A => v[i] = v0 + q
    BY <2>2, <2>4
  <2> QED BY <1>3, <2>2, <2>3, <2>5
<1>6. \A i \in 0..m : i \in G
  BY <1>4, <1>5, PlacesAll
<1>7. m \in G
  BY <1>6
<1> QED BY <1>2, <1>3, <1>7 DEF Counted

\* The records of s are pair by pair, the earlier one first, in Z, whatever their quantities.
Arranged(s, Z) == \A i, j \in 1..Len(s) : i < j => <<s[i], s[j]>> \in Z
SteadyPairs(X, Z) == \A x, y \in X : <<x, y>> \in Z =>
    \A q \in Nat \ {0} : <<[x EXCEPT !.qty = q], y>> \in Z /\ <<x, [y EXCEPT !.qty = q]>> \in Z

\* Part of the way: what is left is arranged, also against what is still to come.
ArrangedUpto(ls, s, i, Z) ==
    Arranged(ls, Z) /\ \A j \in 1..Len(ls) : \A k \in 1..Len(s) : k > i => <<ls[j], s[k]>> \in Z

\* A sale keeps what is left in its order.
LEMMA TakeArranged ==
    ASSUME NEW X, Lotted(X), NEW s \in Seq(X), NEW n \in Nat, NEW R, NEW Z, SteadyPairs(X, Z), Arranged(s, Z)
    PROVE  Arranged(Take(s, n, R).lots, Z)
<1>1. PICK m \in Nat : m = Len(s) /\ \A i \in 1..m : s[i] \in X
  OBVIOUS
<1>2. PICK a : Taking(s, n, R, a) /\ Take(s, n, R) = a[m] /\ \A i \in 0..m : a[i] \in Takings(X)
  BY <1>1, TakeSteps
<1>3. PICK G : G = {i \in 0..m : ArrangedUpto(a[i].lots, s, i, Z)}
  OBVIOUS
<1>4. 0 \in G
  <2>1. PICK e : e = a[0].lots
    OBVIOUS
  <2>2. e = <<>>
    BY <1>2, <2>1 DEF Taking
  <2>3. Len(e) = 0
    BY <2>2
  <2>4. ArrangedUpto(e, s, 0, Z)
    BY <2>3 DEF ArrangedUpto, Arranged
  <2> QED BY <1>3, <2>1, <2>4
<1>5. \A i \in 1..m : i - 1 \in G => i \in G
  <2> SUFFICES ASSUME NEW i \in 1..m, i - 1 \in G PROVE i \in G
    OBVIOUS
  <2>1. PICK acc \in Takings(X), l \in X : acc = a[i - 1] /\ l = s[i]
    BY <1>1, <1>2
  <2>2. a[i] = TakeOne(R, acc, l)
    BY <1>1, <1>2, <2>1 DEF Taking
  <2>3. PICK k \in Nat : Gives(R, acc, l, k)
    BY TakeOneGives
  <2>4. PICK ls \in Seq(X) : ls = acc.lots
    BY DEF Takings
  <2>5. Arranged(ls, Z) /\ \A j \in 1..Len(ls) : \A h \in 1..m : h > i - 1 => <<ls[j], s[h]>> \in Z
    BY <1>1, <1>3, <2>1, <2>4 DEF ArrangedUpto
  <2>6. CASE k = l.qty
    <3>1. a[i].lots = ls
      BY <2>2, <2>3, <2>4, <2>6 DEF Gives
    <3>2. ArrangedUpto(ls, s, i, Z)
      BY <1>1, <2>5 DEF ArrangedUpto
    <3> QED BY <1>3, <3>1, <3>2
  <2>7. CASE k # l.qty
    <3>1. PICK q \in Nat \ {0} : q = l.qty - k
      BY <2>3, <2>7 DEF Gives
    <3>2. PICK c \in X : c = [l EXCEPT !.qty = q]
      BY DEF Lotted
    <3>3. a[i].lots = Append(ls, c)
      BY <2>2, <2>3, <2>4, <2>7, <3>1, <3>2 DEF Gives
    <3>4. PICK t : t = Append(ls, c)
      OBVIOUS
    <3>5. Len(t) = Len(ls) + 1 /\ (\A j \in 1..Len(ls) : t[j] = ls[j]) /\ t[Len(ls) + 1] = c
      BY <3>4
    <3>6. \A j \in 1..Len(ls) : <<ls[j], c>> \in Z
      <4> TAKE j \in 1..Len(ls)
      <4>1. <<ls[j], l>> \in Z
        BY <1>1, <2>1, <2>5
      <4>2. ls[j] \in X
        OBVIOUS
      <4> QED BY <3>2, <4>1, <4>2 DEF SteadyPairs
    <3>7. \A h \in 1..m : h > i => <<c, s[h]>> \in Z
      <4> TAKE h \in 1..m
      <4> HAVE h > i
      <4>1. <<l, s[h]>> \in Z
        BY <1>1, <2>1 DEF Arranged
      <4>2. s[h] \in X
        BY <1>1
      <4> QED BY <3>2, <4>1, <4>2 DEF SteadyPairs
    <3>8. Arranged(t, Z)
      <4> SUFFICES ASSUME NEW g \in 1..Len(t), NEW h \in 1..Len(t), g < h PROVE <<t[g], t[h]>> \in Z
        BY DEF Arranged
      <4>1. g \in 1..Len(ls)
        BY <3>5
      <4>2. CASE h = Len(ls) + 1
        BY <3>5, <3>6, <4>1, <4>2
      <4>3. CASE h # Len(ls) + 1
        <5>1. h \in 1..Len(ls)
          BY <3>5, <4>3
        <5> QED BY <2>5, <3>5, <4>1, <5>1 DEF Arranged
      <4> QED BY <4>2, <4>3
    <3>9. \A j \in 1..Len(t) : \A h \in 1..m : h > i => <<t[j], s[h]>> \in Z
      <4> TAKE j \in 1..Len(t)
      <4> TAKE h \in 1..m
      <4> HAVE h > i
      <4>1. h > i - 1
        OBVIOUS
      <4>2. CASE j = Len(ls) + 1
        BY <3>5, <3>7, <4>2
      <4>3. CASE j # Len(ls) + 1
        <5>1. j \in 1..Len(ls)
          BY <3>5, <4>3
        <5> QED BY <2>5, <3>5, <4>1, <5>1
      <4> QED BY <4>2, <4>3
    <3>10. ArrangedUpto(t, s, i, Z)
      BY <1>1, <3>8, <3>9 DEF ArrangedUpto
    <3>11. a[i].lots = t
      BY <3>3, <3>4
    <3> QED BY <1>3, <3>10, <3>11
  <2> QED BY <2>6, <2>7
<1>6. \A i \in 0..m : i \in G
  BY <1>4, <1>5, PlacesAll
<1>7. m \in G
  BY <1>6
<1> QED BY <1>2, <1>3, <1>7 DEF ArrangedUpto

\* Records that keep their quantity are the same.
Exact(X) == \A l \in X : [l EXCEPT !.qty = l.qty] = l

RestsOn(x, s, n, i) == x.rest = n /\ x.lots = SubSeq(s, 1, i)

\* Where nothing is sold nothing changes.
LEMMA TakeNothing ==
    ASSUME NEW X, Lotted(X), Exact(X), NEW s \in Seq(X), NEW n \in Nat, NEW R,
           n = 0 \/ \A i \in 1..Len(s) : s[i] \notin R
    PROVE  Take(s, n, R).lots = s /\ Take(s, n, R).rest = n
<1>1. PICK m \in Nat : m = Len(s) /\ \A i \in 1..m : s[i] \in X
  OBVIOUS
<1>2. PICK a : Taking(s, n, R, a) /\ Take(s, n, R) = a[m] /\ \A i \in 0..m : a[i] \in Takings(X)
  BY <1>1, TakeSteps
<1>3. PICK G : G = {i \in 0..m : RestsOn(a[i], s, n, i)}
  OBVIOUS
<1>4. 0 \in G
  <2>1. a[0].rest = n /\ a[0].lots = <<>>
    BY <1>2 DEF Taking
  <2>2. SubSeq(s, 1, 0) = <<>>
    OBVIOUS
  <2>3. RestsOn(a[0], s, n, 0)
    BY <2>1, <2>2 DEF RestsOn
  <2> QED BY <1>3, <2>3
<1>5. \A i \in 1..m : i - 1 \in G => i \in G
  <2> SUFFICES ASSUME NEW i \in 1..m, i - 1 \in G PROVE i \in G
    OBVIOUS
  <2>1. PICK acc \in Takings(X), l \in X : acc = a[i - 1] /\ l = s[i]
    BY <1>1, <1>2
  <2>2. a[i] = TakeOne(R, acc, l)
    BY <1>1, <1>2, <2>1 DEF Taking
  <2>3. PICK k \in Nat : Gives(R, acc, l, k)
    BY TakeOneGives
  <2>4. acc.rest = n /\ acc.lots = SubSeq(s, 1, i - 1)
    BY <1>3, <2>1 DEF RestsOn
  <2>5. k = 0
    <3>1. CASE n = 0
      BY <2>3, <2>4, <3>1 DEF Gives
    <3>2. CASE \A j \in 1..Len(s) : s[j] \notin R
      BY <1>1, <2>1, <2>3, <3>2 DEF Gives
    <3> QED BY <3>1, <3>2
  <2>6. PICK q \in Nat \ {0} : q = l.qty
    BY DEF Lotted
  <2>7. k # l.qty /\ l.qty - k = q
    BY <2>5, <2>6
  <2>8. a[i].lots = Append(acc.lots, [l EXCEPT !.qty = q])
    BY <2>2, <2>3, <2>7 DEF Gives
  <2>9. [l EXCEPT !.qty = q] = l
    BY <2>6 DEF Exact
  <2>10. a[i].lots = Append(SubSeq(s, 1, i - 1), s[i])
    BY <2>1, <2>4, <2>8, <2>9
  <2>11. Append(SubSeq(s, 1, i - 1), s[i]) = SubSeq(s, 1, i)
    BY <1>1
  <2>12. a[i].rest = n
    <3>1. a[i].rest = acc.rest - k
      BY <2>2, <2>3 DEF Gives
    <3> QED BY <2>4, <2>5, <3>1
  <2>13. RestsOn(a[i], s, n, i)
    BY <2>10, <2>11, <2>12 DEF RestsOn
  <2> QED BY <1>3, <2>13
<1>6. \A i \in 0..m : i \in G
  BY <1>4, <1>5, PlacesAll
<1>7. m \in G
  BY <1>6
<1>8. SubSeq(s, 1, m) = s
  BY <1>1
<1> QED BY <1>2, <1>3, <1>7, <1>8 DEF RestsOn

\* Two sequences whose records are, place by place, in P, and stay in it when both shrink alike.
Paired(s, t, P) == Len(s) = Len(t) /\ \A i \in 1..Len(s) : <<s[i], t[i]>> \in P
Pairing(X, Y, P) == \A x \in X : \A y \in Y : <<x, y>> \in P =>
    x.qty = y.qty /\ \A q \in Nat \ {0} : <<[x EXCEPT !.qty = q], [y EXCEPT !.qty = q]>> \in P

\* n shares are taken at the same places: R and S agree, but where all has been found before.
FoundBefore(s, n, R, i) == \E j \in 1..Len(s) : j <= i /\ s[j] \in R /\ s[j].qty >= n
Alike(s, t, n, R, S) == \A i \in 1..Len(s) : (s[i] \in R <=> t[i] \in S) \/ FoundBefore(s, n, R, i - 1)

\* Part of the way.
PairedUpto(s, n, R, P, x, y, i) ==
    x.rest = y.rest /\ Paired(x.lots, y.lots, P) /\ (FoundBefore(s, n, R, i) => x.rest = 0)

\* What is still to be sold is at most what was asked for.
LEMMA RestShrinks ==
    ASSUME NEW X, Lotted(X), NEW s \in Seq(X), NEW n \in Nat, NEW R, NEW a, Taking(s, n, R, a),
           \A i \in 0..Len(s) : a[i] \in Takings(X)
    PROVE  \A i \in 0..Len(s) : a[i].rest <= n
<1>1. PICK m \in Nat : m = Len(s) /\ \A i \in 1..m : s[i] \in X
  OBVIOUS
<1>2. PICK G : G = {i \in 0..m : a[i].rest <= n}
  OBVIOUS
<1>3. 0 \in G
  BY <1>2 DEF Taking
<1>4. \A i \in 1..m : i - 1 \in G => i \in G
  <2> SUFFICES ASSUME NEW i \in 1..m, i - 1 \in G PROVE i \in G
    OBVIOUS
  <2>1. PICK acc \in Takings(X), l \in X : acc = a[i - 1] /\ l = s[i]
    BY <1>1
  <2>2. PICK k \in Nat : Gives(R, acc, l, k)
    BY TakeOneGives
  <2>3. a[i].rest = acc.rest - k
    BY <1>1, <2>1, <2>2 DEF Taking, Gives
  <2>4. PICK r \in Nat : r = acc.rest /\ r <= n
    BY <1>2, <2>1 DEF Takings
  <2> QED BY <1>2, <2>3, <2>4
<1>5. \A i \in 0..m : i \in G
  BY <1>3, <1>4, PlacesAll
<1> QED BY <1>1, <1>2, <1>5

\* One pair more.
LEMMA AppendPaired ==
    ASSUME NEW X, NEW Y, NEW s \in Seq(X), NEW t \in Seq(Y), NEW P, Paired(s, t, P),
           NEW x \in X, NEW y \in Y, <<x, y>> \in P
    PROVE  Paired(Append(s, x), Append(t, y), P)
<1>1. PICK m \in Nat : m = Len(s) /\ m = Len(t)
  BY DEF Paired
<1>2. PICK v, w : v = Append(s, x) /\ w = Append(t, y)
  OBVIOUS
<1>a. Len(v) = m + 1 /\ v[m + 1] = x /\ \A i \in 1..m : v[i] = s[i]
  <2>1. m = Len(s) /\ v = Append(s, x)
    BY <1>1, <1>2
  <2> QED BY <2>1
<1>b. Len(w) = m + 1 /\ w[m + 1] = y /\ \A i \in 1..m : w[i] = t[i]
  <2>1. m = Len(t) /\ w = Append(t, y)
    BY <1>1, <1>2
  <2> QED BY <2>1
<1>3. /\ Len(v) = m + 1 /\ Len(w) = m + 1 /\ v[m + 1] = x /\ w[m + 1] = y
      /\ \A i \in 1..m : v[i] = s[i] /\ w[i] = t[i]
  BY <1>a, <1>b
<1>4. \A i \in 1..Len(v) : <<v[i], w[i]>> \in P
  <2> TAKE i \in 1..Len(v)
  <2>1. CASE i = m + 1
    BY <1>3, <2>1
  <2>2. CASE i # m + 1
    <3>1. i \in 1..m
      BY <1>3, <2>2
    <3> QED BY <1>1, <1>3, <3>1 DEF Paired
  <2> QED BY <2>1, <2>2
<1> QED BY <1>2, <1>3, <1>4 DEF Paired

\* Such sales leave them paired.
LEMMA TakePaired ==
    ASSUME NEW X, Lotted(X), NEW Y, Lotted(Y), NEW P, Pairing(X, Y, P),
           NEW s \in Seq(X), NEW t \in Seq(Y), Paired(s, t, P),
           NEW n \in Nat, NEW R, NEW S, Alike(s, t, n, R, S)
    PROVE  Take(s, n, R).rest = Take(t, n, S).rest /\ Paired(Take(s, n, R).lots, Take(t, n, S).lots, P)
<1>1. PICK m \in Nat : m = Len(s) /\ m = Len(t) /\ \A i \in 1..m : s[i] \in X /\ t[i] \in Y
  BY DEF Paired
<1>2. PICK a : Taking(s, n, R, a) /\ Take(s, n, R) = a[m] /\ \A i \in 0..m : a[i] \in Takings(X)
  BY <1>1, TakeSteps
<1>3. PICK c : Taking(t, n, S, c) /\ Take(t, n, S) = c[m] /\ \A i \in 0..m : c[i] \in Takings(Y)
  BY <1>1, TakeSteps
<1>4. PICK G : G = {i \in 0..m : PairedUpto(s, n, R, P, a[i], c[i], i)}
  OBVIOUS
<1>5. 0 \in G
  <2>1. a[0].rest = n /\ c[0].rest = n /\ a[0].lots = <<>> /\ c[0].lots = <<>>
    BY <1>2, <1>3 DEF Taking
  <2>2. PICK e : e = <<>>
    OBVIOUS
  <2>3. Len(e) = 0
    BY <2>2
  <2>4. Paired(e, e, P)
    BY <2>3 DEF Paired
  <2>5. ~FoundBefore(s, n, R, 0)
    BY DEF FoundBefore
  <2> QED BY <1>4, <2>1, <2>2, <2>4, <2>5 DEF PairedUpto
<1>6. \A i \in 1..m : i - 1 \in G => i \in G
  <2> SUFFICES ASSUME NEW i \in 1..m, i - 1 \in G PROVE i \in G
    OBVIOUS
  <2>1. PICK x \in Takings(X), l \in X : x = a[i - 1] /\ l = s[i]
    BY <1>1, <1>2
  <2>2. PICK y \in Takings(Y), h \in Y : y = c[i - 1] /\ h = t[i]
    BY <1>1, <1>3
  <2>3. a[i] = TakeOne(R, x, l) /\ c[i] = TakeOne(S, y, h)
    BY <1>1, <1>2, <1>3, <2>1, <2>2 DEF Taking
  <2>4. PICK k \in Nat : Gives(R, x, l, k)
    BY TakeOneGives
  <2>5. PICK g \in Nat : Gives(S, y, h, g)
    BY TakeOneGives
  <2>6. x.rest = y.rest /\ Paired(x.lots, y.lots, P) /\ (FoundBefore(s, n, R, i - 1) => x.rest = 0)
    BY <1>4, <2>1, <2>2 DEF PairedUpto
  <2>7. <<l, h>> \in P /\ l.qty = h.qty
    <3>1. <<l, h>> \in P
      BY <1>1, <2>1, <2>2 DEF Paired
    <3> QED BY <3>1 DEF Pairing
  <2>8. PICK r \in Nat, q \in Nat \ {0} : r = x.rest /\ q = l.qty
    BY DEF Takings, Lotted
  <2>9. /\ k <= r /\ k <= q /\ IF l \in R THEN k = r \/ k = q ELSE k = 0
        /\ g <= r /\ g <= q /\ IF h \in S THEN g = r \/ g = q ELSE g = 0
    BY <2>4, <2>5, <2>6, <2>7, <2>8 DEF Gives
  <2>10. (l \in R <=> h \in S) \/ r = 0
    BY <1>1, <2>1, <2>2, <2>6, <2>8 DEF Alike
  <2>11. k = g
    BY <2>9, <2>10
  <2>12. a[i].rest = r - k /\ c[i].rest = r - k
    BY <2>3, <2>4, <2>5, <2>6, <2>8, <2>11 DEF Gives
  <2>13. FoundBefore(s, n, R, i) => r - k = 0
    <3> SUFFICES ASSUME FoundBefore(s, n, R, i) PROVE r - k = 0
      OBVIOUS
    <3>1. CASE FoundBefore(s, n, R, i - 1)
      BY <2>6, <2>8, <2>9, <3>1
    <3>2. CASE ~FoundBefore(s, n, R, i - 1)
      <4>1. PICK j \in 1..Len(s) : j <= i /\ s[j] \in R /\ s[j].qty >= n
        BY DEF FoundBefore
      <4>2. j = i
        <5>1. ~(j <= i - 1)
          BY <3>2, <4>1 DEF FoundBefore
        <5> QED BY <1>1, <4>1, <5>1
      <4>3. l \in R /\ q >= n
        BY <2>1, <2>8, <4>1, <4>2
      <4>4. r <= n
        <5>1. r \in Nat
          OBVIOUS
        <5>a. \A d \in 0..Len(s) : a[d] \in Takings(X)
          BY <1>1, <1>2
        <5>b. \A d \in 0..Len(s) : a[d].rest <= n
          BY <1>2, <5>a, RestShrinks
        <5>2. a[i - 1].rest <= n
          BY <1>1, <5>b
        <5> QED BY <2>1, <2>8, <5>2
      <4>5. k = r \/ k = q
        BY <2>9, <4>3
      <4> QED BY <2>9, <4>3, <4>4, <4>5
    <3> QED BY <3>1, <3>2
  <2>14. Paired(a[i].lots, c[i].lots, P)
    <3>1. CASE k = q
      <4>1. a[i].lots = x.lots /\ c[i].lots = y.lots
        BY <2>3, <2>4, <2>5, <2>7, <2>8, <2>11, <3>1 DEF Gives
      <4> QED BY <2>6, <4>1
    <3>2. CASE k # q
      <4>1. PICK p \in Nat \ {0} : p = q - k
        BY <2>4, <2>8, <3>2 DEF Gives
      <4>2. PICK d, e : d = [l EXCEPT !.qty = p] /\ e = [h EXCEPT !.qty = p]
        OBVIOUS
      <4>3. a[i].lots = Append(x.lots, d) /\ c[i].lots = Append(y.lots, e)
        BY <2>3, <2>4, <2>5, <2>7, <2>8, <2>11, <3>2, <4>1, <4>2 DEF Gives
      <4>4. <<d, e>> \in P /\ d \in X /\ e \in Y
        BY <2>7, <4>2 DEF Pairing, Lotted
      <4>5. PICK v \in Seq(X), w \in Seq(Y) : v = x.lots /\ w = y.lots
        BY DEF Takings
      <4>6. Paired(Append(v, d), Append(w, e), P)
        BY <2>6, <4>4, <4>5, AppendPaired
      <4> QED BY <4>3, <4>5, <4>6
    <3> QED BY <3>1, <3>2
  <2>15. PairedUpto(s, n, R, P, a[i], c[i], i)
    BY <2>12, <2>13, <2>14 DEF PairedUpto
  <2> QED BY <1>4, <2>15
<1>7. \A i \in 0..m : i \in G
  BY <1>5, <1>6, PlacesAll
<1>8. m \in G
  BY <1>7
<1> QED BY <1>2, <1>3, <1>4, <1>8 DEF PairedUpto

\* The rows of a live ledger, and the tracks of lots and rows: a row without a tag is strategic
\* or of the fund.
LiveRows(m) == {r \in Rows(m) : IF r.inst = LEV THEN r.kind \in LevKinds \cup {"none"}
                                ELSE r.kind \in {"grid", "core", "none"}}
FundRows(m) == {r \in LiveRows(m) : r.inst = K200}
StratRows(m) == {r \in LiveRows(m) : r.inst = LEV /\ r.kind \in {"lev_strat", "none"}}
TactRows(m, kind) == {r \in LiveRows(m) : r.kind = kind}
TactLotsOf(kind) == {l \in SimLots : l.kind = kind}

\* What of a lot or a row does not depend on its quantity.
LEMMA LotShrinks ==
    ASSUME NEW k \in Nat, NEW l \in LotsTo(k), NEW q \in Nat \ {0}, NEW c, c = [l EXCEPT !.qty = q]
    PROVE  /\ c \in LotsTo(k) /\ c \in SimLots /\ l \in SimLots /\ c.qty = q
           /\ c.id = l.id /\ c.inst = l.inst /\ c.kind = l.kind /\ c.price = l.price /\ c.tp = l.tp /\ c.tag = l.tag
<1>1. /\ l.id \in Nat \ {0} /\ l.inst \in {K200, LEV} /\ l.price \in Nat /\ l.kind \in LotKinds
      /\ l.tp \in Nat /\ l.tag \in Nat /\ (l.inst = LEV <=> l.kind \in LevKinds) /\ l.id < k
      /\ l = [id |-> l.id, inst |-> l.inst, qty |-> l.qty, price |-> l.price, kind |-> l.kind,
              tp |-> l.tp, tag |-> l.tag]
      /\ l \in SimLots
  BY DEF LotsTo, SimLots
<1>2. c = [id |-> l.id, inst |-> l.inst, qty |-> q, price |-> l.price, kind |-> l.kind,
              tp |-> l.tp, tag |-> l.tag]
  BY <1>1
<1>3. /\ c.id = l.id /\ c.inst = l.inst /\ c.kind = l.kind /\ c.price = l.price /\ c.tp = l.tp /\ c.tag = l.tag
      /\ c.qty = q
  BY <1>2
<1>4. c \in SimLots
  BY <1>1, <1>2 DEF SimLots
<1> QED BY <1>1, <1>3, <1>4 DEF LotsTo

\* The same of a row.
LEMMA RowShrinks ==
    ASSUME NEW m \in Nat, NEW l \in LiveRows(m), NEW q \in Nat \ {0}, NEW c, c = [l EXCEPT !.qty = q]
    PROVE  /\ c \in LiveRows(m) /\ c \in Rows(m) /\ c.qty = q
           /\ c.inst = l.inst /\ c.kind = l.kind /\ c.price = l.price /\ c.tp = l.tp /\ c.at = l.at
<1>1. /\ l.inst \in {K200, LEV} /\ l.price \in Nat /\ l.kind \in LotKinds \cup {"none"} /\ l.tp \in Nat
      /\ l.at \in 0..m
      /\ IF l.inst = LEV THEN l.kind \in LevKinds \cup {"none"} ELSE l.kind \in {"grid", "core", "none"}
      /\ l = [inst |-> l.inst, qty |-> l.qty, price |-> l.price, at |-> l.at, kind |-> l.kind, tp |-> l.tp]
  BY DEF LiveRows, Rows
<1>2. c = [inst |-> l.inst, qty |-> q, price |-> l.price, at |-> l.at, kind |-> l.kind, tp |-> l.tp]
  BY <1>1
<1>3. c.inst = l.inst /\ c.kind = l.kind /\ c.price = l.price /\ c.tp = l.tp /\ c.at = l.at /\ c.qty = q
  BY <1>2
<1>4. c \in Rows(m)
  BY <1>1, <1>2 DEF Rows
<1> QED BY <1>1, <1>3, <1>4 DEF LiveRows

\* Lots can be sold from, and their tracks do not change by it.
LEMMA LotsLive ==
    ASSUME NEW k \in Nat
    PROVE  /\ Lotted(LotsTo(k)) /\ Exact(LotsTo(k)) /\ Counting(LotsTo(k)) /\ LotsTo(k) \subseteq SimLots
           /\ Steady(LotsTo(k), FundLots) /\ Steady(LotsTo(k), StratLots) /\ Steady(LotsTo(k), LevLots)
           /\ Steady(LotsTo(k), TactLots) /\ \A kind \in Tactical : Steady(LotsTo(k), TactLotsOf(kind))
<1>1. Lotted(LotsTo(k)) /\ LotsTo(k) \subseteq SimLots
  BY LotsLotted
<1>2. Counting(LotsTo(k))
  BY <1>1, LottedCount
<1>3. Exact(LotsTo(k))
  <2> SUFFICES ASSUME NEW l \in LotsTo(k) PROVE [l EXCEPT !.qty = l.qty] = l
    BY DEF Exact
  <2>1. l \in SimLots
    BY <1>1
  <2> QED BY <2>1 DEF SimLots
<1>4. \A l \in LotsTo(k) : \A q \in Nat \ {0} : LET c == [l EXCEPT !.qty = q] IN
        /\ c \in SimLots /\ l \in SimLots /\ c.inst = l.inst /\ c.kind = l.kind
  BY LotShrinks
<1>5. /\ Steady(LotsTo(k), FundLots) /\ Steady(LotsTo(k), StratLots) /\ Steady(LotsTo(k), LevLots)
      /\ Steady(LotsTo(k), TactLots)
  BY <1>4 DEF Steady, FundLots, StratLots, LevLots, TactLots
<1>6. \A kind \in Tactical : Steady(LotsTo(k), TactLotsOf(kind))
  BY <1>4 DEF Steady, TactLotsOf
<1> QED BY <1>1, <1>2, <1>3, <1>5, <1>6

\* So can rows.
LEMMA RowsLive ==
    ASSUME NEW m \in Nat
    PROVE  /\ Lotted(LiveRows(m)) /\ Exact(LiveRows(m)) /\ Counting(LiveRows(m))
           /\ Steady(LiveRows(m), FundRows(m)) /\ Steady(LiveRows(m), StratRows(m))
           /\ \A kind \in Tactical : Steady(LiveRows(m), TactRows(m, kind))
<1>1. \A l \in LiveRows(m) : \A q \in Nat \ {0} : LET c == [l EXCEPT !.qty = q] IN
        /\ c \in LiveRows(m) /\ c.inst = l.inst /\ c.kind = l.kind
  BY RowShrinks
<1>2. \A l \in LiveRows(m) : l.qty \in Nat \ {0}
  BY DEF LiveRows, Rows
<1>3. Lotted(LiveRows(m))
  BY <1>1, <1>2 DEF Lotted
<1>4. Exact(LiveRows(m))
  <2> SUFFICES ASSUME NEW l \in LiveRows(m) PROVE [l EXCEPT !.qty = l.qty] = l
    BY DEF Exact
  <2>1. l \in Rows(m)
    BY DEF LiveRows
  <2> QED BY <2>1 DEF Rows
<1>5. Steady(LiveRows(m), FundRows(m)) /\ Steady(LiveRows(m), StratRows(m))
  BY <1>1 DEF Steady, FundRows, StratRows
<1>6. \A kind \in Tactical : Steady(LiveRows(m), TactRows(m, kind))
  BY <1>1 DEF Steady, TactRows
<1> QED BY <1>3, <1>4, <1>5, <1>6, LottedCount

\* The part A is sold before the part B.
TakenTwo(s, n, R, A, B) ==
    /\ Qty(Take(s, n, R).lots, A) = Most(0, Qty(s, A) - n)
    /\ Qty(Take(s, n, R).lots, B) = Most(0, Qty(s, A) + Qty(s, B) - n) - Most(0, Qty(s, A) - n)
    /\ Take(s, n, R).rest = Most(0, n - (Qty(s, A) + Qty(s, B)))

\* Two parts sold one before the other: what is left of each, and what is left to sell.
LEMMA TakeTwo ==
    ASSUME NEW X, Lotted(X), NEW s \in Seq(X), NEW n \in Nat, NEW R, NEW A, NEW B, Steady(X, A), Steady(X, B),
           \A l \in X : ~(l \in A /\ l \in B),
           \A i \in 1..Len(s) : s[i] \in R <=> s[i] \in A \/ s[i] \in B,
           Precede(s, A, R)
    PROVE  TakenTwo(s, n, R, A, B)
<1>1. PICK v : v = Take(s, n, R).lots
  OBVIOUS
<1>2. v \in Seq(X) /\ Counting(X)
  BY <1>1, TakeTyped, LottedCount
<1>3. PICK C : C = A \cup B
  OBVIOUS
<1>4. Steady(X, C)
  BY <1>3 DEF Steady
<1>5. Qty(v, A) = Most(0, Qty(s, A) - n)
  BY <1>1, TakeOrder
<1>6. Qty(v, C) = Most(0, Qty(s, C) - n) /\ Take(s, n, R).rest = Most(0, n - Qty(s, C))
  <2>1. \A i \in 1..Len(s) : (s[i] \in C => s[i] \in R) /\ (s[i] \in R => s[i] \in C)
    BY <1>3
  <2>2. Precede(s, C, R)
    BY <2>1 DEF Precede
  <2> QED BY <1>1, <1>4, <2>1, <2>2, TakeOrder
<1>7. Qty(s, C) = Qty(s, A) + Qty(s, B)
  BY <1>2, <1>3, QtySplit
<1>8. Qty(v, C) = Qty(v, A) + Qty(v, B)
  BY <1>2, <1>3, QtySplit
<1>9. Qty(v, A) \in Nat /\ Qty(v, B) \in Nat
  BY <1>2, QtyNat
<1>10. Qty(v, B) = Qty(v, C) - Qty(v, A)
  BY <1>8, <1>9
<1>11. PICK a, b, c : a = Qty(s, A) /\ b = Qty(s, B) /\ c = Qty(s, C)
  OBVIOUS
<1>12. c = a + b
  BY <1>7, <1>11
<1>13. Qty(v, C) = Most(0, c - n) /\ Take(s, n, R).rest = Most(0, n - c)
  BY <1>6, <1>11
<1>14. Qty(v, C) = Most(0, a + b - n) /\ Take(s, n, R).rest = Most(0, n - (a + b))
  <2>1. a \in Nat /\ b \in Nat
    BY <1>2, <1>11, QtyNat
  <2>2. c - n = a + b - n /\ n - c = n - (a + b)
    BY <1>12, <2>1
  <2> QED BY <1>13, <2>2
<1>15. Qty(v, A) = Most(0, a - n)
  BY <1>5, <1>11
<1>16. Qty(v, B) = Most(0, a + b - n) - Most(0, a - n)
  BY <1>10, <1>14, <1>15
<1> QED BY <1>1, <1>11, <1>14, <1>15, <1>16 DEF TakenTwo

\* Orders of a plan that sell.
SellKinds == {"lev_liq", "reduce", "tp", "lev_strat", "lev_tact_exit", "lev_cap"}
Selling(o) == /\ o.kind \in SellKinds
              /\ o.kind \in {"reduce", "tp"} => o.inst = K200
              /\ o.kind \notin {"reduce", "tp"} => o.inst = LEV

\* The shares held by track: the tactical kind that leaves first, and the other.
Holding == [fund : Nat, strat : Nat, one : Nat, two : Nat]
LotsHeld(s, y, z) == [fund |-> Qty(s, FundLots), strat |-> Qty(s, StratLots),
                      one |-> Qty(s, TactLotsOf(y)), two |-> Qty(s, TactLotsOf(z))]
RowsHeld(s, m, y, z) == [fund |-> Qty(s, FundRows(m)), strat |-> Qty(s, StratRows(m)),
                         one |-> Qty(s, TactRows(m, y)), two |-> Qty(s, TactRows(m, z))]

\* n shares of an order of a plan can be sold from holding c, and make it d.
Sellable(kind, n, c) ==
    /\ kind \in {"reduce", "tp"} => n <= c.fund
    /\ kind = "lev_strat" => n <= c.strat
    /\ kind = "lev_tact_exit" => n <= c.one + c.two
    /\ kind = "lev_liq" => n >= c.strat + c.one + c.two
FundSold(n, c, d) == d.fund = c.fund - n /\ d.strat = c.strat /\ d.one = c.one /\ d.two = c.two
StratSold(n, c, d) == d.fund = c.fund /\ d.strat = c.strat - n /\ d.one = c.one /\ d.two = c.two
TactSold(n, c, d) == /\ d.fund = c.fund /\ d.strat = Most(0, c.strat - Most(0, n - (c.one + c.two)))
                     /\ d.one = Most(0, c.one - n) /\ d.two = Most(0, c.one + c.two - n) - Most(0, c.one - n)
PairSold(c, d) == d.fund = c.fund /\ d.strat = 0 /\ d.one = 0 /\ d.two = 0
SaleIs(kind, n, c, d) ==
    /\ kind \in {"reduce", "tp"} => FundSold(n, c, d)
    /\ kind = "lev_strat" => StratSold(n, c, d)
    /\ kind \in {"lev_tact_exit", "lev_cap"} => TactSold(n, c, d)
    /\ kind = "lev_liq" => PairSold(c, d)

\* The tactical lots of one kind come before those of the other; the rows without a tag, of the
\* start, before all others.
KindFirst(X, kind) == {p \in X \X X : p[2].kind = kind => p[1].kind \notin Tactical \ {kind}}
SeedsFirst(m) == {p \in LiveRows(m) \X LiveRows(m) : p[2].kind = "none" => p[1].kind = "none"}
NamedLots(id) == {l \in FundLots : l.id = id}

\* The holdings are natural numbers.
LEMMA HeldNat ==
    ASSUME NEW y, NEW z
    PROVE  /\ \A s \in Seq(SimLots) : LotsHeld(s, y, z) \in Holding
           /\ \A m \in Nat : \A s \in Seq(LiveRows(m)) : RowsHeld(s, m, y, z) \in Holding
<1>1. ASSUME NEW s \in Seq(SimLots) PROVE LotsHeld(s, y, z) \in Holding
  <2>1. /\ Qty(s, FundLots) \in Nat /\ Qty(s, StratLots) \in Nat
        /\ Qty(s, TactLotsOf(y)) \in Nat /\ Qty(s, TactLotsOf(z)) \in Nat
    BY SimLotsCount, QtyNat
  <2> QED BY <2>1 DEF LotsHeld, Holding
<1>2. ASSUME NEW m \in Nat, NEW s \in Seq(LiveRows(m)) PROVE RowsHeld(s, m, y, z) \in Holding
  <2>1. /\ Qty(s, FundRows(m)) \in Nat /\ Qty(s, StratRows(m)) \in Nat
        /\ Qty(s, TactRows(m, y)) \in Nat /\ Qty(s, TactRows(m, z)) \in Nat
    BY RowsLive, QtyNat
  <2> QED BY <2>1 DEF RowsHeld, Holding
<1> QED BY <1>1, <1>2

\* A holding of which the tracks are known.
LEMMA HeldFields ==
    ASSUME NEW y, NEW z, NEW s, NEW m
    PROVE  /\ LotsHeld(s, y, z).fund = Qty(s, FundLots) /\ LotsHeld(s, y, z).strat = Qty(s, StratLots)
           /\ LotsHeld(s, y, z).one = Qty(s, TactLotsOf(y)) /\ LotsHeld(s, y, z).two = Qty(s, TactLotsOf(z))
           /\ RowsHeld(s, m, y, z).fund = Qty(s, FundRows(m)) /\ RowsHeld(s, m, y, z).strat = Qty(s, StratRows(m))
           /\ RowsHeld(s, m, y, z).one = Qty(s, TactRows(m, y)) /\ RowsHeld(s, m, y, z).two = Qty(s, TactRows(m, z))
  BY DEF LotsHeld, RowsHeld

\* Two sales of the same order from the same holding leave the same.
LEMMA SaleSame ==
    ASSUME NEW c \in Holding, NEW d \in Holding, NEW e \in Holding, NEW kind \in SellKinds, NEW n \in Nat,
           SaleIs(kind, n, c, d), SaleIs(kind, n, c, e)
    PROVE  d = e
<1>1. d.fund = e.fund /\ d.strat = e.strat /\ d.one = e.one /\ d.two = e.two
  <2>1. CASE kind \in {"reduce", "tp"}
    BY <2>1 DEF SaleIs, FundSold
  <2>2. CASE kind = "lev_strat"
    BY <2>2 DEF SaleIs, StratSold
  <2>3. CASE kind \in {"lev_tact_exit", "lev_cap"}
    BY <2>3 DEF SaleIs, TactSold
  <2>4. CASE kind = "lev_liq"
    BY <2>4 DEF SaleIs, PairSold
  <2> QED BY <2>1, <2>2, <2>3, <2>4 DEF SellKinds
<1> QED BY <1>1 DEF Holding

\* Of lots the tracks are told apart by kind.
LEMMA LotTracks ==
    ASSUME NEW y \in Tactical, NEW z \in Tactical, y # z, NEW l \in SimLots
    PROVE  /\ l \in FundLots <=> l.inst = K200
           /\ l.inst # K200 <=> l.inst = LEV
           /\ l \in StratLots <=> l.kind = "lev_strat" /\ l.inst = LEV
           /\ l \in TactLotsOf(y) <=> l.kind = y /\ l.inst = LEV
           /\ l \in TactLotsOf(z) <=> l.kind = z /\ l.inst = LEV
           /\ l.inst = LEV <=> l.kind = "lev_strat" \/ l.kind = y \/ l.kind = z
           /\ l.kind \in Tactical <=> l.kind = y \/ l.kind = z
           /\ y # "lev_strat" /\ z # "lev_strat"
  BY DEF SimLots, FundLots, StratLots, TactLotsOf, LevKinds, Tactical, K200, LEV

\* The tracks of rows.
LEMMA RowTracks ==
    ASSUME NEW y \in Tactical, NEW z \in Tactical, y # z, NEW m \in Nat, NEW l \in LiveRows(m)
    PROVE  /\ l \in FundRows(m) <=> l.inst = K200
           /\ l.inst # K200 <=> l.inst = LEV
           /\ l \in StratRows(m) <=> l.kind \in {"lev_strat", "none"} /\ l.inst = LEV
           /\ l \in TactRows(m, y) <=> l.kind = y /\ l.inst = LEV
           /\ l \in TactRows(m, z) <=> l.kind = z /\ l.inst = LEV
           /\ l.inst = LEV => l.kind = "none" \/ l.kind = "lev_strat" \/ l.kind = y \/ l.kind = z
           /\ l.kind \in LevKinds => l.inst = LEV
           /\ l.kind \in Tactical <=> l.kind = y \/ l.kind = z
           /\ y \notin {"lev_strat", "none"} /\ z \notin {"lev_strat", "none"}
  BY DEF LiveRows, Rows, FundRows, StratRows, TactRows, LevKinds, Tactical, K200, LEV

\* Shares taken from a part A of a track F leave the track.
LEMMA TakePart ==
    ASSUME NEW X, Lotted(X), NEW s \in Seq(X), NEW n \in Nat, NEW R, NEW A, NEW F, Steady(X, A), Steady(X, F),
           A \subseteq F, \A i \in 1..Len(s) : s[i] \in R <=> s[i] \in A, n <= Qty(s, A)
    PROVE  Qty(Take(s, n, R).lots, F) = Qty(s, F) - n /\ Take(s, n, R).rest = 0
<1>1. PICK v : v = Take(s, n, R).lots
  OBVIOUS
<1>2. v \in Seq(X) /\ Counting(X)
  BY <1>1, TakeTyped, LottedCount
<1>3. PICK D : D = F \ A
  OBVIOUS
<1>4. Steady(X, D)
  BY <1>3 DEF Steady
<1>5. Precede(s, A, R)
  BY DEF Precede
<1>6. Qty(v, A) = Most(0, Qty(s, A) - n) /\ Take(s, n, R).rest = Most(0, n - Qty(s, A))
  BY <1>1, <1>5, TakeOrder
<1>7. Qty(v, D) = Qty(s, D)
  <2>1. \A i \in 1..Len(s) : s[i] \in D => s[i] \notin R
    BY <1>3
  <2>2. Qty(Take(s, n, R).lots, D) = Qty(s, D)
    BY <1>4, <2>1, TakeOther
  <2> QED BY <1>1, <2>2
<1>8. Qty(s, F) = Qty(s, A) + Qty(s, D)
  BY <1>2, <1>3, QtySplit
<1>9. Qty(v, F) = Qty(v, A) + Qty(v, D)
  BY <1>2, <1>3, QtySplit
<1>10. PICK a, b, c, d, e, r : /\ a = Qty(s, A) /\ b = Qty(s, D) /\ c = Qty(s, F) /\ d = Qty(v, A) /\ e = Qty(v, F)
                               /\ r = Take(s, n, R).rest
  OBVIOUS
<1>11. a \in Nat /\ b \in Nat /\ c \in Nat /\ d \in Nat /\ e \in Nat
  BY <1>2, <1>10, QtyNat
<1>12. d = Most(0, a - n) /\ r = Most(0, n - a) /\ c = a + b /\ e = d + b /\ n <= a
  BY <1>6, <1>7, <1>8, <1>9, <1>10
<1>13. e = c - n /\ r = 0
  BY <1>11, <1>12 DEF Most
<1> QED BY <1>1, <1>10, <1>13

\* A part of nothing is nothing.
LEMMA PartNone ==
    ASSUME NEW X, Counting(X), NEW s \in Seq(X), NEW A, NEW B, A \subseteq B, Qty(s, B) = 0
    PROVE  Qty(s, A) = 0
<1>1. Qty(s, A) <= Qty(s, B)
  BY QtyPart
<1>2. Qty(s, A) \in Nat
  BY QtyNat
<1> QED BY <1>1, <1>2

\* What the lots of the simulation are after a sale.
LEMMA LotsSold ==
    ASSUME NEW k \in Nat, NEW s \in Seq(LotsTo(k)), NEW o, Selling(o), NEW n \in Nat,
           NEW y \in Tactical, NEW z \in Tactical, y # z, Arranged(s, KindFirst(SimLots, y)),
           NEW c, c = LotsHeld(s, y, z), Sellable(o.kind, n, c),
           o.kind = "tp" => n <= Qty(s, NamedLots(o.lot)) /\ \A i \in 1..Len(s) : s[i].id = o.lot => s[i].inst = K200
    PROVE  SaleIs(o.kind, n, c, LotsHeld(SellLots(s, o, n).lots, y, z))
<1>1. PICK X : /\ X = LotsTo(k) /\ Lotted(X) /\ Counting(X) /\ X \subseteq SimLots
               /\ Steady(X, FundLots) /\ Steady(X, StratLots) /\ Steady(X, LevLots) /\ Steady(X, TactLots)
               /\ Steady(X, TactLotsOf(y)) /\ Steady(X, TactLotsOf(z))
  BY LotsLive
<1>2. PICK F, S, A, B, L : F = FundLots /\ S = StratLots /\ A = TactLotsOf(y) /\ B = TactLotsOf(z) /\ L = LevLots
  OBVIOUS
<1>3. s \in Seq(X) /\ Steady(X, F) /\ Steady(X, S) /\ Steady(X, A) /\ Steady(X, B) /\ Steady(X, L)
  BY <1>1, <1>2
<1>4. \A l \in X : /\ l \in F <=> l.inst = K200
                   /\ l.inst # K200 <=> l.inst = LEV
                   /\ l \in S <=> l.kind = "lev_strat" /\ l.inst = LEV
                   /\ l \in A <=> l.kind = y /\ l.inst = LEV
                   /\ l \in B <=> l.kind = z /\ l.inst = LEV
                   /\ l.inst = LEV <=> l.kind = "lev_strat" \/ l.kind = y \/ l.kind = z
                   /\ l.kind \in Tactical <=> l.kind = y \/ l.kind = z
                   /\ y # "lev_strat" /\ z # "lev_strat"
  BY <1>1, <1>2, LotTracks
<1>5. \A i \in 1..Len(s) : s[i] \in X /\ s[i] \in Range(s)
  BY <1>3 DEF Range
<1>6. PICK f0, s0, a0, b0 : f0 = Qty(s, F) /\ s0 = Qty(s, S) /\ a0 = Qty(s, A) /\ b0 = Qty(s, B)
  OBVIOUS
<1>7. f0 \in Nat /\ s0 \in Nat /\ a0 \in Nat /\ b0 \in Nat
  BY <1>1, <1>3, <1>6, QtyNat
<1>8. c.fund = f0 /\ c.strat = s0 /\ c.one = a0 /\ c.two = b0
  BY <1>2, <1>6, HeldFields
<1>9. PICK v : v = SellLots(s, o, n).lots
  OBVIOUS
<1>10. PICK d : d = LotsHeld(v, y, z)
  OBVIOUS
<1>11. d.fund = Qty(v, F) /\ d.strat = Qty(v, S) /\ d.one = Qty(v, A) /\ d.two = Qty(v, B)
  BY <1>2, <1>10 DEF LotsHeld
<1>12. CASE o.kind = "reduce"
  <2>1. PICK R : R = OfInst(s, K200)
    OBVIOUS
  <2>2. \A i \in 1..Len(s) : s[i] \in R <=> s[i].inst = K200
    BY <1>5, <2>1 DEF OfInst
  <2>3. v = Take(s, n, R).lots
    BY <1>9, <1>12, <2>1 DEF SellLots, Selling
  <2>4. \A i \in 1..Len(s) : s[i] \in R <=> s[i] \in F
    BY <1>4, <1>5, <2>2
  <2>5. n <= f0
    BY <1>8, <1>12 DEF Sellable
  <2>6. Qty(v, F) = f0 - n
    BY <1>1, <1>3, <1>6, <2>3, <2>4, <2>5, TakePart
  <2>7. \A i \in 1..Len(s) : /\ s[i] \in S => s[i] \notin R
                             /\ s[i] \in A => s[i] \notin R
                             /\ s[i] \in B => s[i] \notin R
    BY <1>4, <1>5, <2>2
  <2>8. Qty(v, S) = s0
    BY <1>1, <1>3, <1>6, <2>3, <2>7, TakeOther
  <2>9. Qty(v, A) = a0
    BY <1>1, <1>3, <1>6, <2>3, <2>7, TakeOther
  <2>10. Qty(v, B) = b0
    BY <1>1, <1>3, <1>6, <2>3, <2>7, TakeOther
  <2>11. FundSold(n, c, d)
    BY <1>8, <1>11, <2>6, <2>8, <2>9, <2>10 DEF FundSold
  <2> QED BY <1>9, <1>10, <1>12, <2>11 DEF SaleIs
<1>13. CASE o.kind = "tp"
  <2>1. PICK R : R = {l \in Range(s) : l.id = o.lot}
    OBVIOUS
  <2>2. \A i \in 1..Len(s) : s[i] \in R <=> s[i].id = o.lot
    BY <1>5, <2>1
  <2>3. v = Take(s, n, R).lots
    BY <1>9, <1>13, <2>1 DEF SellLots
  <2>a. PICK N : N = NamedLots(o.lot)
    OBVIOUS
  <2>b. Steady(X, N) /\ N \subseteq F
    <3>1. N \subseteq F
      BY <1>2, <2>a DEF NamedLots
    <3>2. ASSUME NEW l \in X, NEW q \in Nat \ {0} PROVE [l EXCEPT !.qty = q] \in N <=> l \in N
      <4>1. PICK e : e = [l EXCEPT !.qty = q]
        OBVIOUS
      <4>2. e \in SimLots /\ l \in SimLots /\ e.id = l.id /\ e.inst = l.inst
        BY <1>1, <4>1, LotShrinks
      <4> QED BY <2>a, <4>1, <4>2 DEF NamedLots, FundLots
    <3> QED BY <3>1, <3>2 DEF Steady
  <2>4. \A i \in 1..Len(s) : s[i] \in R <=> s[i] \in N
    <3> TAKE i \in 1..Len(s)
    <3>1. s[i] \in SimLots
      BY <1>1, <1>5
    <3> QED BY <1>13, <2>2, <2>a, <3>1 DEF NamedLots, FundLots
  <2>5. n <= Qty(s, N)
    BY <1>13, <2>a
  <2>6. Qty(v, F) = f0 - n
    BY <1>1, <1>3, <1>6, <2>3, <2>4, <2>5, <2>b, TakePart
  <2>7. \A i \in 1..Len(s) : /\ s[i] \in S => s[i] \notin R
                             /\ s[i] \in A => s[i] \notin R
                             /\ s[i] \in B => s[i] \notin R
    BY <1>4, <1>5, <2>4, <2>b
  <2>8. Qty(v, S) = s0
    BY <1>1, <1>3, <1>6, <2>3, <2>7, TakeOther
  <2>9. Qty(v, A) = a0
    BY <1>1, <1>3, <1>6, <2>3, <2>7, TakeOther
  <2>10. Qty(v, B) = b0
    BY <1>1, <1>3, <1>6, <2>3, <2>7, TakeOther
  <2>11. FundSold(n, c, d)
    BY <1>8, <1>11, <2>6, <2>8, <2>9, <2>10 DEF FundSold
  <2> QED BY <1>9, <1>10, <1>13, <2>11 DEF SaleIs
<1>14. CASE o.kind = "lev_strat"
  <2>1. PICK R : R = OfKind(s, {"lev_strat"})
    OBVIOUS
  <2>2. \A i \in 1..Len(s) : s[i] \in R <=> s[i].kind = "lev_strat"
    BY <1>5, <2>1 DEF OfKind
  <2>3. v = Take(s, n, R).lots
    BY <1>9, <1>14, <2>1 DEF SellLots
  <2>4. \A i \in 1..Len(s) : s[i] \in R <=> s[i] \in S
    BY <1>4, <1>5, <2>2
  <2>5. n <= s0
    BY <1>8, <1>14 DEF Sellable
  <2>6. Qty(v, S) = s0 - n
    BY <1>1, <1>3, <1>6, <2>3, <2>4, <2>5, TakePart
  <2>7. \A i \in 1..Len(s) : /\ s[i] \in F => s[i] \notin R
                             /\ s[i] \in A => s[i] \notin R
                             /\ s[i] \in B => s[i] \notin R
    BY <1>4, <1>5, <2>2
  <2>8. Qty(v, F) = f0
    BY <1>1, <1>3, <1>6, <2>3, <2>7, TakeOther
  <2>9. Qty(v, A) = a0
    BY <1>1, <1>3, <1>6, <2>3, <2>7, TakeOther
  <2>10. Qty(v, B) = b0
    BY <1>1, <1>3, <1>6, <2>3, <2>7, TakeOther
  <2>11. StratSold(n, c, d)
    BY <1>8, <1>11, <2>6, <2>8, <2>9, <2>10 DEF StratSold
  <2> QED BY <1>9, <1>10, <1>14, <2>11 DEF SaleIs
<1>15. CASE o.kind \in {"lev_tact_exit", "lev_cap"}
  <2>1. PICK R : R = OfKind(s, Tactical)
    OBVIOUS
  <2>2. \A i \in 1..Len(s) : s[i] \in R <=> s[i].kind \in Tactical
    BY <1>5, <2>1 DEF OfKind
  <2>3. PICK pass : pass = Take(s, n, R)
    OBVIOUS
  <2>4. PICK w : w = pass.lots
    OBVIOUS
  <2>5. PICK j : j = pass.rest
    OBVIOUS
  <2>6. w \in Seq(X) /\ j \in Nat
    BY <1>1, <1>3, <2>3, <2>4, <2>5, TakeTyped
  <2>7. \A i \in 1..Len(s) : s[i] \in R <=> s[i] \in A \/ s[i] \in B
    BY <1>4, <1>5, <2>2
  <2>8. Precede(s, A, R)
    <3> SUFFICES ASSUME NEW g \in 1..Len(s), NEW h \in 1..Len(s), g < h, s[g] \in R, s[h] \in A
        PROVE s[g] \in A
      BY DEF Precede
    <3>1. <<s[g], s[h]>> \in KindFirst(SimLots, y)
      BY DEF Arranged
    <3>2. s[h].kind = y
      BY <1>4, <1>5
    <3>3. s[g].kind \notin Tactical \ {y}
      BY <3>1, <3>2 DEF KindFirst
    <3> QED BY <1>4, <1>5, <2>2, <3>3
  <2>9. \A l \in X : ~(l \in A /\ l \in B)
    BY <1>4
  <2>10. /\ Qty(w, A) = Most(0, a0 - n) /\ Qty(w, B) = Most(0, a0 + b0 - n) - Most(0, a0 - n)
         /\ j = Most(0, n - (a0 + b0))
    <3>1. /\ Qty(Take(s, n, R).lots, A) = Most(0, Qty(s, A) - n)
          /\ Qty(Take(s, n, R).lots, B) = Most(0, Qty(s, A) + Qty(s, B) - n) - Most(0, Qty(s, A) - n)
          /\ Take(s, n, R).rest = Most(0, n - (Qty(s, A) + Qty(s, B)))
      <4>1. TakenTwo(s, n, R, A, B)
        BY <1>1, <1>3, <2>7, <2>8, <2>9, TakeTwo
      <4> QED BY <4>1 DEF TakenTwo
    <3> QED BY <1>6, <2>3, <2>4, <2>5, <3>1
  <2>11. \A i \in 1..Len(s) : /\ s[i] \in F => s[i] \notin R
                              /\ s[i] \in S => s[i] \notin R
    BY <1>4, <1>5, <2>2
  <2>12. Qty(w, F) = f0
    BY <1>1, <1>3, <1>6, <2>3, <2>4, <2>11, TakeOther
  <2>13. Qty(w, S) = s0
    BY <1>1, <1>3, <1>6, <2>3, <2>4, <2>11, TakeOther
  <2>14. CASE o.kind = "lev_tact_exit"
    <3>1. v = w
      BY <1>9, <2>1, <2>3, <2>4, <2>14 DEF SellLots
    <3>2. n <= a0 + b0
      BY <1>8, <2>14 DEF Sellable
    <3>3. s0 = Most(0, s0 - Most(0, n - (a0 + b0)))
      BY <1>7, <3>2 DEF Most
    <3>4. TactSold(n, c, d)
      BY <1>8, <1>11, <2>10, <2>12, <2>13, <3>1, <3>3 DEF TactSold
    <3> QED BY <1>9, <1>10, <2>14, <3>4 DEF SaleIs
  <2>15. CASE o.kind = "lev_cap"
    <3>1. PICK T : T = OfKind(w, {"lev_strat"})
      OBVIOUS
    <3>2. v = Take(w, j, T).lots
      BY <1>9, <2>1, <2>3, <2>4, <2>5, <2>15, <3>1 DEF SellLots
    <3>3. \A i \in 1..Len(w) : w[i] \in X /\ w[i] \in Range(w)
      BY <2>6 DEF Range
    <3>4. \A i \in 1..Len(w) : w[i] \in T <=> w[i].kind = "lev_strat"
      BY <3>1, <3>3 DEF OfKind
    <3>5. \A i \in 1..Len(w) : /\ w[i] \in T <=> w[i] \in S
                               /\ w[i] \in F => w[i] \notin T
                               /\ w[i] \in A => w[i] \notin T
                               /\ w[i] \in B => w[i] \notin T
      BY <1>4, <3>3, <3>4
    <3>6. Qty(v, S) = Most(0, s0 - j)
      <4>1. Precede(w, S, T)
        BY <3>5 DEF Precede
      <4>2. Qty(v, S) = Most(0, Qty(w, S) - j)
        BY <1>1, <1>3, <2>6, <3>2, <3>5, <4>1, TakeOrder
      <4> QED BY <2>13, <4>2
    <3>7. Qty(v, F) = f0
      BY <1>1, <1>3, <2>6, <2>12, <3>2, <3>5, TakeOther
    <3>8. Qty(v, A) = Qty(w, A)
      BY <1>1, <1>3, <2>6, <3>2, <3>5, TakeOther
    <3>9. Qty(v, B) = Qty(w, B)
      BY <1>1, <1>3, <2>6, <3>2, <3>5, TakeOther
    <3>10. TactSold(n, c, d)
      BY <1>8, <1>11, <2>10, <3>6, <3>7, <3>8, <3>9 DEF TactSold
    <3> QED BY <1>9, <1>10, <2>15, <3>10 DEF SaleIs
  <2> QED BY <1>15, <2>14, <2>15
<1>16. CASE o.kind = "lev_liq"
  <2>1. PICK R : R = OfInst(s, LEV)
    OBVIOUS
  <2>2. \A i \in 1..Len(s) : s[i] \in R <=> s[i].inst = LEV
    BY <1>5, <2>1 DEF OfInst
  <2>3. v = Take(s, n, R).lots
    BY <1>9, <1>16, <2>1 DEF SellLots, Selling
  <2>4. \A l \in X : l \in L <=> l.inst = LEV
    BY <1>1, <1>2 DEF LevLots
  <2>5. Qty(s, L) = s0 + a0 + b0
    <3>1. PICK D : D = A \cup B
      OBVIOUS
    <3>2. \A i \in 1..Len(s) : /\ s[i] \in L <=> s[i] \in S \/ s[i] \in D
                               /\ ~(s[i] \in S /\ s[i] \in D)
      BY <1>4, <1>5, <2>4, <3>1
    <3>3. Qty(s, L) = s0 + Qty(s, D)
      BY <1>1, <1>3, <1>6, <3>2, QtySplit
    <3>4. \A i \in 1..Len(s) : ~(s[i] \in A /\ s[i] \in B)
      BY <1>4, <1>5
    <3>5. Qty(s, D) = a0 + b0
      BY <1>1, <1>3, <1>6, <3>1, <3>4, QtySplit
    <3> QED BY <1>7, <3>3, <3>5
  <2>6. n >= Qty(s, L)
    BY <1>8, <1>16, <2>5 DEF Sellable
  <2>7. \A i \in 1..Len(s) : s[i] \in R <=> s[i] \in L
    BY <1>5, <2>2, <2>4
  <2>8. Qty(v, L) = 0
    BY <1>1, <1>3, <2>3, <2>6, <2>7, TakeLeaves
  <2>9. v \in Seq(X)
    BY <1>1, <1>3, <2>3, TakeTyped
  <2>10. \A i \in 1..Len(v) : (v[i] \in S => v[i] \in L) /\ (v[i] \in A => v[i] \in L) /\ (v[i] \in B => v[i] \in L)
    BY <1>4, <2>4, <2>9
  <2>11. Qty(v, S) <= 0 /\ Qty(v, A) <= 0 /\ Qty(v, B) <= 0
    BY <1>1, <2>8, <2>9, <2>10, QtyPart
  <2>12. Qty(v, S) = 0 /\ Qty(v, A) = 0 /\ Qty(v, B) = 0
    <3>1. Qty(v, S) \in Nat /\ Qty(v, A) \in Nat /\ Qty(v, B) \in Nat
      BY <1>1, <2>9, QtyNat
    <3> QED BY <2>11, <3>1
  <2>13. \A i \in 1..Len(s) : s[i] \in F => s[i] \notin R
    BY <1>4, <1>5, <2>2
  <2>14. Qty(v, F) = f0
    BY <1>1, <1>3, <1>6, <2>3, <2>13, TakeOther
  <2>15. PairSold(c, d)
    BY <1>8, <1>11, <2>12, <2>14 DEF PairSold
  <2> QED BY <1>9, <1>10, <1>16, <2>15 DEF SaleIs
<1> QED BY <1>12, <1>13, <1>14, <1>15, <1>16 DEF Selling, SellKinds

\* Where one part E of what is sold comes first and is enough, another part stays as it is.
LEMMA TakeFirst ==
    ASSUME NEW X, Lotted(X), NEW s \in Seq(X), NEW n \in Nat, NEW R, NEW C, NEW E, NEW A,
           Steady(X, C), Steady(X, E), Steady(X, A), E \subseteq C, A \subseteq C, E \cap A = {},
           \A i \in 1..Len(s) : s[i] \in R <=> s[i] \in C, Precede(s, E, R), n <= Qty(s, E)
    PROVE  Qty(Take(s, n, R).lots, E) = Qty(s, E) - n /\ Qty(Take(s, n, R).lots, A) = Qty(s, A)
<1>1. PICK v : v = Take(s, n, R).lots
  OBVIOUS
<1>2. v \in Seq(X) /\ Counting(X)
  BY <1>1, TakeTyped, LottedCount
<1>3. PICK D : D = C \ (E \cup A)
  OBVIOUS
<1>4. PICK G : G = D \cup A
  OBVIOUS
<1>5. Steady(X, D)
  BY <1>3 DEF Steady
<1>6. Qty(v, E) = Most(0, Qty(s, E) - n)
  BY <1>1, TakeOrder
<1>7. Qty(v, C) = Most(0, Qty(s, C) - n)
  <2>1. Precede(s, C, R)
    BY DEF Precede
  <2>2. Qty(Take(s, n, R).lots, C) = Most(0, Qty(s, C) - n)
    BY <2>1, TakeOrder
  <2> QED BY <1>1, <2>2
<1>8. Qty(v, A) <= Qty(s, A) /\ Qty(v, D) <= Qty(s, D)
  <2>1. Qty(Take(s, n, R).lots, A) <= Qty(s, A)
    BY TakeLeaves
  <2>2. Qty(Take(s, n, R).lots, D) <= Qty(s, D)
    BY <1>5, TakeLeaves
  <2> QED BY <1>1, <2>1, <2>2
<1>9. Qty(s, G) = Qty(s, D) + Qty(s, A) /\ Qty(v, G) = Qty(v, D) + Qty(v, A)
  <2>1. Qty(s, G) = Qty(s, D) + Qty(s, A)
    BY <1>2, <1>3, <1>4, QtySplit
  <2>2. Qty(v, G) = Qty(v, D) + Qty(v, A)
    BY <1>2, <1>3, <1>4, QtySplit
  <2> QED BY <2>1, <2>2
<1>10. Qty(s, C) = Qty(s, E) + Qty(s, G) /\ Qty(v, C) = Qty(v, E) + Qty(v, G)
  <2>1. Qty(s, C) = Qty(s, E) + Qty(s, G)
    BY <1>2, <1>3, <1>4, QtySplit
  <2>2. Qty(v, C) = Qty(v, E) + Qty(v, G)
    BY <1>2, <1>3, <1>4, QtySplit
  <2> QED BY <2>1, <2>2
<1>11. PICK a, b, c, d, e : a = Qty(s, E) /\ b = Qty(s, D) /\ c = Qty(s, A) /\ d = Qty(v, D) /\ e = Qty(v, A)
  OBVIOUS
<1>12. a \in Nat /\ b \in Nat /\ c \in Nat /\ d \in Nat /\ e \in Nat
  BY <1>2, <1>11, QtyNat
<1>13. n <= a /\ d <= b /\ e <= c
  BY <1>8, <1>11
<1>14. Qty(v, E) = a - n
  BY <1>6, <1>11, <1>12, <1>13 DEF Most
<1>15. Qty(s, C) = a + (b + c)
  BY <1>9, <1>10, <1>11
<1>16. Qty(v, C) = (a - n) + (d + e)
  BY <1>9, <1>10, <1>11, <1>14
<1>17. Qty(v, C) = (a + (b + c)) - n
  BY <1>7, <1>12, <1>13, <1>15 DEF Most
<1>18. (a - n) + (d + e) = (a + (b + c)) - n
  BY <1>16, <1>17
<1>19. e = c
  BY <1>12, <1>13, <1>18
<1> QED BY <1>1, <1>11, <1>14, <1>19

\* Kept pairs are kept with other quantities: orders of tracks.
LEMMA BeforeSteady ==
    /\ \A k \in Nat : \A y \in Tactical : SteadyPairs(LotsTo(k), KindFirst(SimLots, y))
    /\ \A m \in Nat : \A y \in Tactical : SteadyPairs(LiveRows(m), KindFirst(LiveRows(m), y))
    /\ \A m \in Nat : SteadyPairs(LiveRows(m), SeedsFirst(m))
<1>1. ASSUME NEW k \in Nat, NEW y \in Tactical PROVE SteadyPairs(LotsTo(k), KindFirst(SimLots, y))
  <2>1. \A l \in LotsTo(k) : \A q \in Nat \ {0} :
           LET c == [l EXCEPT !.qty = q] IN c \in SimLots /\ c.kind = l.kind
    BY LotShrinks
  <2> QED BY <2>1 DEF SteadyPairs, KindFirst
<1>2. ASSUME NEW m \in Nat
      PROVE  /\ \A y \in Tactical : SteadyPairs(LiveRows(m), KindFirst(LiveRows(m), y))
             /\ SteadyPairs(LiveRows(m), SeedsFirst(m))
  <2>1. \A l \in LiveRows(m) : \A q \in Nat \ {0} :
           LET c == [l EXCEPT !.qty = q] IN c \in LiveRows(m) /\ c.kind = l.kind
    BY RowShrinks
  <2>2. \A y \in Tactical : SteadyPairs(LiveRows(m), KindFirst(LiveRows(m), y))
    BY <2>1 DEF SteadyPairs, KindFirst
  <2>3. SteadyPairs(LiveRows(m), SeedsFirst(m))
    BY <2>1 DEF SteadyPairs, SeedsFirst
  <2> QED BY <2>2, <2>3
<1> QED BY <1>1, <1>2

\* The first of the two passes over the rows, and the second.
Firsts(u, o) == {r \in OfInst(u, o.inst) : Prefers(o, r)}
Others(u, o) == {r \in OfInst(u, o.inst) : ~Prefers(o, r)}

\* The second pass starts from the rows w and the quantity j that the first one leaves.
Consuming(u, o, n, m, w, j) ==
    /\ w \in Seq(LiveRows(m)) /\ j \in Nat
    /\ Consume(u, o, n) = Take(w, j, Others(w, o)).lots
    /\ \A i \in 1..Len(u) : u[i] \in LiveRows(m)
    /\ \A i \in 1..Len(w) : w[i] \in LiveRows(m)
    /\ \A i \in 1..Len(u) : u[i] \in Firsts(u, o) <=> u[i].inst = o.inst /\ Prefers(o, u[i])
    /\ \A i \in 1..Len(w) : w[i] \in Others(w, o) <=> w[i].inst = o.inst /\ ~Prefers(o, w[i])

\* What a sale of rows is made of.
LEMMA ConsumeIs ==
    ASSUME NEW m \in Nat, NEW u \in Seq(LiveRows(m)), NEW o, NEW n \in Nat,
           NEW w, w = Take(u, n, Firsts(u, o)).lots, NEW j, j = Take(u, n, Firsts(u, o)).rest
    PROVE  Consuming(u, o, n, m, w, j)
<1>1. w \in Seq(LiveRows(m)) /\ j \in Nat
  BY RowsLive, TakeTyped
<1>2. Consume(u, o, n) = Take(w, j, Others(w, o)).lots
  BY DEF Consume, Firsts, Others
<1>3. \A i \in 1..Len(u) : u[i] \in LiveRows(m) /\ u[i] \in Range(u)
  BY DEF Range
<1>4. \A i \in 1..Len(w) : w[i] \in LiveRows(m) /\ w[i] \in Range(w)
  BY <1>1 DEF Range
<1> QED BY <1>1, <1>2, <1>3, <1>4 DEF Consuming, Firsts, Others, OfInst

\* Both passes keep the rows in order.
LEMMA ConsumeOrder ==
    ASSUME NEW m \in Nat, NEW u \in Seq(LiveRows(m)), NEW o, NEW n \in Nat, NEW Z,
           SteadyPairs(LiveRows(m), Z), Arranged(u, Z)
    PROVE  Arranged(Take(u, n, Firsts(u, o)).lots, Z) /\ Arranged(Consume(u, o, n), Z)
<1>1. PICK w : w = Take(u, n, Firsts(u, o)).lots
  OBVIOUS
<1>2. PICK j : j = Take(u, n, Firsts(u, o)).rest
  OBVIOUS
<1>3. w \in Seq(LiveRows(m)) /\ j \in Nat /\ Consume(u, o, n) = Take(w, j, Others(w, o)).lots
  <2>1. Consuming(u, o, n, m, w, j)
    BY <1>1, <1>2, ConsumeIs
  <2> QED BY <2>1 DEF Consuming
<1>4. Lotted(LiveRows(m))
  BY RowsLive
<1>5. Arranged(w, Z)
  BY <1>1, <1>4, TakeArranged
<1>6. Arranged(Take(w, j, Others(w, o)).lots, Z)
  BY <1>3, <1>4, <1>5, TakeArranged
<1> QED BY <1>1, <1>3, <1>5, <1>6

\* A reduction and a liquidation are taken from all rows of the instrument alike.
LEMMA RowsPlain ==
    ASSUME NEW m \in Nat, NEW u \in Seq(LiveRows(m)), NEW o, Selling(o), NEW n \in Nat,
           o.kind \in {"reduce", "lev_liq"}
    PROVE  \E T : /\ Consume(u, o, n) = Take(u, n, T).lots
                  /\ \A i \in 1..Len(u) : u[i] \in T <=> u[i].inst = o.inst
<1>1. PICK w, j : w = Take(u, n, Firsts(u, o)).lots /\ j = Take(u, n, Firsts(u, o)).rest
  OBVIOUS
<1>2. /\ w \in Seq(LiveRows(m)) /\ j \in Nat
      /\ Consume(u, o, n) = Take(w, j, Others(w, o)).lots
      /\ \A i \in 1..Len(u) : u[i] \in LiveRows(m)
      /\ \A i \in 1..Len(w) : w[i] \in LiveRows(m)
      /\ \A i \in 1..Len(u) : u[i] \in Firsts(u, o) <=> u[i].inst = o.inst /\ Prefers(o, u[i])
      /\ \A i \in 1..Len(w) : w[i] \in Others(w, o) <=> w[i].inst = o.inst /\ ~Prefers(o, w[i])
  <2>1. Consuming(u, o, n, m, w, j)
    BY <1>1, ConsumeIs
  <2> QED BY <2>1 DEF Consuming
<1>3. \A r : ~Prefers(o, r)
  BY DEF Prefers
<1>4. w = u /\ j = n
  BY <1>1, <1>2, <1>3, RowsLive, TakeNothing
<1>5. Consume(u, o, n) = Take(u, n, Others(u, o)).lots
  BY <1>2, <1>4
<1>6. \A i \in 1..Len(u) : u[i] \in Others(u, o) <=> u[i].inst = o.inst
  BY <1>2, <1>3, <1>4
<1> QED BY <1>5, <1>6

\* What the rows of a live ledger are after a reduction.
LEMMA RowsReduced ==
    ASSUME NEW m \in Nat, NEW u \in Seq(LiveRows(m)), NEW o, Selling(o), NEW n \in Nat,
           NEW y \in Tactical, NEW z \in Tactical, y # z, o.kind = "reduce",
           NEW c, c = RowsHeld(u, m, y, z), n <= c.fund
    PROVE  FundSold(n, c, RowsHeld(Consume(u, o, n), m, y, z))
<1>1. PICK X : X = LiveRows(m)
  OBVIOUS
<1>2. PICK F, S, A, B : F = FundRows(m) /\ S = StratRows(m) /\ A = TactRows(m, y) /\ B = TactRows(m, z)
  OBVIOUS
<1>3. /\ u \in Seq(X) /\ Lotted(X) /\ Counting(X)
      /\ Steady(X, F) /\ Steady(X, S) /\ Steady(X, A) /\ Steady(X, B)
  BY <1>1, <1>2, RowsLive
<1>4. PICK T : /\ Consume(u, o, n) = Take(u, n, T).lots
               /\ \A i \in 1..Len(u) : u[i] \in T <=> u[i].inst = o.inst
  BY RowsPlain
<1>5. o.inst = K200
  BY DEF Selling
<1>6. \A l \in X : /\ l \in F <=> l.inst = K200
                   /\ l \in S => l.inst = LEV
                   /\ l \in A => l.inst = LEV
                   /\ l \in B => l.inst = LEV
                   /\ K200 # LEV
  BY <1>1, <1>2, RowTracks DEF K200, LEV
<1>7. \A i \in 1..Len(u) : u[i] \in X
  BY <1>3
<1>8. \A i \in 1..Len(u) : /\ u[i] \in T <=> u[i] \in F
                           /\ u[i] \in S => u[i] \notin T
                           /\ u[i] \in A => u[i] \notin T
                           /\ u[i] \in B => u[i] \notin T
  BY <1>4, <1>5, <1>6, <1>7
<1>9. c.fund = Qty(u, F) /\ c.strat = Qty(u, S) /\ c.one = Qty(u, A) /\ c.two = Qty(u, B)
  BY <1>2 DEF RowsHeld
<1>10. Qty(Take(u, n, T).lots, F) = Qty(u, F) - n
  BY <1>3, <1>8, <1>9, TakePart
<1>11. /\ Qty(Take(u, n, T).lots, S) = Qty(u, S)
       /\ Qty(Take(u, n, T).lots, A) = Qty(u, A)
       /\ Qty(Take(u, n, T).lots, B) = Qty(u, B)
  BY <1>3, <1>8, TakeOther
<1>12. PICK v : v = Consume(u, o, n)
  OBVIOUS
<1>13. PICK d : d = RowsHeld(v, m, y, z)
  OBVIOUS
<1>14. d.fund = Qty(v, F) /\ d.strat = Qty(v, S) /\ d.one = Qty(v, A) /\ d.two = Qty(v, B)
  BY <1>2, <1>13 DEF RowsHeld
<1>15. FundSold(n, c, d)
  BY <1>4, <1>9, <1>10, <1>11, <1>12, <1>14 DEF FundSold
<1> QED BY <1>12, <1>13, <1>15

\* After leverage is liquidated.
LEMMA RowsLiquidated ==
    ASSUME NEW m \in Nat, NEW u \in Seq(LiveRows(m)), NEW o, Selling(o), NEW n \in Nat,
           NEW y \in Tactical, NEW z \in Tactical, y # z, o.kind = "lev_liq",
           NEW c, c = RowsHeld(u, m, y, z), n >= c.strat + c.one + c.two
    PROVE  PairSold(c, RowsHeld(Consume(u, o, n), m, y, z))
<1>1. PICK X : X = LiveRows(m)
  OBVIOUS
<1>2. PICK F, S, A, B : F = FundRows(m) /\ S = StratRows(m) /\ A = TactRows(m, y) /\ B = TactRows(m, z)
  OBVIOUS
<1>a. PICK L, D : L = S \cup D /\ D = A \cup B
  OBVIOUS
<1>3. /\ u \in Seq(X) /\ Lotted(X) /\ Counting(X) /\ Steady(X, L)
      /\ Steady(X, F) /\ Steady(X, S) /\ Steady(X, A) /\ Steady(X, B)
  <2>1. /\ u \in Seq(X) /\ Lotted(X) /\ Counting(X)
        /\ Steady(X, F) /\ Steady(X, S) /\ Steady(X, A) /\ Steady(X, B)
    BY <1>1, <1>2, RowsLive
  <2> QED BY <1>a, <2>1 DEF Steady
<1>4. PICK T : /\ Consume(u, o, n) = Take(u, n, T).lots
               /\ \A i \in 1..Len(u) : u[i] \in T <=> u[i].inst = o.inst
  BY RowsPlain
<1>5. o.inst = LEV
  BY DEF Selling
<1>6. \A l \in X : /\ l \in F => l.inst # LEV
                   /\ l \in L <=> l.inst = LEV
                   /\ ~(l \in A /\ l \in B) /\ ~(l \in S /\ l \in D)
  BY <1>1, <1>2, <1>a, RowTracks
<1>7. \A i \in 1..Len(u) : u[i] \in X
  BY <1>3
<1>8. \A i \in 1..Len(u) : /\ u[i] \in T <=> u[i] \in L
                           /\ u[i] \in F => u[i] \notin T
                           /\ ~(u[i] \in A /\ u[i] \in B) /\ ~(u[i] \in S /\ u[i] \in D)
  BY <1>4, <1>5, <1>6, <1>7
<1>9. c.fund = Qty(u, F) /\ c.strat = Qty(u, S) /\ c.one = Qty(u, A) /\ c.two = Qty(u, B)
  BY <1>2 DEF RowsHeld
<1>10. Qty(u, L) = Qty(u, S) + Qty(u, D) /\ Qty(u, D) = Qty(u, A) + Qty(u, B)
  <2>1. Qty(u, L) = Qty(u, S) + Qty(u, D)
    BY <1>3, <1>a, <1>8, QtySplit
  <2>2. Qty(u, D) = Qty(u, A) + Qty(u, B)
    BY <1>3, <1>a, <1>8, QtySplit
  <2> QED BY <2>1, <2>2
<1>11. n >= Qty(u, L)
  <2>1. PICK a, b, s : a = Qty(u, A) /\ b = Qty(u, B) /\ s = Qty(u, S)
    OBVIOUS
  <2>2. a \in Nat /\ b \in Nat /\ s \in Nat
    BY <1>3, <2>1, QtyNat
  <2>3. n >= s + a + b
    BY <1>9, <2>1
  <2>4. Qty(u, L) = s + (a + b)
    BY <1>10, <2>1
  <2> QED BY <2>2, <2>3, <2>4
<1>12. PICK v : v = Take(u, n, T).lots
  OBVIOUS
<1>13. v \in Seq(X) /\ Qty(v, L) = 0 /\ Qty(v, F) = Qty(u, F)
  <2>1. Take(u, n, T).lots \in Seq(X)
    BY <1>3, TakeTyped
  <2>2. Qty(Take(u, n, T).lots, L) = 0
    BY <1>3, <1>8, <1>11, TakeLeaves
  <2>3. Qty(Take(u, n, T).lots, F) = Qty(u, F)
    BY <1>3, <1>8, TakeOther
  <2> QED BY <1>12, <2>1, <2>2, <2>3
<1>14. Qty(v, S) = 0 /\ Qty(v, A) = 0 /\ Qty(v, B) = 0
  <2>1. S \subseteq L /\ A \subseteq L /\ B \subseteq L
    BY <1>a
  <2> QED BY <1>3, <1>13, <2>1, PartNone
<1>15. PICK d : d = RowsHeld(v, m, y, z)
  OBVIOUS
<1>16. d.fund = Qty(v, F) /\ d.strat = Qty(v, S) /\ d.one = Qty(v, A) /\ d.two = Qty(v, B)
  BY <1>2, <1>15 DEF RowsHeld
<1>17. PairSold(c, d)
  BY <1>9, <1>13, <1>14, <1>16 DEF PairSold
<1> QED BY <1>4, <1>12, <1>15, <1>17

\* After a take-profit: the rows with its price go first.
LEMMA RowsTaken ==
    ASSUME NEW m \in Nat, NEW u \in Seq(LiveRows(m)), NEW o, Selling(o), NEW n \in Nat,
           NEW y \in Tactical, NEW z \in Tactical, y # z, o.kind = "tp",
           NEW c, c = RowsHeld(u, m, y, z), n <= c.fund
    PROVE  FundSold(n, c, RowsHeld(Consume(u, o, n), m, y, z))
<1>1. PICK X : X = LiveRows(m)
  OBVIOUS
<1>2. PICK F, S, A, B : F = FundRows(m) /\ S = StratRows(m) /\ A = TactRows(m, y) /\ B = TactRows(m, z)
  OBVIOUS
<1>3. PICK D, E : D = {r \in F : r.tp = o.price} /\ E = F \ D
  OBVIOUS
<1>4. /\ u \in Seq(X) /\ Lotted(X) /\ Counting(X) /\ Steady(X, D) /\ Steady(X, E)
      /\ Steady(X, F) /\ Steady(X, S) /\ Steady(X, A) /\ Steady(X, B)
  <2>1. /\ u \in Seq(X) /\ Lotted(X) /\ Counting(X)
        /\ Steady(X, F) /\ Steady(X, S) /\ Steady(X, A) /\ Steady(X, B)
    BY <1>1, <1>2, RowsLive
  <2>2. \A l \in X : \A q \in Nat \ {0} : [l EXCEPT !.qty = q].tp = l.tp
    BY <1>1, RowShrinks
  <2>3. Steady(X, D)
    BY <1>3, <2>1, <2>2 DEF Steady
  <2>4. Steady(X, E)
    BY <1>3, <2>1, <2>3 DEF Steady
  <2> QED BY <2>1, <2>3, <2>4
<1>5. PICK w, j : w = Take(u, n, Firsts(u, o)).lots /\ j = Take(u, n, Firsts(u, o)).rest
  OBVIOUS
<1>6. /\ w \in Seq(X) /\ j \in Nat
      /\ Consume(u, o, n) = Take(w, j, Others(w, o)).lots
      /\ \A i \in 1..Len(u) : u[i] \in X
      /\ \A i \in 1..Len(w) : w[i] \in X
      /\ \A i \in 1..Len(u) : u[i] \in Firsts(u, o) <=> u[i].inst = o.inst /\ Prefers(o, u[i])
      /\ \A i \in 1..Len(w) : w[i] \in Others(w, o) <=> w[i].inst = o.inst /\ ~Prefers(o, w[i])
  <2>1. Consuming(u, o, n, m, w, j)
    BY <1>5, ConsumeIs
  <2> QED BY <1>1, <2>1 DEF Consuming
<1>7. o.inst = K200 /\ \A r : Prefers(o, r) <=> r.tp = o.price
  BY DEF Selling, Prefers
<1>8. \A l \in X : /\ l \in F <=> l.inst = K200
                   /\ l \in S => l.inst = LEV
                   /\ l \in A => l.inst = LEV
                   /\ l \in B => l.inst = LEV
                   /\ K200 # LEV
  BY <1>1, <1>2, RowTracks DEF K200, LEV
<1>9. PICK T, U : T = Firsts(u, o) /\ U = Others(w, o)
  OBVIOUS
<1>10. \A i \in 1..Len(u) : /\ u[i] \in T <=> u[i] \in D
                            /\ u[i] \in E => u[i] \notin T
                            /\ u[i] \in S => u[i] \notin T
                            /\ u[i] \in A => u[i] \notin T
                            /\ u[i] \in B => u[i] \notin T
  BY <1>3, <1>6, <1>7, <1>8, <1>9
<1>11. \A i \in 1..Len(w) : /\ w[i] \in U <=> w[i] \in E
                            /\ w[i] \in D => w[i] \notin U
                            /\ w[i] \in S => w[i] \notin U
                            /\ w[i] \in A => w[i] \notin U
                            /\ w[i] \in B => w[i] \notin U
  BY <1>3, <1>6, <1>7, <1>8, <1>9
<1>12. PICK v : v = Take(w, j, U).lots
  OBVIOUS
<1>13. v \in Seq(X) /\ Consume(u, o, n) = v /\ w = Take(u, n, T).lots /\ j = Take(u, n, T).rest
  <2>1. Take(w, j, U).lots \in Seq(X)
    BY <1>4, <1>6, TakeTyped
  <2> QED BY <1>5, <1>6, <1>9, <1>12, <2>1
<1>14. Qty(w, D) = Most(0, Qty(u, D) - n) /\ j = Most(0, n - Qty(u, D))
  <2>1. Precede(u, D, T)
    BY <1>10 DEF Precede
  <2>2. Qty(Take(u, n, T).lots, D) = Most(0, Qty(u, D) - n) /\ Take(u, n, T).rest = Most(0, n - Qty(u, D))
    BY <1>4, <1>10, <2>1, TakeOrder
  <2> QED BY <1>13, <2>2
<1>15. Qty(w, E) = Qty(u, E) /\ Qty(w, S) = Qty(u, S) /\ Qty(w, A) = Qty(u, A) /\ Qty(w, B) = Qty(u, B)
  <2>1. /\ Qty(Take(u, n, T).lots, E) = Qty(u, E) /\ Qty(Take(u, n, T).lots, S) = Qty(u, S)
        /\ Qty(Take(u, n, T).lots, A) = Qty(u, A) /\ Qty(Take(u, n, T).lots, B) = Qty(u, B)
    BY <1>4, <1>10, TakeOther
  <2> QED BY <1>13, <2>1
<1>16. /\ Qty(v, D) = Qty(w, D) /\ Qty(v, S) = Qty(w, S) /\ Qty(v, A) = Qty(w, A) /\ Qty(v, B) = Qty(w, B)
  <2>1. /\ Qty(Take(w, j, U).lots, D) = Qty(w, D) /\ Qty(Take(w, j, U).lots, S) = Qty(w, S)
        /\ Qty(Take(w, j, U).lots, A) = Qty(w, A) /\ Qty(Take(w, j, U).lots, B) = Qty(w, B)
    BY <1>4, <1>6, <1>11, TakeOther
  <2> QED BY <1>12, <2>1
<1>17. Qty(u, F) = Qty(u, D) + Qty(u, E) /\ Qty(v, F) = Qty(v, D) + Qty(v, E)
  <2>1. Qty(u, F) = Qty(u, D) + Qty(u, E)
    BY <1>3, <1>4, QtySplit
  <2>2. Qty(v, F) = Qty(v, D) + Qty(v, E)
    BY <1>3, <1>4, <1>13, QtySplit
  <2> QED BY <2>1, <2>2
<1>18. PICK d, e, f : d = Qty(u, D) /\ e = Qty(u, E) /\ f = Qty(u, F)
  OBVIOUS
<1>19. d \in Nat /\ e \in Nat /\ f \in Nat
  BY <1>4, <1>18, QtyNat
<1>20. c.fund = Qty(u, F) /\ c.strat = Qty(u, S) /\ c.one = Qty(u, A) /\ c.two = Qty(u, B)
  BY <1>2 DEF RowsHeld
<1>21. f = d + e /\ n <= f
  BY <1>17, <1>18, <1>20
<1>22. j = Most(0, n - d) /\ Qty(w, D) = Most(0, d - n)
  BY <1>14, <1>18
<1>23. j <= e /\ Most(0, d - n) + (e - j) = f - n
  <2>1. Most(0, n - d) <= e /\ Most(0, d - n) + (e - Most(0, n - d)) = f - n
    BY <1>19, <1>21 DEF Most
  <2> QED BY <1>22, <2>1
<1>24. Qty(v, E) = e - j
  <2>1. Qty(w, E) = e
    BY <1>15, <1>18
  <2>2. Qty(Take(w, j, U).lots, E) = Qty(w, E) - j
    BY <1>4, <1>6, <1>11, <1>23, <2>1, TakePart
  <2> QED BY <1>12, <2>1, <2>2
<1>25. Qty(v, F) = c.fund - n
  BY <1>16, <1>17, <1>18, <1>20, <1>22, <1>23, <1>24
<1>26. PICK h : h = RowsHeld(v, m, y, z)
  OBVIOUS
<1>27. h.fund = Qty(v, F) /\ h.strat = Qty(v, S) /\ h.one = Qty(v, A) /\ h.two = Qty(v, B)
  BY <1>2, <1>26 DEF RowsHeld
<1>28. FundSold(n, c, h)
  BY <1>15, <1>16, <1>20, <1>25, <1>27 DEF FundSold
<1> QED BY <1>13, <1>26, <1>28

\* After a sale of the strategic track: the rows tagged so go first, then those without a tag,
\* which come before the tactical ones.
LEMMA RowsStrategic ==
    ASSUME NEW m \in Nat, NEW u \in Seq(LiveRows(m)), NEW o, Selling(o), NEW n \in Nat,
           NEW y \in Tactical, NEW z \in Tactical, y # z, o.kind = "lev_strat",
           Arranged(u, SeedsFirst(m)),
           NEW c, c = RowsHeld(u, m, y, z), n <= c.strat
    PROVE  StratSold(n, c, RowsHeld(Consume(u, o, n), m, y, z))
<1>1. PICK X : X = LiveRows(m)
  OBVIOUS
<1>2. PICK F, S, A, B : F = FundRows(m) /\ S = StratRows(m) /\ A = TactRows(m, y) /\ B = TactRows(m, z)
  OBVIOUS
<1>3. PICK D, E, C : D = {r \in S : r.kind = "lev_strat"} /\ E = S \ D /\ C = E \cup (A \cup B)
  OBVIOUS
<1>4. /\ u \in Seq(X) /\ Lotted(X) /\ Counting(X) /\ Steady(X, D) /\ Steady(X, E) /\ Steady(X, C)
      /\ Steady(X, F) /\ Steady(X, S) /\ Steady(X, A) /\ Steady(X, B)
  <2>1. /\ u \in Seq(X) /\ Lotted(X) /\ Counting(X)
        /\ Steady(X, F) /\ Steady(X, S) /\ Steady(X, A) /\ Steady(X, B)
    BY <1>1, <1>2, RowsLive
  <2>2. \A l \in X : \A q \in Nat \ {0} : [l EXCEPT !.qty = q].kind = l.kind
    BY <1>1, RowShrinks
  <2>3. Steady(X, D)
    BY <1>3, <2>1, <2>2 DEF Steady
  <2>4. Steady(X, E)
    BY <1>3, <2>1, <2>3 DEF Steady
  <2>5. Steady(X, C)
    BY <1>3, <2>1, <2>4 DEF Steady
  <2> QED BY <2>1, <2>3, <2>4, <2>5
<1>5. PICK w, j : w = Take(u, n, Firsts(u, o)).lots /\ j = Take(u, n, Firsts(u, o)).rest
  OBVIOUS
<1>6. /\ w \in Seq(X) /\ j \in Nat
      /\ Consume(u, o, n) = Take(w, j, Others(w, o)).lots
      /\ \A i \in 1..Len(u) : u[i] \in X
      /\ \A i \in 1..Len(w) : w[i] \in X
      /\ \A i \in 1..Len(u) : u[i] \in Firsts(u, o) <=> u[i].inst = o.inst /\ Prefers(o, u[i])
      /\ \A i \in 1..Len(w) : w[i] \in Others(w, o) <=> w[i].inst = o.inst /\ ~Prefers(o, w[i])
  <2>1. Consuming(u, o, n, m, w, j)
    BY <1>5, ConsumeIs
  <2> QED BY <1>1, <2>1 DEF Consuming
<1>7. o.inst = LEV /\ \A r : Prefers(o, r) <=> r.kind = "lev_strat"
  BY DEF Selling, Prefers
<1>8. \A l \in X : /\ l \in F => l.inst # LEV
                   /\ l \in D <=> l.inst = LEV /\ l.kind = "lev_strat"
                   /\ l \in E <=> l.inst = LEV /\ l.kind = "none"
                   /\ l \in C <=> l.inst = LEV /\ l.kind # "lev_strat"
                   /\ l \in A => l \in C /\ l \notin E /\ l \notin D
                   /\ l \in B => l \in C /\ l \notin E /\ l \notin D
                   /\ l \in E => l \notin D
  BY <1>1, <1>2, <1>3, RowTracks
<1>9. PICK T, U : T = Firsts(u, o) /\ U = Others(w, o)
  OBVIOUS
<1>10. \A i \in 1..Len(u) : /\ u[i] \in T <=> u[i] \in D
                            /\ u[i] \in E => u[i] \notin T
                            /\ u[i] \in F => u[i] \notin T
                            /\ u[i] \in A => u[i] \notin T
                            /\ u[i] \in B => u[i] \notin T
  BY <1>6, <1>7, <1>8, <1>9
<1>11. \A i \in 1..Len(w) : /\ w[i] \in U <=> w[i] \in C
                            /\ w[i] \in D => w[i] \notin U
                            /\ w[i] \in F => w[i] \notin U
  BY <1>6, <1>7, <1>8, <1>9
<1>12. PICK v : v = Take(w, j, U).lots
  OBVIOUS
<1>13. v \in Seq(X) /\ Consume(u, o, n) = v /\ w = Take(u, n, T).lots /\ j = Take(u, n, T).rest
  <2>1. Take(w, j, U).lots \in Seq(X)
    BY <1>4, <1>6, TakeTyped
  <2> QED BY <1>5, <1>6, <1>9, <1>12, <2>1
<1>14. Qty(w, D) = Most(0, Qty(u, D) - n) /\ j = Most(0, n - Qty(u, D))
  <2>1. Precede(u, D, T)
    BY <1>10 DEF Precede
  <2>2. Qty(Take(u, n, T).lots, D) = Most(0, Qty(u, D) - n) /\ Take(u, n, T).rest = Most(0, n - Qty(u, D))
    BY <1>4, <1>10, <2>1, TakeOrder
  <2> QED BY <1>13, <2>2
<1>15. Qty(w, E) = Qty(u, E) /\ Qty(w, F) = Qty(u, F) /\ Qty(w, A) = Qty(u, A) /\ Qty(w, B) = Qty(u, B)
  <2>1. /\ Qty(Take(u, n, T).lots, E) = Qty(u, E) /\ Qty(Take(u, n, T).lots, F) = Qty(u, F)
        /\ Qty(Take(u, n, T).lots, A) = Qty(u, A) /\ Qty(Take(u, n, T).lots, B) = Qty(u, B)
    BY <1>4, <1>10, TakeOther
  <2> QED BY <1>13, <2>1
<1>16. Qty(v, D) = Qty(w, D) /\ Qty(v, F) = Qty(w, F)
  <2>1. Qty(Take(w, j, U).lots, D) = Qty(w, D) /\ Qty(Take(w, j, U).lots, F) = Qty(w, F)
    BY <1>4, <1>6, <1>11, TakeOther
  <2> QED BY <1>12, <2>1
<1>17. Qty(u, S) = Qty(u, D) + Qty(u, E) /\ Qty(v, S) = Qty(v, D) + Qty(v, E)
  <2>1. Qty(u, S) = Qty(u, D) + Qty(u, E)
    BY <1>3, <1>4, QtySplit
  <2>2. Qty(v, S) = Qty(v, D) + Qty(v, E)
    BY <1>3, <1>4, <1>13, QtySplit
  <2> QED BY <2>1, <2>2
<1>18. PICK d, e, f : d = Qty(u, D) /\ e = Qty(u, E) /\ f = Qty(u, S)
  OBVIOUS
<1>19. d \in Nat /\ e \in Nat /\ f \in Nat
  BY <1>4, <1>18, QtyNat
<1>20. c.fund = Qty(u, F) /\ c.strat = Qty(u, S) /\ c.one = Qty(u, A) /\ c.two = Qty(u, B)
  BY <1>2 DEF RowsHeld
<1>21. f = d + e /\ n <= f
  BY <1>17, <1>18, <1>20
<1>22. j = Most(0, n - d) /\ Qty(w, D) = Most(0, d - n)
  BY <1>14, <1>18
<1>23. j <= e /\ Most(0, d - n) + (e - j) = f - n
  <2>1. Most(0, n - d) <= e /\ Most(0, d - n) + (e - Most(0, n - d)) = f - n
    BY <1>19, <1>21 DEF Most
  <2> QED BY <1>22, <2>1
<1>24. Precede(w, E, U)
  <2>1. Arranged(w, SeedsFirst(m))
    BY <1>5, BeforeSteady, ConsumeOrder
  <2> SUFFICES ASSUME NEW g \in 1..Len(w), NEW h \in 1..Len(w), g < h, w[g] \in U, w[h] \in E
      PROVE w[g] \in E
    BY DEF Precede
  <2>2. <<w[g], w[h]>> \in SeedsFirst(m)
    BY <2>1 DEF Arranged
  <2>3. w[g] \in X /\ w[h] \in X /\ w[g].inst = LEV
    BY <1>6, <1>8, <1>11
  <2>4. w[h].kind = "none"
    BY <1>8, <2>3
  <2>5. w[g].kind = "none"
    BY <2>2, <2>4 DEF SeedsFirst
  <2> QED BY <1>8, <2>3, <2>5
<1>25. Qty(v, E) = e - j /\ Qty(v, A) = Qty(w, A) /\ Qty(v, B) = Qty(w, B)
  <2>1. Qty(w, E) = e
    BY <1>15, <1>18
  <2>2. E \subseteq C /\ A \subseteq C /\ B \subseteq C
    BY <1>3
  <2>3. E \cap A = {} /\ E \cap B = {}
    BY <1>2, <1>3 DEF StratRows, TactRows, Tactical
  <2>4. Qty(Take(w, j, U).lots, E) = Qty(w, E) - j /\ Qty(Take(w, j, U).lots, A) = Qty(w, A)
    BY <1>4, <1>6, <1>11, <1>23, <1>24, <2>1, <2>2, <2>3, TakeFirst
  <2>5. Qty(Take(w, j, U).lots, B) = Qty(w, B)
    BY <1>4, <1>6, <1>11, <1>23, <1>24, <2>1, <2>2, <2>3, TakeFirst
  <2> QED BY <1>12, <2>1, <2>4, <2>5
<1>26. Qty(v, S) = c.strat - n
  BY <1>16, <1>17, <1>18, <1>20, <1>22, <1>23, <1>25
<1>27. PICK h : h = RowsHeld(v, m, y, z)
  OBVIOUS
<1>28. h.fund = Qty(v, F) /\ h.strat = Qty(v, S) /\ h.one = Qty(v, A) /\ h.two = Qty(v, B)
  BY <1>2, <1>27 DEF RowsHeld
<1>29. StratSold(n, c, h)
  BY <1>15, <1>16, <1>20, <1>25, <1>26, <1>28 DEF StratSold
<1> QED BY <1>13, <1>27, <1>29

\* After a sale of tactical leverage, or a cut by the cap: the strategic rows follow the
\* tactical ones.
LEMMA RowsTactical ==
    ASSUME NEW m \in Nat, NEW u \in Seq(LiveRows(m)), NEW o, Selling(o), NEW n \in Nat,
           NEW y \in Tactical, NEW z \in Tactical, y # z, o.kind \in {"lev_tact_exit", "lev_cap"},
           Arranged(u, KindFirst(LiveRows(m), y)),
           NEW c, c = RowsHeld(u, m, y, z)
    PROVE  TactSold(n, c, RowsHeld(Consume(u, o, n), m, y, z))
<1>1. PICK X : X = LiveRows(m)
  OBVIOUS
<1>2. PICK F, S, A, B : F = FundRows(m) /\ S = StratRows(m) /\ A = TactRows(m, y) /\ B = TactRows(m, z)
  OBVIOUS
<1>3. /\ u \in Seq(X) /\ Lotted(X) /\ Counting(X)
      /\ Steady(X, F) /\ Steady(X, S) /\ Steady(X, A) /\ Steady(X, B)
  BY <1>1, <1>2, RowsLive
<1>5. PICK w, j : w = Take(u, n, Firsts(u, o)).lots /\ j = Take(u, n, Firsts(u, o)).rest
  OBVIOUS
<1>6. /\ w \in Seq(X) /\ j \in Nat
      /\ Consume(u, o, n) = Take(w, j, Others(w, o)).lots
      /\ \A i \in 1..Len(u) : u[i] \in X
      /\ \A i \in 1..Len(w) : w[i] \in X
      /\ \A i \in 1..Len(u) : u[i] \in Firsts(u, o) <=> u[i].inst = o.inst /\ Prefers(o, u[i])
      /\ \A i \in 1..Len(w) : w[i] \in Others(w, o) <=> w[i].inst = o.inst /\ ~Prefers(o, w[i])
  <2>1. Consuming(u, o, n, m, w, j)
    BY <1>5, ConsumeIs
  <2> QED BY <1>1, <2>1 DEF Consuming
<1>7. o.inst = LEV /\ \A r : Prefers(o, r) <=> r.kind \in Tactical
  BY DEF Selling, Prefers
<1>8. \A l \in X : /\ l \in F => l.inst # LEV
                   /\ l \in A <=> l.inst = LEV /\ l.kind = y
                   /\ l \in B <=> l.inst = LEV /\ l.kind = z
                   /\ l.kind \in Tactical <=> l.kind = y \/ l.kind = z
                   /\ l \in S <=> l.inst = LEV /\ l.kind \notin Tactical
  BY <1>1, <1>2, RowTracks
<1>9. PICK T, U : T = Firsts(u, o) /\ U = Others(w, o)
  OBVIOUS
<1>10. \A i \in 1..Len(u) : /\ u[i] \in T <=> u[i] \in A \/ u[i] \in B
                            /\ u[i] \in F => u[i] \notin T
                            /\ u[i] \in S => u[i] \notin T
  BY <1>6, <1>7, <1>8, <1>9
<1>11. \A i \in 1..Len(w) : /\ w[i] \in U <=> w[i] \in S
                            /\ w[i] \in A => w[i] \notin U
                            /\ w[i] \in B => w[i] \notin U
                            /\ w[i] \in F => w[i] \notin U
  BY <1>6, <1>7, <1>8, <1>9
<1>12. PICK v : v = Take(w, j, U).lots
  OBVIOUS
<1>13. v \in Seq(X) /\ Consume(u, o, n) = v /\ w = Take(u, n, T).lots /\ j = Take(u, n, T).rest
  <2>1. Take(w, j, U).lots \in Seq(X)
    BY <1>3, <1>6, TakeTyped
  <2> QED BY <1>5, <1>6, <1>9, <1>12, <2>1
<1>14. Precede(u, A, T)
  <2> SUFFICES ASSUME NEW g \in 1..Len(u), NEW h \in 1..Len(u), g < h, u[g] \in T, u[h] \in A
      PROVE u[g] \in A
    BY DEF Precede
  <2>1. <<u[g], u[h]>> \in KindFirst(X, y)
    BY <1>1 DEF Arranged
  <2>2. u[g] \in X /\ u[h] \in X
    BY <1>6
  <2>3. u[h].kind = y
    BY <1>8, <2>2
  <2>4. u[g].kind \notin Tactical \ {y}
    BY <2>1, <2>3 DEF KindFirst
  <2>5. u[g] \in A \/ u[g] \in B
    BY <1>10
  <2> QED BY <1>8, <2>2, <2>4, <2>5
<1>15. PICK a, b : a = Qty(u, A) /\ b = Qty(u, B)
  OBVIOUS
<1>16. /\ Qty(w, A) = Most(0, a - n) /\ Qty(w, B) = Most(0, a + b - n) - Most(0, a - n)
       /\ j = Most(0, n - (a + b))
  <2>1. \A l \in X : ~(l \in A /\ l \in B)
    BY <1>8
  <2>2. \A i \in 1..Len(u) : u[i] \in T <=> u[i] \in A \/ u[i] \in B
    BY <1>10
  <2>a. Steady(X, A) /\ Steady(X, B) /\ u \in Seq(X) /\ Lotted(X)
    BY <1>3
  <2>3. /\ Qty(Take(u, n, T).lots, A) = Most(0, Qty(u, A) - n)
        /\ Qty(Take(u, n, T).lots, B) = Most(0, Qty(u, A) + Qty(u, B) - n) - Most(0, Qty(u, A) - n)
        /\ Take(u, n, T).rest = Most(0, n - (Qty(u, A) + Qty(u, B)))
    <3>1. TakenTwo(u, n, T, A, B)
      BY <1>14, <2>a, <2>1, <2>2, TakeTwo
    <3> QED BY <3>1 DEF TakenTwo
  <2> QED BY <1>13, <1>15, <2>3
<1>17. Qty(w, F) = Qty(u, F) /\ Qty(w, S) = Qty(u, S)
  <2>1. Qty(Take(u, n, T).lots, F) = Qty(u, F) /\ Qty(Take(u, n, T).lots, S) = Qty(u, S)
    BY <1>3, <1>10, TakeOther
  <2> QED BY <1>13, <2>1
<1>18. Qty(v, A) = Qty(w, A) /\ Qty(v, B) = Qty(w, B) /\ Qty(v, F) = Qty(w, F)
  <2>1. /\ Qty(Take(w, j, U).lots, A) = Qty(w, A) /\ Qty(Take(w, j, U).lots, B) = Qty(w, B)
        /\ Qty(Take(w, j, U).lots, F) = Qty(w, F)
    BY <1>3, <1>6, <1>11, TakeOther
  <2> QED BY <1>12, <2>1
<1>19. Qty(v, S) = Most(0, Qty(w, S) - j)
  <2>1. Precede(w, S, U)
    BY <1>11 DEF Precede
  <2>2. Qty(Take(w, j, U).lots, S) = Most(0, Qty(w, S) - j)
    BY <1>3, <1>6, <1>11, <2>1, TakeOrder
  <2> QED BY <1>12, <2>2
<1>20. c.fund = Qty(u, F) /\ c.strat = Qty(u, S) /\ c.one = Qty(u, A) /\ c.two = Qty(u, B)
  BY <1>2 DEF RowsHeld
<1>21. PICK h : h = RowsHeld(v, m, y, z)
  OBVIOUS
<1>22. h.fund = Qty(v, F) /\ h.strat = Qty(v, S) /\ h.one = Qty(v, A) /\ h.two = Qty(v, B)
  BY <1>2, <1>21 DEF RowsHeld
<1>23. PICK s : s = Qty(u, S)
  OBVIOUS
<1>24. Qty(v, S) = Most(0, s - Most(0, n - (a + b)))
  BY <1>16, <1>17, <1>19, <1>23
<1>25. c.one = a /\ c.two = b /\ c.strat = s
  BY <1>15, <1>20, <1>23
<1>26. TactSold(n, c, h)
  BY <1>16, <1>17, <1>18, <1>20, <1>22, <1>24, <1>25 DEF TactSold
<1> QED BY <1>13, <1>21, <1>26

\* What the rows of a live ledger are after a sale.
LEMMA RowsSold ==
    ASSUME NEW m \in Nat, NEW u \in Seq(LiveRows(m)), NEW o, Selling(o), NEW n \in Nat,
           NEW y \in Tactical, NEW z \in Tactical, y # z,
           Arranged(u, KindFirst(LiveRows(m), y)), Arranged(u, SeedsFirst(m)),
           NEW c, c = RowsHeld(u, m, y, z), Sellable(o.kind, n, c)
    PROVE  SaleIs(o.kind, n, c, RowsHeld(Consume(u, o, n), m, y, z))
<1>1. CASE o.kind = "reduce"
  BY <1>1, RowsReduced DEF Sellable, SaleIs
<1>2. CASE o.kind = "tp"
  BY <1>2, RowsTaken DEF Sellable, SaleIs
<1>3. CASE o.kind = "lev_strat"
  BY <1>3, RowsStrategic DEF Sellable, SaleIs
<1>4. CASE o.kind \in {"lev_tact_exit", "lev_cap"}
  BY <1>4, RowsTactical DEF SaleIs
<1>5. CASE o.kind = "lev_liq"
  BY <1>5, RowsLiquidated DEF Sellable, SaleIs
<1> QED BY <1>1, <1>2, <1>3, <1>4, <1>5 DEF Selling, SellKinds

\* Lots and rows of an account that agree: the same holding, its tactical lots in the same order
\* of kinds, and the rows of the start first.
InLine(s, w, m, y, z) ==
    /\ y # z /\ Arranged(s, KindFirst(SimLots, y)) /\ Arranged(w, KindFirst(LiveRows(m), y))
    /\ LotsHeld(s, y, z) = RowsHeld(w, m, y, z)
Level(s, w, m) ==
    /\ w \in Seq(LiveRows(m)) /\ Arranged(w, SeedsFirst(m))
    /\ \E y \in Tactical, z \in Tactical : InLine(s, w, m, y, z)

\* What an order may sell of lots s, and what the sale leaves as it is.
Offered(s, o, n) ==
    /\ o.kind = "reduce" => n <= Qty(s, FundLots)
    /\ o.kind = "lev_strat" => n <= Qty(s, StratLots)
    /\ o.kind = "lev_tact_exit" => n <= Qty(s, TactLots)
    /\ o.kind = "lev_liq" => n >= Qty(s, LevLots)
    /\ o.kind = "tp" => n <= Qty(s, NamedLots(o.lot)) /\ \A i \in 1..Len(s) : s[i].id = o.lot => s[i].inst = K200
Kept(kind, s, v) ==
    /\ kind \in {"reduce", "tp", "lev_tact_exit"} => Qty(v, StratLots) = Qty(s, StratLots)
    /\ kind \in {"reduce", "tp", "lev_strat"} => Qty(v, TactLots) = Qty(s, TactLots)
    /\ kind \notin {"reduce", "tp"} => Qty(v, FundLots) = Qty(s, FundLots)
    /\ \A k \in Tactical : Qty(v, TactLotsOf(k)) <= Qty(s, TactLotsOf(k))

\* The two tactical kinds make the tactical track, and with the strategic one the pair.
LEMMA TactIs ==
    ASSUME NEW s \in Seq(SimLots), NEW y \in Tactical, NEW z \in Tactical, y # z
    PROVE  /\ Qty(s, TactLots) = Qty(s, TactLotsOf(y)) + Qty(s, TactLotsOf(z))
           /\ Qty(s, LevLots) = Qty(s, StratLots) + Qty(s, TactLots)
<1>1. \A i \in 1..Len(s) : /\ s[i] \in TactLots <=> s[i] \in TactLotsOf(y) \/ s[i] \in TactLotsOf(z)
                           /\ ~(s[i] \in TactLotsOf(y) /\ s[i] \in TactLotsOf(z))
  BY DEF TactLots, TactLotsOf, Tactical
<1>2. PICK A, B : A = TactLotsOf(y) /\ B = TactLotsOf(z)
  OBVIOUS
<1>3. Qty(s, TactLots) = Qty(s, A) + Qty(s, B)
  BY <1>1, <1>2, SimLotsCount, QtySplit
<1> QED BY <1>2, <1>3, HeldIs

\* A part of n shares is sold: what is left of it, and how much less.
LEMMA HeldLess ==
    ASSUME NEW a \in Nat, NEW b \in Nat, NEW n \in Nat
    PROVE  /\ Most(0, a - n) <= a /\ Most(0, a + b - n) - Most(0, a - n) <= b
           /\ Most(0, a - n) \in Nat
  BY DEF Most

\* A sale of a plan keeps lots and rows in line.
LEMMA LevelSold ==
    ASSUME NEW m \in Nat, NEW k \in Nat, NEW s \in Seq(LotsTo(k)), NEW w, Level(s, w, m),
           NEW o, Selling(o), NEW n \in Nat, Offered(s, o, n), NEW v, v = SellLots(s, o, n).lots
    PROVE  Level(v, Consume(w, o, n), m) /\ Kept(o.kind, s, v)
<1>1. PICK y \in Tactical, z \in Tactical : InLine(s, w, m, y, z)
  BY DEF Level
<1>2. y # z /\ Arranged(s, KindFirst(SimLots, y)) /\ Arranged(w, KindFirst(LiveRows(m), y))
      /\ LotsHeld(s, y, z) = RowsHeld(w, m, y, z)
  BY <1>1 DEF InLine
<1>3. w \in Seq(LiveRows(m)) /\ Arranged(w, SeedsFirst(m))
  BY DEF Level
<1>4. PICK c, d, e, x : /\ c = LotsHeld(s, y, z) /\ d = LotsHeld(v, y, z)
                        /\ x = Consume(w, o, n) /\ e = RowsHeld(x, m, y, z)
  OBVIOUS
<1>5. LotsTo(k) \subseteq SimLots /\ s \in Seq(SimLots)
  BY LotsLive
<1>6. v \in Seq(LotsTo(k))
  BY SellLotsTyped
<1>7. v \in Seq(SimLots)
  BY <1>5, <1>6
<1>8. x \in Seq(LiveRows(m)) /\ Arranged(x, SeedsFirst(m)) /\ Arranged(x, KindFirst(LiveRows(m), y))
  <2>1. x \in Seq(LiveRows(m))
    <3>1. PICK g, j : g = Take(w, n, Firsts(w, o)).lots /\ j = Take(w, n, Firsts(w, o)).rest
      OBVIOUS
    <3>2. g \in Seq(LiveRows(m)) /\ j \in Nat /\ Consume(w, o, n) = Take(g, j, Others(g, o)).lots
      <4>1. Consuming(w, o, n, m, g, j)
        BY <1>3, <3>1, ConsumeIs
      <4> QED BY <4>1 DEF Consuming
    <3>3. Take(g, j, Others(g, o)).lots \in Seq(LiveRows(m))
      BY <3>2, RowsLive, TakeTyped
    <3> QED BY <1>4, <3>2, <3>3
  <2>2. SteadyPairs(LiveRows(m), SeedsFirst(m)) /\ SteadyPairs(LiveRows(m), KindFirst(LiveRows(m), y))
    BY BeforeSteady
  <2>3. Arranged(x, SeedsFirst(m))
    BY <1>3, <1>4, <2>2, ConsumeOrder
  <2>4. Arranged(x, KindFirst(LiveRows(m), y))
    BY <1>2, <1>3, <1>4, <2>2, ConsumeOrder
  <2> QED BY <2>1, <2>3, <2>4
<1>9. Arranged(v, KindFirst(SimLots, y))
  <2>1. PICK X, Z : X = LotsTo(k) /\ Z = KindFirst(SimLots, y) /\ Lotted(X) /\ SteadyPairs(X, Z)
    BY LotsLive, BeforeSteady
  <2>2. PICK T, j, u, U : /\ u = Take(s, n, T).lots /\ j = Take(s, n, T).rest
                          /\ v = IF o.kind = "lev_cap" THEN Take(u, j, U).lots ELSE u
    BY DEF SellLots
  <2>3. u \in Seq(X) /\ j \in Nat /\ Arranged(u, Z)
    <3>1. s \in Seq(X) /\ Arranged(s, Z)
      BY <1>2, <2>1
    <3> QED BY <2>1, <2>2, <3>1, TakeTyped, TakeArranged
  <2>4. Arranged(Take(u, j, U).lots, Z)
    BY <2>1, <2>3, TakeArranged
  <2> QED BY <2>1, <2>2, <2>3, <2>4
<1>10. c \in Holding /\ d \in Holding /\ e \in Holding
  BY <1>3, <1>4, <1>5, <1>7, <1>8, <1>2, HeldNat
<1>11. /\ c.fund = Qty(s, FundLots) /\ c.strat = Qty(s, StratLots)
       /\ c.one = Qty(s, TactLotsOf(y)) /\ c.two = Qty(s, TactLotsOf(z))
       /\ d.fund = Qty(v, FundLots) /\ d.strat = Qty(v, StratLots)
       /\ d.one = Qty(v, TactLotsOf(y)) /\ d.two = Qty(v, TactLotsOf(z))
  BY <1>4 DEF LotsHeld
<1>12. /\ Qty(s, TactLots) = c.one + c.two /\ Qty(v, TactLots) = d.one + d.two
       /\ Qty(s, LevLots) = c.strat + (c.one + c.two)
  BY <1>2, <1>5, <1>7, <1>11, TactIs
<1>13. Sellable(o.kind, n, c)
  <2>1. o.kind = "tp" => n <= c.fund
    <3>1. Qty(s, NamedLots(o.lot)) <= Qty(s, FundLots)
      <4>1. \A i \in 1..Len(s) : s[i] \in NamedLots(o.lot) => s[i] \in FundLots
        BY DEF NamedLots
      <4> QED BY <1>5, <4>1, SimLotsCount, QtyPart
    <3>2. Qty(s, NamedLots(o.lot)) \in Nat /\ Qty(s, FundLots) \in Nat
      BY <1>5, SimLotsCount, QtyNat
    <3> QED BY <1>11, <3>1, <3>2 DEF Offered
  <2>2. c.strat \in Nat /\ c.one \in Nat /\ c.two \in Nat
    BY <1>10 DEF Holding
  <2> QED BY <1>11, <1>12, <2>1, <2>2 DEF Offered, Sellable
<1>14. SaleIs(o.kind, n, c, d)
  <2>1. o.kind = "tp" => n <= Qty(s, NamedLots(o.lot)) /\ \A i \in 1..Len(s) : s[i].id = o.lot => s[i].inst = K200
    BY DEF Offered
  <2>2. SaleIs(o.kind, n, c, LotsHeld(SellLots(s, o, n).lots, y, z))
    BY <1>2, <1>4, <1>13, <2>1, LotsSold
  <2> QED BY <1>4, <2>2
<1>15. SaleIs(o.kind, n, c, e)
  <2>1. c = RowsHeld(w, m, y, z)
    BY <1>2, <1>4
  <2>2. SaleIs(o.kind, n, c, RowsHeld(Consume(w, o, n), m, y, z))
    BY <1>2, <1>3, <1>13, <2>1, RowsSold
  <2> QED BY <1>4, <2>2
<1>16. d = e
  <2>1. o.kind \in SellKinds
    BY DEF Selling
  <2> QED BY <1>10, <1>14, <1>15, <2>1, SaleSame
<1>17. Level(v, x, m)
  <2>1. InLine(v, x, m, y, z)
    BY <1>2, <1>4, <1>8, <1>9, <1>16 DEF InLine
  <2> QED BY <1>8, <2>1 DEF Level
<1>18. PICK a1 \in Nat, a2 \in Nat, a3 \in Nat, a4 \in Nat, b1 \in Nat, b2 \in Nat, b3 \in Nat, b4 \in Nat :
          /\ a1 = c.fund /\ a2 = c.strat /\ a3 = c.one /\ a4 = c.two
          /\ b1 = d.fund /\ b2 = d.strat /\ b3 = d.one /\ b4 = d.two
  BY <1>10 DEF Holding
<1>19. Kept(o.kind, s, v)
  <2>1. \A kind \in Tactical : Qty(v, TactLotsOf(kind)) <= Qty(s, TactLotsOf(kind))
    <3>1. b3 <= a3 /\ b4 <= a4
      <4>1. CASE o.kind \in {"reduce", "tp"}
        BY <1>14, <1>18, <4>1 DEF SaleIs, FundSold
      <4>2. CASE o.kind = "lev_strat"
        BY <1>14, <1>18, <4>2 DEF SaleIs, StratSold
      <4>3. CASE o.kind \in {"lev_tact_exit", "lev_cap"}
        <5>1. b3 = Most(0, a3 - n) /\ b4 = Most(0, a3 + a4 - n) - Most(0, a3 - n)
          BY <1>14, <1>18, <4>3 DEF SaleIs, TactSold
        <5> QED BY <5>1, HeldLess
      <4>4. CASE o.kind = "lev_liq"
        BY <1>14, <1>18, <4>4 DEF SaleIs, PairSold
      <4> QED BY <4>1, <4>2, <4>3, <4>4 DEF Selling, SellKinds
    <3>2. \A kind \in Tactical : kind = y \/ kind = z
      BY <1>2 DEF Tactical
    <3> QED BY <1>11, <1>18, <3>1, <3>2
  <2>2. o.kind = "lev_tact_exit" => b2 = a2
    <3> SUFFICES ASSUME o.kind = "lev_tact_exit" PROVE b2 = a2
      OBVIOUS
    <3>1. b2 = Most(0, a2 - Most(0, n - (a3 + a4)))
      BY <1>14, <1>18 DEF SaleIs, TactSold
    <3>2. n <= a3 + a4
      BY <1>13, <1>18 DEF Sellable
    <3> QED BY <3>1, <3>2 DEF Most
  <2>3. /\ o.kind \in {"reduce", "tp"} => b2 = a2
        /\ o.kind \in {"reduce", "tp", "lev_strat"} => b3 = a3 /\ b4 = a4
        /\ o.kind \notin {"reduce", "tp"} => b1 = a1
    BY <1>14, <1>18 DEF SaleIs, FundSold, StratSold, TactSold, PairSold, Selling, SellKinds
  <2> QED BY <1>11, <1>12, <1>18, <2>1, <2>2, <2>3 DEF Kept
<1> QED BY <1>4, <1>17, <1>19

\* Which tactical kind is named first does not matter to a holding.
LEMMA HeldSwap ==
    ASSUME NEW s, NEW w, NEW m, NEW y, NEW z, LotsHeld(s, y, z) = RowsHeld(w, m, y, z)
    PROVE  LotsHeld(s, z, y) = RowsHeld(w, m, z, y)
<1>1. /\ Qty(s, FundLots) = Qty(w, FundRows(m)) /\ Qty(s, StratLots) = Qty(w, StratRows(m))
      /\ Qty(s, TactLotsOf(y)) = Qty(w, TactRows(m, y)) /\ Qty(s, TactLotsOf(z)) = Qty(w, TactRows(m, z))
  BY DEF LotsHeld, RowsHeld
<1> QED BY <1>1 DEF LotsHeld, RowsHeld

\* Where none is held of a part there is no record of it.
LEMMA NoneHeld ==
    ASSUME NEW X, Lotted(X), NEW s \in Seq(X), NEW R, Qty(s, R) = 0
    PROVE  \A i \in 1..Len(s) : s[i] \notin R
<1> SUFFICES ASSUME NEW i \in 1..Len(s), s[i] \in R PROVE FALSE
  OBVIOUS
<1>1. s[i].qty <= Qty(s, R)
  BY LottedCount, QtyNat
<1>2. s[i].qty \in Nat \ {0}
  BY DEF Lotted
<1> QED BY <1>1, <1>2

\* Lots of any number shrink to lots.
LEMMA SimLotsLotted ==
    /\ Lotted(SimLots) /\ Exact(SimLots)
    /\ \A l \in SimLots : \A q \in Nat \ {0} : LET c == [l EXCEPT !.qty = q] IN
          /\ c \in SimLots /\ c.qty = q /\ c.id = l.id /\ c.inst = l.inst /\ c.kind = l.kind
          /\ c.price = l.price /\ c.tp = l.tp /\ c.tag = l.tag
<1>1. ASSUME NEW l \in SimLots, NEW q \in Nat \ {0}
      PROVE  LET c == [l EXCEPT !.qty = q] IN
          /\ c \in SimLots /\ c.qty = q /\ c.id = l.id /\ c.inst = l.inst /\ c.kind = l.kind
          /\ c.price = l.price /\ c.tp = l.tp /\ c.tag = l.tag
  <2>1. PICK k \in Nat : l.id < k
    <3>1. l.id \in Nat
      BY DEF SimLots
    <3>2. l.id < l.id + 1 /\ l.id + 1 \in Nat
      BY <3>1
    <3> QED BY <3>2
  <2>2. l \in LotsTo(k)
    BY <2>1 DEF LotsTo
  <2>3. PICK c : c = [l EXCEPT !.qty = q]
    OBVIOUS
  <2>4. /\ c \in SimLots /\ c.qty = q /\ c.id = l.id /\ c.inst = l.inst /\ c.kind = l.kind
        /\ c.price = l.price /\ c.tp = l.tp /\ c.tag = l.tag
    BY <2>2, <2>3, LotShrinks
  <2> QED BY <2>3, <2>4
<1>2. \A l \in SimLots : l.qty \in Nat \ {0}
  BY DEF SimLots
<1>3. Lotted(SimLots)
  BY <1>1, <1>2 DEF Lotted
<1>4. Exact(SimLots)
  BY DEF Exact, SimLots
<1> QED BY <1>1, <1>3, <1>4

\* A sequence arranged in pairs, and one record more.
LEMMA ArrangedMore ==
    ASSUME NEW X, NEW s \in Seq(X), NEW l \in X, NEW Z, Arranged(s, Z), \A i \in 1..Len(s) : <<s[i], l>> \in Z
    PROVE  Arranged(Append(s, l), Z)
<1>1. PICK t : t = Append(s, l)
  OBVIOUS
<1>2. Len(t) = Len(s) + 1 /\ t[Len(s) + 1] = l /\ \A i \in 1..Len(s) : t[i] = s[i]
  BY <1>1
<1>3. Arranged(t, Z)
  <2> SUFFICES ASSUME NEW i \in 1..Len(t), NEW j \in 1..Len(t), i < j PROVE <<t[i], t[j]>> \in Z
    BY DEF Arranged
  <2>1. i \in 1..Len(s) /\ (j \in 1..Len(s) \/ j = Len(s) + 1)
    BY <1>2
  <2>2. CASE j \in 1..Len(s)
    BY <1>2, <2>1, <2>2 DEF Arranged
  <2>3. CASE j = Len(s) + 1
    BY <1>2, <2>1, <2>3
  <2> QED BY <2>1, <2>2, <2>3
<1> QED BY <1>1, <1>3

\* A purchase keeps lots and rows in line: a tactical one is made when none of its kind is held.
LEMMA LevelBought ==
    ASSUME NEW m \in Nat, NEW s \in Seq(SimLots), NEW w, Level(s, w, m), NEW l \in SimLots, NEW r \in LiveRows(m),
           r.kind # "none", l.inst = r.inst, l.kind = r.kind, l.qty = r.qty,
           l.kind \in Tactical => Qty(s, TactLotsOf(l.kind)) = 0
    PROVE  Level(Append(s, l), Append(w, r), m)
<1>1. w \in Seq(LiveRows(m)) /\ Arranged(w, SeedsFirst(m))
  BY DEF Level
<1>2. PICK Y : Y = LiveRows(m)
  OBVIOUS
<1>3. Lotted(Y) /\ Counting(Y) /\ Lotted(SimLots) /\ Counting(SimLots) /\ w \in Seq(Y) /\ r \in Y
  BY <1>1, <1>2, RowsLive, SimLotsLotted, SimLotsCount
<1>4. PICK a \in Tactical, c \in Tactical : InLine(s, w, m, a, c)
  BY DEF Level
<1>5. \E y \in Tactical, z \in Tactical : InLine(s, w, m, y, z) /\ l.kind # y
  <2>1. CASE l.kind # a
    BY <1>4, <2>1
  <2>2. CASE l.kind = a
    <3>1. a # c /\ LotsHeld(s, a, c) = RowsHeld(w, m, a, c)
      BY <1>4 DEF InLine
    <3>2. Qty(s, TactLotsOf(a)) = 0
      BY <1>4, <2>2
    <3>3. Qty(w, TactRows(m, a)) = 0
      BY <3>1, <3>2 DEF LotsHeld, RowsHeld
    <3>4. \A i \in 1..Len(s) : s[i].kind # a
      <4>1. \A i \in 1..Len(s) : s[i] \notin TactLotsOf(a)
        BY <1>3, <3>2, NoneHeld
      <4> QED BY <4>1 DEF TactLotsOf
    <3>5. \A i \in 1..Len(w) : w[i].kind # a
      <4>1. \A i \in 1..Len(w) : w[i] \notin TactRows(m, a)
        BY <1>3, <3>3, NoneHeld
      <4>2. \A i \in 1..Len(w) : w[i] \in LiveRows(m)
        BY <1>1
      <4> QED BY <4>1, <4>2 DEF TactRows
    <3>6. Tactical \ {c} = {a}
      BY <3>1 DEF Tactical
    <3>7. Arranged(s, KindFirst(SimLots, c))
      BY <3>4, <3>6 DEF Arranged, KindFirst
    <3>8. Arranged(w, KindFirst(LiveRows(m), c))
      BY <1>1, <3>5, <3>6 DEF Arranged, KindFirst
    <3>9. LotsHeld(s, c, a) = RowsHeld(w, m, c, a)
      BY <3>1, HeldSwap
    <3>10. InLine(s, w, m, c, a)
      BY <3>1, <3>7, <3>8, <3>9 DEF InLine
    <3> QED BY <2>2, <3>1, <3>10
  <2> QED BY <2>1, <2>2
<1>6. PICK y \in Tactical, z \in Tactical : InLine(s, w, m, y, z) /\ l.kind # y
  BY <1>5
<1>7. y # z /\ Arranged(s, KindFirst(SimLots, y)) /\ Arranged(w, KindFirst(LiveRows(m), y))
      /\ LotsHeld(s, y, z) = RowsHeld(w, m, y, z)
  BY <1>6 DEF InLine
<1>8. PICK u, v : u = Append(s, l) /\ v = Append(w, r)
  OBVIOUS
<1>9. u \in Seq(SimLots) /\ v \in Seq(LiveRows(m))
  BY <1>1, <1>8
<1>10. Arranged(u, KindFirst(SimLots, y))
  <2>1. \A i \in 1..Len(s) : <<s[i], l>> \in KindFirst(SimLots, y)
    BY <1>6 DEF KindFirst
  <2> QED BY <1>7, <1>8, <2>1, ArrangedMore
<1>11. Arranged(v, KindFirst(LiveRows(m), y))
  <2>1. \A i \in 1..Len(w) : <<w[i], r>> \in KindFirst(LiveRows(m), y)
    BY <1>1, <1>6 DEF KindFirst
  <2> QED BY <1>1, <1>7, <1>8, <2>1, ArrangedMore
<1>12. Arranged(v, SeedsFirst(m))
  <2>1. \A i \in 1..Len(w) : <<w[i], r>> \in SeedsFirst(m)
    BY <1>1 DEF SeedsFirst
  <2> QED BY <1>1, <1>8, <2>1, ArrangedMore
<1>13. /\ l \in FundLots <=> r \in FundRows(m)
       /\ l \in StratLots <=> r \in StratRows(m)
       /\ l \in TactLotsOf(y) <=> r \in TactRows(m, y)
       /\ l \in TactLotsOf(z) <=> r \in TactRows(m, z)
  <2>1. /\ l \in FundLots <=> l.inst = K200
        /\ l \in StratLots <=> l.kind = "lev_strat" /\ l.inst = LEV
        /\ l \in TactLotsOf(y) <=> l.kind = y /\ l.inst = LEV
        /\ l \in TactLotsOf(z) <=> l.kind = z /\ l.inst = LEV
    BY <1>7, LotTracks
  <2>2. /\ r \in FundRows(m) <=> r.inst = K200
        /\ r \in StratRows(m) <=> r.kind \in {"lev_strat", "none"} /\ r.inst = LEV
        /\ r \in TactRows(m, y) <=> r.kind = y /\ r.inst = LEV
        /\ r \in TactRows(m, z) <=> r.kind = z /\ r.inst = LEV
    BY <1>7, RowTracks
  <2> QED BY <2>1, <2>2
<1>14. ASSUME NEW A, NEW B, l \in A <=> r \in B, Qty(s, A) = Qty(w, B) PROVE Qty(u, A) = Qty(v, B)
  <2>1. Qty(Append(s, l), A) = Qty(s, A) + IF l \in A THEN l.qty ELSE 0
    BY <1>3, QtyAppend
  <2>2. Qty(Append(w, r), B) = Qty(w, B) + IF r \in B THEN r.qty ELSE 0
    BY <1>3, QtyAppend
  <2> QED BY <1>8, <1>14, <2>1, <2>2
<1>15. LotsHeld(u, y, z) = RowsHeld(v, m, y, z)
  <2>1. /\ Qty(s, FundLots) = Qty(w, FundRows(m)) /\ Qty(s, StratLots) = Qty(w, StratRows(m))
        /\ Qty(s, TactLotsOf(y)) = Qty(w, TactRows(m, y)) /\ Qty(s, TactLotsOf(z)) = Qty(w, TactRows(m, z))
    BY <1>7 DEF LotsHeld, RowsHeld
  <2>2. Qty(u, FundLots) = Qty(v, FundRows(m))
    BY <1>13, <1>14, <2>1
  <2>3. Qty(u, StratLots) = Qty(v, StratRows(m))
    BY <1>13, <1>14, <2>1
  <2>4. Qty(u, TactLotsOf(y)) = Qty(v, TactRows(m, y))
    BY <1>13, <1>14, <2>1
  <2>5. Qty(u, TactLotsOf(z)) = Qty(v, TactRows(m, z))
    BY <1>13, <1>14, <2>1
  <2> QED BY <2>2, <2>3, <2>4, <2>5 DEF LotsHeld, RowsHeld
<1>16. InLine(u, v, m, y, z)
  BY <1>7, <1>10, <1>11, <1>15 DEF InLine
<1>17. Level(u, v, m)
  BY <1>9, <1>12, <1>16 DEF Level
<1> QED BY <1>8, <1>17
=============================================================================

----------------------------- MODULE LiveProofs -----------------------------
(***************************************************************************)
(* The proof that the live lots of RAVG follow its simulation (Planner).    *)
(* The simulation sells its lots oldest first, a take-profit from the lot   *)
(* it was planned for.  The live replay (lots.py) sells the rows of the     *)
(* ledger in two passes - the rows tagged as the order first, then the      *)
(* others - and finds what a row is by now from its tag, the regimes and    *)
(* the bars since its evening.                                              *)
(*                                                                          *)
(* The sides are level after every fill: the tactical lots of one kind come *)
(* before those of the other, as the rows do, and each order of a ranked    *)
(* plan sells on both sides of the same track.  Without a seed they are     *)
(* twins besides: each lot has its row at the same place, and is what the   *)
(* path of the row leads to.  Twins come apart only where a take-profit is  *)
(* sold beside a lot off its tag, for there the price of the order and the  *)
(* number of the lot may name different places.                             *)
(***************************************************************************)
EXTENDS StrategyProofs

-----------------------------------------------------------------------------
(* The orders of a plan: in turn, sound, and the take-profits the lots'. *)

\* The place of an order in a plan: the pair is liquidated first, then the fund is reduced and
\* offered, bought, and at last the pair is bought and sold.
Rank(o) ==
    CASE o.side = "buy" /\ o.inst = K200 -> 4
      [] o.side = "buy" /\ o.inst # K200 -> (CASE o.kind = "lev_strat" -> 5
                                               [] o.kind = "lev_tact1" -> 7
                                               [] OTHER -> 8)
      [] o.side # "buy" -> (CASE o.kind = "lev_liq" -> 1
                              [] o.kind = "reduce" -> 2
                              [] o.kind = "tp" -> 3
                              [] o.kind = "lev_strat" -> 6
                              [] o.kind = "lev_tact_exit" -> 9
                              [] OTHER -> 10)
InTurn == {p \in Orders \X Orders :
             \/ Rank(p[1]) < Rank(p[2])
             \/ Rank(p[1]) = 4 /\ Rank(p[2]) = 4
             \/ Rank(p[1]) = 3 /\ Rank(p[2]) = 3 /\ p[1].lot <= p[2].lot}

\* What an order of a plan made for lots s, nx being the next number, may be.
Whose(o, s, nx) == o.lot < nx /\ \A i \in 1..Len(s) : s[i].id = o.lot => s[i].inst = K200
Sound(o, s, nx) ==
    /\ o.side = "sell" => Selling(o) /\ (o.kind = "tp" <=> o.type = "limit")
    /\ o.side = "sell" /\ o.kind = "tp" => Whose(o, s, nx)
    /\ o.side = "sell" /\ o.kind # "tp" => Offered(s, o, o.qty)
    /\ o.side = "buy" /\ o.inst = LEV => /\ o.type = "market"
                                         /\ o.kind \in Tactical => Qty(s, TactLotsOf(o.kind)) = 0

\* Part of a plan.
Part(t, s, nx, a, b) ==
    /\ t \in Seq(Orders) /\ Arranged(t, InTurn)
    /\ \A i \in 1..Len(t) : Rank(t[i]) >= a /\ Rank(t[i]) <= b /\ Sound(t[i], s, nx)

\* Ranks are numbers.
LEMMA RankIs == ASSUME NEW o PROVE Rank(o) \in 1..10
<1>1. 1 \in 1..10 /\ 2 \in 1..10 /\ 3 \in 1..10 /\ 4 \in 1..10 /\ 5 \in 1..10 /\ 6 \in 1..10
      /\ 7 \in 1..10 /\ 8 \in 1..10 /\ 9 \in 1..10 /\ 10 \in 1..10
  OBVIOUS
<1> QED BY <1>1 DEF Rank

\* An empty part.
LEMMA PartEmpty == ASSUME NEW s, NEW nx, NEW a, NEW b PROVE Part(<<>>, s, nx, a, b)
<1>1. PICK e : e = <<>>
  OBVIOUS
<1>2. e \in Seq(Orders) /\ 1..Len(e) = {}
  BY <1>1
<1>3. Part(e, s, nx, a, b)
  BY <1>2 DEF Part, Arranged
<1> QED BY <1>1, <1>3

\* A part of one order.
LEMMA PartOne ==
    ASSUME NEW s, NEW nx, NEW a \in Nat, NEW b \in Nat, NEW o \in Orders, Sound(o, s, nx), Rank(o) >= a, Rank(o) <= b
    PROVE  Part(<<o>>, s, nx, a, b)
<1>1. PICK t : t = <<o>>
  OBVIOUS
<1>2. t \in Seq(Orders) /\ 1..Len(t) = {1} /\ t[1] = o
  BY <1>1
<1>3. \A i, j \in 1..Len(t) : ~(i < j)
  BY <1>2
<1>4. Part(t, s, nx, a, b)
  BY <1>2, <1>3 DEF Part, Arranged
<1> QED BY <1>1, <1>4

\* An order at the market.
LEMMA PartMarket ==
    ASSUME NEW s, NEW nx, NEW a \in Nat, NEW b \in Nat, NEW q \in Nat, NEW inst, NEW side, NEW kind,
           NEW o, o = Order(inst, side, "market", q, NoPrice, kind),
           q > 0 => o \in Orders /\ Sound(o, s, nx) /\ Rank(o) >= a /\ Rank(o) <= b
    PROVE  Part(MarketOrder(inst, side, q, kind), s, nx, a, b)
<1>1. CASE q > 0
  <2>1. MarketOrder(inst, side, q, kind) = <<o>>
    BY <1>1 DEF MarketOrder
  <2> QED BY <1>1, <2>1, PartOne
<1>2. CASE ~(q > 0)
  <2>1. MarketOrder(inst, side, q, kind) = <<>>
    BY <1>2 DEF MarketOrder
  <2> QED BY <2>1, PartEmpty
<1> QED BY <1>1, <1>2

\* Wider bounds.
LEMMA PartWider ==
    ASSUME NEW t, NEW s, NEW nx, NEW a \in Nat, NEW b \in Nat, NEW c \in Nat, NEW d \in Nat, c <= a, b <= d,
           Part(t, s, nx, a, b)
    PROVE  Part(t, s, nx, c, d)
<1>1. \A i \in 1..Len(t) : Rank(t[i]) \in Nat
  BY RankIs
<1> QED BY <1>1 DEF Part

\* Arranged sequences joined.
LEMMA ArrangedJoin ==
    ASSUME NEW X, NEW s \in Seq(X), NEW t \in Seq(X), NEW Z, Arranged(s, Z), Arranged(t, Z),
           \A i \in 1..Len(s) : \A j \in 1..Len(t) : <<s[i], t[j]>> \in Z
    PROVE  Arranged(s \o t, Z)
<1>0. PICK m \in Nat, n \in Nat : m = Len(s) /\ n = Len(t)
  OBVIOUS
<1>9. PICK u : u = s \o t
  OBVIOUS
<1>1. u = s \o t /\ m = Len(s) /\ n = Len(t)
  BY <1>0, <1>9
<1>2. /\ Len(u) = m + n /\ \A i \in 1..m : u[i] = s[i]
      /\ \A i \in 1..(m + n) : i > m => i - m \in 1..n /\ u[i] = t[i - m]
  BY <1>1
<1>3. Arranged(u, Z)
  <2> SUFFICES ASSUME NEW i \in 1..(m + n), NEW j \in 1..(m + n), i < j PROVE <<u[i], u[j]>> \in Z
    BY <1>2 DEF Arranged
  <2>1. CASE j <= m
    <3>1. i \in 1..m /\ j \in 1..m
      BY <2>1
    <3> QED BY <1>1, <1>2, <3>1 DEF Arranged
  <2>2. CASE i <= m /\ j > m
    <3>1. i \in 1..m /\ j - m \in 1..n
      BY <2>2
    <3> QED BY <1>1, <1>2, <2>2, <3>1
  <2>3. CASE i > m /\ j > m
    <3>1. PICK g \in 1..n, h \in 1..n : g = i - m /\ h = j - m /\ g < h
      BY <2>3
    <3>2. u[i] = t[g] /\ u[j] = t[h]
      BY <1>2, <2>3, <3>1
    <3>3. <<t[g], t[h]>> \in Z
      BY <1>1, <3>1 DEF Arranged
    <3> QED BY <3>2, <3>3
  <2> QED BY <2>1, <2>2, <2>3
<1> QED BY <1>1, <1>3

\* Two parts joined.
LEMMA PartJoin ==
    ASSUME NEW s, NEW nx, NEW t, NEW u, NEW a \in Nat, NEW b \in Nat, NEW c \in Nat, NEW d \in Nat,
           Part(t, s, nx, a, b), Part(u, s, nx, c, d), a <= c, b < c \/ (b = 4 /\ c = 4), b <= d
    PROVE  Part(t \o u, s, nx, a, d)
<1>1. PICK m \in Nat, n \in Nat : m = Len(t) /\ n = Len(u)
  BY DEF Part
<1>2. PICK v : v = t \o u
  OBVIOUS
<1>3. t \in Seq(Orders) /\ u \in Seq(Orders)
  BY DEF Part
<1>4. /\ v \in Seq(Orders) /\ Len(v) = m + n /\ \A i \in 1..m : v[i] = t[i]
      /\ \A i \in 1..(m + n) : i > m => i - m \in 1..n /\ v[i] = u[i - m]
  BY <1>1, <1>2, <1>3
<1>5. /\ \A i \in 1..m : Rank(t[i]) \in Nat /\ Rank(t[i]) >= a /\ Rank(t[i]) <= b /\ Sound(t[i], s, nx) /\ t[i] \in Orders
      /\ \A i \in 1..n : Rank(u[i]) \in Nat /\ Rank(u[i]) >= c /\ Rank(u[i]) <= d /\ Sound(u[i], s, nx) /\ u[i] \in Orders
  <2>1. /\ \A i \in 1..Len(t) : Rank(t[i]) >= a /\ Rank(t[i]) <= b /\ Sound(t[i], s, nx)
        /\ \A i \in 1..Len(u) : Rank(u[i]) >= c /\ Rank(u[i]) <= d /\ Sound(u[i], s, nx)
    BY DEF Part
  <2>2. \A o : Rank(o) \in Nat
    <3> TAKE o
    <3>1. Rank(o) \in 1..10
      BY RankIs
    <3> QED BY <3>1
  <2>3. (\A i \in 1..m : t[i] \in Orders) /\ \A i \in 1..n : u[i] \in Orders
    BY <1>1, <1>3
  <2> QED BY <1>1, <2>1, <2>2, <2>3
<1>6. \A i \in 1..m : \A j \in 1..n : <<t[i], u[j]>> \in InTurn
  BY <1>5 DEF InTurn
<1>7. Arranged(v, InTurn)
  <2>1. Arranged(t, InTurn) /\ Arranged(u, InTurn)
    BY DEF Part
  <2> QED BY <1>1, <1>2, <1>3, <1>6, <2>1, ArrangedJoin
<1>8. \A i \in 1..(m + n) : Rank(v[i]) >= a /\ Rank(v[i]) <= d /\ Sound(v[i], s, nx)
  <2> TAKE i \in 1..(m + n)
  <2>1. CASE i <= m
    <3>1. i \in 1..m
      BY <2>1
    <3> QED BY <1>4, <1>5, <3>1
  <2>2. CASE i > m
    <3>1. i - m \in 1..n /\ v[i] = u[i - m]
      BY <1>4, <2>2
    <3>2. PICK o : o = u[i - m]
      OBVIOUS
    <3>3. Rank(o) \in Nat /\ Rank(o) >= c /\ Rank(o) <= d /\ Sound(o, s, nx)
      BY <1>5, <3>1, <3>2
    <3> QED BY <3>1, <3>2, <3>3
  <2> QED BY <2>1, <2>2
<1>9. Part(v, s, nx, a, d)
  BY <1>4, <1>7, <1>8 DEF Part
<1> QED BY <1>2, <1>9

\* Take-profits of a lot, of the lots up to a number, and the sales of a reduction.
TpsOf(id) == {o \in Orders : o.inst = K200 /\ o.side = "sell" /\ o.type = "limit" /\ o.kind = "tp" /\ o.lot = id}
TpUpto(k) == {o \in Orders : o.inst = K200 /\ o.side = "sell" /\ o.kind = "tp" /\ o.lot <= k}
Reduces == {o \in Orders : o.inst = K200 /\ o.side = "sell" /\ o.kind = "reduce"}
FundUpto(k) == {l \in FundLots : l.id <= k}
ById == {p \in SimLots \X SimLots : p[1].id < p[2].id}
Numbered == lots \in Seq(LotsTo(nextLot)) /\ Arranged(lots, ById) /\ nextLot \in Nat

\* What is counted of the first places of a sequence.
Prefix(f, s, R) ==
    /\ f[0] = 0 /\ f[Len(s)] = Qty(s, R) /\ \A i \in 0..Len(s) : f[i] \in Nat
    /\ \A i \in 1..Len(s) : f[i] = f[i - 1] + IF s[i] \in R THEN s[i].qty ELSE 0

\* It can be counted place by place.
LEMMA PrefixExists ==
    ASSUME NEW X, Counting(X), NEW s \in Seq(X), NEW R
    PROVE  \E f : Prefix(f, s, R)
<1>1. PICK n \in Nat : n = Len(s)
  OBVIOUS
<1>2. PICK Q : Q = QtyAt(s, R)
  OBVIOUS
<1>3. (\A i \in 1..n : Q[i] \in Nat) /\ Integral(Q, 1..n)
  BY <1>1, <1>2, QtyTerms
<1>4. \A i \in 1..n : Q[i] = IF s[i] \in R THEN s[i].qty ELSE 0
  BY <1>1, <1>2 DEF QtyAt
<1>5. PICK f : f = [i \in 0..n |-> SumOver(Q, 1..i)]
  OBVIOUS
<1>6. \A i \in 0..n : f[i] \in Nat
  <2> TAKE i \in 0..n
  <2>1. PICK T : T = 1..i
    OBVIOUS
  <2>2. IsFiniteSet(T) /\ \A j \in T : Q[j] \in Nat
    BY <1>3, <2>1, FS_Interval
  <2>3. SumOver(Q, T) \in Nat
    BY <2>2, SumNatural
  <2> QED BY <1>5, <2>1, <2>3
<1>7. f[0] = 0 /\ \A i \in 1..n : f[i] = f[i - 1] + Q[i]
  <2>1. SumOver(Q, 1..0) = 0 /\ \A i \in 1..n : SumOver(Q, 1..i) = SumOver(Q, 1..(i - 1)) + Q[i]
    BY <1>3, SumUpto
  <2>2. f[0] = SumOver(Q, 1..0)
    BY <1>5
  <2>3. \A i \in 1..n : f[i] = SumOver(Q, 1..i) /\ f[i - 1] = SumOver(Q, 1..(i - 1))
    BY <1>5
  <2> QED BY <2>1, <2>2, <2>3
<1>8. f[n] = Qty(s, R)
  <2>1. f[n] = SumOver(Q, 1..n)
    BY <1>5
  <2> QED BY <1>1, <1>2, <2>1, QtyIs
<1>9. \A i \in 1..n : f[i] = f[i - 1] + IF s[i] \in R THEN s[i].qty ELSE 0
  BY <1>4, <1>7
<1>10. Prefix(f, s, R)
  BY <1>1, <1>6, <1>7, <1>8, <1>9 DEF Prefix
<1> QED BY <1>10

\* A take-profit of one price.
LEMMA TpOrderOf ==
    ASSUME NEW lot \in SimLots, NEW n \in Nat, NEW px \in Nat
    PROVE  TpOrder(lot, n, px) \in Seq(TpsOf(lot.id))
<1>1. CASE n = 0
  <2>1. PICK e : e = <<>>
    OBVIOUS
  <2>2. TpOrder(lot, n, px) = e
    BY <1>1, <2>1 DEF TpOrder
  <2>3. e \in Seq(TpsOf(lot.id))
    BY <2>1
  <2> QED BY <2>2, <2>3
<1>2. CASE n > 0
  <2>1. PICK o : o = [Order(K200, "sell", "limit", n, px, "tp") EXCEPT !.lot = lot.id]
    OBVIOUS
  <2>2. TpOrder(lot, n, px) = <<o>>
    BY <1>2, <2>1 DEF TpOrder
  <2>3. o \in Orders
    BY <1>2, <2>1 DEF Orders, Order, OrderKinds, SimLots
  <2>4. o \in TpsOf(lot.id)
    BY <2>1, <2>3 DEF TpsOf, Order
  <2> QED BY <2>2, <2>4
<1> QED BY <1>1, <1>2

\* All that is offered of a lot is its take-profit.
LEMMA OfferOf ==
    ASSUME NEW b, BarOK(b), Priced(b), NEW x, x.bar = b, NEW lot \in SimLots, NEW n \in Nat
    PROVE  Offer(x, lot, n) \in Seq(TpsOf(lot.id))
<1>1. CASE lot.kind = "grid"
  <2>1. lot.tp \in Nat
    BY DEF SimLots
  <2>2. Offer(x, lot, n) = TpOrder(lot, n, lot.tp)
    BY <1>1 DEF Offer
  <2> QED BY <2>1, <2>2, TpOrderOf
<1>2. CASE lot.kind # "grid"
  <2>0. Ladder(n)[1] \in Nat /\ Ladder(n)[2] \in Nat /\ Ladder(n)[3] \in Nat
    BY LadderSum
  <2>1. PICK p1 \in Nat, p2 \in Nat, p3 \in Nat : p1 = Ladder(n)[1] /\ p2 = Ladder(n)[2] /\ p3 = Ladder(n)[3]
    BY <2>0
  <2>2. PICK c \in Nat, g \in Nat : c = b.close /\ g = b.grid
    BY DEF BarOK
  <2>3. \A k \in 1..3 : CeilDiv(c * (20 + k * g), 20) \in Nat
    <3> TAKE k \in 1..3
    <3>1. k * g \in Nat
      OBVIOUS
    <3>2. c * (20 + k * g) \in Nat
      BY <3>1
    <3>3. PICK a \in Nat : a = c * (20 + k * g)
      BY <3>2
    <3>4. (a + 20 - 1) \div 20 \in Nat
      OBVIOUS
    <3> QED BY <3>3, <3>4 DEF CeilDiv
  <2>4. PICK x1 \in Nat, x2 \in Nat, x3 \in Nat :
            /\ x1 = CeilDiv(c * (20 + 1 * g), 20) /\ x2 = CeilDiv(c * (20 + 2 * g), 20)
            /\ x3 = CeilDiv(c * (20 + 3 * g), 20)
    BY <2>3
  <2>5. PICK s1, s2, s3 : s1 = TpOrder(lot, p1, x1) /\ s2 = TpOrder(lot, p2, x2) /\ s3 = TpOrder(lot, p3, x3)
    OBVIOUS
  <2>6. Offer(x, lot, n) = s1 \o s2 \o s3
    BY <1>2, <2>1, <2>2, <2>4, <2>5 DEF Offer
  <2>7. PICK T : T = TpsOf(lot.id)
    OBVIOUS
  <2>8. s1 \in Seq(T) /\ s2 \in Seq(T) /\ s3 \in Seq(T)
    BY <2>5, <2>7, TpOrderOf
  <2>9. s1 \o s2 \o s3 \in Seq(T)
    BY <2>8
  <2> QED BY <2>6, <2>7, <2>9
<1> QED BY <1>1, <1>2

\* Take-profits of one lot are in turn, and after those of lots with a smaller number.
LEMMA TpsInTurn ==
    ASSUME NEW i \in Nat, NEW j \in Nat, i <= j, NEW x \in TpsOf(i), NEW y \in TpsOf(j)
    PROVE  <<x, y>> \in InTurn /\ Rank(x) = 3
<1>1. Rank(x) = 3 /\ Rank(y) = 3
  BY DEF Rank, TpsOf
<1> QED BY <1>1 DEF InTurn, TpsOf

\* The take-profits of an evening, lot by lot: each is of a lot met so far.
TpsUpto(s, t, i) ==
    /\ t \in Seq(Orders) /\ Arranged(t, InTurn)
    /\ \A j \in 1..Len(t) : \E p \in 1..i : s[p].inst = K200 /\ t[j] \in TpsOf(s[p].id)

\* One lot more.
LEMMA TpsMore ==
    ASSUME NEW s \in Seq(SimLots), Arranged(s, ById), NEW i \in 1..Len(s), s[i].inst = K200,
           NEW t, TpsUpto(s, t, i - 1), NEW u \in Seq(TpsOf(s[i].id))
    PROVE  TpsUpto(s, t \o u, i)
<1>1. PICK m \in Nat, n \in Nat : m = Len(t) /\ n = Len(u)
  BY DEF TpsUpto
<1>2. PICK v : v = t \o u
  OBVIOUS
<1>3. PICK D, T : D = SimLots /\ T = TpsOf(s[i].id) /\ T \subseteq Orders
  BY DEF TpsOf
<1>4. t \in Seq(Orders) /\ u \in Seq(T) /\ u \in Seq(Orders)
  BY <1>3 DEF TpsUpto
<1>5. /\ v \in Seq(Orders) /\ Len(v) = m + n /\ \A k \in 1..m : v[k] = t[k]
      /\ \A k \in 1..(m + n) : k > m => k - m \in 1..n /\ v[k] = u[k - m]
  BY <1>1, <1>2, <1>4
<1>6. \A k \in 1..n : u[k] \in T
  BY <1>1, <1>4
<1>7. \A j \in 1..m : \E p \in 1..(i - 1) : s[p].inst = K200 /\ t[j] \in TpsOf(s[p].id)
  BY <1>1 DEF TpsUpto
<1>8. \A p \in 1..Len(s) : s[p].id \in Nat
  <2>1. \A p \in 1..Len(s) : s[p] \in SimLots
    OBVIOUS
  <2>2. \A l \in SimLots : l.id \in Nat
    BY DEF SimLots
  <2> QED BY <2>1, <2>2
<1>9. Arranged(u, InTurn)
  <2> SUFFICES ASSUME NEW g \in 1..Len(u), NEW h \in 1..Len(u) PROVE <<u[g], u[h]>> \in InTurn
    BY DEF Arranged
  <2>1. PICK d \in Nat : d = s[i].id
    BY <1>8
  <2>2. u[g] \in TpsOf(d) /\ u[h] \in TpsOf(d) /\ d <= d
    BY <1>1, <1>3, <1>6, <2>1
  <2> QED BY <2>2, TpsInTurn
<1>10. \A g \in 1..Len(t) : \A h \in 1..Len(u) : <<t[g], u[h]>> \in InTurn
  <2> TAKE g \in 1..Len(t)
  <2> TAKE h \in 1..Len(u)
  <2>1. PICK p \in 1..(i - 1) : s[p].inst = K200 /\ t[g] \in TpsOf(s[p].id)
    BY <1>1, <1>7
  <2>2. p \in 1..Len(s) /\ p < i
    OBVIOUS
  <2>3. <<s[p], s[i]>> \in ById
    BY <2>2 DEF Arranged
  <2>4. s[p].id < s[i].id
    BY <2>3 DEF ById
  <2>5. PICK c \in Nat, d \in Nat : c = s[p].id /\ d = s[i].id /\ c <= d
    BY <1>8, <2>2, <2>4
  <2>6. t[g] \in TpsOf(c) /\ u[h] \in TpsOf(d)
    BY <1>1, <1>3, <1>6, <2>1, <2>5
  <2> QED BY <2>5, <2>6, TpsInTurn
<1>11. Arranged(v, InTurn)
  <2>1. Arranged(t, InTurn)
    BY DEF TpsUpto
  <2> QED BY <1>2, <1>4, <1>9, <1>10, <2>1, ArrangedJoin
<1>12. \A j \in 1..(m + n) : \E p \in 1..i : s[p].inst = K200 /\ v[j] \in TpsOf(s[p].id)
  <2> TAKE j \in 1..(m + n)
  <2>1. CASE j <= m
    <3>1. j \in 1..m
      BY <2>1
    <3>2. PICK p \in 1..(i - 1) : s[p].inst = K200 /\ t[j] \in TpsOf(s[p].id)
      BY <1>7, <3>1
    <3>3. p \in 1..i
      OBVIOUS
    <3> QED BY <1>5, <3>1, <3>2, <3>3
  <2>2. CASE j > m
    <3>1. j - m \in 1..n /\ v[j] = u[j - m]
      BY <1>5, <2>2
    <3>2. v[j] \in T
      BY <1>6, <3>1
    <3>3. i \in 1..i
      OBVIOUS
    <3> QED BY <1>3, <3>2, <3>3
  <2> QED BY <2>1, <2>2
<1>13. TpsUpto(s, v, i)
  BY <1>5, <1>11, <1>12 DEF TpsUpto
<1> QED BY <1>2, <1>13

\* What the first lots have to offer up to number k: the reduction is taken from all of them, the
\* first ones first.
TpsHeld(k, reduce, h, g, acc) ==
    /\ acc.reduce = Most(0, reduce - h) /\ acc.orders \in Seq(Orders)
    /\ Qty(acc.orders, TpUpto(k)) = Most(0, g - reduce)

\* One lot more is offered.
LEMMA TpsHeldOne ==
    ASSUME NEW b, BarOK(b), Priced(b), NEW x, x.bar = b, NEW reduce \in Nat, NEW k \in Nat,
           NEW h \in Nat, NEW g \in Nat, NEW acc, TpsHeld(k, reduce, h, g, acc), NEW lot \in SimLots,
           lot \in FundUpto(k) => h = g
    PROVE  TpsHeld(k, reduce, h + (IF lot \in FundLots THEN lot.qty ELSE 0),
                   g + (IF lot \in FundUpto(k) THEN lot.qty ELSE 0), OfferLot(x, acc, lot))
<1>1. CASE lot.inst # K200
  <2>1. lot \notin FundLots /\ lot \notin FundUpto(k) /\ OfferLot(x, acc, lot) = acc
    BY <1>1 DEF FundLots, FundUpto, OfferLot
  <2>2. h + 0 = h /\ g + 0 = g
    OBVIOUS
  <2> QED BY <2>1, <2>2
<1>2. CASE lot.inst = K200
  <2>1. lot \in FundLots
    BY <1>2 DEF FundLots
  <2>2. PICK q \in Nat, r \in Nat, t \in Nat : q = lot.qty /\ r = Most(0, reduce - h) /\ t = Least(r, q)
    BY DEF SimLots, Most, Least
  <2>3. q - t \in Nat /\ r - t = Most(0, reduce - (h + q))
    BY <2>2 DEF Most, Least
  <2>4. PICK s, u : s = acc.orders /\ u = Offer(x, lot, q - t)
    OBVIOUS
  <2>5. acc.reduce = r
    BY <2>2 DEF TpsHeld
  <2>6. OfferLot(x, acc, lot) = [reduce |-> r - t, orders |-> s \o u]
    BY <1>2, <2>2, <2>4, <2>5 DEF OfferLot
  <2>7. s \in Seq(Orders) /\ u \in Seq(Orders) /\ Qty(u, FundSells) = q - t
    <3>1. Totals(u, q - t, 0, 0, 0, b)
      BY <2>3, <2>4, OfferTotals
    <3> QED BY <2>4, <3>1 DEF TpsHeld, Totals
  <2>8. PICK d \in Nat : d = lot.id
    BY DEF SimLots
  <2>9. \A i \in 1..Len(u) : u[i] \in TpsOf(d)
    <3>1. PICK T : T = TpsOf(d)
      OBVIOUS
    <3>2. u \in Seq(T)
      BY <2>3, <2>4, <2>8, <3>1, OfferOf
    <3> QED BY <3>1, <3>2
  <2>10. PICK P : P = TpUpto(k)
    OBVIOUS
  <2>11. Qty(s \o u, P) = Qty(s, P) + Qty(u, P)
    BY <2>7, OrdersCount, QtyConcat
  <2>12. Qty(s, P) = Most(0, g - reduce)
    BY <2>4, <2>10 DEF TpsHeld
  <2>13. CASE d <= k
    <3>1. lot \in FundUpto(k)
      BY <2>1, <2>8, <2>13 DEF FundUpto
    <3>2. \A i \in 1..Len(u) : (u[i] \in P <=> u[i] \in FundSells) /\ (u[i] \in P => u[i].qty = u[i].qty)
      BY <2>9, <2>10, <2>13 DEF TpsOf, TpUpto, FundSells
    <3>3. Qty(u, P) = q - t
      <4>1. Qty(u, P) = Qty(u, FundSells)
        BY <2>7, <3>2, OrdersCount, QtySame
      <4> QED BY <2>7, <4>1
    <3>4. h = g
      BY <3>1
    <3>5. Most(0, g - reduce) + (q - t) = Most(0, (g + q) - reduce)
      BY <2>2, <3>4 DEF Most, Least
    <3>6. s \o u \in Seq(Orders)
      BY <2>7
    <3>7. Qty(s \o u, P) = Most(0, (g + q) - reduce)
      BY <2>11, <2>12, <3>3, <3>5
    <3> QED BY <2>1, <2>2, <2>3, <2>6, <2>10, <3>1, <3>6, <3>7 DEF TpsHeld
  <2>14. CASE ~(d <= k)
    <3>1. lot \notin FundUpto(k)
      BY <2>8, <2>14 DEF FundUpto
    <3>2. \A i \in 1..Len(u) : u[i] \notin P
      BY <2>9, <2>10, <2>14 DEF TpsOf, TpUpto
    <3>3. Qty(u, P) = 0
      BY <2>7, <3>2, OrdersCount, QtyNone
    <3>4. Most(0, g - reduce) + 0 = Most(0, g - reduce) /\ g + 0 = g
      BY DEF Most
    <3>5. s \o u \in Seq(Orders)
      BY <2>7
    <3>6. Qty(s \o u, P) = Most(0, g - reduce)
      BY <2>11, <2>12, <3>3, <3>4
    <3> QED BY <2>1, <2>2, <2>3, <2>6, <2>10, <3>1, <3>4, <3>5, <3>6 DEF TpsHeld
  <2> QED BY <2>13, <2>14
<1> QED BY <1>1, <1>2

\* The offers of an evening are take-profits of the lots of the fund, in turn, and up to any lot
\* they come to what the lots hold but for the reduction.
LEMMA TpsMade ==
    ASSUME Settled, Numbered, NEW b, BarOK(b), Priced(b), NEW x, x.bar = b, NEW reduce \in Nat,
           NEW t, t = TpOrders(x, reduce)
    PROVE  /\ Part(t, lots, nextLot, 3, 3)
           /\ \A i \in 1..Len(t) : t[i].kind = "tp"
           /\ t # <<>> => \A k \in Nat : Qty(t, TpUpto(k)) = Most(0, Qty(lots, FundUpto(k)) - reduce)
<1>1. PICK a : Offering(x, reduce, a) /\
             TpOrders(x, reduce) = IF x.regime = "NEUTRAL" \/ (x.regime = "BULL" /\ ~flags.noTp)
                                   THEN a[Len(lots)].orders ELSE <<>>
  BY OfferExists
<1>2. PICK s : s = lots
  OBVIOUS
<1>3. PICK n \in Nat : n = Len(s)
  BY <1>2 DEF Settled
<1>4. s \in Seq(SimLots) /\ Arranged(s, ById) /\ \A i \in 1..n : s[i] \in LotsTo(nextLot) /\ s[i] \in SimLots
  <2>1. s \in Seq(SimLots) /\ s \in Seq(LotsTo(nextLot)) /\ Arranged(s, ById)
    BY <1>2 DEF Settled, Numbered
  <2> QED BY <1>3, <2>1
<1>5. a[0] = OfferBase(reduce) /\ \A i \in 1..n : a[i] = OfferLot(x, a[i - 1], s[i])
  BY <1>1, <1>2, <1>3 DEF Offering
<1>6. \A i, j \in 1..n : i < j => s[i].id < s[j].id
  BY <1>3, <1>4 DEF Arranged, ById
<1>e. PICK e : e = <<>>
  OBVIOUS
<1>7. \A i \in 0..n : a[i].reduce \in Nat /\ TpsUpto(s, a[i].orders, i)
  <2>1. PICK G : G = {i \in 0..n : a[i].reduce \in Nat /\ TpsUpto(s, a[i].orders, i)}
    OBVIOUS
  <2>2. 0 \in G
    <3>1. e \in Seq(Orders) /\ 1..Len(e) = {}
      BY <1>e
    <3>2. TpsUpto(s, e, 0)
      BY <3>1 DEF TpsUpto, Arranged
    <3> QED BY <1>5, <1>e, <2>1, <3>2 DEF OfferBase
  <2>3. \A i \in 1..n : i - 1 \in G => i \in G
    <3> SUFFICES ASSUME NEW i \in 1..n, i - 1 \in G PROVE i \in G
      OBVIOUS
    <3>a. PICK acc : acc = a[i - 1]
      OBVIOUS
    <3>b. PICK lot \in SimLots : lot = s[i]
      BY <1>4
    <3>1. acc = a[i - 1] /\ lot = s[i]
      BY <3>a, <3>b
    <3>2. acc.reduce \in Nat /\ TpsUpto(s, acc.orders, i - 1) /\ a[i] = OfferLot(x, acc, lot)
      BY <1>5, <2>1, <3>1
    <3>3. CASE lot.inst # K200
      <4>1. a[i] = acc
        BY <3>2, <3>3 DEF OfferLot
      <4>2. TpsUpto(s, acc.orders, i)
        <5>1. \A p \in 1..(i - 1) : p \in 1..i
          OBVIOUS
        <5> QED BY <3>2, <5>1 DEF TpsUpto
      <4> QED BY <2>1, <3>2, <4>1, <4>2
    <3>4. CASE lot.inst = K200
      <4>1. PICK q \in Nat, r \in Nat, d \in Nat : q = lot.qty /\ r = acc.reduce /\ d = Least(r, q)
        BY <3>2 DEF SimLots, Least
      <4>2. q - d \in Nat /\ r - d \in Nat
        BY <4>1 DEF Least
      <4>3. PICK u : u = Offer(x, lot, q - d) /\ u \in Seq(TpsOf(lot.id))
        BY <4>2, OfferOf
      <4>4. OfferLot(x, acc, lot) = [reduce |-> r - d, orders |-> acc.orders \o u]
        BY <3>4, <4>1, <4>3 DEF OfferLot
      <4>5. i \in 1..Len(s) /\ s[i].inst = K200 /\ u \in Seq(TpsOf(s[i].id))
        BY <1>3, <3>1, <3>4, <4>3
      <4>6. TpsUpto(s, acc.orders \o u, i)
        BY <1>4, <3>2, <4>5, TpsMore
      <4>7. PICK v : v = acc.orders \o u
        OBVIOUS
      <4>8. a[i] = [reduce |-> r - d, orders |-> v] /\ TpsUpto(s, v, i)
        BY <3>2, <4>4, <4>6, <4>7
      <4>9. a[i].reduce \in Nat /\ TpsUpto(s, a[i].orders, i)
        BY <4>2, <4>8
      <4> QED BY <2>1, <4>9
    <3> QED BY <3>3, <3>4
  <2>4. \A i \in 0..n : i \in G
    BY <2>2, <2>3, PlacesAll
  <2> QED BY <2>1, <2>4
<1>8. t = e \/ t = a[n].orders
  BY <1>1, <1>2, <1>3, <1>e
<1>9. TpsUpto(s, t, n)
  <2>1. TpsUpto(s, e, n)
    <3>1. e \in Seq(Orders) /\ 1..Len(e) = {}
      BY <1>e
    <3> QED BY <3>1 DEF TpsUpto, Arranged
  <2>2. n \in 0..n
    OBVIOUS
  <2> QED BY <1>7, <1>8, <2>1, <2>2
<1>10. ASSUME NEW i \in 1..Len(t) PROVE Rank(t[i]) = 3 /\ Sound(t[i], lots, nextLot) /\ t[i].kind = "tp"
  <2>1. PICK p \in 1..n : s[p].inst = K200 /\ t[i] \in TpsOf(s[p].id)
    BY <1>9 DEF TpsUpto
  <2>a. PICK o : o = t[i]
    OBVIOUS
  <2>b. PICK d \in Nat : d = s[p].id /\ d < nextLot
    BY <1>4 DEF LotsTo, SimLots
  <2>2. o = t[i] /\ d = s[p].id /\ d < nextLot /\ o \in TpsOf(d)
    BY <2>1, <2>a, <2>b
  <2>3. Rank(o) = 3 /\ o.kind = "tp" /\ o.side = "sell" /\ o.lot = d /\ o.type = "limit" /\ o.inst = K200
    BY <2>2 DEF Rank, TpsOf
  <2>4. \A j \in 1..n : s[j].id = d => s[j].inst = K200
    <3> SUFFICES ASSUME NEW j \in 1..n, s[j].id = d PROVE s[j].inst = K200
      OBVIOUS
    <3>1. s[j].id \in Nat
      BY <1>4 DEF SimLots
    <3>2. ~(j < p) /\ ~(p < j)
      BY <1>6, <2>2, <3>1
    <3>3. j = p
      BY <3>2
    <3> QED BY <2>1, <3>3
  <2>5. Whose(o, lots, nextLot)
    BY <1>2, <1>3, <2>2, <2>3, <2>4 DEF Whose
  <2>6. Sound(o, lots, nextLot)
    BY <2>3, <2>5 DEF Sound, Selling, SellKinds
  <2> QED BY <2>2, <2>3, <2>6
<1>11. Part(t, lots, nextLot, 3, 3)
  BY <1>9, <1>10 DEF TpsUpto, Part
<1>12. ASSUME t # <<>>, NEW k \in Nat PROVE Qty(t, TpUpto(k)) = Most(0, Qty(lots, FundUpto(k)) - reduce)
  <2>1. t = a[n].orders
    BY <1>8, <1>12, <1>e
  <2>2. PICK U, F : U = FundUpto(k) /\ F = FundLots
    OBVIOUS
  <2>3. PICK g : Prefix(g, s, U)
    BY <1>4, SimLotsCount, PrefixExists
  <2>4. PICK h : Prefix(h, s, F)
    BY <1>4, SimLotsCount, PrefixExists
  <2>5. /\ g[0] = 0 /\ g[n] = Qty(s, U) /\ \A i \in 0..n : g[i] \in Nat
        /\ \A i \in 1..n : g[i] = g[i - 1] + IF s[i] \in U THEN s[i].qty ELSE 0
    BY <1>3, <2>3 DEF Prefix
  <2>6. /\ h[0] = 0 /\ \A i \in 0..n : h[i] \in Nat
        /\ \A i \in 1..n : h[i] = h[i - 1] + IF s[i] \in F THEN s[i].qty ELSE 0
    BY <1>3, <2>4 DEF Prefix
  <2> DEFINE same(i) == (\A j \in 1..i : s[j] \in F => s[j] \in U) => h[i] = g[i]
  <2>7. PICK G : G = {i \in 0..n : same(i) /\ TpsHeld(k, reduce, h[i], g[i], a[i])}
    OBVIOUS
  <2>8. 0 \in G
    <3>1. a[0].reduce = reduce /\ a[0].orders = e
      BY <1>5, <1>e DEF OfferBase
    <3>2. e \in Seq(Orders) /\ Len(e) = 0
      BY <1>e
    <3>3. Qty(e, TpUpto(k)) = 0
      <4>1. \A i \in 1..Len(e) : e[i] \notin TpUpto(k)
        BY <3>2
      <4> QED BY <3>2, <4>1, OrdersCount, QtyNone
    <3>4. Most(0, reduce - 0) = reduce /\ Most(0, 0 - reduce) = 0
      BY DEF Most
    <3>5. TpsHeld(k, reduce, 0, 0, a[0])
      BY <3>1, <3>2, <3>3, <3>4 DEF TpsHeld
    <3> QED BY <2>5, <2>6, <2>7, <3>5
  <2>9. \A i \in 1..n : i - 1 \in G => i \in G
    <3> SUFFICES ASSUME NEW i \in 1..n, i - 1 \in G PROVE i \in G
      OBVIOUS
    <3>a. PICK acc : acc = a[i - 1]
      OBVIOUS
    <3>b. PICK lot \in SimLots : lot = s[i]
      BY <1>4
    <3>1. acc = a[i - 1] /\ lot = s[i]
      BY <3>a, <3>b
    <3>2. PICK h0 \in Nat, g0 \in Nat : h0 = h[i - 1] /\ g0 = g[i - 1]
      <4>1. i - 1 \in 0..n
        OBVIOUS
      <4> QED BY <2>5, <2>6, <4>1
    <3>3. same(i - 1) /\ TpsHeld(k, reduce, h0, g0, acc)
      BY <2>7, <3>1, <3>2
    <3>4. lot \in U => h0 = g0
      <4> SUFFICES ASSUME lot \in U PROVE h0 = g0
        OBVIOUS
      <4>1. \A j \in 1..(i - 1) : s[j] \in F => s[j] \in U
        <5> SUFFICES ASSUME NEW j \in 1..(i - 1), s[j] \in F PROVE s[j] \in U
          OBVIOUS
        <5>1. j \in 1..n /\ j < i
          OBVIOUS
        <5>2. s[j].id < s[i].id /\ s[i].id <= k /\ s[j].id \in Nat /\ s[i].id \in Nat
          BY <1>4, <1>6, <2>2, <3>1, <5>1 DEF FundUpto, SimLots
        <5>3. s[j].id <= k
          BY <5>2
        <5> QED BY <2>2, <5>3 DEF FundUpto
      <4> QED BY <3>2, <3>3, <4>1
    <3>5. h[i] = h0 + (IF lot \in FundLots THEN lot.qty ELSE 0) /\ g[i] = g0 + (IF lot \in FundUpto(k) THEN lot.qty ELSE 0)
      BY <2>2, <2>5, <2>6, <3>1, <3>2
    <3>6. TpsHeld(k, reduce, h0 + (IF lot \in FundLots THEN lot.qty ELSE 0),
                   g0 + (IF lot \in FundUpto(k) THEN lot.qty ELSE 0), OfferLot(x, acc, lot))
      <4>1. lot \in FundUpto(k) => h0 = g0
        BY <2>2, <3>4
      <4> QED BY <3>3, <4>1, TpsHeldOne
    <3>7. TpsHeld(k, reduce, h[i], g[i], a[i])
      BY <1>5, <3>1, <3>5, <3>6
    <3>8. same(i)
      <4> SUFFICES ASSUME \A j \in 1..i : s[j] \in F => s[j] \in U PROVE h[i] = g[i]
        OBVIOUS
      <4>1. \A j \in 1..(i - 1) : j \in 1..i
        OBVIOUS
      <4>2. h0 = g0
        BY <3>2, <3>3, <4>1
      <4>3. i \in 1..i
        OBVIOUS
      <4>4. lot \in F => lot \in U
        BY <3>1, <4>3
      <4>5. lot \in U => lot \in F
        BY <2>2 DEF FundUpto
      <4> QED BY <2>2, <3>5, <4>2, <4>4, <4>5
    <3> QED BY <2>7, <3>7, <3>8
  <2>10. n \in G
    <3>1. n \in 0..n
      OBVIOUS
    <3>2. \A i \in 0..n : i \in G
      BY <2>8, <2>9, PlacesAll
    <3> QED BY <3>1, <3>2
  <2>11. Qty(a[n].orders, TpUpto(k)) = Most(0, g[n] - reduce)
    BY <2>7, <2>10 DEF TpsHeld
  <2> QED BY <1>2, <2>1, <2>2, <2>5, <2>11
<1> QED BY <1>10, <1>11, <1>12

\* Shares of a part of a plan: f up to each lot by its take-profits, r by reductions.
Tally(t, f, r) ==
    t \in Seq(Orders) /\ r \in Nat /\ Qty(t, Reduces) = r /\ \A k \in Nat : Qty(t, TpUpto(k)) = f[k] /\ f[k] \in Nat
NoTps == [k \in Nat |-> 0]

\* Two parts joined.
LEMMA TallyJoin ==
    ASSUME NEW t, NEW f, NEW r, Tally(t, f, r), NEW u, NEW g, NEW q, Tally(u, g, q), NEW h,
           \A k \in Nat : h[k] = f[k] + g[k]
    PROVE  Tally(t \o u, h, r + q)
<1>1. t \in Seq(Orders) /\ u \in Seq(Orders) /\ r \in Nat /\ q \in Nat
  BY DEF Tally
<1>2. Qty(t \o u, Reduces) = r + q
  BY <1>1, OrdersCount, QtyConcat DEF Tally
<1>3. ASSUME NEW k \in Nat PROVE Qty(t \o u, TpUpto(k)) = h[k] /\ h[k] \in Nat
  <2>1. Qty(t \o u, TpUpto(k)) = Qty(t, TpUpto(k)) + Qty(u, TpUpto(k))
    BY <1>1, OrdersCount, QtyConcat
  <2>2. Qty(t, TpUpto(k)) = f[k] /\ f[k] \in Nat /\ Qty(u, TpUpto(k)) = g[k] /\ g[k] \in Nat
    BY DEF Tally
  <2> QED BY <2>1, <2>2
<1>4. t \o u \in Seq(Orders) /\ r + q \in Nat
  BY <1>1
<1> QED BY <1>2, <1>3, <1>4 DEF Tally

\* A part that sells nothing of the fund.
LEMMA TallyNone ==
    ASSUME NEW b, NEW t, NEW ls, NEW lb, NEW sp, Totals(t, 0, ls, lb, sp, b)
    PROVE  Tally(t, NoTps, 0)
<1>1. t \in Seq(Orders) /\ Qty(t, FundSells) = 0
  BY DEF Totals
<1>2. Reduces \subseteq FundSells /\ \A k \in Nat : TpUpto(k) \subseteq FundSells
  BY DEF Reduces, TpUpto, FundSells
<1>3. Qty(t, Reduces) = 0
  BY <1>1, <1>2, OrdersCount, PartNone
<1>4. \A k \in Nat : Qty(t, TpUpto(k)) = 0
  BY <1>1, <1>2, OrdersCount, PartNone
<1> QED BY <1>1, <1>3, <1>4 DEF Tally, NoTps

\* A part that adds nothing.
LEMMA TallyMore ==
    ASSUME NEW t, NEW f, NEW r, Tally(t, f, r), NEW u, Tally(u, NoTps, 0)
    PROVE  Tally(t \o u, f, r)
<1>1. \A k \in Nat : f[k] = f[k] + NoTps[k]
  BY DEF Tally, NoTps
<1>2. Tally(t \o u, f, r + 0)
  BY <1>1, TallyJoin
<1>3. r \in Nat /\ r + 0 = r
  BY DEF Tally
<1> QED BY <1>2, <1>3

\* A part of purchases of the fund.
LEMMA FundBuysPart ==
    ASSUME NEW b, NEW t, NEW sp, Totals(t, 0, 0, 0, sp, b), NEW s, NEW nx
    PROVE  Part(t, s, nx, 4, 4)
<1>1. t \in Seq(Orders) /\ Qty(t, FundSells) = 0 /\ Qty(t, LevSells) = 0 /\ Qty(t, LevBuys) = 0
  BY DEF Totals
<1>2. ASSUME NEW i \in 1..Len(t) PROVE t[i] \in Orders /\ t[i].side = "buy" /\ t[i].inst = K200
  <2>1. t[i] \in Orders
    BY <1>1
  <2>2. t[i].qty \in Nat \ {0} /\ t[i].inst \in {K200, LEV} /\ t[i].side \in {"buy", "sell"}
    BY <2>1 DEF Orders
  <2>3. t[i] \in FundSells => t[i].qty <= Qty(t, FundSells)
    BY <1>1, OrdersCount, QtyNat
  <2>4. t[i] \in LevSells => t[i].qty <= Qty(t, LevSells)
    BY <1>1, OrdersCount, QtyNat
  <2>5. t[i] \in LevBuys => t[i].qty <= Qty(t, LevBuys)
    BY <1>1, OrdersCount, QtyNat
  <2>6. t[i] \notin FundSells /\ t[i] \notin LevSells /\ t[i] \notin LevBuys
    BY <1>1, <2>2, <2>3, <2>4, <2>5
  <2> QED BY <2>1, <2>2, <2>6 DEF FundSells, LevSells, LevBuys
<1>3. \A i \in 1..Len(t) : Rank(t[i]) = 4
  BY <1>2 DEF Rank
<1>4. \A i \in 1..Len(t) : Sound(t[i], s, nx)
  BY <1>2, Instruments DEF Sound
<1>5. Arranged(t, InTurn)
  BY <1>2, <1>3 DEF Arranged, InTurn
<1> QED BY <1>1, <1>3, <1>4, <1>5 DEF Part

\* The lots of one tactical kind.
LEMMA TactHeld ==
    ASSUME NEW s \in Seq(SimLots), NEW kind \in Tactical
    PROVE  HeldKind(s, {kind}) = Qty(s, TactLotsOf(kind)) /\ Qty(s, TactLotsOf(kind)) \in Nat
<1>1. \A i \in 1..Len(s) : s[i] \in SimLots /\ s[i] \in Range(s)
  BY DEF Range
<1>2. PICK A : A = OfKind(s, {kind})
  OBVIOUS
<1>3. \A i \in 1..Len(s) : s[i] \in A <=> s[i] \in TactLotsOf(kind)
  BY <1>1, <1>2 DEF OfKind, TactLotsOf
<1>4. Qty(s, A) = Qty(s, TactLotsOf(kind))
  BY <1>3, SimLotsCount, QtySame
<1>5. Qty(s, TactLotsOf(kind)) \in Nat
  BY SimLotsCount, QtyNat
<1> QED BY <1>2, <1>4, <1>5 DEF HeldKind

\* The liquidation comes first, and only where leverage is left.
LEMMA LiquidatePart ==
    ASSUME Settled, NEW x
    PROVE  Part(Liquidate(x), lots, nextLot, 1, 1) /\ (~OutOfLeverage(x) => Liquidate(x) = <<>>)
<1>1. Held(lots, LEV) = Pair /\ Pair \in Nat
  BY Holdings
<1>2. PICK o : o = Order(LEV, "sell", "market", Pair, NoPrice, "lev_liq")
  OBVIOUS
<1>3. ASSUME Pair > 0 PROVE o \in Orders /\ Sound(o, lots, nextLot) /\ Rank(o) >= 1 /\ Rank(o) <= 1
  <2>1. o \in Orders
    BY <1>1, <1>2, <1>3 DEF Orders, Order, OrderKinds, NoPrice
  <2>2. /\ o.inst = LEV /\ o.side = "sell" /\ o.type = "market" /\ o.kind = "lev_liq" /\ o.qty = Pair
    BY <1>2 DEF Order
  <2>3. Offered(lots, o, o.qty)
    BY <1>1, <2>2 DEF Offered, Pair
  <2>4. Sound(o, lots, nextLot)
    BY <2>2, <2>3, Instruments DEF Sound, Selling, SellKinds
  <2>5. Rank(o) = 1
    BY <2>2 DEF Rank
  <2> QED BY <2>1, <2>4, <2>5
<1>4. Part(MarketOrder(LEV, "sell", Pair, "lev_liq"), lots, nextLot, 1, 1)
  BY <1>1, <1>2, <1>3, PartMarket
<1>5. Liquidate(x) = <<>> \/ Liquidate(x) = MarketOrder(LEV, "sell", Pair, "lev_liq")
  BY <1>1 DEF Liquidate
<1>6. ~OutOfLeverage(x) => Liquidate(x) = <<>>
  BY DEF Liquidate, OutOfLeverage
<1> QED BY <1>4, <1>5, <1>6, PartEmpty

\* The reduction sells no more than the fund holds.
LEMMA ReducePart ==
    ASSUME Settled, NEW r \in Nat, r <= Fund
    PROVE  /\ Part(MarketOrder(K200, "sell", r, "reduce"), lots, nextLot, 2, 2)
           /\ Tally(MarketOrder(K200, "sell", r, "reduce"), NoTps, r)
<1>1. PICK o : o = Order(K200, "sell", "market", r, NoPrice, "reduce")
  OBVIOUS
<1>2. o.inst = K200 /\ o.side = "sell" /\ o.type = "market" /\ o.kind = "reduce" /\ o.qty = r
  BY <1>1 DEF Order
<1>3. ASSUME r > 0 PROVE o \in Orders /\ Sound(o, lots, nextLot) /\ Rank(o) >= 2 /\ Rank(o) <= 2
  <2>1. o \in Orders
    BY <1>1, <1>3, Instruments DEF Orders, Order, OrderKinds, NoPrice
  <2>3. Offered(lots, o, o.qty)
    BY <1>2 DEF Offered, Fund
  <2>4. Sound(o, lots, nextLot)
    BY <1>2, <2>3, Instruments DEF Sound, Selling, SellKinds
  <2>5. Rank(o) = 2
    BY <1>2 DEF Rank
  <2> QED BY <2>1, <2>4, <2>5
<1>4. Part(MarketOrder(K200, "sell", r, "reduce"), lots, nextLot, 2, 2)
  BY <1>1, <1>3, PartMarket
<1>5. CASE r = 0
  <2>1. PICK e : e = <<>>
    OBVIOUS
  <2>2. MarketOrder(K200, "sell", r, "reduce") = e
    BY <1>5, <2>1 DEF MarketOrder
  <2>3. e \in Seq(Orders) /\ Len(e) = 0
    BY <2>1
  <2>4. Qty(e, Reduces) = 0 /\ \A k \in Nat : Qty(e, TpUpto(k)) = 0
    <3>1. \A R : \A i \in 1..Len(e) : e[i] \notin R
      BY <2>3
    <3>2. \A R : Qty(e, R) = 0
      BY <2>3, <3>1, OrdersCount, QtyNone
    <3> QED BY <3>2
  <2> QED BY <1>4, <1>5, <2>2, <2>3, <2>4 DEF Tally, NoTps
<1>6. CASE r > 0
  <2>1. MarketOrder(K200, "sell", r, "reduce") = <<o>>
    BY <1>1, <1>6 DEF MarketOrder
  <2>2. o \in Orders /\ o \in Reduces /\ \A k \in Nat : o \notin TpUpto(k)
    BY <1>2, <1>3, <1>6 DEF Reduces, TpUpto
  <2>3. Qty(<<o>>, Reduces) = r
    BY <1>2, <2>2, QtyOne
  <2>4. \A k \in Nat : Qty(<<o>>, TpUpto(k)) = 0
    BY <1>2, <2>2, QtyOne
  <2>5. <<o>> \in Seq(Orders)
    BY <2>2
  <2> QED BY <1>4, <2>1, <2>3, <2>4, <2>5 DEF Tally, NoTps
<1> QED BY <1>5, <1>6

\* The two tracks of leverage, in turn.
LEMMA LeveragePart ==
    ASSUME Settled, NEW t, NEW x, NEW n0, NEW s, NEW n1, NEW n2, LeverageOf(t, x, n0, s, n1, n2)
    PROVE  Part(t, lots, nextLot, 5, 8) /\ (OutOfLeverage(x) => t = <<>>)
<1>1. n0 \in Nat /\ s \in Nat /\ n1 \in Nat /\ n2 \in Nat /\ s <= Strat
  BY DEF LeverageOf
<1>2. lots \in Seq(SimLots)
  BY DEF Settled
<1>3. PICK k0 \in LevKinds, k1 \in Tactical, k2 \in Tactical : k0 = "lev_strat" /\ k1 = "lev_tact1" /\ k2 = "lev_tact2"
  BY DEF LevKinds, Tactical
<1>4. (n1 > 0 => Qty(lots, TactLotsOf(k1)) = 0) /\ (n2 > 0 => Qty(lots, TactLotsOf(k2)) = 0)
  BY <1>2, <1>3, TactHeld DEF LeverageOf
<1>5. PICK A0, A1, A2, A3 : /\ A0 = MarketOrder(LEV, "buy", n0, k0) /\ A1 = MarketOrder(LEV, "sell", s, k0)
                            /\ A2 = MarketOrder(LEV, "buy", n1, k1) /\ A3 = MarketOrder(LEV, "buy", n2, k2)
  OBVIOUS
<1>6. t = IF OutOfLeverage(x) THEN <<>> ELSE A0 \o A1 \o A2 \o A3
  BY <1>3, <1>5 DEF LeverageOf, OutOfLeverage
<1>7. PICK a, c, d, e : /\ a = Order(LEV, "buy", "market", n0, NoPrice, k0)
                        /\ c = Order(LEV, "sell", "market", s, NoPrice, k0)
                        /\ d = Order(LEV, "buy", "market", n1, NoPrice, k1)
                        /\ e = Order(LEV, "buy", "market", n2, NoPrice, k2)
  OBVIOUS
<1>8. /\ a.inst = LEV /\ a.side = "buy" /\ a.type = "market" /\ a.kind = k0
      /\ c.inst = LEV /\ c.side = "sell" /\ c.type = "market" /\ c.kind = k0 /\ c.qty = s
      /\ d.inst = LEV /\ d.side = "buy" /\ d.type = "market" /\ d.kind = k1
      /\ e.inst = LEV /\ e.side = "buy" /\ e.type = "market" /\ e.kind = k2
  BY <1>7 DEF Order
<1>9. /\ n0 > 0 => a \in Orders
      /\ s > 0 => c \in Orders
      /\ n1 > 0 => d \in Orders
      /\ n2 > 0 => e \in Orders
  BY <1>1, <1>3, <1>7 DEF Orders, Order, OrderKinds, LevKinds, NoPrice
<1>10. Rank(a) = 5 /\ Rank(c) = 6 /\ Rank(d) = 7 /\ Rank(e) = 8
  BY <1>3, <1>8, Instruments DEF Rank
<1>11. Sound(a, lots, nextLot)
  BY <1>3, <1>8, Instruments DEF Sound, Tactical
<1>12. Sound(c, lots, nextLot)
  <2>1. Offered(lots, c, c.qty)
    BY <1>1, <1>3, <1>8 DEF Offered, Strat
  <2> QED BY <1>3, <1>8, <2>1, Instruments DEF Sound, Selling, SellKinds
<1>13. (n1 > 0 => Sound(d, lots, nextLot)) /\ (n2 > 0 => Sound(e, lots, nextLot))
  BY <1>4, <1>8 DEF Sound
<1>14. Part(A0, lots, nextLot, 5, 5)
  BY <1>1, <1>5, <1>7, <1>9, <1>10, <1>11, PartMarket
<1>15. Part(A1, lots, nextLot, 6, 6)
  BY <1>1, <1>5, <1>7, <1>9, <1>10, <1>12, PartMarket
<1>16. Part(A2, lots, nextLot, 7, 7)
  BY <1>1, <1>5, <1>7, <1>9, <1>10, <1>13, PartMarket
<1>17. Part(A3, lots, nextLot, 8, 8)
  BY <1>1, <1>5, <1>7, <1>9, <1>10, <1>13, PartMarket
<1>18. Part(A0 \o A1, lots, nextLot, 5, 6)
  BY <1>14, <1>15, PartJoin
<1>19. Part((A0 \o A1) \o A2, lots, nextLot, 5, 7)
  BY <1>16, <1>18, PartJoin
<1>20. Part(((A0 \o A1) \o A2) \o A3, lots, nextLot, 5, 8)
  BY <1>17, <1>19, PartJoin
<1> QED BY <1>6, <1>20, PartEmpty

\* The tactical exit, and the cut by the cap.
LEMMA LastParts ==
    ASSUME Settled, NEW x, NEW s, Cap(x, s) \in Seq(Orders)
    PROVE  /\ Part(TacticalExit(x), lots, nextLot, 9, 9) /\ (OutOfLeverage(x) => TacticalExit(x) = <<>>)
           /\ Part(Cap(x, s), lots, nextLot, 10, 10) /\ (OutOfLeverage(x) => Cap(x, s) = <<>>)
<1>1. HeldKind(lots, Tactical) = Tact /\ Tact \in Nat
  BY Holdings
<1>2. PICK o : o = Order(LEV, "sell", "market", Tact, NoPrice, "lev_tact_exit")
  OBVIOUS
<1>3. ASSUME Tact > 0 PROVE o \in Orders /\ Sound(o, lots, nextLot) /\ Rank(o) >= 9 /\ Rank(o) <= 9
  <2>1. o \in Orders
    BY <1>1, <1>2, <1>3 DEF Orders, Order, OrderKinds, NoPrice
  <2>2. /\ o.inst = LEV /\ o.side = "sell" /\ o.type = "market" /\ o.kind = "lev_tact_exit" /\ o.qty = Tact
    BY <1>2 DEF Order
  <2>3. Offered(lots, o, o.qty)
    BY <1>1, <2>2 DEF Offered, Tact
  <2>4. Sound(o, lots, nextLot)
    BY <2>2, <2>3, Instruments DEF Sound, Selling, SellKinds
  <2>5. Rank(o) = 9
    BY <2>2 DEF Rank
  <2> QED BY <2>1, <2>4, <2>5
<1>4. Part(MarketOrder(LEV, "sell", Tact, "lev_tact_exit"), lots, nextLot, 9, 9)
  BY <1>1, <1>2, <1>3, PartMarket
<1>5. TacticalExit(x) = <<>> \/ TacticalExit(x) = MarketOrder(LEV, "sell", Tact, "lev_tact_exit")
  BY <1>1 DEF TacticalExit
<1>6. OutOfLeverage(x) => TacticalExit(x) = <<>> /\ Cap(x, s) = <<>>
  BY DEF TacticalExit, Cap, OutOfLeverage
<1>7. \E n : Cap(x, s) = <<>> \/ Cap(x, s) = <<Order(LEV, "sell", "market", n, NoPrice, "lev_cap")>>
  BY DEF Cap, MarketOrder
<1>8. PICK n : Cap(x, s) = <<>> \/ Cap(x, s) = <<Order(LEV, "sell", "market", n, NoPrice, "lev_cap")>>
  BY <1>7
<1>9. PICK c, e : c = Cap(x, s) /\ e = Order(LEV, "sell", "market", n, NoPrice, "lev_cap")
  OBVIOUS
<1>10. CASE c = <<e>>
  <2>1. e \in Orders
    <3>1. c \in Seq(Orders) /\ Len(c) = 1 /\ c[1] = e
      BY <1>9, <1>10
    <3> QED BY <3>1
  <2>2. e.inst = LEV /\ e.side = "sell" /\ e.type = "market" /\ e.kind = "lev_cap"
    BY <1>9 DEF Order
  <2>3. Sound(e, lots, nextLot)
    BY <2>2, Instruments DEF Sound, Selling, SellKinds, Offered
  <2>4. Rank(e) = 10
    BY <2>2 DEF Rank
  <2>5. Part(<<e>>, lots, nextLot, 10, 10)
    BY <2>1, <2>3, <2>4, PartOne
  <2> QED BY <1>4, <1>5, <1>6, <1>9, <1>10, <2>5, PartEmpty
<1>11. CASE c = <<>>
  BY <1>4, <1>5, <1>6, <1>9, <1>11, PartEmpty
<1> QED BY <1>8, <1>9, <1>10, <1>11

\* A plan in turn: it either leaves leverage or has some; and its take-profits offer what the lots
\* hold but for the reduction, up to each lot.
Ranked(os, s, nx) == Part(os, s, nx, 1, 4) \/ Part(os, s, nx, 2, 10)
Earmarked(os, s) ==
    (\E i \in 1..Len(os) : Rank(os[i]) = 3) =>
        \A k \in Nat : Qty(os, TpUpto(k)) = Most(0, Qty(s, FundUpto(k)) - Qty(os, Reduces))

\* A plan is in turn, each of its orders fits the lots it is made for, and its take-profits the
\* lots they name.
LEMMA PlanRanks ==
    ASSUME Settled, Numbered, NEW b, BarOK(b), Priced(b), Worth(cash, lots, b) >= 0, NEW os, os = PlanOf(b).orders
    PROVE  Ranked(os, lots, nextLot) /\ Earmarked(os, lots)
<1>1. PICK x : x = Context(b)
  OBVIOUS
<1>2. InContext(x, b)
  BY <1>1, ContextIs
<1>3. x.bar = b /\ x.equity \in Nat /\ x.wLev \in Nat
  BY <1>2 DEF InContext
<1>4. Fund \in Nat /\ Pair \in Nat /\ Strat \in Nat /\ Tact \in Nat /\ Pair = Strat + Tact
  BY Holdings
<1>5. PICK r \in Nat : r = ReduceQty(x) /\ r <= Fund
  BY <1>2, ReduceIs
<1>6. PICK wallet : wallet = 20 * (cash + r * b.close) - Buffer * x.equity
  OBVIOUS
<1>7. wallet \in Int
  <2>a. Buffer \in 0..20
    BY PlannerAssumption
  <2>b. b.close \in Nat /\ Buffer \in Nat
    BY <2>a DEF Priced
  <2>c. cash \in Int
    BY DEF Settled
  <2>1. PICK c \in Nat, k \in Int, e \in Nat, u \in Nat : c = b.close /\ k = cash /\ e = x.equity /\ u = Buffer
    BY <1>3, <2>b, <2>c
  <2>2. r * c \in Nat /\ u * e \in Nat
    OBVIOUS
  <2>3. 20 * (k + r * c) - u * e \in Int
    BY <2>2
  <2> QED BY <1>6, <2>1, <2>3
<1>8. PICK boot : boot = Boot(x, wallet)
  OBVIOUS
<1>9. boot.f \in 0..40 /\ Bought(boot.orders, wallet, boot.left, b)
  BY <1>2, <1>7, <1>8, BootTotals
<1>10. PICK grid : grid = Grid(x, boot)
  OBVIOUS
<1>11. boot.left \in Int
  BY <1>9 DEF Bought
<1>12. Bought(grid.orders, boot.left, grid.left, b)
  BY <1>2, <1>9, <1>10, <1>11, GridTotals
<1>13. grid.left \in Int
  BY <1>12 DEF Bought
<1>14. PICK L, R, T, V, X, Y, Z :
          /\ L = Liquidate(x) /\ R = MarketOrder(K200, "sell", r, "reduce") /\ T = TpOrders(x, r)
          /\ V = boot.orders /\ X = grid.orders /\ Y = Leverage(x, grid.left) /\ Z = TacticalExit(x)
  OBVIOUS
<1>15. PICK before : before = L \o R \o T \o V \o X \o Y \o Z
  OBVIOUS
<1>16. PICK C : C = Cap(x, before)
  OBVIOUS
<1>17. os = before \o C
  BY <1>1, <1>5, <1>6, <1>8, <1>10, <1>14, <1>15, <1>16 DEF PlanOf
<1>18. PICK lq \in Nat : Totals(L, 0, lq, 0, 0, b) /\ (~OutOfLeverage(x) => lq = 0) /\ lq <= Pair
  <2>1. Totals(L, 0, Pair, 0, 0, b) \/ Totals(L, 0, 0, 0, 0, b)
    BY <1>14, LiquidateTotals
  <2>2. ~OutOfLeverage(x) => Totals(L, 0, 0, 0, 0, b)
    BY <1>14, LiquidateTotals DEF OutOfLeverage
  <2> QED BY <1>4, <2>1, <2>2
<1>19. Totals(R, r, 0, 0, 0, b)
  <2>1. PICK k \in OrderKinds : k = "reduce"
    BY DEF OrderKinds
  <2> QED BY <1>14, <2>1, MarketTotals
<1>20. PICK tq \in Nat : Totals(T, tq, 0, 0, 0, b)
  <2>1. Fund - r \in Nat
    BY <1>4, <1>5
  <2> QED BY <1>3, <1>5, <1>14, <2>1, TpOrdersTotals
<1>21. PICK c1 \in Nat : Totals(V, 0, 0, 0, c1, b)
  <2>1. \E sp \in Nat : Totals(V, 0, 0, 0, sp, b)
    BY <1>9, <1>14 DEF Bought
  <2> QED BY <2>1
<1>22. PICK c2 \in Nat : Totals(X, 0, 0, 0, c2, b)
  <2>1. \E sp \in Nat : Totals(X, 0, 0, 0, sp, b)
    BY <1>12, <1>14 DEF Bought
  <2> QED BY <2>1
<1>23. PICK ls \in Nat, lb \in Nat, c3 \in Nat :
           Totals(Y, 0, ls, lb, c3, b) /\ ls <= Strat /\ lb * Unit(b) <= 2 * x.wLev * x.equity
           /\ (OutOfLeverage(x) => ls = 0)
  <2>1. OutOfLeverage(x) => Totals(Y, 0, 0, 0, 0, b)
    BY <1>2, <1>13, <1>14, LeverageTotals DEF OutOfLeverage
  <2>2. PICK ls \in Nat, lb \in Nat, c3 \in Nat :
           /\ Totals(Y, 0, ls, lb, c3, b) /\ ls <= Strat /\ lb * Unit(b) <= 2 * x.wLev * x.equity
           /\ 20 * c3 <= Most(0, grid.left)
    BY <1>2, <1>13, <1>14, LeverageTotals
  <2>3. OutOfLeverage(x) => ls = 0
    BY <2>1, <2>2 DEF Totals
  <2> QED BY <2>2, <2>3
<1>24. PICK xq \in Nat : Totals(Z, 0, xq, 0, 0, b) /\ xq <= Tact /\ (OutOfLeverage(x) => xq = 0)
  <2>1. Totals(Z, 0, 0, 0, 0, b) \/ Totals(Z, 0, Tact, 0, 0, b)
    BY <1>14, ExitTotals
  <2>2. OutOfLeverage(x) => Totals(Z, 0, 0, 0, 0, b)
    BY <1>14, ExitTotals DEF OutOfLeverage
  <2>3. 0 <= Tact /\ Tact <= Tact
    BY <1>4
  <2> QED BY <1>4, <2>1, <2>2, <2>3
<1>25. /\ L \in Seq(Orders) /\ R \in Seq(Orders) /\ T \in Seq(Orders) /\ V \in Seq(Orders)
       /\ X \in Seq(Orders) /\ Y \in Seq(Orders) /\ Z \in Seq(Orders)
  BY <1>18, <1>19, <1>20, <1>21, <1>22, <1>23, <1>24 DEF Totals
<1>26. PICK ks, k2, k3, k4 : Totals(before, ks, k2, k3, k4, b) /\ k2 <= Pair /\ k3 = lb
  <2>1. Totals(L \o R, 0 + r, lq + 0, 0 + 0, 0 + 0, b)
    BY <1>18, <1>19, TotalsJoin
  <2>2. Totals((L \o R) \o T, 0 + r + tq, lq + 0 + 0, 0 + 0 + 0, 0 + 0 + 0, b)
    BY <2>1, <1>20, TotalsJoin
  <2>3. Totals((L \o R) \o T, r + tq, lq, 0, 0, b)
    <3>1. 0 + r + tq = r + tq /\ lq + 0 + 0 = lq /\ 0 + 0 + 0 = 0
      OBVIOUS
    <3> QED BY <2>2, <3>1
  <2>4. Totals(((L \o R) \o T) \o V, r + tq + 0, lq + 0, 0 + 0, 0 + c1, b)
    BY <2>3, <1>21, TotalsJoin
  <2>5. Totals((((L \o R) \o T) \o V) \o X, r + tq + 0 + 0, lq + 0 + 0, 0 + 0 + 0, 0 + c1 + c2, b)
    BY <2>4, <1>22, TotalsJoin
  <2>6. Totals((((L \o R) \o T) \o V) \o X, r + tq, lq, 0, c1 + c2, b)
    <3>1. r + tq + 0 + 0 = r + tq /\ lq + 0 + 0 = lq /\ 0 + 0 + 0 = 0 /\ 0 + c1 + c2 = c1 + c2
      OBVIOUS
    <3> QED BY <2>5, <3>1
  <2>7. Totals(((((L \o R) \o T) \o V) \o X) \o Y, r + tq + 0, lq + ls, 0 + lb, c1 + c2 + c3, b)
    BY <2>6, <1>23, TotalsJoin
  <2>8. Totals((((((L \o R) \o T) \o V) \o X) \o Y) \o Z, r + tq + 0 + 0, lq + ls + xq, 0 + lb + 0, c1 + c2 + c3 + 0, b)
    BY <2>7, <1>24, TotalsJoin
  <2>9. 0 + lb + 0 = lb /\ lq + ls + xq <= Pair
    BY <1>4, <1>18, <1>23, <1>24
  <2> QED BY <1>15, <2>8, <2>9
<1>27. PICK cs \in Nat : Totals(C, 0, cs, 0, 0, b)
  <2>1. \E cs \in Nat : Totals(Cap(x, before), 0, cs, 0, 0, b)
    BY <1>2, <1>23, <1>26, CapTotals
  <2> QED BY <1>16, <2>1
<1>28. C \in Seq(Orders)
  BY <1>27 DEF Totals
<1>29. Part(L, lots, nextLot, 1, 1) /\ (~OutOfLeverage(x) => L = <<>>)
  BY <1>14, LiquidatePart
<1>30. Part(R, lots, nextLot, 2, 2) /\ Tally(R, NoTps, r)
  BY <1>5, <1>14, ReducePart
<1>31. Part(T, lots, nextLot, 3, 3)
  BY <1>3, <1>14, TpsMade
<1>32. Part(V, lots, nextLot, 4, 4) /\ Part(X, lots, nextLot, 4, 4)
  BY <1>21, <1>22, FundBuysPart
<1>33. Part(Y, lots, nextLot, 5, 8) /\ (OutOfLeverage(x) => Y = <<>>)
  <2>1. PICK n0, s, n1, n2 : LeverageOf(Y, x, n0, s, n1, n2)
    BY <1>2, <1>13, <1>14, LeverageTotals
  <2> QED BY <2>1, LeveragePart
<1>34. /\ Part(Z, lots, nextLot, 9, 9) /\ (OutOfLeverage(x) => Z = <<>>)
       /\ Part(C, lots, nextLot, 10, 10) /\ (OutOfLeverage(x) => C = <<>>)
  BY <1>14, <1>16, <1>28, LastParts
<1>35. ASSUME OutOfLeverage(x) PROVE Ranked(os, lots, nextLot)
  <2>1. Part(L \o R, lots, nextLot, 1, 2)
    BY <1>29, <1>30, PartJoin
  <2>2. Part((L \o R) \o T, lots, nextLot, 1, 3)
    BY <2>1, <1>31, PartJoin
  <2>3. Part(((L \o R) \o T) \o V, lots, nextLot, 1, 4)
    BY <2>2, <1>32, PartJoin
  <2>4. Part((((L \o R) \o T) \o V) \o X, lots, nextLot, 1, 4)
    BY <2>3, <1>32, PartJoin
  <2>5. PICK u : u = (((L \o R) \o T) \o V) \o X
    OBVIOUS
  <2>6. u \in Seq(Orders)
    BY <2>4, <2>5 DEF Part
  <2>7. Y = <<>> /\ Z = <<>> /\ C = <<>>
    BY <1>33, <1>34, <1>35
  <2>8. os = u
    <3>1. os = ((u \o Y) \o Z) \o C
      BY <1>15, <1>17, <2>5
    <3>2. u \o <<>> = u
      BY <2>6
    <3> QED BY <2>7, <3>1, <3>2
  <2>9. Part(os, lots, nextLot, 1, 4)
    BY <2>4, <2>5, <2>8
  <2> QED BY <2>9 DEF Ranked
<1>36. ASSUME ~OutOfLeverage(x) PROVE Ranked(os, lots, nextLot)
  <2>1. L = <<>>
    BY <1>29, <1>36
  <2>2. Part(L, lots, nextLot, 2, 2)
    BY <2>1, PartEmpty
  <2>3. Part(L \o R, lots, nextLot, 2, 2)
    <3>1. <<>> \o R = R
      BY <1>25
    <3> QED BY <1>30, <2>1, <3>1
  <2>4. Part((L \o R) \o T, lots, nextLot, 2, 3)
    BY <2>3, <1>31, PartJoin
  <2>5. Part(((L \o R) \o T) \o V, lots, nextLot, 2, 4)
    BY <2>4, <1>32, PartJoin
  <2>6. Part((((L \o R) \o T) \o V) \o X, lots, nextLot, 2, 4)
    BY <2>5, <1>32, PartJoin
  <2>7. Part(((((L \o R) \o T) \o V) \o X) \o Y, lots, nextLot, 2, 8)
    BY <2>6, <1>33, PartJoin
  <2>8. Part((((((L \o R) \o T) \o V) \o X) \o Y) \o Z, lots, nextLot, 2, 9)
    BY <2>7, <1>34, PartJoin
  <2>9. Part(before \o C, lots, nextLot, 2, 10)
    BY <2>8, <1>15, <1>34, PartJoin
  <2>10. Part(os, lots, nextLot, 2, 10)
    BY <2>9, <1>17
  <2> QED BY <2>10 DEF Ranked
<1>37. Ranked(os, lots, nextLot)
  BY <1>35, <1>36
<1>38. PICK f : f = [k \in Nat |-> Qty(T, TpUpto(k))]
  OBVIOUS
<1>39. Tally(T, f, 0)
  <2>1. Qty(T, Reduces) = 0
    <3>1. \A i \in 1..Len(T) : T[i].kind = "tp"
      BY <1>3, <1>14, TpsMade
    <3>2. \A i \in 1..Len(T) : T[i] \notin Reduces
      BY <3>1 DEF Reduces
    <3> QED BY <1>25, <3>2, OrdersCount, QtyNone
  <2>2. \A k \in Nat : Qty(T, TpUpto(k)) \in Nat
    BY <1>25, OrdersCount, QtyNat
  <2> QED BY <1>25, <1>38, <2>1, <2>2 DEF Tally
<1>40. Tally(os, f, r)
  <2>1. /\ Tally(L, NoTps, 0) /\ Tally(V, NoTps, 0) /\ Tally(X, NoTps, 0) /\ Tally(Y, NoTps, 0)
        /\ Tally(Z, NoTps, 0) /\ Tally(C, NoTps, 0)
    BY <1>18, <1>21, <1>22, <1>23, <1>24, <1>27, TallyNone
  <2>2. Tally(L \o R, NoTps, r)
    <3>1. \A k \in Nat : NoTps[k] = NoTps[k] + NoTps[k]
      BY DEF NoTps
    <3>2. Tally(L \o R, NoTps, 0 + r)
      BY <1>30, <2>1, <3>1, TallyJoin
    <3> QED BY <3>2
  <2>3. Tally((L \o R) \o T, f, r)
    <3>1. \A k \in Nat : f[k] = NoTps[k] + f[k]
      BY <1>39 DEF NoTps, Tally
    <3>2. Tally((L \o R) \o T, f, r + 0)
      BY <1>39, <2>2, <3>1, TallyJoin
    <3> QED BY <3>2
  <2>4. Tally(((L \o R) \o T) \o V, f, r)
    BY <2>1, <2>3, TallyMore
  <2>5. Tally((((L \o R) \o T) \o V) \o X, f, r)
    BY <2>1, <2>4, TallyMore
  <2>6. Tally(((((L \o R) \o T) \o V) \o X) \o Y, f, r)
    BY <2>1, <2>5, TallyMore
  <2>7. Tally((((((L \o R) \o T) \o V) \o X) \o Y) \o Z, f, r)
    BY <2>1, <2>6, TallyMore
  <2> QED BY <1>15, <1>17, <2>1, <2>7, TallyMore
<1>41. Earmarked(os, lots)
  <2> SUFFICES ASSUME NEW i \in 1..Len(os), Rank(os[i]) = 3
      PROVE \A k \in Nat : Qty(os, TpUpto(k)) = Most(0, Qty(lots, FundUpto(k)) - Qty(os, Reduces))
    BY DEF Earmarked
  <2>1. Qty(os, Reduces) = r /\ \A k \in Nat : Qty(os, TpUpto(k)) = Qty(T, TpUpto(k))
    BY <1>38, <1>40 DEF Tally
  <2>2. PICK o : o = os[i]
    OBVIOUS
  <2>3. os \in Seq(Orders) /\ o \in Orders /\ Sound(o, lots, nextLot)
    <3>1. os \in Seq(Orders) /\ \A j \in 1..Len(os) : Sound(os[j], lots, nextLot)
      BY <1>37 DEF Ranked, Part
    <3> QED BY <2>2, <3>1
  <2>4. o.side = "sell" /\ o.kind = "tp" /\ o.lot \in Nat /\ o.qty \in Nat \ {0}
    <3>1. Rank(o) = 3
      BY <2>2
    <3>2. o.side \in {"buy", "sell"} /\ o.lot \in Nat /\ o.qty \in Nat \ {0}
      BY <2>3 DEF Orders
    <3>3. o.side # "buy"
      BY <3>1 DEF Rank
    <3>4. o.kind = "tp"
      BY <3>1, <3>3 DEF Rank
    <3> QED BY <3>2, <3>3, <3>4
  <2>5. o.inst = K200
    BY <2>3, <2>4 DEF Sound, Selling
  <2>6. o \in TpUpto(o.lot)
    BY <2>3, <2>4, <2>5 DEF TpUpto
  <2>7. o.qty <= Qty(os, TpUpto(o.lot))
    BY <2>2, <2>3, <2>6, OrdersCount, QtyNat
  <2>8. T # <<>>
    <3> SUFFICES ASSUME T = <<>> PROVE FALSE
      OBVIOUS
    <3>1. PICK e : e = <<>>
      OBVIOUS
    <3>2. e \in Seq(Orders) /\ \A j \in 1..Len(e) : e[j] \notin TpUpto(o.lot)
      BY <3>1
    <3>3. Qty(e, TpUpto(o.lot)) = 0
      BY <3>2, OrdersCount, QtyNone
    <3> QED BY <2>1, <2>4, <2>7, <3>1, <3>3
  <2>9. \A k \in Nat : Qty(T, TpUpto(k)) = Most(0, Qty(lots, FundUpto(k)) - r)
    BY <1>3, <1>5, <1>14, <2>8, TpsMade
  <2> QED BY <2>1, <2>9
<1> QED BY <1>37, <1>41

\* What a change of regime makes of the kind and of the price of a lot of the fund.
TurnKind(kind, old, new) ==
    IF old = new THEN kind
    ELSE IF new = "BULL" /\ flags.noTp /\ kind = "grid" THEN "core"
    ELSE IF old = "BULL" /\ kind = "core" THEN "grid" ELSE kind
TurnTp(kind, tp, old, new, b) ==
    IF old = new THEN tp
    ELSE IF new = "BULL" /\ flags.noTp /\ kind = "grid" THEN NoPrice
    ELSE IF old = "BULL" /\ kind = "core" THEN TakeProfit(b.close, b.grid) ELSE tp

\* Lots v are lots s converted.
Converted(s, v, old, new, b) ==
    /\ Len(v) = Len(s)
    /\ \A i \in 1..Len(s) :
          /\ v[i].id = s[i].id /\ v[i].inst = s[i].inst /\ v[i].qty = s[i].qty /\ v[i].price = s[i].price
          /\ v[i].tag = s[i].tag
          /\ s[i].inst = LEV => v[i] = s[i]
          /\ s[i].inst = K200 => /\ v[i].kind = TurnKind(s[i].kind, old, new)
                                 /\ v[i].tp = TurnTp(s[i].kind, s[i].tp, old, new, b)

\* The conversion place by place.
LEMMA ConvertIs ==
    ASSUME NEW k \in Nat, NEW s \in Seq(LotsTo(k)), NEW old, NEW new, NEW b, BarOK(b),
           NEW v, v = Convert(s, old, new, b)
    PROVE  v \in Seq(LotsTo(k)) /\ Converted(s, v, old, new, b)
<1> DEFINE one(l) ==
            IF l.inst # K200 \/ old = new THEN l
            ELSE IF new = "BULL" /\ flags.noTp /\ l.kind = "grid"
                 THEN [l EXCEPT !.kind = "core", !.tp = NoPrice]
            ELSE IF old = "BULL" /\ l.kind = "core"
                 THEN [l EXCEPT !.kind = "grid", !.tp = TakeProfit(b.close, b.grid)]
            ELSE l
<1>1. PICK m \in Nat : m = Len(s) /\ \A i \in 1..m : s[i] \in LotsTo(k)
  OBVIOUS
<1>2. v = [i \in 1..m |-> one(s[i])]
  BY <1>1 DEF Convert
<1>3. ASSUME NEW l \in LotsTo(k)
      PROVE  LET c == one(l) IN
             /\ c.id = l.id /\ c.inst = l.inst /\ c.qty = l.qty /\ c.price = l.price /\ c.tag = l.tag
             /\ l.inst = LEV => c = l
             /\ l.inst = K200 => c.kind = TurnKind(l.kind, old, new) /\ c.tp = TurnTp(l.kind, l.tp, old, new, b)
  <2>1. l = [id |-> l.id, inst |-> l.inst, qty |-> l.qty, price |-> l.price, kind |-> l.kind,
             tp |-> l.tp, tag |-> l.tag]
    BY DEF LotsTo, SimLots
  <2>2. PICK p : p = TakeProfit(b.close, b.grid)
    OBVIOUS
  <2>3. PICK x, y : x = [l EXCEPT !.kind = "core", !.tp = NoPrice] /\ y = [l EXCEPT !.kind = "grid", !.tp = p]
    OBVIOUS
  <2>4. /\ x.id = l.id /\ x.inst = l.inst /\ x.qty = l.qty /\ x.price = l.price /\ x.tag = l.tag
        /\ x.kind = "core" /\ x.tp = NoPrice
        /\ y.id = l.id /\ y.inst = l.inst /\ y.qty = l.qty /\ y.price = l.price /\ y.tag = l.tag
        /\ y.kind = "grid" /\ y.tp = p
    BY <2>1, <2>3
  <2>5. PICK c : c = one(l)
    OBVIOUS
  <2>6. c = IF l.inst # K200 \/ old = new THEN l
            ELSE IF new = "BULL" /\ flags.noTp /\ l.kind = "grid" THEN x
            ELSE IF old = "BULL" /\ l.kind = "core" THEN y ELSE l
    BY <2>2, <2>3, <2>5
  <2> HIDE DEF one
  <2>7. l.inst = LEV => c = l
    BY <2>6, Instruments
  <2>8. l.inst = K200 => c.kind = TurnKind(l.kind, old, new) /\ c.tp = TurnTp(l.kind, l.tp, old, new, b)
    BY <2>2, <2>4, <2>6 DEF TurnKind, TurnTp
  <2> QED BY <2>4, <2>5, <2>6, <2>7, <2>8
<1>4. v \in Seq(LotsTo(k))
  BY ConvertKeeps
<1> HIDE DEF one
<1>5. Len(v) = Len(s) /\ \A i \in 1..m : v[i] = one(s[i])
  BY <1>1, <1>2
<1>6. Converted(s, v, old, new, b)
  BY <1>1, <1>3, <1>5 DEF Converted
<1> QED BY <1>4, <1>6

\* What is counted of lots does not change by it: neither by instrument, track or number.
LEMMA ConvertCounts ==
    ASSUME NEW s \in Seq(SimLots), NEW v \in Seq(SimLots), NEW old, NEW new, NEW b, Converted(s, v, old, new, b)
    PROVE  /\ Qty(v, FundLots) = Qty(s, FundLots) /\ Qty(v, StratLots) = Qty(s, StratLots)
           /\ Qty(v, TactLots) = Qty(s, TactLots) /\ Qty(v, LevLots) = Qty(s, LevLots)
           /\ \A kind \in Tactical : Qty(v, TactLotsOf(kind)) = Qty(s, TactLotsOf(kind))
           /\ \A k \in Nat : Qty(v, FundUpto(k)) = Qty(s, FundUpto(k))
<1>1. Len(v) = Len(s) /\ \A i \in 1..Len(s) : s[i] \in SimLots /\ v[i] \in SimLots
  BY DEF Converted
<1>2. ASSUME NEW i \in 1..Len(s)
      PROVE  /\ v[i].id = s[i].id /\ v[i].inst = s[i].inst /\ v[i].qty = s[i].qty
             /\ v[i].inst = LEV <=> v[i].kind \in LevKinds
             /\ s[i].inst = LEV <=> s[i].kind \in LevKinds
             /\ s[i].inst = LEV => v[i] = s[i]
  BY <1>1 DEF Converted, SimLots
<1>3. \A i \in 1..Len(s) : /\ v[i] \in FundLots <=> s[i] \in FundLots
                           /\ v[i] \in StratLots <=> s[i] \in StratLots
                           /\ v[i] \in TactLots <=> s[i] \in TactLots
                           /\ v[i] \in LevLots <=> s[i] \in LevLots
                           /\ v[i].qty = s[i].qty
  BY <1>1, <1>2 DEF FundLots, StratLots, TactLots, LevLots, LevKinds
<1>4. \A kind \in Tactical : \A i \in 1..Len(s) : v[i] \in TactLotsOf(kind) <=> s[i] \in TactLotsOf(kind)
  BY <1>1, <1>2 DEF TactLotsOf, LevKinds
<1>5. \A k \in Nat : \A i \in 1..Len(s) : v[i] \in FundUpto(k) <=> s[i] \in FundUpto(k)
  BY <1>1, <1>2, <1>3 DEF FundUpto
<1>6. Qty(v, FundLots) = Qty(s, FundLots)
  BY <1>1, <1>3, SimLotsCount, QtySame
<1>7. Qty(v, StratLots) = Qty(s, StratLots)
  BY <1>1, <1>3, SimLotsCount, QtySame
<1>8. Qty(v, TactLots) = Qty(s, TactLots)
  BY <1>1, <1>3, SimLotsCount, QtySame
<1>9. Qty(v, LevLots) = Qty(s, LevLots)
  BY <1>1, <1>3, SimLotsCount, QtySame
<1>10. ASSUME NEW kind \in Tactical PROVE Qty(v, TactLotsOf(kind)) = Qty(s, TactLotsOf(kind))
  BY <1>1, <1>3, <1>4, SimLotsCount, QtySame
<1>11. ASSUME NEW k \in Nat PROVE Qty(v, FundUpto(k)) = Qty(s, FundUpto(k))
  BY <1>1, <1>3, <1>5, SimLotsCount, QtySame
<1> QED BY <1>6, <1>7, <1>8, <1>9, <1>10, <1>11

\* What of the lots a plan is made for it still is for the lots converted.
LEMMA ConvertStays ==
    ASSUME NEW s \in Seq(SimLots), NEW v \in Seq(SimLots), NEW old, NEW new, NEW b, Converted(s, v, old, new, b)
    PROVE  /\ \A w, m : Level(s, w, m) => Level(v, w, m)
           /\ Arranged(s, ById) => Arranged(v, ById)
           /\ \A os, nx : Ranked(os, s, nx) => Ranked(os, v, nx)
           /\ \A os : Earmarked(os, s) => Earmarked(os, v)
<1>1. Len(v) = Len(s) /\ \A i \in 1..Len(s) : s[i] \in SimLots /\ v[i] \in SimLots
  BY DEF Converted
<1>2. \A i \in 1..Len(s) : /\ v[i].id = s[i].id /\ v[i].inst = s[i].inst
                           /\ v[i].inst = LEV <=> v[i].kind \in LevKinds
                           /\ s[i].inst = LEV <=> s[i].kind \in LevKinds
                           /\ s[i].inst = LEV => v[i] = s[i]
  BY <1>1 DEF Converted, SimLots
<1>3. /\ Qty(v, FundLots) = Qty(s, FundLots) /\ Qty(v, StratLots) = Qty(s, StratLots)
      /\ Qty(v, TactLots) = Qty(s, TactLots) /\ Qty(v, LevLots) = Qty(s, LevLots)
      /\ \A kind \in Tactical : Qty(v, TactLotsOf(kind)) = Qty(s, TactLotsOf(kind))
      /\ \A k \in Nat : Qty(v, FundUpto(k)) = Qty(s, FundUpto(k))
  BY ConvertCounts
<1>4. ASSUME NEW w, NEW m, Level(s, w, m) PROVE Level(v, w, m)
  <2>1. PICK y \in Tactical, z \in Tactical : InLine(s, w, m, y, z)
    BY <1>4 DEF Level
  <2>2. LotsHeld(v, y, z) = LotsHeld(s, y, z)
    BY <1>3 DEF LotsHeld
  <2>3. Arranged(v, KindFirst(SimLots, y))
    <3>1. Arranged(s, KindFirst(SimLots, y))
      BY <2>1 DEF InLine
    <3>2. ASSUME NEW i \in 1..Len(v), NEW j \in 1..Len(v), i < j PROVE <<v[i], v[j]>> \in KindFirst(SimLots, y)
      <4>1. <<s[i], s[j]>> \in KindFirst(SimLots, y)
        BY <1>1, <3>1, <3>2 DEF Arranged
      <4>2. s[j].kind = y => s[i].kind \notin Tactical \ {y}
        BY <4>1 DEF KindFirst
      <4>3. (v[j].kind = y => s[j].kind = y) /\ (v[i].kind \in Tactical => s[i].kind = v[i].kind)
        BY <1>1, <1>2 DEF LevKinds
      <4> QED BY <1>1, <4>2, <4>3 DEF KindFirst
    <3> QED BY <3>2 DEF Arranged
  <2>4. InLine(v, w, m, y, z)
    BY <2>1, <2>2, <2>3 DEF InLine
  <2>5. w \in Seq(LiveRows(m)) /\ Arranged(w, SeedsFirst(m))
    BY <1>4 DEF Level
  <2> QED BY <2>4, <2>5 DEF Level
<1>5. Arranged(s, ById) => Arranged(v, ById)
  <2> SUFFICES ASSUME Arranged(s, ById), NEW i \in 1..Len(v), NEW j \in 1..Len(v), i < j
      PROVE <<v[i], v[j]>> \in ById
    BY DEF Arranged
  <2>1. <<s[i], s[j]>> \in ById
    BY <1>1 DEF Arranged
  <2>2. s[i].id < s[j].id
    BY <2>1 DEF ById
  <2> QED BY <1>1, <1>2, <2>2 DEF ById
<1>6. ASSUME NEW o, NEW nx, Sound(o, s, nx) PROVE Sound(o, v, nx)
  <2>1. Whose(o, s, nx) => Whose(o, v, nx)
    BY <1>1, <1>2 DEF Whose
  <2>2. ASSUME o.kind # "tp", Offered(s, o, o.qty) PROVE Offered(v, o, o.qty)
    BY <1>3, <2>2 DEF Offered
  <2>3. o.kind \in Tactical /\ Qty(s, TactLotsOf(o.kind)) = 0 => Qty(v, TactLotsOf(o.kind)) = 0
    BY <1>3
  <2> QED BY <1>6, <2>1, <2>2, <2>3 DEF Sound
<1>7. \A os, nx, c, d : Part(os, s, nx, c, d) => Part(os, v, nx, c, d)
  BY <1>6 DEF Part
<1>8. \A os, nx : Ranked(os, s, nx) => Ranked(os, v, nx)
  BY <1>7 DEF Ranked
<1>9. \A os : Earmarked(os, s) => Earmarked(os, v)
  BY <1>3 DEF Earmarked
<1> QED BY <1>4, <1>5, <1>8, <1>9

-----------------------------------------------------------------------------
(* Lots and rows as twins: what is sold of them at the same places. *)

\* What a sale of lots is made of: one pass, and a second one for the cut by the cap.
Aims(s, o) ==
    CASE o.kind = "tp" -> {l \in Range(s) : l.id = o.lot}
      [] o.kind = "lev_strat" -> OfKind(s, {"lev_strat"})
      [] o.kind \in {"lev_tact_exit", "lev_cap"} -> OfKind(s, Tactical)
      [] OTHER -> OfInst(s, o.inst)

\* The lots after a sale, and what is left to sell, are those of the passes.
LEMMA SellLotsIs ==
    ASSUME NEW s, NEW o, NEW n
    PROVE  SellLots(s, o, n) =
             IF o.kind = "lev_cap"
             THEN Take(Take(s, n, Aims(s, o)).lots, Take(s, n, Aims(s, o)).rest,
                       OfKind(Take(s, n, Aims(s, o)).lots, {"lev_strat"}))
             ELSE Take(s, n, Aims(s, o))
  BY DEF SellLots, Aims

\* A sale keeps lots what they are, and in order.
LEMMA SaleOrder ==
    ASSUME NEW X, Lotted(X), NEW s \in Seq(X), NEW o, NEW n \in Nat, NEW Z, SteadyPairs(X, Z), Arranged(s, Z)
    PROVE  SellLots(s, o, n).lots \in Seq(X) /\ Arranged(SellLots(s, o, n).lots, Z)
<1>1. PICK R : R = Aims(s, o)
  OBVIOUS
<1>2. PICK u, j : u = Take(s, n, R).lots /\ j = Take(s, n, R).rest
  OBVIOUS
<1>3. u \in Seq(X) /\ j \in Nat /\ Arranged(u, Z)
  <2>1. j \in 0..n
    BY <1>2, TakeTyped
  <2> QED BY <1>2, <2>1, TakeTyped, TakeArranged
<1>4. PICK T : T = OfKind(u, {"lev_strat"})
  OBVIOUS
<1>5. Take(u, j, T).lots \in Seq(X) /\ Arranged(Take(u, j, T).lots, Z)
  BY <1>3, TakeTyped, TakeArranged
<1>6. SellLots(s, o, n).lots = IF o.kind = "lev_cap" THEN Take(u, j, T).lots ELSE u
  BY <1>1, <1>2, <1>4, SellLotsIs
<1> QED BY <1>3, <1>5, <1>6

\* Numbers stay ascending.
LEMMA ByIdSteady == SteadyPairs(SimLots, ById) /\ \A k \in Nat : SteadyPairs(LotsTo(k), ById)
<1>1. SteadyPairs(SimLots, ById)
  <2> SUFFICES ASSUME NEW x \in SimLots, NEW y \in SimLots, <<x, y>> \in ById, NEW q \in Nat \ {0}
      PROVE <<[x EXCEPT !.qty = q], y>> \in ById /\ <<x, [y EXCEPT !.qty = q]>> \in ById
    BY DEF SteadyPairs
  <2>1. PICK c, d : c = [x EXCEPT !.qty = q] /\ d = [y EXCEPT !.qty = q]
    OBVIOUS
  <2>2. c \in SimLots /\ c.id = x.id /\ d \in SimLots /\ d.id = y.id
    BY <2>1, SimLotsLotted
  <2>3. x.id < y.id
    BY DEF ById
  <2> QED BY <2>1, <2>2, <2>3 DEF ById
<1>2. \A k \in Nat : LotsTo(k) \subseteq SimLots
  BY DEF LotsTo
<1> QED BY <1>1, <1>2 DEF SteadyPairs

\* What is counted up to a number does not depend on quantities.
LEMMA UptoSteady == \A k \in Nat : Steady(SimLots, FundUpto(k))
<1> SUFFICES ASSUME NEW k \in Nat, NEW l \in SimLots, NEW q \in Nat \ {0}
    PROVE [l EXCEPT !.qty = q] \in FundUpto(k) <=> l \in FundUpto(k)
  BY DEF Steady
<1>1. PICK c : c = [l EXCEPT !.qty = q]
  OBVIOUS
<1>2. c \in SimLots /\ c.id = l.id /\ c.inst = l.inst
  BY <1>1, SimLotsLotted
<1> QED BY <1>1, <1>2 DEF FundUpto, FundLots

\* Leverage sold leaves the fund as it is, and a reduction takes the first lots first.
LEMMA SaleUpto ==
    ASSUME NEW s \in Seq(SimLots), Arranged(s, ById), NEW o, Selling(o), NEW n \in Nat, NEW k \in Nat,
           NEW v, v = SellLots(s, o, n).lots
    PROVE  /\ o.kind = "reduce" => Qty(v, FundUpto(k)) = Most(0, Qty(s, FundUpto(k)) - n)
           /\ o.kind \notin {"reduce", "tp"} => Qty(v, FundUpto(k)) = Qty(s, FundUpto(k))
<1>1. PICK R : R = Aims(s, o)
  OBVIOUS
<1>2. PICK u, j : u = Take(s, n, R).lots /\ j = Take(s, n, R).rest
  OBVIOUS
<1>3. u \in Seq(SimLots) /\ j \in Nat
  <2>1. j \in 0..n
    BY <1>2, SimLotsLotted, TakeTyped
  <2> QED BY <1>2, <2>1, SimLotsLotted, TakeTyped
<1>4. PICK T : T = OfKind(u, {"lev_strat"})
  OBVIOUS
<1>5. v = IF o.kind = "lev_cap" THEN Take(u, j, T).lots ELSE u
  BY <1>1, <1>2, <1>4, SellLotsIs
<1>6. PICK A : A = FundUpto(k) /\ Steady(SimLots, A)
  BY UptoSteady
<1>7. \A i \in 1..Len(s) : /\ s[i] \in SimLots /\ s[i] \in Range(s) /\ s[i].id \in Nat
                           /\ s[i] \in A <=> s[i].inst = K200 /\ s[i].id <= k
                           /\ s[i].inst = LEV <=> s[i].kind \in LevKinds
  BY <1>6 DEF Range, SimLots, FundUpto, FundLots
<1>8. ASSUME o.kind = "reduce" PROVE Qty(u, A) = Most(0, Qty(s, A) - n)
  <2>1. \A i \in 1..Len(s) : s[i] \in R <=> s[i].inst = K200
    BY <1>1, <1>7, <1>8 DEF Aims, Selling, OfInst
  <2>2. \A i \in 1..Len(s) : s[i] \in A => s[i] \in R
    BY <1>7, <2>1
  <2>3. Precede(s, A, R)
    <3> SUFFICES ASSUME NEW x \in 1..Len(s), NEW y \in 1..Len(s), x < y, s[x] \in R, s[y] \in A PROVE s[x] \in A
      BY DEF Precede
    <3>1. <<s[x], s[y]>> \in ById
      BY DEF Arranged
    <3>2. s[x].id < s[y].id
      BY <3>1 DEF ById
    <3> QED BY <1>7, <2>1, <3>2
  <2> QED BY <1>2, <1>6, <2>2, <2>3, SimLotsLotted, TakeOrder
<1>9. ASSUME o.kind \notin {"reduce", "tp"} PROVE Qty(u, A) = Qty(s, A)
  <2>1. \A i \in 1..Len(s) : s[i] \in R => s[i].inst = LEV
    BY <1>1, <1>7, <1>9 DEF Aims, Selling, OfInst, OfKind, LevKinds
  <2>2. \A i \in 1..Len(s) : s[i] \in A => s[i] \notin R
    BY <1>7, <2>1, Instruments
  <2> QED BY <1>2, <1>6, <2>2, SimLotsLotted, TakeOther
<1>10. ASSUME o.kind = "lev_cap" PROVE Qty(Take(u, j, T).lots, A) = Qty(u, A)
  <2>1. \A i \in 1..Len(u) : u[i] \in SimLots /\ (u[i].inst = LEV <=> u[i].kind \in LevKinds)
    BY <1>3 DEF SimLots
  <2>2. \A i \in 1..Len(u) : u[i] \in T => u[i].kind = "lev_strat"
    BY <1>4 DEF OfKind
  <2>3. \A i \in 1..Len(u) : u[i] \in A => u[i] \notin T
    BY <1>6, <2>1, <2>2, Instruments DEF FundUpto, FundLots, LevKinds
  <2> QED BY <1>3, <1>6, <2>3, SimLotsLotted, TakeOther
<1> QED BY <1>5, <1>6, <1>8, <1>9, <1>10

\* A lot and its row as a purchase makes them.
Fresh(l, r, m) ==
    /\ l.inst = r.inst /\ l.qty = r.qty /\ l.price = r.price /\ l.kind = r.kind
    /\ l.tp = r.tp /\ l.tag = r.tp /\ r.kind # "none" /\ r.at = m

\* Pairs of a lot and its row: they have quantity, instrument and tag in common, and leverage its
\* kind; they stay pairs when both shrink alike, and purchases make such pairs.
Twins(P, m) ==
    /\ \A l \in SimLots : \A r \in LiveRows(m) : <<l, r>> \in P =>
          /\ l.inst = r.inst /\ l.qty = r.qty /\ l.tag = r.tp /\ r.kind # "none"
          /\ l.inst = LEV => l.kind = r.kind
          /\ \A q \in Nat \ {0} : <<[l EXCEPT !.qty = q], [r EXCEPT !.qty = q]>> \in P
    /\ \A l \in SimLots : \A r \in LiveRows(m) : Fresh(l, r, m) => <<l, r>> \in P

\* They can be sold alike.
LEMMA TwinsPair == ASSUME NEW m \in Nat, NEW P, Twins(P, m) PROVE Pairing(SimLots, LiveRows(m), P)
  BY DEF Twins, Pairing

\* What the places of paired lots and rows have in common.
Matched(s, w, m, P) ==
    Len(w) = Len(s) /\ \A i \in 1..Len(s) :
        /\ s[i] \in SimLots /\ w[i] \in LiveRows(m) /\ s[i] \in Range(s) /\ <<s[i], w[i]>> \in P
        /\ s[i].inst = w[i].inst /\ s[i].tag = w[i].tp /\ s[i].inst \in {K200, LEV}
        /\ s[i].inst = LEV <=> s[i].kind \in LevKinds
        /\ w[i].inst = LEV <=> w[i].kind \in LevKinds
        /\ s[i].inst = LEV => s[i].kind = w[i].kind

\* Twins are so at every place.
LEMMA TwinPlaces ==
    ASSUME NEW m \in Nat, NEW P, Twins(P, m), NEW s \in Seq(SimLots), NEW w \in Seq(LiveRows(m)), Paired(s, w, P)
    PROVE  Matched(s, w, m, P)
<1>1. Len(w) = Len(s) /\ \A i \in 1..Len(s) : <<s[i], w[i]>> \in P
  BY DEF Paired
<1>2. \A i \in 1..Len(s) : s[i] \in SimLots /\ w[i] \in LiveRows(m) /\ s[i] \in Range(s)
  BY <1>1 DEF Range
<1>3. \A i \in 1..Len(s) : s[i].inst \in {K200, LEV} /\ (s[i].inst = LEV <=> s[i].kind \in LevKinds)
  BY <1>2 DEF SimLots
<1>4. \A i \in 1..Len(s) : /\ s[i].inst = w[i].inst /\ s[i].tag = w[i].tp /\ w[i].kind # "none"
                           /\ s[i].inst = LEV => s[i].kind = w[i].kind
  BY <1>1, <1>2 DEF Twins
<1>5. \A i \in 1..Len(s) : w[i].inst = LEV <=> w[i].kind \in LevKinds
  BY <1>2, <1>4 DEF LiveRows, LevKinds, Tactical
<1> QED BY <1>1, <1>2, <1>3, <1>4, <1>5 DEF Matched

\* What a first pass over paired lots and rows leaves.
LEMMA FirstPaired ==
    ASSUME NEW m \in Nat, NEW P, Twins(P, m), NEW s \in Seq(SimLots), NEW w \in Seq(LiveRows(m)), Paired(s, w, P),
           NEW o, Selling(o), o.kind \in {"lev_strat", "lev_tact_exit", "lev_cap"}, NEW n \in Nat,
           NEW u, u = Take(s, n, Aims(s, o)), NEW v, v = Take(w, n, Firsts(w, o))
    PROVE  /\ u.rest = v.rest /\ Paired(u.lots, v.lots, P) /\ u.rest \in Nat
           /\ u.lots \in Seq(SimLots) /\ v.lots \in Seq(LiveRows(m))
<1>1. Lotted(SimLots) /\ Lotted(LiveRows(m)) /\ Pairing(SimLots, LiveRows(m), P)
  BY SimLotsLotted, RowsLive, TwinsPair
<1>2. PICK R, S : R = Aims(s, o) /\ S = Firsts(w, o)
  OBVIOUS
<1>3. /\ Len(w) = Len(s)
      /\ \A i \in 1..Len(s) :
             /\ s[i] \in Range(s) /\ s[i].inst = w[i].inst /\ s[i].inst \in {K200, LEV}
             /\ s[i].inst = LEV <=> s[i].kind \in LevKinds
             /\ w[i].inst = LEV <=> w[i].kind \in LevKinds
             /\ s[i].inst = LEV => s[i].kind = w[i].kind
  <2>1. Matched(s, w, m, P)
    BY TwinPlaces
  <2> QED BY <2>1 DEF Matched
<1>4. \A i \in 1..Len(w) : w[i] \in Range(w)
  BY DEF Range
<1>5. \A i \in 1..Len(s) : s[i] \in R <=> w[i] \in S
  <2> TAKE i \in 1..Len(s)
  <2>1. CASE o.kind = "lev_strat"
    <3>1. s[i] \in R <=> s[i].kind = "lev_strat"
      BY <1>2, <1>3, <2>1 DEF Aims, OfKind
    <3>2. w[i] \in S <=> w[i].inst = LEV /\ w[i].kind = "lev_strat"
      BY <1>2, <1>3, <1>4, <2>1, Instruments DEF Firsts, OfInst, Prefers, Selling
    <3> QED BY <1>3, <3>1, <3>2 DEF LevKinds
  <2>2. CASE o.kind # "lev_strat"
    <3>1. s[i] \in R <=> s[i].kind \in Tactical
      BY <1>2, <1>3, <2>2 DEF Aims, OfKind
    <3>2. w[i] \in S <=> w[i].inst = LEV /\ w[i].kind \in Tactical
      BY <1>2, <1>3, <1>4, <2>2, Instruments DEF Firsts, OfInst, Prefers, Selling
    <3> QED BY <1>3, <3>1, <3>2 DEF LevKinds
  <2> QED BY <2>1, <2>2
<1>6. Alike(s, w, n, R, S)
  BY <1>5 DEF Alike
<1>7. u.rest = v.rest /\ Paired(u.lots, v.lots, P)
  BY <1>1, <1>2, <1>6, TakePaired
<1>8. u.lots \in Seq(SimLots) /\ u.rest \in 0..n /\ v.lots \in Seq(LiveRows(m))
  BY <1>1, TakeTyped
<1> QED BY <1>7, <1>8

\* A sale of a plan but a take-profit leaves paired lots and rows paired.
LEMMA SalePaired ==
    ASSUME NEW m \in Nat, NEW P, Twins(P, m), NEW s \in Seq(SimLots), NEW w \in Seq(LiveRows(m)), Paired(s, w, P),
           NEW o, Selling(o), o.kind # "tp", NEW n \in Nat, Offered(s, o, n)
    PROVE  Paired(SellLots(s, o, n).lots, Consume(w, o, n), P)
<1>1. /\ Lotted(SimLots) /\ Lotted(LiveRows(m)) /\ Pairing(SimLots, LiveRows(m), P)
      /\ Exact(LiveRows(m)) /\ Counting(SimLots)
  BY SimLotsLotted, RowsLive, TwinsPair, SimLotsCount
<1>2. PICK R, S : R = Aims(s, o) /\ S = Firsts(w, o)
  OBVIOUS
<1>3. /\ Len(w) = Len(s)
      /\ \A i \in 1..Len(s) : s[i] \in SimLots /\ s[i] \in Range(s) /\ s[i].inst = w[i].inst
  <2>1. Matched(s, w, m, P)
    BY TwinPlaces
  <2> QED BY <2>1 DEF Matched
<1>4. CASE o.kind \in {"reduce", "lev_liq"}
  <2>1. PICK T : Consume(w, o, n) = Take(w, n, T).lots /\ \A i \in 1..Len(w) : w[i] \in T <=> w[i].inst = o.inst
    BY <1>4, RowsPlain
  <2>2. \A i \in 1..Len(s) : s[i] \in R <=> s[i].inst = o.inst
    BY <1>2, <1>3, <1>4 DEF Aims, OfInst
  <2>3. \A i \in 1..Len(s) : s[i] \in R <=> w[i] \in T
    BY <1>3, <2>1, <2>2
  <2>4. Alike(s, w, n, R, T)
    BY <2>3 DEF Alike
  <2>5. Paired(Take(s, n, R).lots, Take(w, n, T).lots, P)
    BY <1>1, <2>4, TakePaired
  <2>6. SellLots(s, o, n) = Take(s, n, R)
    BY <1>2, <1>4, SellLotsIs
  <2> QED BY <2>1, <2>5, <2>6
<1>5. CASE o.kind \in {"lev_strat", "lev_tact_exit", "lev_cap"}
  <2>1. PICK u, v : u = Take(s, n, R) /\ v = Take(w, n, S)
    OBVIOUS
  <2>2. /\ u.rest = v.rest /\ Paired(u.lots, v.lots, P) /\ u.rest \in Nat
        /\ u.lots \in Seq(SimLots) /\ v.lots \in Seq(LiveRows(m))
    BY <1>2, <1>5, <2>1, FirstPaired
  <2>3. PICK a, c, j : a = u.lots /\ c = v.lots /\ j = u.rest /\ j \in Nat
    BY <2>2
  <2>4. a \in Seq(SimLots) /\ c \in Seq(LiveRows(m)) /\ Paired(a, c, P)
    BY <2>2, <2>3
  <2>5. /\ Consume(w, o, n) = Take(c, j, Others(c, o)).lots
        /\ \A i \in 1..Len(c) : c[i] \in Others(c, o) <=> c[i].inst = o.inst /\ ~Prefers(o, c[i])
    <3>1. c = Take(w, n, Firsts(w, o)).lots /\ j = Take(w, n, Firsts(w, o)).rest
      BY <1>2, <2>1, <2>2, <2>3
    <3>2. Consume(w, o, n) = Take(c, j, Others(c, o)).lots
      <4>1. Consuming(w, o, n, m, c, j)
        BY <3>1, ConsumeIs
      <4> QED BY <4>1 DEF Consuming
    <3>3. \A i \in 1..Len(c) : c[i] \in Range(c)
      BY <2>4 DEF Range
    <3>4. \A i \in 1..Len(c) : c[i] \in Others(c, o) <=> c[i].inst = o.inst /\ ~Prefers(o, c[i])
      BY <3>3 DEF Others, OfInst
    <3> QED BY <3>2, <3>4
  <2>6. CASE o.kind \in {"lev_strat", "lev_tact_exit"}
    <3>1. PICK A : A = (IF o.kind = "lev_strat" THEN StratLots ELSE TactLots) /\ Steady(SimLots, A)
      <4>1. \A l \in SimLots : \A q \in Nat \ {0} : [l EXCEPT !.qty = q] \in SimLots /\ [l EXCEPT !.qty = q].kind = l.kind
        BY SimLotsLotted
      <4>2. Steady(SimLots, StratLots) /\ Steady(SimLots, TactLots)
        BY <4>1 DEF Steady, StratLots, TactLots
      <4> QED BY <4>2
    <3>2. n <= Qty(s, A)
      BY <2>6, <3>1 DEF Offered
    <3>3. \A i \in 1..Len(s) : s[i] \in R <=> s[i] \in A
      BY <1>2, <1>3, <2>6, <3>1 DEF Aims, OfKind, StratLots, TactLots
    <3>4. Precede(s, A, R)
      BY <3>3 DEF Precede
    <3>5. u.rest = Most(0, n - Qty(s, A))
      BY <1>1, <2>1, <3>1, <3>3, <3>4, TakeOrder
    <3>6. Qty(s, A) \in Nat
      BY <1>1, QtyNat
    <3>7. j = 0
      BY <2>3, <3>2, <3>5, <3>6 DEF Most
    <3>8. Take(c, j, Others(c, o)).lots = c
      BY <1>1, <2>4, <3>7, TakeNothing
    <3>9. SellLots(s, o, n).lots = a
      BY <1>2, <2>1, <2>3, <2>6, SellLotsIs
    <3> QED BY <2>4, <2>5, <3>8, <3>9
  <2>7. CASE o.kind = "lev_cap"
    <3>1. PICK T, Q : T = OfKind(a, {"lev_strat"}) /\ Q = Others(c, o)
      OBVIOUS
    <3>2. SellLots(s, o, n).lots = Take(a, j, T).lots
      BY <1>2, <2>1, <2>3, <2>7, <3>1, SellLotsIs
    <3>3. /\ Len(c) = Len(a)
          /\ \A i \in 1..Len(a) :
                 /\ a[i] \in Range(a) /\ a[i].inst = c[i].inst
                 /\ a[i].inst = LEV <=> a[i].kind \in LevKinds
                 /\ c[i].inst = LEV <=> c[i].kind \in LevKinds
                 /\ a[i].inst = LEV => a[i].kind = c[i].kind
      <4>1. Matched(a, c, m, P)
        BY <2>4, TwinPlaces
      <4> QED BY <4>1 DEF Matched
    <3>4. o.inst = LEV
      BY <2>7 DEF Selling
    <3>5. \A i \in 1..Len(a) : a[i] \in T <=> c[i] \in Q
      <4> TAKE i \in 1..Len(a)
      <4>1. a[i] \in T <=> a[i].kind = "lev_strat"
        BY <3>1, <3>3 DEF OfKind
      <4>2. c[i] \in Q <=> c[i].inst = LEV /\ c[i].kind \notin Tactical
        BY <2>5, <2>7, <3>1, <3>3, <3>4 DEF Prefers
      <4> QED BY <3>3, <4>1, <4>2 DEF LevKinds, Tactical
    <3>6. Alike(a, c, j, T, Q)
      BY <3>5 DEF Alike
    <3>7. Paired(Take(a, j, T).lots, Take(c, j, Q).lots, P)
      BY <1>1, <2>3, <2>4, <3>6, TakePaired
    <3> QED BY <2>5, <3>1, <3>2, <3>7
  <2> QED BY <1>5, <2>6, <2>7
<1> QED BY <1>4, <1>5 DEF Selling, SellKinds

\* The lots of a number.
OfId(id) == {l \in SimLots : l.id = id}

\* A sale leaves a lot its number.
LEMMA OfIdSteady == \A id : Steady(SimLots, OfId(id))
<1> SUFFICES ASSUME NEW id, NEW l \in SimLots, NEW q \in Nat \ {0}
    PROVE [l EXCEPT !.qty = q] \in OfId(id) <=> l \in OfId(id)
  BY DEF Steady
<1>1. PICK c : c = [l EXCEPT !.qty = q]
  OBVIOUS
<1>2. c \in SimLots /\ c.id = l.id
  BY <1>1, SimLotsLotted
<1> QED BY <1>1, <1>2 DEF OfId

\* The lot at place p is the one a take-profit of n shares names, and the first with its price.
Aimed(s, o, n, p) ==
    /\ p \in 1..Len(s) /\ s[p].id = o.lot /\ s[p].qty >= n /\ s[p].tp = o.price /\ s[p].inst = K200
    /\ \A i \in 1..Len(s) : s[i].tp = s[i].tag
    /\ \A i \in 1..Len(s) : i < p => ~(s[i].inst = K200 /\ s[i].tp = o.price)

\* Such a take-profit leaves paired lots and rows paired, though the rows are found by price.
LEMMA TpPaired ==
    ASSUME NEW m \in Nat, NEW P, Twins(P, m), NEW s \in Seq(SimLots), NEW w \in Seq(LiveRows(m)), Paired(s, w, P),
           Arranged(s, ById), NEW o, Selling(o), o.kind = "tp", NEW n \in Nat, NEW p, Aimed(s, o, n, p)
    PROVE  Paired(SellLots(s, o, n).lots, Consume(w, o, n), P)
<1>1. /\ Lotted(SimLots) /\ Lotted(LiveRows(m)) /\ Pairing(SimLots, LiveRows(m), P)
      /\ Exact(LiveRows(m)) /\ Counting(SimLots)
  BY SimLotsLotted, RowsLive, TwinsPair, SimLotsCount
<1>2. PICK R, S, A : R = Aims(s, o) /\ S = Firsts(w, o) /\ A = OfId(o.lot)
  OBVIOUS
<1>3. Matched(s, w, m, P)
  BY TwinPlaces
<1>4. /\ Len(w) = Len(s)
      /\ \A i \in 1..Len(s) : s[i] \in SimLots /\ s[i] \in Range(s) /\ s[i].inst = w[i].inst /\ s[i].tag = w[i].tp
  BY <1>3 DEF Matched
<1>5. /\ p \in 1..Len(s) /\ s[p].id = o.lot /\ s[p].qty >= n /\ s[p].tp = o.price /\ s[p].inst = K200
      /\ \A i \in 1..Len(s) : s[i].tp = s[i].tag
      /\ \A i \in 1..Len(s) : i < p => ~(s[i].inst = K200 /\ s[i].tp = o.price)
  BY DEF Aimed
<1>6. \A i \in 1..Len(s) : s[i] \in R <=> s[i].id = o.lot
  BY <1>2, <1>4 DEF Aims
<1>7. \A i \in 1..Len(s) : w[i] \in S <=> w[i].inst = K200 /\ w[i].tp = o.price
  <2>1. \A i \in 1..Len(w) : w[i] \in Range(w)
    BY DEF Range
  <2> QED BY <1>2, <1>4, <2>1 DEF Firsts, OfInst, Prefers, Selling
<1>8. Alike(s, w, n, R, S)
  <2> SUFFICES ASSUME NEW i \in 1..Len(s) PROVE (s[i] \in R <=> w[i] \in S) \/ FoundBefore(s, n, R, i - 1)
    BY DEF Alike
  <2>1. CASE i < p
    <3>1. <<s[i], s[p]>> \in ById
      BY <1>5, <2>1 DEF Arranged
    <3>2. s[i].id < s[p].id /\ s[p].id \in Nat /\ s[i].id \in Nat
      BY <1>4, <1>5, <3>1 DEF ById, SimLots
    <3>3. s[i] \notin R
      BY <1>5, <1>6, <3>2
    <3>4. w[i] \notin S
      BY <1>4, <1>5, <1>7, <2>1
    <3> QED BY <3>3, <3>4
  <2>2. CASE i = p
    BY <1>4, <1>5, <1>6, <1>7, <2>2
  <2>3. CASE i > p
    <3>1. p <= i - 1 /\ s[p] \in R
      BY <1>5, <1>6, <2>3
    <3> QED BY <1>5, <3>1 DEF FoundBefore
  <2> QED BY <1>5, <2>1, <2>2, <2>3
<1>9. PICK u, v : u = Take(s, n, R) /\ v = Take(w, n, S)
  OBVIOUS
<1>10. u.rest = v.rest /\ Paired(u.lots, v.lots, P)
  BY <1>1, <1>8, <1>9, TakePaired
<1>11. u.rest = 0
  <2>1. \A i \in 1..Len(s) : s[i] \in R <=> s[i] \in A
    BY <1>2, <1>4, <1>6 DEF OfId
  <2>2. Precede(s, A, R)
    BY <2>1 DEF Precede
  <2>3. Steady(SimLots, A)
    BY <1>2, OfIdSteady
  <2>4. u.rest = Most(0, n - Qty(s, A))
    BY <1>1, <1>9, <2>1, <2>2, <2>3, TakeOrder
  <2>5. s[p] \in A
    BY <1>2, <1>4, <1>5 DEF OfId
  <2>6. Qty(s, A) \in Nat /\ s[p].qty <= Qty(s, A)
    BY <1>1, <1>5, <2>5, QtyNat
  <2>7. s[p].qty \in Nat
    BY <1>4, <1>5 DEF SimLots
  <2> QED BY <1>5, <2>4, <2>6, <2>7 DEF Most
<1>12. v.lots \in Seq(LiveRows(m))
  BY <1>1, <1>9, TakeTyped
<1>13. PICK c, j : c = v.lots /\ j = v.rest
  OBVIOUS
<1>14. c = Take(w, n, Firsts(w, o)).lots /\ j = Take(w, n, Firsts(w, o)).rest
  BY <1>2, <1>9, <1>13
<1>15. Consume(w, o, n) = Take(c, j, Others(c, o)).lots
  <2>1. w \in Seq(LiveRows(m)) /\ n \in Nat
    OBVIOUS
  <2>2. Consuming(w, o, n, m, c, j)
    BY <1>14, <2>1, ConsumeIs
  <2> QED BY <2>2 DEF Consuming
<1>16. j = 0 /\ c \in Seq(LiveRows(m))
  BY <1>10, <1>11, <1>12, <1>13
<1>17. Take(c, j, Others(c, o)).lots = c
  BY <1>1, <1>16, TakeNothing
<1>18. SellLots(s, o, n) = u
  BY <1>2, <1>9, SellLotsIs
<1> QED BY <1>10, <1>13, <1>15, <1>17, <1>18

-----------------------------------------------------------------------------
(* What the orders do to an account, pass by pass. *)

\* What an account becomes by a sale.
LEMMA SellIs ==
    ASSUME NEW m \in Nat, NEW t \in Accounts(m), NEW o, NEW n, NEW px
    PROVE  /\ Sell(t, o, n, px).lots = SellLots(t.lots, o, n).lots
           /\ Sell(t, o, n, px).rows = Consume(t.rows, o, n) /\ Sell(t, o, n, px).next = t.next
<1>1. PICK c, s, w, k : c = t.cash /\ s = t.lots /\ w = t.rows /\ k = t.next
  OBVIOUS
<1>2. t = [cash |-> c, lots |-> s, rows |-> w, next |-> k]
  BY <1>1 DEF Accounts
<1>3. PICK g, v, z : g = c + (n - SellLots(s, o, n).rest) * px /\ v = SellLots(s, o, n).lots /\ z = Consume(w, o, n)
  OBVIOUS
<1>4. Sell(t, o, n, px) = [t EXCEPT !.cash = g, !.lots = v, !.rows = z]
  BY <1>1, <1>3 DEF Sell
<1>5. Sell(t, o, n, px) = [cash |-> g, lots |-> v, rows |-> z, next |-> k]
  BY <1>2, <1>4
<1> QED BY <1>1, <1>3, <1>5

\* What an account becomes by a purchase that its cash covers: one lot more, and the row of it.
Purchase(t, v, o, m, l, r) ==
    /\ v.lots = Append(t.lots, l) /\ v.rows = Append(t.rows, r) /\ v.next = t.next + 1
    /\ l \in SimLots /\ l.id = t.next /\ l.inst = o.inst /\ l.tp = l.tag
    /\ r \in LiveRows(m) /\ Fresh(l, r, m)
    /\ o.inst = LEV => l.kind = o.kind

\* A purchase leaves the account as it was, or adds one lot and its row.
LEMMA BuyIs ==
    ASSUME Fillable, NEW m, m = Len(hist) + 1, NEW t \in Accounts(m), NEW o \in Orders, NEW px \in Nat,
           o.side = "buy"
    PROVE  Buy(t, o, px) = t \/ \E l, r : Purchase(t, Buy(t, o, px), o, m, l, r)
<1>1. PICK k, c : k \in Nat \ {0} /\ c \in Funds /\ k = t.next /\ c = t.cash
  BY DEF Accounts
<1>2. PICK s, w : s = t.lots /\ w = t.rows
  OBVIOUS
<1>3. PICK tag : tag = Tag(o, px)
  OBVIOUS
<1>4. o.inst \in {K200, LEV} /\ (o.inst = LEV => o.kind \in LevKinds)
  BY DEF Orders
<1>5. /\ tag.tp \in Nat
      /\ o.inst = LEV => tag.kind = o.kind
      /\ o.inst # LEV => tag.kind \in {"grid", "core"}
  <2>1. TakeProfit(px, plan.grid) \in Nat
    BY TakeProfitNat DEF Fillable
  <2> QED BY <1>3, <2>1 DEF Tag, NoPrice
<1>6. /\ tag.kind \in LotKinds /\ (o.inst = LEV <=> tag.kind \in LevKinds) /\ tag.kind # "none"
  <2>1. "grid" \notin LevKinds /\ "core" \notin LevKinds /\ "none" \notin LevKinds
    BY DEF LevKinds, Tactical
  <2> QED BY <1>4, <1>5, <2>1 DEF LotKinds
<1>7. PICK q \in Nat \ {0} : q = o.qty
  BY DEF Orders
<1>8. PICK lot : lot = [id |-> k, inst |-> o.inst, qty |-> q, price |-> px,
                        kind |-> tag.kind, tp |-> tag.tp, tag |-> tag.tp]
  OBVIOUS
<1>9. PICK row : row = [inst |-> o.inst, qty |-> q, price |-> px, at |-> m, kind |-> tag.kind, tp |-> tag.tp]
  OBVIOUS
<1>10. lot \in SimLots /\ lot.id = k /\ lot.inst = o.inst /\ lot.tp = lot.tag /\ lot.kind = tag.kind
  BY <1>1, <1>4, <1>5, <1>6, <1>8 DEF SimLots
<1>11. m \in Nat
  BY DEF Fillable
<1>12. row \in LiveRows(m)
  <2>1. row \in Rows(m)
    BY <1>4, <1>5, <1>6, <1>9, <1>11 DEF Rows
  <2>2. row.inst = o.inst /\ row.kind = tag.kind
    BY <1>9
  <2> QED BY <1>4, <1>5, <2>1, <2>2 DEF LiveRows
<1>13. Fresh(lot, row, m)
  BY <1>6, <1>8, <1>9 DEF Fresh
<1>14. PICK cost : cost = q * px
  OBVIOUS
<1>15. Buy(t, o, px) = IF cost > c THEN t
                       ELSE [cash |-> c - cost, lots |-> Append(s, lot), rows |-> Append(w, row), next |-> k + 1]
  BY <1>1, <1>2, <1>3, <1>7, <1>8, <1>9, <1>14 DEF Buy, WithLot
<1>16. CASE cost > c
  BY <1>15, <1>16
<1>17. CASE ~(cost > c)
  <2>1. PICK v : v = [cash |-> c - cost, lots |-> Append(s, lot), rows |-> Append(w, row), next |-> k + 1]
    OBVIOUS
  <2>2. v.lots = Append(s, lot) /\ v.rows = Append(w, row) /\ v.next = k + 1
    BY <2>1
  <2>3. Purchase(t, v, o, m, lot, row)
    BY <1>1, <1>2, <1>5, <1>10, <1>12, <1>13, <2>2 DEF Purchase
  <2> QED BY <1>15, <1>17, <2>1, <2>3
<1> QED BY <1>16, <1>17

\* Lots of which those a take-profit of the plan names are of the fund.
Offerable(k) ==
    {l \in LotsTo(k) : \A j \in 1..Len(plan.orders) :
        plan.orders[j].side = "sell" /\ plan.orders[j].kind = "tp" /\ l.id = plan.orders[j].lot => l.inst = K200}

\* An account between two orders of the plan: in line with its rows, and numbered; the lots of the
\* plan are those below nx.
Orderly(u, m, nx) ==
    /\ u \in Accounts(m) /\ nx <= u.next /\ Level(u.lots, u.rows, m)
    /\ Arranged(u.lots, ById) /\ u.lots \in Seq(Offerable(u.next))
OfPlan(nx) == /\ nx \in Nat
              /\ \A j \in 1..Len(plan.orders) :
                    plan.orders[j].side = "sell" /\ plan.orders[j].kind = "tp" => plan.orders[j].lot < nx

\* Such lots shrink to such lots.
LEMMA OfferableLotted == ASSUME NEW k \in Nat PROVE Lotted(Offerable(k)) /\ SteadyPairs(Offerable(k), ById)
<1>1. Lotted(Offerable(k))
  <2> SUFFICES ASSUME NEW l \in Offerable(k) PROVE l.qty \in Nat \ {0} /\ \A q \in Nat \ {0} : [l EXCEPT !.qty = q] \in Offerable(k)
    BY DEF Lotted
  <2>1. l \in LotsTo(k) /\ l.qty \in Nat \ {0}
    BY DEF Offerable, LotsTo, SimLots
  <2>2. ASSUME NEW q \in Nat \ {0} PROVE [l EXCEPT !.qty = q] \in Offerable(k)
    <3>1. PICK c : c = [l EXCEPT !.qty = q]
      OBVIOUS
    <3>2. c \in LotsTo(k) /\ c.id = l.id /\ c.inst = l.inst
      BY <2>1, <3>1, LotShrinks
    <3> QED BY <3>1, <3>2 DEF Offerable
  <2> QED BY <2>1, <2>2
<1>2. Offerable(k) \subseteq LotsTo(k)
  BY DEF Offerable
<1>3. SteadyPairs(LotsTo(k), ById)
  BY ByIdSteady
<1> QED BY <1>1, <1>2, <1>3 DEF SteadyPairs

\* What a sale changes of an account.
SoldFrom(u, v, o, n) ==
    /\ v.lots = SellLots(u.lots, o, n).lots /\ v.rows = Consume(u.rows, o, n) /\ v.next = u.next
    /\ Kept(o.kind, u.lots, v.lots)

\* A sale keeps an account in order.
LEMMA SaleKeepsLine ==
    ASSUME NEW m \in Nat, NEW nx, NEW u, Orderly(u, m, nx), NEW o, Selling(o), NEW n \in Nat, NEW px \in Nat,
           Offered(u.lots, o, n), NEW v, v = Sell(u, o, n, px)
    PROVE  Orderly(v, m, nx) /\ SoldFrom(u, v, o, n)
<1>1. /\ u \in Accounts(m) /\ nx <= u.next /\ Level(u.lots, u.rows, m)
      /\ Arranged(u.lots, ById) /\ u.lots \in Seq(Offerable(u.next))
  BY DEF Orderly
<1>2. PICK k \in Nat \ {0} : k = u.next
  BY <1>1 DEF Accounts
<1>3. PICK s, w, c : s = u.lots /\ w = u.rows /\ c = SellLots(s, o, n).lots
  OBVIOUS
<1>4. v.lots = c /\ v.rows = Consume(w, o, n) /\ v.next = k
  BY <1>1, <1>2, <1>3, SellIs
<1>5. v \in Accounts(m)
  BY <1>1, SellKeeps
<1>6. s \in Seq(LotsTo(k))
  BY <1>1, <1>2, <1>3 DEF Accounts
<1>7. Level(c, Consume(w, o, n), m) /\ Kept(o.kind, s, c)
  <2>1. Level(s, w, m) /\ Offered(s, o, n)
    BY <1>1, <1>3
  <2> QED BY <1>3, <1>6, <2>1, LevelSold
<1>8. c \in Seq(Offerable(k)) /\ Arranged(c, ById)
  <2>1. PICK X : X = Offerable(k) /\ Lotted(X) /\ SteadyPairs(X, ById)
    BY OfferableLotted
  <2>2. s \in Seq(X) /\ Arranged(s, ById)
    BY <1>1, <1>2, <1>3, <2>1
  <2>3. SellLots(s, o, n).lots \in Seq(X) /\ Arranged(SellLots(s, o, n).lots, ById)
    BY <2>1, <2>2, SaleOrder
  <2> QED BY <1>3, <2>1, <2>3
<1>9. Orderly(v, m, nx)
  BY <1>1, <1>2, <1>4, <1>5, <1>7, <1>8 DEF Orderly
<1>10. SoldFrom(u, v, o, n)
  BY <1>2, <1>3, <1>4, <1>7 DEF SoldFrom
<1> QED BY <1>9, <1>10

\* What a purchase adds to the counts of an account.
BoughtBy(u, v, o, nx) ==
    /\ \A k \in Nat : k < nx => Qty(v.lots, FundUpto(k)) = Qty(u.lots, FundUpto(k))
    /\ \A kind \in Tactical : (o.inst # LEV \/ o.kind # kind) =>
          Qty(v.lots, TactLotsOf(kind)) = Qty(u.lots, TactLotsOf(kind))

\* A purchase keeps an account in order and the counts of what it had.
LEMMA BuyKeepsLine ==
    ASSUME Fillable, NEW m, m = Len(hist) + 1, NEW nx, OfPlan(nx), NEW u, Orderly(u, m, nx),
           NEW o \in Orders, o.side = "buy", NEW px \in Nat, NEW v, v = Buy(u, o, px),
           o.inst = LEV /\ o.kind \in Tactical => Qty(u.lots, TactLotsOf(o.kind)) = 0
    PROVE  /\ Orderly(v, m, nx) /\ BoughtBy(u, v, o, nx)
           /\ \A P : Twins(P, m) /\ Paired(u.lots, u.rows, P) => Paired(v.lots, v.rows, P)
<1>1. /\ u \in Accounts(m) /\ nx <= u.next /\ Level(u.lots, u.rows, m)
      /\ Arranged(u.lots, ById) /\ u.lots \in Seq(Offerable(u.next))
  BY DEF Orderly
<1>2. m \in Nat
  BY DEF Fillable
<1>3. CASE v = u
  BY <1>3 DEF BoughtBy
<1>4. ASSUME NEW l, NEW r, Purchase(u, v, o, m, l, r)
      PROVE  /\ Orderly(v, m, nx) /\ BoughtBy(u, v, o, nx)
             /\ \A P : Twins(P, m) /\ Paired(u.lots, u.rows, P) => Paired(v.lots, v.rows, P)
  <2>1. PICK k \in Nat \ {0} : k = u.next
    BY <1>1 DEF Accounts
  <2>2. PICK s, w, c, d : s = u.lots /\ w = u.rows /\ c = v.lots /\ d = v.rows
    OBVIOUS
  <2>3. /\ c = Append(s, l) /\ d = Append(w, r) /\ v.next = k + 1
        /\ l \in SimLots /\ l.id = k /\ l.inst = o.inst /\ l.tp = l.tag
        /\ r \in LiveRows(m) /\ Fresh(l, r, m)
        /\ o.inst = LEV => l.kind = o.kind
    BY <1>4, <2>1, <2>2 DEF Purchase
  <2>4. /\ l.inst = r.inst /\ l.qty = r.qty /\ l.kind = r.kind /\ r.kind # "none"
    BY <2>3 DEF Fresh
  <2>5. v \in Accounts(m)
    BY <1>1, BuyKeeps
  <2>6. s \in Seq(LotsTo(k)) /\ s \in Seq(SimLots) /\ \A i \in 1..Len(s) : s[i].id < k
    <3>1. s \in Seq(LotsTo(k)) /\ s \in Seq(SimLots)
      BY <1>1, <2>1, <2>2 DEF Accounts
    <3> QED BY <3>1 DEF LotsTo
  <2>7. l.kind \in Tactical => Qty(s, TactLotsOf(l.kind)) = 0
    <3>1. l.kind \in Tactical => l.inst = LEV
      BY <2>3 DEF SimLots, LevKinds
    <3> QED BY <2>2, <2>3, <3>1
  <2>8. Level(c, d, m)
    <3>1. Level(s, w, m)
      BY <1>1, <2>2
    <3> QED BY <1>2, <2>3, <2>4, <2>6, <2>7, <3>1, LevelBought
  <2>9. Arranged(c, ById)
    <3>1. \A i \in 1..Len(s) : <<s[i], l>> \in ById
      BY <2>3, <2>6 DEF ById
    <3>2. Arranged(s, ById)
      BY <1>1, <2>2
    <3> QED BY <2>3, <2>6, <3>1, <3>2, ArrangedMore
  <2>10. c \in Seq(Offerable(k + 1))
    <3>1. Offerable(k) \subseteq Offerable(k + 1)
      BY DEF Offerable, LotsTo, SimLots
    <3>2. l \in LotsTo(k + 1)
      BY <2>3 DEF LotsTo
    <3>3. l \in Offerable(k + 1)
      <4> SUFFICES ASSUME NEW j \in 1..Len(plan.orders), plan.orders[j].side = "sell", plan.orders[j].kind = "tp",
                          l.id = plan.orders[j].lot
          PROVE FALSE
        BY <3>2 DEF Offerable
      <4>1. plan.orders[j] \in Orders
        BY DEF Fillable
      <4>2. plan.orders[j].lot \in Nat
        BY <4>1 DEF Orders
      <4>3. plan.orders[j].lot < nx /\ nx \in Nat
        BY DEF OfPlan
      <4> QED BY <1>1, <2>1, <2>3, <4>2, <4>3
    <3>4. s \in Seq(Offerable(k))
      BY <1>1, <2>1, <2>2
    <3>5. s \in Seq(Offerable(k + 1))
      BY <3>1, <3>4
    <3> QED BY <2>3, <3>3, <3>5
  <2>11. Orderly(v, m, nx)
    <3>1. nx \in Nat /\ nx <= k + 1
      BY <1>1, <2>1 DEF OfPlan
    <3> QED BY <2>2, <2>3, <2>5, <2>8, <2>9, <2>10, <3>1 DEF Orderly
  <2>12. ASSUME NEW R, l \notin R PROVE Qty(c, R) = Qty(s, R)
    <3>1. Qty(Append(s, l), R) = Qty(s, R) + IF l \in R THEN l.qty ELSE 0
      BY <2>3, <2>6, SimLotsCount, QtyAppend
    <3>2. Qty(s, R) \in Nat
      BY <2>6, SimLotsCount, QtyNat
    <3> QED BY <2>3, <2>12, <3>1, <3>2
  <2>13. BoughtBy(u, v, o, nx)
    <3>1. \A j \in Nat : j < nx => l \notin FundUpto(j)
      BY <1>1, <2>1, <2>3 DEF FundUpto, OfPlan
    <3>2. \A kind \in Tactical : (o.inst # LEV \/ o.kind # kind) => l \notin TactLotsOf(kind)
      BY <2>3 DEF TactLotsOf, SimLots, LevKinds
    <3>3. ASSUME NEW j \in Nat, j < nx PROVE Qty(c, FundUpto(j)) = Qty(s, FundUpto(j))
      BY <2>12, <3>1, <3>3
    <3>4. ASSUME NEW kind \in Tactical, o.inst # LEV \/ o.kind # kind
          PROVE Qty(c, TactLotsOf(kind)) = Qty(s, TactLotsOf(kind))
      BY <2>12, <3>2, <3>4
    <3> QED BY <2>2, <3>3, <3>4 DEF BoughtBy
  <2>14. ASSUME NEW P, Twins(P, m), Paired(s, w, P) PROVE Paired(c, d, P)
    <3>1. <<l, r>> \in P
      BY <2>3, <2>14 DEF Twins
    <3>2. w \in Seq(LiveRows(m))
      BY <1>1, <2>2 DEF Level
    <3> QED BY <2>3, <2>6, <2>14, <3>1, <3>2, AppendPaired
  <2> QED BY <2>2, <2>11, <2>13, <2>14
<1>5. v = u \/ \E l, r : Purchase(u, v, o, m, l, r)
  BY <1>1, BuyIs
<1>6. CASE \E l, r : Purchase(u, v, o, m, l, r)
  <2>1. PICK l, r : Purchase(u, v, o, m, l, r)
    BY <1>6
  <2> QED BY <1>4, <2>1
<1> QED BY <1>3, <1>5, <1>6

\* What a ranked plan is, order by order.
InPlan(s, nx) ==
    /\ nx \in Nat /\ OfPlan(nx)
    /\ \A i \in 1..Len(plan.orders) :
          /\ plan.orders[i] \in Orders /\ Sound(plan.orders[i], s, nx)
          /\ \A j \in 1..Len(plan.orders) :
                /\ i < j => <<plan.orders[i], plan.orders[j]>> \in InTurn
                /\ Rank(plan.orders[i]) = 1 => Rank(plan.orders[j]) <= 4

\* The orders of a ranked plan are in turn, and each is sound.
LEMMA RankedIs ==
    ASSUME Fillable, NEW s, NEW nx \in Nat, Ranked(plan.orders, s, nx)
    PROVE  InPlan(s, nx)
<1>1. PICK os : os = plan.orders /\ os \in Seq(Orders)
  BY DEF Fillable
<1>2. PICK a \in {1, 2}, c \in {4, 10} : (a = 1 => c = 4) /\ Part(os, s, nx, a, c)
  BY <1>1 DEF Ranked
<1>3. \A i \in 1..Len(os) : os[i] \in Orders /\ Sound(os[i], s, nx) /\ Rank(os[i]) >= a /\ Rank(os[i]) <= c
  BY <1>1, <1>2 DEF Part
<1>4. \A i, j \in 1..Len(os) : i < j => <<os[i], os[j]>> \in InTurn
  BY <1>2 DEF Part, Arranged
<1>5. \A i, j \in 1..Len(os) : Rank(os[i]) = 1 => Rank(os[j]) <= 4
  BY <1>2, <1>3, RankIs
<1>6. OfPlan(nx)
  BY <1>1, <1>3 DEF OfPlan, Sound, Whose
<1> QED BY <1>1, <1>3, <1>4, <1>5, <1>6 DEF InPlan

\* A sale leaves what the orders after it sell.
LEMMA OfferedLater ==
    ASSUME NEW s, NEW v, NEW o, NEW p, NEW n, o.side = "sell", p.side = "sell", Selling(o), Selling(p),
           o.kind # "tp", p.kind # "tp",
           Rank(o) < Rank(p), Rank(o) = 1 => Rank(p) <= 4, Kept(o.kind, s, v), Offered(s, p, n)
    PROVE  Offered(v, p, n)
<1>1. Rank(o) = CASE o.kind = "lev_liq" -> 1
                  [] o.kind = "reduce" -> 2
                  [] o.kind = "tp" -> 3
                  [] o.kind = "lev_strat" -> 6
                  [] o.kind = "lev_tact_exit" -> 9
                  [] OTHER -> 10
  BY DEF Rank
<1>2. Rank(p) = CASE p.kind = "lev_liq" -> 1
                  [] p.kind = "reduce" -> 2
                  [] p.kind = "tp" -> 3
                  [] p.kind = "lev_strat" -> 6
                  [] p.kind = "lev_tact_exit" -> 9
                  [] OTHER -> 10
  BY DEF Rank
<1>3. o.kind \in SellKinds /\ p.kind \in SellKinds
  BY DEF Selling
<1>4. CASE p.kind = "lev_liq"
  <2>1. Rank(p) = 1
    BY <1>2, <1>4
  <2> QED BY <2>1, RankIs
<1>5. CASE p.kind = "reduce"
  <2>1. Rank(p) = 2
    BY <1>2, <1>5
  <2>2. o.kind = "lev_liq"
    BY <1>1, <1>3, <2>1 DEF SellKinds
  <2> QED BY <1>5, <2>2 DEF Kept, Offered
<1>6. CASE p.kind = "lev_strat"
  <2>1. Rank(p) = 6
    BY <1>2, <1>6
  <2>2. o.kind = "reduce"
    BY <1>1, <1>3, <2>1 DEF SellKinds
  <2> QED BY <1>6, <2>2 DEF Kept, Offered
<1>7. CASE p.kind = "lev_tact_exit"
  <2>1. Rank(p) = 9
    BY <1>2, <1>7
  <2>2. o.kind \in {"reduce", "lev_strat"}
    BY <1>1, <1>3, <2>1 DEF SellKinds
  <2> QED BY <1>7, <2>2 DEF Kept, Offered
<1>8. CASE p.kind = "lev_cap"
  BY <1>8 DEF Offered
<1> QED BY <1>3, <1>4, <1>5, <1>6, <1>7, <1>8 DEF SellKinds

\* The sales at the market of a plan, the purchases of leverage, and the account between two of
\* the sales: t the account before, g the shares of the fund sold by a reduction so far.
Sale(o) == o.side = "sell" /\ o.kind # "tp"
NoneOf(u, i) ==
    \A j \in 1..Len(plan.orders) :
        j > i /\ plan.orders[j].side = "buy" /\ plan.orders[j].inst = LEV /\ plan.orders[j].kind \in Tactical =>
            Qty(u.lots, TactLotsOf(plan.orders[j].kind)) = 0
Following(t, u, m) == \A P : Twins(P, m) /\ Paired(t.lots, t.rows, P) => Paired(u.lots, u.rows, P)
Selling1(t, u, i, m, nx, g) ==
    /\ Orderly(u, m, nx) /\ NoneOf(u, 0) /\ Following(t, u, m)
    /\ \A j \in 1..Len(plan.orders) :
          j > i /\ Sale(plan.orders[j]) => Offered(u.lots, plan.orders[j], plan.orders[j].qty)
    /\ \A k \in Nat : Qty(u.lots, FundUpto(k)) = Most(0, Qty(t.lots, FundUpto(k)) - g[i])

\* One order of the first pass.
LEMMA SellStep ==
    ASSUME Fillable, NEW m \in Nat, NEW nx, NEW t, t.lots \in Seq(SimLots), InPlan(t.lots, nx),
           NEW g, Prefix(g, plan.orders, Reduces), NEW b, BarOK(b),
           NEW i \in 1..Len(plan.orders), NEW u, Selling1(t, u, i - 1, m, nx, g),
           NEW v, v = Fill(1, u, plan.orders[i], b)
    PROVE  Selling1(t, v, i, m, nx, g)
<1>1. PICK os, o : os = plan.orders /\ o = os[i]
  OBVIOUS
<1>2. /\ o \in Orders /\ Sound(o, t.lots, nx)
      /\ \A j \in 1..Len(os) : /\ os[j] \in Orders /\ Sound(os[j], t.lots, nx)
                               /\ i < j => <<o, os[j]>> \in InTurn
                               /\ Rank(o) = 1 => Rank(os[j]) <= 4
  BY <1>1 DEF InPlan
<1>3. /\ Orderly(u, m, nx) /\ NoneOf(u, 0) /\ Following(t, u, m)
      /\ \A j \in 1..Len(os) : j > i - 1 /\ Sale(os[j]) => Offered(u.lots, os[j], os[j].qty)
      /\ \A k \in Nat : Qty(u.lots, FundUpto(k)) = Most(0, Qty(t.lots, FundUpto(k)) - g[i - 1])
  BY <1>1 DEF Selling1
<1>4. g[i] = g[i - 1] + (IF o \in Reduces THEN o.qty ELSE 0) /\ g[i - 1] \in Nat
  BY <1>1 DEF Prefix, Fillable
<1>5. CASE ~Is(o, "market", "sell")
  <2>1. v = u
    BY <1>1, <1>5 DEF Fill
  <2>2. o \notin Reduces
    BY <1>2, <1>5 DEF Sound, Is, Reduces, Orders
  <2>3. \A k \in Nat : Qty(u.lots, FundUpto(k)) = Most(0, Qty(t.lots, FundUpto(k)) - g[i])
    BY <1>3, <1>4, <2>2
  <2>4. \A j \in 1..Len(os) : j > i => j > i - 1
    OBVIOUS
  <2> QED BY <1>1, <1>3, <2>1, <2>3, <2>4 DEF Selling1
<1>6. CASE Is(o, "market", "sell")
  <2>1. o.side = "sell" /\ o.type = "market" /\ Selling(o) /\ o.kind # "tp" /\ Sale(o)
    BY <1>2, <1>6 DEF Is, Sound, Sale
  <2>2. PICK q \in Nat, px \in Nat : q = o.qty /\ px = OpenOf(o, b)
    BY <1>2 DEF BarOK, Orders, OpenOf
  <2>3. v = Sell(u, o, q, px)
    BY <1>1, <1>6, <2>2 DEF Fill
  <2>4. i > i - 1 /\ i \in 1..Len(os)
    BY <1>1
  <2>5. Offered(u.lots, o, q)
    BY <1>1, <1>3, <2>1, <2>2, <2>4
  <2>6. Orderly(v, m, nx) /\ SoldFrom(u, v, o, q)
    BY <1>3, <2>1, <2>3, <2>5, SaleKeepsLine
  <2>7. PICK s, w, c : s = u.lots /\ w = u.rows /\ c = v.lots
    OBVIOUS
  <2>8. /\ c = SellLots(s, o, q).lots /\ v.rows = Consume(w, o, q) /\ Kept(o.kind, s, c)
    BY <2>6, <2>7 DEF SoldFrom
  <2>9. s \in Seq(SimLots) /\ w \in Seq(LiveRows(m)) /\ Arranged(s, ById)
    BY <1>3, <2>7 DEF Orderly, Accounts, Level
  <2>10. c \in Seq(SimLots)
    BY <2>6, <2>7 DEF Orderly, Accounts
  <2>11. NoneOf(v, 0)
    <3> SUFFICES ASSUME NEW kind \in Tactical, Qty(s, TactLotsOf(kind)) = 0 PROVE Qty(c, TactLotsOf(kind)) = 0
      BY <1>3, <2>7 DEF NoneOf
    <3>1. Qty(c, TactLotsOf(kind)) <= Qty(s, TactLotsOf(kind))
      BY <2>8 DEF Kept
    <3>2. Qty(c, TactLotsOf(kind)) \in Nat
      BY <2>10, SimLotsCount, QtyNat
    <3> QED BY <3>1, <3>2
  <2>12. Following(t, v, m)
    <3> SUFFICES ASSUME NEW P, Twins(P, m), Paired(t.lots, t.rows, P) PROVE Paired(v.lots, v.rows, P)
      BY DEF Following
    <3>1. Paired(s, w, P)
      BY <1>3, <2>7 DEF Following
    <3>2. Paired(SellLots(s, o, q).lots, Consume(w, o, q), P)
      BY <2>1, <2>5, <2>7, <2>9, <3>1, SalePaired
    <3> QED BY <2>7, <2>8, <3>2
  <2>13. ASSUME NEW j \in 1..Len(os), j > i, Sale(os[j]) PROVE Offered(c, os[j], os[j].qty)
    <3>1. PICK p, n : p = os[j] /\ n = os[j].qty
      OBVIOUS
    <3>2. p.side = "sell" /\ p.kind # "tp" /\ Selling(p) /\ p \in Orders
      BY <1>2, <2>13, <3>1 DEF Sale, Sound
    <3>3. <<o, p>> \in InTurn /\ (Rank(o) = 1 => Rank(p) <= 4)
      BY <1>2, <2>13, <3>1
    <3>4. Rank(o) < Rank(p)
      BY <2>1, <3>3 DEF InTurn, Rank
    <3>5. j > i - 1
      BY <2>13
    <3>6. Offered(s, p, n)
      BY <1>3, <2>7, <2>13, <3>1, <3>5
    <3> QED BY <2>1, <2>8, <3>1, <3>2, <3>3, <3>4, <3>6, OfferedLater
  <2>14. ASSUME NEW k \in Nat PROVE Qty(c, FundUpto(k)) = Most(0, Qty(t.lots, FundUpto(k)) - g[i])
    <3>1. PICK h \in Nat, x \in Nat, y \in Nat : h = Qty(t.lots, FundUpto(k)) /\ x = Qty(s, FundUpto(k)) /\ y = g[i - 1]
      BY <1>4, <2>9, SimLotsCount, QtyNat
    <3>2. x = Most(0, h - y)
      BY <1>3, <2>7, <3>1
    <3>3. CASE o.kind = "reduce"
      <4>1. o \in Reduces
        BY <1>2, <2>1, <3>3 DEF Reduces, Selling
      <4>2. g[i] = y + q
        BY <1>4, <2>2, <3>1, <4>1
      <4>3. Qty(c, FundUpto(k)) = Most(0, x - q)
        BY <2>1, <2>8, <2>9, <3>1, <3>3, SaleUpto
      <4>4. Most(0, x - q) = Most(0, h - (y + q))
        BY <3>2 DEF Most
      <4> QED BY <3>1, <4>2, <4>3, <4>4
    <3>4. CASE o.kind # "reduce"
      <4>1. g[i] = y
        BY <1>4, <3>1, <3>4 DEF Reduces
      <4>2. Qty(c, FundUpto(k)) = x
        BY <2>1, <2>8, <2>9, <3>1, <3>4, SaleUpto
      <4> QED BY <3>1, <3>2, <4>1, <4>2
    <3> QED BY <3>3, <3>4
  <2> QED BY <1>1, <2>6, <2>7, <2>11, <2>12, <2>13, <2>14 DEF Selling1
<1> QED BY <1>5, <1>6

\* The account after the sales at the market.
SoldOut(t, u, m, nx) ==
    /\ Orderly(u, m, nx) /\ NoneOf(u, 0) /\ Following(t, u, m)
    /\ \A k \in Nat : Qty(u.lots, FundUpto(k)) = Most(0, Qty(t.lots, FundUpto(k)) - Qty(plan.orders, Reduces))

\* The first pass.
LEMMA PassOne ==
    ASSUME Fillable, NEW m, m = Len(hist) + 1, NEW nx, NEW t, Orderly(t, m, nx), InPlan(t.lots, nx), NEW b, BarOK(b)
    PROVE  SoldOut(t, Pass(1, t, b), m, nx)
<1>1. PICK n, os : n \in Nat /\ os = plan.orders /\ n = Len(os) /\ os \in Seq(Orders)
  BY DEF Fillable
<1>2. t \in Accounts(m) /\ t.lots \in Seq(SimLots) /\ m \in Nat
  BY DEF Orderly, Accounts, Fillable
<1>3. PICK a : Passing(1, t, b, a) /\ Pass(1, t, b) = a[n]
  BY <1>1, <1>2, PassSteps
<1>4. a[0] = t /\ \A i \in 1..n : a[i] = Fill(1, a[i - 1], plan.orders[i], b)
  BY <1>1, <1>3 DEF Passing
<1>5. PICK g : Prefix(g, os, Reduces)
  BY <1>1, OrdersCount, PrefixExists
<1>6. g[0] = 0 /\ g[n] = Qty(os, Reduces)
  BY <1>1, <1>5 DEF Prefix
<1>7. PICK G : G = {i \in 0..n : Selling1(t, a[i], i, m, nx, g)}
  OBVIOUS
<1>8. 0 \in G
  <2>1. \A j \in 1..n : /\ Sale(os[j]) => Offered(t.lots, os[j], os[j].qty)
                        /\ os[j].side = "buy" /\ os[j].inst = LEV /\ os[j].kind \in Tactical =>
                              Qty(t.lots, TactLotsOf(os[j].kind)) = 0
    BY <1>1 DEF InPlan, Sound, Sale
  <2>2. \A k \in Nat : Qty(t.lots, FundUpto(k)) = Most(0, Qty(t.lots, FundUpto(k)) - g[0])
    <3> TAKE k \in Nat
    <3>1. PICK x \in Nat : x = Qty(t.lots, FundUpto(k))
      BY <1>2, SimLotsCount, QtyNat
    <3> QED BY <1>6, <3>1 DEF Most
  <2>3. NoneOf(t, 0)
    BY <1>1, <2>1 DEF NoneOf
  <2>4. Following(t, t, m)
    BY DEF Following
  <2>5. Selling1(t, t, 0, m, nx, g)
    BY <1>1, <2>1, <2>2, <2>3, <2>4 DEF Selling1
  <2>6. 0 \in 0..n
    BY <1>1
  <2> QED BY <1>4, <1>7, <2>5, <2>6
<1>9. \A i \in 1..n : i - 1 \in G => i \in G
  <2> SUFFICES ASSUME NEW i \in 1..n, i - 1 \in G PROVE i \in G
    OBVIOUS
  <2>1. PICK u, v : u = a[i - 1] /\ v = a[i]
    OBVIOUS
  <2>2. v = Fill(1, u, plan.orders[i], b) /\ Selling1(t, u, i - 1, m, nx, g) /\ Prefix(g, plan.orders, Reduces)
        /\ i \in 1..Len(plan.orders)
    BY <1>1, <1>4, <1>5, <1>7, <2>1
  <2>3. Selling1(t, v, i, m, nx, g)
    BY <1>2, <2>2, SellStep
  <2> QED BY <1>7, <2>1, <2>3
<1>10. \A i \in 0..n : i \in G
  BY <1>1, <1>8, <1>9, PlacesAll
<1>11. n \in 0..n
  BY <1>1
<1>12. Selling1(t, a[n], n, m, nx, g)
  BY <1>7, <1>10, <1>11
<1> QED BY <1>1, <1>3, <1>6, <1>12 DEF Selling1, SoldOut

\* The account between two purchases of a pass, t the account before; those of leverage are all
\* made in the second pass.
Buying(n, t, u, i, m, nx) ==
    /\ Orderly(u, m, nx) /\ Following(t, u, m) /\ (n = 2 => NoneOf(u, i))
    /\ \A k \in Nat : k < nx => Qty(u.lots, FundUpto(k)) = Qty(t.lots, FundUpto(k))

\* One order of the second or third pass; s are the lots the plan is made for.
LEMMA BuyStep ==
    ASSUME Fillable, NEW m, m = Len(hist) + 1, NEW nx, NEW s, InPlan(s, nx), NEW t, NEW b, BarOK(b), NEW n \in {2, 3},
           NEW i \in 1..Len(plan.orders), NEW u, Buying(n, t, u, i - 1, m, nx),
           NEW v, v = Fill(n, u, plan.orders[i], b)
    PROVE  Buying(n, t, v, i, m, nx)
<1>1. PICK os, o : os = plan.orders /\ o = os[i]
  OBVIOUS
<1>2. /\ o \in Orders /\ Sound(o, s, nx) /\ OfPlan(nx)
      /\ \A j \in 1..Len(os) : os[j] \in Orders /\ (i < j => <<o, os[j]>> \in InTurn)
  BY <1>1 DEF InPlan
<1>3. /\ Orderly(u, m, nx) /\ Following(t, u, m) /\ (n = 2 => NoneOf(u, i - 1))
      /\ \A k \in Nat : k < nx => Qty(u.lots, FundUpto(k)) = Qty(t.lots, FundUpto(k))
  BY DEF Buying
<1>4. CASE v = u
  <2>1. NoneOf(u, i - 1) => NoneOf(u, i)
    BY DEF NoneOf, Fillable
  <2> QED BY <1>3, <1>4, <2>1 DEF Buying
<1>5. CASE v # u
  <2>1. PICK px \in Nat : v = Buy(u, o, px) /\ o.side = "buy" /\ (n = 3 => o.type = "limit")
    <3>1. OpenOf(o, b) \in Nat /\ Least(b.open, o.price) \in Nat
      BY <1>2 DEF BarOK, Orders, OpenOf, Least
    <3>2. n = 2 => Fill(n, u, o, b) = u \/ (Fill(n, u, o, b) = Buy(u, o, OpenOf(o, b)) /\ o.side = "buy")
      BY DEF Fill, Is
    <3>3. n = 3 => Fill(n, u, o, b) = u \/ (/\ Fill(n, u, o, b) = Buy(u, o, Least(b.open, o.price))
                                            /\ o.side = "buy" /\ o.type = "limit")
      BY DEF Fill, Is
    <3> QED BY <1>1, <1>5, <3>1, <3>2, <3>3
  <2>2. o.inst = LEV => n = 2
    BY <1>2, <2>1 DEF Sound
  <2>3. o.inst = LEV /\ o.kind \in Tactical => Qty(u.lots, TactLotsOf(o.kind)) = 0
    <3>1. i > i - 1 /\ i \in 1..Len(os)
      BY <1>1 DEF Fillable
    <3> QED BY <1>1, <1>3, <2>1, <2>2, <3>1 DEF NoneOf
  <2>4. /\ Orderly(v, m, nx) /\ BoughtBy(u, v, o, nx)
        /\ \A P : Twins(P, m) /\ Paired(u.lots, u.rows, P) => Paired(v.lots, v.rows, P)
    BY <1>2, <1>3, <2>1, <2>3, BuyKeepsLine
  <2>5. Following(t, v, m)
    BY <1>3, <2>4 DEF Following
  <2>6. \A k \in Nat : k < nx => Qty(v.lots, FundUpto(k)) = Qty(t.lots, FundUpto(k))
    BY <1>3, <2>4 DEF BoughtBy
  <2>7. ASSUME n = 2 PROVE NoneOf(v, i)
    <3> SUFFICES ASSUME NEW j \in 1..Len(os), j > i, os[j].side = "buy", os[j].inst = LEV, os[j].kind \in Tactical
        PROVE Qty(v.lots, TactLotsOf(os[j].kind)) = 0
      BY <1>1 DEF NoneOf
    <3>1. <<o, os[j]>> \in InTurn
      BY <1>2
    <3>2. PICK p : p = os[j]
      OBVIOUS
    <3>3. ~(o.inst = LEV /\ o.kind = p.kind)
      <4> SUFFICES ASSUME o.inst = LEV, o.kind = p.kind PROVE FALSE
        OBVIOUS
      <4>1. Rank(o) = Rank(p) /\ Rank(o) \in {7, 8}
        <5>1. Rank(o) = CASE o.kind = "lev_strat" -> 5
                          [] o.kind = "lev_tact1" -> 7
                          [] OTHER -> 8
          BY <2>1, Instruments DEF Rank
        <5>2. Rank(p) = CASE p.kind = "lev_strat" -> 5
                          [] p.kind = "lev_tact1" -> 7
                          [] OTHER -> 8
          BY <3>2, Instruments DEF Rank
        <5> QED BY <3>2, <5>1, <5>2 DEF Tactical
      <4> QED BY <3>1, <3>2, <4>1 DEF InTurn
    <3>4. j > i - 1
      BY DEF Fillable
    <3>5. Qty(u.lots, TactLotsOf(p.kind)) = 0
      BY <1>1, <1>3, <2>7, <3>2, <3>4 DEF NoneOf
    <3>6. o.inst # LEV \/ o.kind # p.kind
      BY <3>3
    <3>7. p.kind \in Tactical
      BY <3>2
    <3> QED BY <2>4, <3>2, <3>5, <3>6, <3>7 DEF BoughtBy
  <2> QED BY <2>4, <2>5, <2>6, <2>7 DEF Buying
<1> QED BY <1>4, <1>5

\* The second and the third pass.
LEMMA PassBuys ==
    ASSUME Fillable, NEW m, m = Len(hist) + 1, NEW nx, NEW s, InPlan(s, nx), NEW b, BarOK(b), NEW n \in {2, 3},
           NEW t, Orderly(t, m, nx), n = 2 => NoneOf(t, 0), NEW v, v = Pass(n, t, b)
    PROVE  /\ Orderly(v, m, nx) /\ Following(t, v, m)
           /\ \A k \in Nat : k < nx => Qty(v.lots, FundUpto(k)) = Qty(t.lots, FundUpto(k))
<1>1. PICK e, os : e \in Nat /\ os = plan.orders /\ e = Len(os) /\ os \in Seq(Orders)
  BY DEF Fillable
<1>2. t \in Accounts(m)
  BY DEF Orderly
<1>3. PICK a : Passing(n, t, b, a) /\ Pass(n, t, b) = a[e]
  BY <1>1, <1>2, PassSteps
<1>4. a[0] = t /\ \A i \in 1..e : a[i] = Fill(n, a[i - 1], plan.orders[i], b)
  BY <1>1, <1>3 DEF Passing
<1>5. PICK G : G = {i \in 0..e : Buying(n, t, a[i], i, m, nx)}
  OBVIOUS
<1>6. 0 \in G
  <2>1. Following(t, t, m)
    BY DEF Following
  <2>2. Buying(n, t, t, 0, m, nx)
    BY <2>1 DEF Buying
  <2>3. 0 \in 0..e
    BY <1>1
  <2> QED BY <1>4, <1>5, <2>2, <2>3
<1>7. \A i \in 1..e : i - 1 \in G => i \in G
  <2> SUFFICES ASSUME NEW i \in 1..e, i - 1 \in G PROVE i \in G
    OBVIOUS
  <2>1. PICK u, c : u = a[i - 1] /\ c = a[i]
    OBVIOUS
  <2>2. c = Fill(n, u, plan.orders[i], b) /\ Buying(n, t, u, i - 1, m, nx) /\ i \in 1..Len(plan.orders)
    BY <1>1, <1>4, <1>5, <2>1
  <2>3. Buying(n, t, c, i, m, nx)
    BY <2>2, BuyStep
  <2> QED BY <1>5, <2>1, <2>3
<1>8. \A i \in 0..e : i \in G
  BY <1>1, <1>6, <1>7, PlacesAll
<1>9. e \in 0..e
  BY <1>1
<1>10. Buying(n, t, a[e], e, m, nx)
  BY <1>5, <1>8, <1>9
<1> QED BY <1>3, <1>10 DEF Buying

\* The account bought: what is left of the lots of the plan is what its reduction has left.
LEMMA Purchases ==
    ASSUME Fillable, NEW m, m = Len(hist) + 1, NEW nx, NEW t, Orderly(t, m, nx), InPlan(t.lots, nx), NEW b, BarOK(b),
           NEW v, v = Pass(3, Pass(2, Pass(1, t, b), b), b)
    PROVE  /\ Orderly(v, m, nx) /\ Following(t, v, m)
           /\ \A k \in Nat : k < nx => Qty(v.lots, FundUpto(k)) = Most(0, Qty(t.lots, FundUpto(k)) - Qty(plan.orders, Reduces))
<1>1. PICK x, y : x = Pass(1, t, b) /\ y = Pass(2, x, b)
  OBVIOUS
<1>2. SoldOut(t, x, m, nx)
  BY <1>1, PassOne
<1>3. /\ Orderly(x, m, nx) /\ NoneOf(x, 0) /\ Following(t, x, m)
      /\ \A k \in Nat : Qty(x.lots, FundUpto(k)) = Most(0, Qty(t.lots, FundUpto(k)) - Qty(plan.orders, Reduces))
  BY <1>2 DEF SoldOut
<1>4. /\ Orderly(y, m, nx) /\ Following(x, y, m)
      /\ \A k \in Nat : k < nx => Qty(y.lots, FundUpto(k)) = Qty(x.lots, FundUpto(k))
  BY <1>1, <1>3, PassBuys
<1>5. v = Pass(3, y, b)
  BY <1>1
<1>6. /\ Orderly(v, m, nx) /\ Following(y, v, m)
      /\ \A k \in Nat : k < nx => Qty(v.lots, FundUpto(k)) = Qty(y.lots, FundUpto(k))
  BY <1>4, <1>5, PassBuys
<1>7. Following(t, v, m)
  BY <1>3, <1>4, <1>6 DEF Following
<1> QED BY <1>3, <1>4, <1>6, <1>7

\* One record is all that is counted.
LEMMA QtySingle ==
    ASSUME NEW X, Counting(X), NEW s \in Seq(X), NEW R, NEW p \in 1..Len(s), s[p] \in R,
           \A i \in 1..Len(s) : s[i] \in R => i = p
    PROVE  Qty(s, R) = s[p].qty
<1>1. PICK f, S : f = QtyAt(s, R) /\ S = 1..Len(s)
  OBVIOUS
<1>2. IsFiniteSet(S) /\ p \in S /\ f[p] = s[p].qty /\ f[p] \in Int /\ \A i \in S \ {p} : f[i] = 0
  BY <1>1, QtyTerms DEF QtyAt
<1>3. SumOver(f, S) = f[p]
  <2>1. IsFiniteSet(S) /\ p \in S /\ f[p] \in Int
    BY <1>2
  <2>2. \A y \in S \ {p} : f[y] = 0
    BY <1>2
  <2>3. IsFiniteSet(S \ {p})
    BY <2>1, FS_RemoveElement
  <2>4. SumOver(f, S \ {p}) = 0
    BY <2>2, <2>3, SumZero
  <2>5. Integral(f, S)
    BY <2>1, <2>2 DEF Integral
  <2> QED BY <2>1, <2>4, <2>5, SumTaken
<1> QED BY <1>1, <1>2, <1>3, QtyIs

\* Where nothing more is counted all is counted.
LEMMA PrefixDone ==
    ASSUME NEW X, NEW s \in Seq(X), NEW R, NEW f, Prefix(f, s, R), NEW i \in 1..Len(s),
           \A j \in 1..Len(s) : j >= i => s[j] \notin R
    PROVE  f[i - 1] = Qty(s, R)
<1>1. PICK n \in Nat : n = Len(s)
  OBVIOUS
<1>2. /\ f[n] = Qty(s, R) /\ \A j \in 0..n : f[j] \in Nat
      /\ \A j \in 1..n : f[j] = f[j - 1] + IF s[j] \in R THEN s[j].qty ELSE 0
  BY <1>1 DEF Prefix
<1>3. PICK G : G = {j \in 0..n : j >= i - 1 => f[j] = f[i - 1]}
  OBVIOUS
<1>4. 0 \in G
  BY <1>1, <1>3
<1>5. \A j \in 1..n : j - 1 \in G => j \in G
  <2> SUFFICES ASSUME NEW j \in 1..n, j - 1 \in G, j >= i - 1 PROVE f[j] = f[i - 1]
    BY <1>3
  <2>1. CASE j = i - 1
    BY <2>1
  <2>2. CASE j # i - 1
    <3>1. j >= i /\ j - 1 >= i - 1
      BY <1>1, <2>2
    <3>2. f[j - 1] = f[i - 1]
      BY <1>3, <3>1
    <3>3. s[j] \notin R
      BY <1>1, <3>1
    <3>4. f[j - 1] \in Nat
      BY <1>2
    <3> QED BY <1>2, <3>2, <3>3, <3>4
  <2> QED BY <2>1, <2>2
<1>6. \A j \in 0..n : j \in G
  BY <1>4, <1>5, PlacesAll
<1>7. n \in 0..n /\ n >= i - 1
  BY <1>1
<1> QED BY <1>2, <1>3, <1>6, <1>7

\* Numbers ascend with the places.
LEMMA PlacesById ==
    ASSUME NEW s \in Seq(SimLots), Arranged(s, ById)
    PROVE  \A p, q \in 1..Len(s) : /\ s[p].id \in Nat \ {0} /\ (p < q => s[p].id < s[q].id)
                                   /\ (s[p].id = s[q].id => p = q)
<1>1. \A p, q \in 1..Len(s) : s[p].id \in Nat \ {0} /\ (p < q => s[p].id < s[q].id)
  <2> TAKE p, q \in 1..Len(s)
  <2>1. s[p] \in SimLots
    OBVIOUS
  <2>2. s[p].id \in Nat \ {0}
    BY <2>1 DEF SimLots
  <2>3. p < q => <<s[p], s[q]>> \in ById
    BY DEF Arranged
  <2> QED BY <2>2, <2>3 DEF ById
<1>2. \A p, q \in 1..Len(s) : p < q \/ p = q \/ q < p
  OBVIOUS
<1> QED BY <1>1, <1>2

\* What a take-profit does in the fourth pass: nothing, or it sells n shares of the lot at p.
Fires(u, o, b, p) ==
    /\ o.side = "sell" /\ o.type = "limit" /\ b.high >= o.price /\ p \in 1..Len(u.lots) /\ u.lots[p].id = o.lot
FiredAt(u, v, o, b, p, n, px) ==
    /\ Fires(u, o, b, p) /\ v = Sell(u, o, n, px) /\ n = Least(o.qty, u.lots[p].qty) /\ n \in Nat /\ px \in Nat
    /\ o.kind = "tp" /\ Selling(o) /\ u.lots[p].inst = K200 /\ Offered(u.lots, o, n)

\* A take-profit in the fourth pass does nothing, or sells of a lot of its number.
LEMMA TpFires ==
    ASSUME Fillable, NEW m, NEW nx, NEW s, InPlan(s, nx), NEW b, BarOK(b), NEW i \in 1..Len(plan.orders),
           NEW o, o = plan.orders[i], NEW u, Orderly(u, m, nx), NEW v, v = Fill(4, u, o, b)
    PROVE  \/ v = u /\ \A p : ~Fires(u, o, b, p)
           \/ \E p, n, px : FiredAt(u, v, o, b, p, n, px)
<1>1. o \in Orders /\ Sound(o, s, nx)
  BY DEF InPlan
<1>2. u.lots \in Seq(SimLots) /\ u.lots \in Seq(Offerable(u.next)) /\ u \in Accounts(m) /\ Arranged(u.lots, ById)
  BY DEF Orderly, Accounts
<1>3. CASE \A p : ~Fires(u, o, b, p)
  <2>1. ~(Is(o, "limit", "sell") /\ b.high >= o.price /\ (\E l \in Range(u.lots) : l.id = o.lot))
    BY <1>3 DEF Fires, Is, Range
  <2>2. v = u
    BY <2>1 DEF Fill
  <2> QED BY <1>3, <2>2
<1>4. CASE ~ \A p : ~Fires(u, o, b, p)
  <2>1. PICK d : Fires(u, o, b, d)
    BY <1>4
  <2>2. Is(o, "limit", "sell") /\ b.high >= o.price /\ (\E l \in Range(u.lots) : l.id = o.lot)
    BY <2>1 DEF Fires, Is, Range
  <2>3. PICK lot : lot = CHOOSE l \in Range(u.lots) : l.id = o.lot
    OBVIOUS
  <2>4. lot \in Range(u.lots) /\ lot.id = o.lot
    BY <2>2, <2>3
  <2>5. PICK p \in 1..Len(u.lots) : u.lots[p] = lot
    BY <2>4 DEF Range
  <2>6. lot \in SimLots /\ lot \in Offerable(u.next)
    BY <1>2, <2>5
  <2>7. Selling(o) /\ o.kind = "tp" /\ o.side = "sell"
    BY <1>1, <2>2 DEF Sound, Is
  <2>8. lot.inst = K200
    BY <2>4, <2>6, <2>7 DEF Offerable
  <2>9. lot.qty \in Nat /\ o.qty \in Nat
    BY <1>1, <2>6 DEF SimLots, Orders
  <2>10. PICK n \in Nat, px \in Nat : n = Least(o.qty, lot.qty) /\ px = Most(b.open, o.price)
    BY <1>1, <2>9 DEF Least, Most, BarOK, Orders
  <2>11. v = Sell(u, o, n, px)
    BY <2>2, <2>3, <2>10 DEF Fill, Is
  <2>12. Offered(u.lots, o, n)
    <3>1. \A q \in 1..Len(u.lots) : u.lots[q].id = o.lot => u.lots[q].inst = K200
      <4>1. \A q \in 1..Len(u.lots) : u.lots[q] \in Offerable(u.next)
        BY <1>2
      <4> QED BY <2>7, <4>1 DEF Offerable
    <3>2. u.lots[p] \in NamedLots(o.lot)
      BY <2>4, <2>5, <2>6, <2>8 DEF NamedLots, FundLots
    <3>3. PICK R : R = NamedLots(o.lot)
      OBVIOUS
    <3>4. u.lots[p].qty <= Qty(u.lots, R) /\ Qty(u.lots, R) \in Nat
      BY <1>2, <2>5, <3>2, <3>3, SimLotsCount, QtyNat
    <3>5. n <= Qty(u.lots, R)
      BY <2>5, <2>9, <2>10, <3>4 DEF Least
    <3> QED BY <2>7, <3>1, <3>3, <3>5 DEF Offered
  <2>13. FiredAt(u, v, o, b, p, n, px)
    <3>1. Fires(u, o, b, p)
      BY <2>1, <2>4, <2>5 DEF Fires
    <3> QED BY <2>5, <2>7, <2>8, <2>10, <2>11, <2>12, <3>1 DEF FiredAt
  <2> QED BY <2>13
<1> QED BY <1>3, <1>4

\* Lots that have the price of their tag, and are offered at no other.
OnTag == {l \in SimLots : ~OffTag(l)}

\* Such lots are sold like the others, and stay such.
LEMMA OnTagIs ==
    /\ Lotted(OnTag) /\ SteadyPairs(OnTag, ById) /\ OnTag \subseteq SimLots
    /\ \A l \in OnTag : l.tp = l.tag /\ \A i \in 1..Len(plan.orders) :
          plan.orders[i].lot = l.id => plan.orders[i].price = l.tp
<1>1. Lotted(OnTag)
  <2> SUFFICES ASSUME NEW l \in OnTag PROVE l.qty \in Nat \ {0} /\ \A q \in Nat \ {0} : [l EXCEPT !.qty = q] \in OnTag
    BY DEF Lotted
  <2>1. l \in SimLots /\ l.qty \in Nat \ {0}
    BY DEF OnTag, SimLots
  <2>2. ASSUME NEW q \in Nat \ {0} PROVE [l EXCEPT !.qty = q] \in OnTag
    <3>1. PICK c : c = [l EXCEPT !.qty = q]
      OBVIOUS
    <3>2. c \in SimLots /\ c.id = l.id /\ c.tp = l.tp /\ c.tag = l.tag
      BY <2>1, <3>1, SimLotsLotted
    <3> QED BY <3>1, <3>2 DEF OnTag, OffTag
  <2> QED BY <2>1, <2>2
<1>2. OnTag \subseteq SimLots
  BY DEF OnTag
<1>3. SteadyPairs(OnTag, ById)
  BY <1>2, ByIdSteady DEF SteadyPairs
<1>4. ASSUME NEW l \in OnTag
      PROVE l.tp = l.tag /\ \A i \in 1..Len(plan.orders) : plan.orders[i].lot = l.id => plan.orders[i].price = l.tp
  BY DEF OnTag, OffTag, Range
<1> QED BY <1>1, <1>2, <1>3, <1>4

\* The lots of a number whose price is reached at h, and what is still owed of them after i orders:
\* none is left, or what the take-profits after those offer of them. D counts what they offer.
Ripe(id, h) == {l \in NamedLots(id) : l.tp <= h}
Tracked(D, nx) == \A id \in 1..(nx - 1) : Prefix(D[id], plan.orders, TpsOf(id))
Owed(u, id, i, D, h) ==
    \/ Qty(u.lots, Ripe(id, h)) = 0
    \/ Qty(u.lots, Ripe(id, h)) + D[id][i] = Qty(plan.orders, TpsOf(id))
Offers3 == \E j \in 1..Len(plan.orders) : Rank(plan.orders[j]) = 3
Clean(t, u, i, m, nx, D, h) ==
    /\ u.lots \in Seq(OnTag) /\ Following(t, u, m)
    /\ Offers3 => \A id \in 1..(nx - 1) : Owed(u, id, i, D, h)

\* What is ripe does not depend on quantities.
LEMMA RipeSteady == \A id, h : Steady(SimLots, Ripe(id, h))
<1> SUFFICES ASSUME NEW id, NEW h, NEW l \in SimLots, NEW q \in Nat \ {0}
    PROVE [l EXCEPT !.qty = q] \in Ripe(id, h) <=> l \in Ripe(id, h)
  BY DEF Steady
<1>1. PICK c : c = [l EXCEPT !.qty = q]
  OBVIOUS
<1>2. c \in SimLots /\ c.id = l.id /\ c.inst = l.inst /\ c.tp = l.tp
  BY <1>1, SimLotsLotted
<1> QED BY <1>1, <1>2 DEF Ripe, NamedLots, FundLots

\* What is offered of a lot is counted order by order.
LEMMA TrackedStep ==
    ASSUME Fillable, NEW nx \in Nat, NEW D, Tracked(D, nx), NEW id \in 1..(nx - 1), NEW i \in 1..Len(plan.orders)
    PROVE  /\ D[id][i - 1] \in Nat
           /\ D[id][i] = D[id][i - 1] + IF plan.orders[i] \in TpsOf(id) THEN plan.orders[i].qty ELSE 0
<1>1. Prefix(D[id], plan.orders, TpsOf(id))
  BY DEF Tracked
<1>2. i - 1 \in 0..Len(plan.orders)
  BY DEF Fillable
<1> QED BY <1>1, <1>2 DEF Prefix

\* An order that sells nothing leaves the account as it was.
LEMMA NotFired ==
    ASSUME Fillable, NEW m \in Nat, NEW nx, NEW s, InPlan(s, nx), NEW b, BarOK(b), NEW D, Tracked(D, nx), NEW t,
           NEW i \in 1..Len(plan.orders), NEW o, o = plan.orders[i], NEW u, Clean(t, u, i - 1, m, nx, D, b.high),
           \A p : ~Fires(u, o, b, p)
    PROVE  Clean(t, u, i, m, nx, D, b.high)
<1>1. PICK w, h : w = u.lots /\ h = b.high /\ h \in Nat
  BY DEF BarOK
<1>2. w \in Seq(OnTag) /\ w \in Seq(SimLots)
  BY <1>1, OnTagIs DEF Clean
<1>3. nx \in Nat /\ o \in Orders /\ Sound(o, s, nx)
  BY DEF InPlan
<1>4. ASSUME NEW id \in 1..(nx - 1), Owed(u, id, i - 1, D, h) PROVE Owed(u, id, i, D, h)
  <2>1. D[id][i - 1] \in Nat /\ D[id][i] = D[id][i - 1] + IF o \in TpsOf(id) THEN o.qty ELSE 0
    BY <1>3, TrackedStep
  <2>2. CASE o \notin TpsOf(id)
    BY <1>4, <2>1, <2>2 DEF Owed
  <2>3. CASE o \in TpsOf(id)
    <3>1. o.side = "sell" /\ o.type = "limit" /\ o.lot = id
      BY <2>3 DEF TpsOf
    <3>2. ASSUME NEW p \in 1..Len(w), w[p] \in Ripe(id, h) PROVE FALSE
      <4>1. w[p].id = id /\ w[p].tp <= h
        BY <3>2 DEF Ripe, NamedLots
      <4>2. w[p] \in OnTag
        BY <1>2
      <4>3. o.price = w[p].tp
        BY <3>1, <4>1, <4>2, OnTagIs
      <4>4. o.price \in Nat
        BY <1>3 DEF Orders
      <4>5. Fires(u, o, b, p)
        BY <1>1, <3>1, <4>1, <4>3, <4>4 DEF Fires
      <4> QED BY <4>5
    <3>3. PICK R : R = Ripe(id, h)
      OBVIOUS
    <3>4. Qty(w, R) = 0
      BY <1>2, <3>2, <3>3, SimLotsCount, QtyNone
    <3> QED BY <1>1, <3>3, <3>4 DEF Owed
  <2> QED BY <2>2, <2>3
<1> QED BY <1>1, <1>4 DEF Clean

\* A take-profit that is filled finds the row of its lot: the lots before it that have its price
\* are gone.
LEMMA FiredAims ==
    ASSUME Fillable, NEW m \in Nat, NEW nx, NEW s, InPlan(s, nx), NEW b, BarOK(b), NEW D, Tracked(D, nx), NEW t,
           NEW i \in 1..Len(plan.orders), NEW o, o = plan.orders[i], NEW u, Clean(t, u, i - 1, m, nx, D, b.high),
           Orderly(u, m, nx), NEW v, NEW p, NEW n, NEW px, FiredAt(u, v, o, b, p, n, px)
    PROVE  Aimed(u.lots, o, n, p) /\ Rank(o) = 3 /\ o.lot \in 1..(nx - 1) /\ o \in TpsOf(o.lot)
<1>1. PICK w, h : w = u.lots /\ h = b.high /\ h \in Nat
  BY DEF BarOK
<1>2. w \in Seq(OnTag) /\ w \in Seq(SimLots) /\ Arranged(w, ById)
  BY <1>1, OnTagIs DEF Clean, Orderly
<1>3. nx \in Nat /\ o \in Orders /\ Sound(o, s, nx)
  BY DEF InPlan
<1>4. /\ o.side = "sell" /\ o.type = "limit" /\ h >= o.price /\ p \in 1..Len(w) /\ w[p].id = o.lot
      /\ n = Least(o.qty, w[p].qty) /\ n \in Nat /\ o.kind = "tp" /\ Selling(o) /\ w[p].inst = K200
  BY <1>1 DEF FiredAt, Fires
<1>5. w[p] \in OnTag /\ w[p] \in SimLots
  BY <1>2, <1>4
<1>6. w[p].tp = o.price
  BY <1>4, <1>5, OnTagIs
<1>7. w[p].qty \in Nat /\ o.qty \in Nat /\ w[p].id \in Nat \ {0}
  BY <1>3, <1>5 DEF SimLots, Orders
<1>8. w[p].qty >= n
  BY <1>4, <1>7 DEF Least
<1>9. \A j \in 1..Len(w) : w[j].tp = w[j].tag
  BY <1>2, OnTagIs
<1>10. Rank(o) = 3
  <2>1. Rank(o) = CASE o.kind = "lev_liq" -> 1
                    [] o.kind = "reduce" -> 2
                    [] o.kind = "tp" -> 3
                    [] o.kind = "lev_strat" -> 6
                    [] o.kind = "lev_tact_exit" -> 9
                    [] OTHER -> 10
    BY <1>4 DEF Rank
  <2> QED BY <1>4, <2>1
<1>11. o.lot < nx /\ o.lot \in 1..(nx - 1)
  BY <1>3, <1>4, <1>7 DEF Sound, Whose
<1>12. o \in TpsOf(o.lot)
  BY <1>3, <1>4 DEF TpsOf, Selling
<1>13. ASSUME NEW q \in 1..Len(w), q < p, w[q].inst = K200, w[q].tp = o.price PROVE FALSE
  <2>1. PICK id : id = w[q].id
    OBVIOUS
  <2>2. id \in Nat \ {0} /\ id < o.lot
    BY <1>2, <1>4, <1>13, <2>1, PlacesById
  <2>3. id \in 1..(nx - 1)
    BY <1>3, <1>11, <2>2
  <2>4. w[q] \in SimLots /\ w[q].qty \in Nat \ {0}
    <3>1. w[q] \in SimLots
      BY <1>2
    <3> QED BY <3>1 DEF SimLots
  <2>5. PICK R : R = Ripe(id, h)
    OBVIOUS
  <2>6. w[q] \in R
    BY <1>4, <1>13, <2>1, <2>4, <2>5 DEF Ripe, NamedLots, FundLots
  <2>7. Qty(w, R) \in Nat /\ w[q].qty <= Qty(w, R)
    BY <1>2, <2>6, SimLotsCount, QtyNat
  <2>8. Owed(u, id, i - 1, D, h)
    <3>1. Offers3
      BY <1>10 DEF Offers3
    <3> QED BY <1>1, <2>3, <3>1 DEF Clean
  <2>9. Qty(w, R) + D[id][i - 1] = Qty(plan.orders, TpsOf(id))
    BY <1>1, <2>4, <2>5, <2>7, <2>8 DEF Owed
  <2>10. \A j \in 1..Len(plan.orders) : j >= i => plan.orders[j] \notin TpsOf(id)
    <3> SUFFICES ASSUME NEW j \in 1..Len(plan.orders), j >= i, plan.orders[j] \in TpsOf(id) PROVE FALSE
      OBVIOUS
    <3>1. PICK r : r = plan.orders[j]
      OBVIOUS
    <3>2. r.lot = id /\ r \in TpsOf(id)
      BY <3>1 DEF TpsOf
    <3>3. CASE j = i
      BY <2>2, <3>1, <3>2, <3>3
    <3>4. CASE j # i
      <4>1. i < j
        BY <3>4
      <4>2. <<o, r>> \in InTurn
        BY <3>1, <4>1 DEF InPlan
      <4>3. Rank(r) = 3
        <5>1. <<r, r>> \in InTurn /\ Rank(r) = 3
          BY <2>2, <3>2, TpsInTurn
        <5> QED BY <5>1
      <4>4. o.lot <= r.lot
        BY <1>10, <4>2, <4>3 DEF InTurn
      <4> QED BY <1>11, <2>2, <3>2, <4>4
    <3> QED BY <3>3, <3>4
  <2>11. Prefix(D[id], plan.orders, TpsOf(id))
    BY <2>3 DEF Tracked
  <2>12. D[id][i - 1] = Qty(plan.orders, TpsOf(id))
    <3>1. plan.orders \in Seq(Orders)
      BY DEF Fillable
    <3> QED BY <2>10, <2>11, <3>1, PrefixDone
  <2>13. D[id][i - 1] \in Nat
    BY <1>3, <2>3, TrackedStep
  <2> QED BY <2>4, <2>7, <2>9, <2>12, <2>13
<1>14. Aimed(w, o, n, p)
  BY <1>4, <1>6, <1>8, <1>9, <1>13 DEF Aimed
<1> QED BY <1>1, <1>10, <1>11, <1>12, <1>14

\* A take-profit as it is filled: the order i of the plan, from the lot at p of lots w.
TpFilled(i, o, u, v, w, n, p, h) ==
    /\ o = plan.orders[i] /\ o \in TpsOf(o.lot) /\ o.kind = "tp" /\ o.price <= h
    /\ w = u.lots /\ Arranged(w, ById) /\ Aimed(w, o, n, p) /\ n = Least(o.qty, w[p].qty)
    /\ v.lots = SellLots(w, o, n).lots

\* What is owed of the lots after a take-profit is filled.
LEMMA FiredOwes ==
    ASSUME Fillable, NEW nx \in Nat, NEW D, Tracked(D, nx), NEW h \in Nat,
           NEW i \in 1..Len(plan.orders), NEW o \in Orders, NEW u, NEW v, NEW w \in Seq(SimLots),
           NEW n \in Nat, NEW p, TpFilled(i, o, u, v, w, n, p, h), NEW id \in 1..(nx - 1), Owed(u, id, i - 1, D, h)
    PROVE  Owed(v, id, i, D, h)
<1>0. /\ o = plan.orders[i] /\ o \in TpsOf(o.lot) /\ o.kind = "tp" /\ o.price <= h
      /\ w = u.lots /\ Arranged(w, ById) /\ Aimed(w, o, n, p) /\ n = Least(o.qty, w[p].qty)
      /\ v.lots = SellLots(w, o, n).lots
  BY DEF TpFilled
<1>1. PICK c, R : c = v.lots /\ R = Aims(w, o)
  OBVIOUS
<1>2. c = Take(w, n, R).lots
  BY <1>0, <1>1, SellLotsIs
<1>3. \A j \in 1..Len(w) : w[j] \in SimLots /\ (w[j] \in R <=> w[j].id = o.lot)
  <2>1. \A j \in 1..Len(w) : w[j] \in SimLots /\ w[j] \in Range(w)
    BY <1>0 DEF Range
  <2> QED BY <1>0, <1>1, <2>1 DEF Aims
<1>4. p \in 1..Len(w) /\ w[p].id = o.lot /\ w[p].tp = o.price /\ w[p].inst = K200
  BY <1>0 DEF Aimed
<1>5. PICK A, T : A = Ripe(id, h) /\ Steady(SimLots, A) /\ T = Qty(plan.orders, TpsOf(id))
  BY <1>0, RipeSteady
<1>6. \A j \in 1..Len(w) : w[j] \in A => w[j].id = id
  BY <1>0, <1>5 DEF Ripe, NamedLots
<1>7. PICK x, y, q : x = D[id][i - 1] /\ y = D[id][i] /\ q = o.qty
  OBVIOUS
<1>8. x \in Nat /\ q \in Nat /\ y = x + IF o \in TpsOf(id) THEN q ELSE 0
  <2>1. /\ D[id][i - 1] \in Nat
        /\ D[id][i] = D[id][i - 1] + IF plan.orders[i] \in TpsOf(id) THEN plan.orders[i].qty ELSE 0
    BY TrackedStep, SMTT(30)
  <2>2. o.qty \in Nat
    BY DEF Orders
  <2> QED BY <1>0, <1>7, <2>1, <2>2
<1>9. Qty(w, A) \in Nat
  BY <1>0, SimLotsCount, QtyNat
<1>10. Qty(w, A) = 0 \/ Qty(w, A) + x = T
  BY <1>0, <1>5, <1>7 DEF Owed
<1>11. CASE id # o.lot
  <2>1. \A j \in 1..Len(w) : w[j] \in A => w[j] \notin R
    BY <1>0, <1>3, <1>6, <1>11
  <2>2. Qty(c, A) = Qty(w, A)
    BY <1>2, <1>5, <2>1, SimLotsLotted, TakeOther
  <2>3. y = x
    BY <1>0, <1>8, <1>11 DEF TpsOf
  <2> QED BY <1>0, <1>1, <1>5, <1>7, <1>10, <2>2, <2>3 DEF Owed
<1>12. CASE id = o.lot
  <2>1. w[p] \in A
    BY <1>0, <1>3, <1>4, <1>5, <1>12 DEF Ripe, NamedLots, FundLots
  <2>2. \A j \in 1..Len(w) : w[j].id = o.lot => j = p
    <3>1. Arranged(w, ById)
      BY <1>0
    <3>2. \A x0, y0 \in 1..Len(w) : w[x0].id = w[y0].id => x0 = y0
      BY <3>1, PlacesById
    <3> QED BY <1>4, <3>2
  <2>3. Qty(w, A) = w[p].qty
    BY <1>0, <1>4, <1>6, <1>12, <2>1, <2>2, SimLotsCount, QtySingle
  <2>4. Precede(w, A, R)
    BY <1>0, <1>3, <2>1, <2>2 DEF Precede
  <2>5. \A j \in 1..Len(w) : w[j] \in A => w[j] \in R
    BY <1>0, <1>3, <1>6, <1>12
  <2>6. Qty(c, A) = Most(0, Qty(w, A) - n)
    <3>1. Lotted(SimLots) /\ Steady(SimLots, A)
      BY <1>0, <1>5, SimLotsLotted
    <3>2. Qty(Take(w, n, R).lots, A) = Most(0, Qty(w, A) - n)
      BY <2>4, <2>5, <3>1, TakeOrder
    <3> QED BY <1>0, <1>2, <3>2
  <2>7. y = x + q
    BY <1>0, <1>8, <1>12
  <2>8. PICK a, d : a \in Nat /\ a = Qty(w, A) /\ d = Qty(c, A)
    BY <1>0, <1>9
  <2>9. a > 0 /\ n = Least(q, a)
    <3>1. w[p].qty \in Nat \ {0}
      BY <1>0, <1>3, <1>4 DEF SimLots
    <3> QED BY <1>0, <1>7, <2>3, <2>8, <3>1
  <2>10. d = Most(0, a - n) /\ a + x = T
    BY <1>0, <1>10, <2>6, <2>8, <2>9
  <2>11. d = 0 \/ d + y = T
    <3>1. CASE q <= a
      <4>1. n = q /\ d = a - q
        BY <1>8, <2>8, <2>9, <2>10, <3>1 DEF Most, Least
      <4>2. x \in Nat /\ q \in Nat /\ y = x + q /\ a \in Nat /\ a + x = T
        BY <1>8, <2>7, <2>8, <2>10
      <4> QED BY <4>1, <4>2
    <3>2. CASE ~(q <= a)
      BY <1>8, <2>8, <2>9, <2>10, <3>2 DEF Most, Least
    <3> QED BY <3>1, <3>2
  <2> QED BY <1>0, <1>1, <1>5, <1>7, <2>8, <2>11 DEF Owed
<1> QED BY <1>0, <1>11, <1>12

\* A take-profit that is filled leaves lots and rows paired.
LEMMA FiredClean ==
    ASSUME Fillable, NEW m \in Nat, NEW nx, NEW s, InPlan(s, nx), NEW b, BarOK(b), NEW D, Tracked(D, nx), NEW t,
           NEW i \in 1..Len(plan.orders), NEW o, o = plan.orders[i], NEW u, Clean(t, u, i - 1, m, nx, D, b.high),
           Orderly(u, m, nx), NEW v, NEW p, NEW n, NEW px, FiredAt(u, v, o, b, p, n, px), SoldFrom(u, v, o, n)
    PROVE  Clean(t, v, i, m, nx, D, b.high)
<1>1. PICK w, y, h : w = u.lots /\ y = u.rows /\ h = b.high /\ h \in Nat
  BY DEF BarOK
<1>2. w \in Seq(OnTag) /\ w \in Seq(SimLots) /\ Arranged(w, ById) /\ y \in Seq(LiveRows(m))
  BY <1>1, OnTagIs DEF Clean, Orderly, Level
<1>3. nx \in Nat /\ o \in Orders
  BY DEF InPlan
<1>4. n \in Nat /\ o.kind = "tp" /\ Selling(o) /\ o.price <= h /\ n = Least(o.qty, w[p].qty)
  <2>1. h >= o.price /\ o.price \in Nat
    BY <1>1, <1>3 DEF FiredAt, Fires, Orders
  <2> QED BY <1>1, <2>1 DEF FiredAt
<1>5. Aimed(w, o, n, p) /\ Rank(o) = 3 /\ o \in TpsOf(o.lot)
  BY <1>1, FiredAims
<1>6. v.lots = SellLots(w, o, n).lots /\ v.rows = Consume(y, o, n)
  BY <1>1 DEF SoldFrom
<1>7. v.lots \in Seq(OnTag)
  <2>1. SellLots(w, o, n).lots \in Seq(OnTag)
    BY <1>2, <1>4, OnTagIs, SaleOrder
  <2> QED BY <1>6, <2>1
<1>8. Following(t, v, m)
  <2> SUFFICES ASSUME NEW P, Twins(P, m), Paired(t.lots, t.rows, P) PROVE Paired(v.lots, v.rows, P)
    BY DEF Following
  <2>1. Paired(w, y, P)
    BY <1>1 DEF Clean, Following
  <2>2. Paired(SellLots(w, o, n).lots, Consume(y, o, n), P)
    BY <1>2, <1>4, <1>5, <2>1, TpPaired
  <2> QED BY <1>6, <2>2
<1>9. ASSUME NEW id \in 1..(nx - 1) PROVE Owed(v, id, i, D, h)
  <2>1. Owed(u, id, i - 1, D, h)
    BY <1>1, <1>5 DEF Clean, Offers3
  <2>2. TpFilled(i, o, u, v, w, n, p, h)
    BY <1>1, <1>2, <1>4, <1>5, <1>6 DEF TpFilled
  <2>3. h \in Nat /\ n \in Nat /\ nx \in Nat /\ o \in Orders /\ w \in Seq(SimLots)
    BY <1>1, <1>2, <1>3, <1>4
  <2> QED BY <2>1, <2>2, <2>3, FiredOwes
<1> QED BY <1>1, <1>7, <1>8, <1>9 DEF Clean

\* One order of the fourth pass.
Leaving(t, u, i, m, nx, D, h) ==
    Orderly(u, m, nx) /\ (t.lots \in Seq(OnTag) => Clean(t, u, i, m, nx, D, h))

\* An order of the fourth pass keeps an account in order, and what is owed of each lot, where every
\* lot is on its tag.
LEMMA TpStep ==
    ASSUME Fillable, NEW m \in Nat, NEW nx, NEW s, InPlan(s, nx), NEW b, BarOK(b), NEW D, Tracked(D, nx), NEW t,
           NEW i \in 1..Len(plan.orders), NEW u, Leaving(t, u, i - 1, m, nx, D, b.high),
           NEW v, v = Fill(4, u, plan.orders[i], b)
    PROVE  Leaving(t, v, i, m, nx, D, b.high)
<1>1. PICK o : o = plan.orders[i]
  OBVIOUS
<1>2. Orderly(u, m, nx) /\ (t.lots \in Seq(OnTag) => Clean(t, u, i - 1, m, nx, D, b.high))
  BY DEF Leaving
<1>3. (v = u /\ \A p : ~Fires(u, o, b, p)) \/ \E p, n, px : FiredAt(u, v, o, b, p, n, px)
  BY <1>1, <1>2, TpFires
<1>4. CASE v = u /\ \A p : ~Fires(u, o, b, p)
  <2>1. Clean(t, u, i - 1, m, nx, D, b.high) => Clean(t, u, i, m, nx, D, b.high)
    BY <1>1, <1>4, NotFired
  <2> QED BY <1>2, <1>4, <2>1 DEF Leaving
<1>5. CASE \E p, n, px : FiredAt(u, v, o, b, p, n, px)
  <2>1. PICK p, n, px : FiredAt(u, v, o, b, p, n, px)
    BY <1>5
  <2>2. n \in Nat /\ px \in Nat /\ Selling(o) /\ Offered(u.lots, o, n) /\ v = Sell(u, o, n, px)
    BY <2>1 DEF FiredAt
  <2>3. Orderly(v, m, nx) /\ SoldFrom(u, v, o, n)
    BY <1>2, <2>2, SaleKeepsLine
  <2>4. Clean(t, u, i - 1, m, nx, D, b.high) => Clean(t, v, i, m, nx, D, b.high)
    BY <1>1, <1>2, <2>1, <2>3, FiredClean
  <2> QED BY <1>2, <2>3, <2>4 DEF Leaving
<1> QED BY <1>3, <1>4, <1>5

\* KindFirst the fourth pass the take-profits of a lot of the plan offer what is left of it.
LEMMA OffersLeft ==
    ASSUME Fillable, NEW nx, NEW s, InPlan(s, nx), Earmarked(plan.orders, s), Offers3, NEW w \in Seq(SimLots),
           \A k \in Nat : k < nx => Qty(w, FundUpto(k)) = Most(0, Qty(s, FundUpto(k)) - Qty(plan.orders, Reduces)),
           NEW id \in 1..(nx - 1)
    PROVE  Qty(w, NamedLots(id)) = Qty(plan.orders, TpsOf(id))
<1>1. nx \in Nat /\ id \in Nat /\ id - 1 \in Nat /\ id < nx /\ id - 1 < nx
  BY DEF InPlan
<1>2. PICK os : os = plan.orders /\ os \in Seq(Orders)
  BY DEF Fillable
<1>3. \A k \in Nat : Qty(os, TpUpto(k)) = Most(0, Qty(s, FundUpto(k)) - Qty(os, Reduces))
  BY <1>2 DEF Earmarked, Offers3
<1>4. Qty(w, FundUpto(id)) = Qty(os, TpUpto(id)) /\ Qty(w, FundUpto(id - 1)) = Qty(os, TpUpto(id - 1))
  BY <1>1, <1>2, <1>3
<1>5. PICK A, B, C : A = FundUpto(id) /\ B = FundUpto(id - 1) /\ C = NamedLots(id)
  OBVIOUS
<1>6. Qty(w, A) = Qty(w, B) + Qty(w, C)
  <2>1. \A i \in 1..Len(w) : w[i] \in SimLots /\ w[i].id \in Nat
    <3>1. \A l \in SimLots : l.id \in Nat
      BY DEF SimLots
    <3>2. \A i \in 1..Len(w) : w[i] \in SimLots
      OBVIOUS
    <3> QED BY <3>1, <3>2
  <2>2. \A i \in 1..Len(w) : /\ w[i] \in A <=> w[i] \in B \/ w[i] \in C
                             /\ ~(w[i] \in B /\ w[i] \in C)
    BY <1>1, <1>5, <2>1 DEF FundUpto, NamedLots, FundLots
  <2> QED BY <2>2, SimLotsCount, QtySplit
<1>7. PICK E, F, G : E = TpUpto(id) /\ F = TpUpto(id - 1) /\ G = TpsOf(id)
  OBVIOUS
<1>8. Qty(os, E) = Qty(os, F) + Qty(os, G)
  <2>1. \A i \in 1..Len(os) : /\ os[i] \in Orders /\ os[i].lot \in Nat
                              /\ os[i].side = "sell" /\ os[i].kind = "tp" => os[i].type = "limit"
    BY <1>2 DEF InPlan, Sound, Orders
  <2>2. \A i \in 1..Len(os) : /\ os[i] \in E <=> os[i] \in F \/ os[i] \in G
                              /\ ~(os[i] \in F /\ os[i] \in G)
    BY <1>1, <1>7, <2>1 DEF TpUpto, TpsOf
  <2> QED BY <1>2, <2>2, OrdersCount, QtySplit
<1>9. /\ Qty(w, B) \in Nat /\ Qty(w, C) \in Nat
      /\ Qty(os, F) \in Nat /\ Qty(os, G) \in Nat
  BY <1>2, SimLotsCount, OrdersCount, QtyNat
<1>10. PICK x1, x2, x3, x4 : x1 = Qty(w, B) /\ x2 = Qty(w, C) /\ x3 = Qty(os, F) /\ x4 = Qty(os, G)
  OBVIOUS
<1>11. x1 + x2 = x3 + x4 /\ x1 = x3
  BY <1>4, <1>5, <1>6, <1>7, <1>8, <1>10
<1>12. x2 = x4
  BY <1>9, <1>10, <1>11
<1> QED BY <1>2, <1>5, <1>7, <1>10, <1>12

\* So it is owed.
LEMMA OwedFirst ==
    ASSUME Fillable, NEW nx, NEW u, NEW w \in Seq(SimLots), w = u.lots, Arranged(w, ById), NEW D, Tracked(D, nx), NEW h,
           NEW id \in 1..(nx - 1), Qty(w, NamedLots(id)) = Qty(plan.orders, TpsOf(id))
    PROVE  Owed(u, id, 0, D, h)
<1>1. PICK A, B : A = Ripe(id, h) /\ B = NamedLots(id)
  OBVIOUS
<1>2. CASE \A i \in 1..Len(w) : w[i] \notin A
  <2>1. Qty(w, A) = 0
    BY <1>2, SimLotsCount, QtyNone
  <2> QED BY <1>1, <2>1 DEF Owed
<1>3. CASE \E i \in 1..Len(w) : w[i] \in A
  <2>1. PICK p \in 1..Len(w) : w[p] \in A
    BY <1>3
  <2>2. \A x, y \in 1..Len(w) : w[x].id = w[y].id => x = y
    BY PlacesById
  <2>3. \A i \in 1..Len(w) : w[i] \in B => w[i].id = id
    BY <1>1 DEF NamedLots
  <2>4. w[p] \in B /\ \A i \in 1..Len(w) : w[i] \in A => w[i] \in B
    BY <1>1, <2>1 DEF Ripe
  <2>5. \A i \in 1..Len(w) : w[i] \in A <=> w[i] \in B
    BY <2>1, <2>2, <2>3, <2>4
  <2>6. Qty(w, A) = Qty(w, B)
    BY <2>5, SimLotsCount, QtySame
  <2>7. Qty(w, A) \in Nat
    BY SimLotsCount, QtyNat
  <2>8. D[id][0] = 0
    BY DEF Tracked, Prefix
  <2> QED BY <1>1, <2>6, <2>7, <2>8 DEF Owed
<1> QED BY <1>2, <1>3

\* The fourth pass.
LEMMA PassTps ==
    ASSUME Fillable, NEW m, m = Len(hist) + 1, NEW nx, NEW s, InPlan(s, nx), Earmarked(plan.orders, s),
           NEW b, BarOK(b), NEW t, Orderly(t, m, nx),
           \A k \in Nat : k < nx => Qty(t.lots, FundUpto(k)) = Most(0, Qty(s, FundUpto(k)) - Qty(plan.orders, Reduces)),
           NEW v, v = Pass(4, t, b)
    PROVE  Orderly(v, m, nx) /\ (t.lots \in Seq(OnTag) => Following(t, v, m))
<1>1. PICK e, os : e \in Nat /\ os = plan.orders /\ e = Len(os) /\ os \in Seq(Orders)
  BY DEF Fillable
<1>2. t \in Accounts(m) /\ t.lots \in Seq(SimLots) /\ Arranged(t.lots, ById) /\ m \in Nat /\ nx \in Nat
  BY DEF Orderly, Accounts, Fillable, InPlan
<1>3. PICK a : Passing(4, t, b, a) /\ Pass(4, t, b) = a[e]
  BY <1>1, <1>2, PassSteps
<1>4. a[0] = t /\ \A i \in 1..e : a[i] = Fill(4, a[i - 1], plan.orders[i], b)
  BY <1>1, <1>3 DEF Passing
<1>5. PICK D : D = [id \in 1..(nx - 1) |-> CHOOSE f : Prefix(f, plan.orders, TpsOf(id))]
  OBVIOUS
<1>6. Tracked(D, nx)
  <2> SUFFICES ASSUME NEW id \in 1..(nx - 1) PROVE Prefix(D[id], plan.orders, TpsOf(id))
    BY DEF Tracked
  <2>1. \E f : Prefix(f, plan.orders, TpsOf(id))
    BY <1>1, OrdersCount, PrefixExists
  <2>2. D[id] = CHOOSE f : Prefix(f, plan.orders, TpsOf(id))
    BY <1>5
  <2> QED BY <2>1, <2>2
<1>7. PICK h : h = b.high
  OBVIOUS
<1>8. PICK G : G = {i \in 0..e : Leaving(t, a[i], i, m, nx, D, h)}
  OBVIOUS
<1>9. 0 \in G
  <2>1. ASSUME t.lots \in Seq(OnTag) PROVE Clean(t, t, 0, m, nx, D, h)
    <3>1. ASSUME Offers3, NEW id \in 1..(nx - 1) PROVE Owed(t, id, 0, D, h)
      <4>1. PICK w : w = t.lots
        OBVIOUS
      <4>2. w \in Seq(SimLots) /\ Arranged(w, ById)
        BY <1>2, <4>1
      <4>3. Qty(w, NamedLots(id)) = Qty(plan.orders, TpsOf(id))
        BY <3>1, <4>1, <4>2, OffersLeft
      <4> QED BY <1>6, <4>1, <4>2, <4>3, OwedFirst
    <3>2. Following(t, t, m)
      BY DEF Following
    <3> QED BY <2>1, <3>1, <3>2 DEF Clean
  <2>2. Leaving(t, t, 0, m, nx, D, h)
    BY <2>1 DEF Leaving
  <2>3. 0 \in 0..e
    BY <1>1
  <2> QED BY <1>4, <1>8, <2>2, <2>3
<1>10. \A i \in 1..e : i - 1 \in G => i \in G
  <2> SUFFICES ASSUME NEW i \in 1..e, i - 1 \in G PROVE i \in G
    OBVIOUS
  <2>1. PICK u, c : u = a[i - 1] /\ c = a[i]
    OBVIOUS
  <2>2. c = Fill(4, u, plan.orders[i], b) /\ Leaving(t, u, i - 1, m, nx, D, b.high) /\ i \in 1..Len(plan.orders)
    BY <1>1, <1>4, <1>7, <1>8, <2>1
  <2>3. Leaving(t, c, i, m, nx, D, b.high)
    BY <1>2, <1>6, <2>2, TpStep
  <2> QED BY <1>7, <1>8, <2>1, <2>3
<1>11. \A i \in 0..e : i \in G
  BY <1>1, <1>9, <1>10, PlacesAll
<1>12. e \in 0..e
  BY <1>1
<1>13. Leaving(t, v, e, m, nx, D, h)
  BY <1>3, <1>8, <1>11, <1>12
<1> QED BY <1>13 DEF Leaving, Clean

\* A plan filled: the account stays in line, and its lots paired with their rows unless a
\* take-profit is filled beside a lot that is off its tag.
LEMMA FilledFollows ==
    ASSUME Fillable, NEW m, m = Len(hist) + 1, NEW nx, NEW t, Orderly(t, m, nx), InPlan(t.lots, nx),
           Earmarked(plan.orders, t.lots), NEW b, BarOK(b),
           NEW u, u = Pass(3, Pass(2, Pass(1, t, b), b), b), NEW v, v = Pass(4, u, b)
    PROVE  Orderly(v, m, nx) /\ (v = u \/ (\A i \in 1..Len(u.lots) : ~OffTag(u.lots[i])) => Following(t, v, m))
<1>1. /\ Orderly(u, m, nx) /\ Following(t, u, m)
      /\ \A k \in Nat : k < nx => Qty(u.lots, FundUpto(k)) = Most(0, Qty(t.lots, FundUpto(k)) - Qty(plan.orders, Reduces))
  BY Purchases
<1>2. Orderly(v, m, nx) /\ (u.lots \in Seq(OnTag) => Following(u, v, m))
  BY <1>1, PassTps
<1>3. ASSUME \A i \in 1..Len(u.lots) : ~OffTag(u.lots[i]) PROVE u.lots \in Seq(OnTag)
  <2>1. u.lots \in Seq(SimLots)
    BY <1>1 DEF Orderly, Accounts
  <2>2. \A i \in 1..Len(u.lots) : u.lots[i] \in OnTag
    BY <1>3, <2>1 DEF OnTag
  <2> QED BY <2>1, <2>2
<1>4. u.lots \in Seq(OnTag) => Following(t, v, m)
  BY <1>1, <1>2 DEF Following
<1> QED BY <1>1, <1>2, <1>3, <1>4

-----------------------------------------------------------------------------
(* The replay of a row, and the path it takes. *)

\* One evening of the replay of a row, and the lot it starts as.
Replay(l, i) == Convert(<<l>>, regimes[i], regimes[i + 1], hist[i])[1]
Tagged(r) == [inst |-> r.inst, qty |-> r.qty, price |-> r.price, kind |-> r.kind, tp |-> r.tp]

\* A row is replayed k evenings, one by one: a are the lots it is on the way, and A is where the
\* replay stays.
StaysIn(A, r, k) == Tagged(r) \in A /\ \A x \in A : \A i \in 1..k : Replay(x, r.at + i - 1) \in A
Replayed(a, A, r, k) ==
    /\ a[0] = Tagged(r) /\ Rebuilt(r) = a[k]
    /\ \A i \in 1..k : a[i] = Replay(a[i - 1], r.at + i - 1)
    /\ \A i \in 0..k : a[i] \in A

\* The replay of a row goes evening by evening, and stays where every evening stays.
LEMMA ReplaySteps ==
    ASSUME NEW r, r.kind # "none", NEW k \in Nat, k = ReplayBefore - r.at + 1, NEW A, StaysIn(A, r, k)
    PROVE  \E a : Replayed(a, A, r, k)
<1>a. PICK z : z = Tagged(r)
  OBVIOUS
<1>b. z \in A /\ \A x \in A : \A i \in 1..k : Replay(x, r.at + i - 1) \in A
  BY <1>a DEF StaysIn
<1>1. PICK seq : seq = [n \in 1..k |-> r.at + n - 1]
  OBVIOUS
<1> DEFINE P(g) == g = [t \in SUBSET (1..k) |-> IF t = {} THEN z ELSE Replay(g[t \ {Max(t)}], seq[Max(t)])]
<1>2. Rebuilt(r) = (CHOOSE f : P(f))[1..k]
  <2>1. DOMAIN seq = 1..k
    BY <1>1
  <2>2. z = [inst |-> r.inst, qty |-> r.qty, price |-> r.price,
             kind |-> IF r.kind # "none" THEN r.kind ELSE IF r.inst = LEV THEN "lev_strat" ELSE "core", tp |-> r.tp]
    BY <1>a DEF Tagged
  <2>3. seq = [n \in 1..(ReplayBefore - r.at + 1) |-> r.at + n - 1]
    BY <1>1
  <2> QED BY <2>1, <2>2, <2>3 DEF Rebuilt, FoldLeft, MapThenFoldSet, Replay
<1>3. PICK step : step = [p \in A \X (1..k) |-> Replay(p[1], seq[p[2]])]
  OBVIOUS
<1>4. \A a \in A : \A i \in 1..k : step[<<a, i>>] = Replay(a, seq[i]) /\ step[<<a, i>>] \in A
  <2> TAKE a \in A
  <2> TAKE i \in 1..k
  <2>1. step[<<a, i>>] = Replay(a, seq[i])
    BY <1>3
  <2>2. seq[i] = r.at + i - 1
    BY <1>1
  <2>3. Replay(a, r.at + i - 1) \in A
    BY <1>b
  <2> QED BY <2>1, <2>2, <2>3
<1>5. PICK h : Folded(h, z, step, k)
  BY FoldExists
<1>6. \A t \in SUBSET (1..k) : h[t] \in A
  BY <1>4, <1>5, <1>b, FoldTyped
<1>7. P(h)
  <2>1. h = [t \in SUBSET (1..k) |-> IF t = {} THEN z ELSE step[<<h[t \ {Max(t)}], Max(t)>>]]
    BY <1>5 DEF Folded
  <2>2. \A t \in SUBSET (1..k) : t # {} =>
          step[<<h[t \ {Max(t)}], Max(t)>>] = Replay(h[t \ {Max(t)}], seq[Max(t)])
    <3> SUFFICES ASSUME NEW t \in SUBSET (1..k), t # {}
        PROVE step[<<h[t \ {Max(t)}], Max(t)>>] = Replay(h[t \ {Max(t)}], seq[Max(t)])
      OBVIOUS
    <3>1. Max(t) \in 1..k
      BY MaxMember
    <3>2. h[t \ {Max(t)}] \in A
      BY <1>6
    <3> QED BY <1>4, <3>1, <3>2
  <2> QED BY <2>1, <2>2
<1>8. PICK g : g = (CHOOSE f : P(f)) /\ P(g)
  <2> HIDE DEF P
  <2> QED BY <1>7
<1>9. \A t \in SUBSET (1..k) : g[t] = IF t = {} THEN z ELSE Replay(g[t \ {Max(t)}], seq[Max(t)])
  BY <1>8
<1> HIDE DEF P
<1>10. PICK a : a = [i \in 0..k |-> g[1..i]]
  OBVIOUS
<1>11. a[0] = z
  <2>1. 1..0 = {} /\ 0 \in 0..k
    OBVIOUS
  <2>2. a[0] = g[{}]
    BY <1>10, <2>1
  <2>3. {} \in SUBSET (1..k)
    OBVIOUS
  <2> QED BY <1>9, <2>2, <2>3
<1>12. \A i \in 1..k : a[i] = Replay(a[i - 1], r.at + i - 1)
  <2> TAKE i \in 1..k
  <2>1. Max(1..i) = i /\ (1..i) \ {i} = 1..(i - 1) /\ 1..i # {}
    <3>1. i \in Nat \ {0}
      OBVIOUS
    <3> QED BY <3>1, MaxUpto
  <2>2. 1..i \in SUBSET (1..k)
    OBVIOUS
  <2>3. a[i] = g[1..i] /\ a[i - 1] = g[1..(i - 1)]
    BY <1>10
  <2>4. a[i] = Replay(a[i - 1], seq[i])
    BY <1>9, <2>1, <2>2, <2>3
  <2>5. seq[i] = r.at + i - 1
    BY <1>1
  <2> QED BY <2>4, <2>5
<1>13. a[k] = Rebuilt(r)
  BY <1>2, <1>8, <1>10
<1>14. \A i \in 0..k : a[i] \in A
  <2>1. PICK G : G = {i \in 0..k : a[i] \in A}
    OBVIOUS
  <2>2. 0 \in G
    BY <1>11, <1>b, <2>1
  <2>3. \A i \in 1..k : i - 1 \in G => i \in G
    BY <1>b, <1>12, <2>1
  <2>4. \A i \in 0..k : i \in G
    BY <2>2, <2>3, PlacesAll
  <2> QED BY <2>1, <2>4
<1> QED BY <1>a, <1>11, <1>12, <1>13, <1>14 DEF Replayed

\* One evening of the replay, for a record of a lot.
LEMMA ReplayIs ==
    ASSUME NEW x, NEW inst \in {K200, LEV}, NEW qty, NEW price, NEW kind, NEW tp, NEW i,
           x = [inst |-> inst, qty |-> qty, price |-> price, kind |-> kind, tp |-> tp]
    PROVE  /\ inst = LEV => Replay(x, i) = x
           /\ inst = K200 => Replay(x, i) =
                [inst |-> inst, qty |-> qty, price |-> price, kind |-> TurnKind(kind, regimes[i], regimes[i + 1]),
                 tp |-> TurnTp(kind, tp, regimes[i], regimes[i + 1], hist[i])]
<1>1. PICK old, new, b : old = regimes[i] /\ new = regimes[i + 1] /\ b = hist[i]
  OBVIOUS
<1>2. PICK p : p = TakeProfit(b.close, b.grid)
  OBVIOUS
<1>3. PICK y, z : y = [x EXCEPT !.kind = "core", !.tp = NoPrice] /\ z = [x EXCEPT !.kind = "grid", !.tp = p]
  OBVIOUS
<1>4. /\ y = [inst |-> inst, qty |-> qty, price |-> price, kind |-> "core", tp |-> NoPrice]
      /\ z = [inst |-> inst, qty |-> qty, price |-> price, kind |-> "grid", tp |-> p]
      /\ x.inst = inst /\ x.kind = kind
  BY <1>3
<1>5. Replay(x, i) = IF x.inst # K200 \/ old = new THEN x
                     ELSE IF new = "BULL" /\ flags.noTp /\ x.kind = "grid" THEN y
                     ELSE IF old = "BULL" /\ x.kind = "core" THEN z ELSE x
  <2>1. Len(<<x>>) = 1 /\ <<x>>[1] = x /\ 1 \in 1..1
    OBVIOUS
  <2>2. Replay(x, i) = Convert(<<x>>, old, new, b)[1]
    BY <1>1 DEF Replay
  <2> QED BY <1>2, <1>3, <2>1, <2>2 DEF Convert
<1>6. inst = LEV => Replay(x, i) = x
  BY <1>4, <1>5, Instruments
<1>7. ASSUME inst = K200
      PROVE Replay(x, i) = [inst |-> inst, qty |-> qty, price |-> price, kind |-> TurnKind(kind, old, new),
                            tp |-> TurnTp(kind, tp, old, new, b)]
  <2>1. x.inst = K200 /\ x.kind = kind
    BY <1>4, <1>7
  <2>2. CASE old = new
    BY <1>5, <2>1, <2>2 DEF TurnKind, TurnTp
  <2>3. CASE old # new /\ new = "BULL" /\ flags.noTp /\ kind = "grid"
    BY <1>4, <1>5, <2>1, <2>3 DEF TurnKind, TurnTp
  <2>4. CASE old # new /\ ~(new = "BULL" /\ flags.noTp /\ kind = "grid") /\ old = "BULL" /\ kind = "core"
    BY <1>2, <1>4, <1>5, <2>1, <2>4 DEF TurnKind, TurnTp
  <2>5. CASE old # new /\ ~(new = "BULL" /\ flags.noTp /\ kind = "grid") /\ ~(old = "BULL" /\ kind = "core")
    BY <1>5, <2>1, <2>5 DEF TurnKind, TurnTp
  <2> QED BY <2>2, <2>3, <2>4, <2>5
<1> QED BY <1>1, <1>6, <1>7

\* The kind and the price of a row of the fund, evening after evening until e: as bought at first,
\* then turned by the regimes rs on the bars hs.
Path(g, r, rs, hs, e) ==
    /\ g[r.at] = <<r.kind, r.tp>>
    /\ \A k \in r.at..(e - 1) : g[k + 1] = <<TurnKind(g[k][1], rs[k], rs[k + 1]),
                                             TurnTp(g[k][1], g[k][2], rs[k], rs[k + 1], hs[k])>>

\* What a row is rebuilt as.
RebuiltAs(x, r, e) ==
    /\ x.inst = r.inst /\ x.qty = r.qty /\ x.price = r.price
    /\ r.inst = LEV => x.kind = r.kind /\ x.tp = r.tp
    /\ r.inst = K200 => x.kind \in {"grid", "core"}
    /\ r.inst = K200 => \A g : Path(g, r, regimes, hist, e) => <<x.kind, x.tp>> = g[e]

\* Rows of leverage stay what they are.
LEMMA RebuiltPair ==
    ASSUME NEW e \in Nat, e = Len(hist), NEW r \in LiveRows(e), r.kind # "none", r.inst = LEV
    PROVE  RebuiltAs(Rebuilt(r), r, e)
<1>1. PICK z : z = Tagged(r)
  OBVIOUS
<1>2. r.at \in 0..e
  BY DEF LiveRows, Rows
<1>3. PICK k \in Nat : k = e - r.at
  BY <1>2
<1>4. k = ReplayBefore - r.at + 1
  BY <1>2, <1>3 DEF ReplayBefore
<1>5. \A i : Replay(z, i) = z
  <2> TAKE i
  <2>1. z = [inst |-> r.inst, qty |-> r.qty, price |-> r.price, kind |-> r.kind, tp |-> r.tp]
    BY <1>1 DEF Tagged
  <2>2. r.inst \in {K200, LEV}
    OBVIOUS
  <2> QED BY <2>1, <2>2, ReplayIs
<1>6. PICK A : A = {z}
  OBVIOUS
<1>7. z \in A
  BY <1>6
<1>a. \A x \in A : \A i \in 1..k : Replay(x, r.at + i - 1) \in A
  <2> TAKE x \in A
  <2> TAKE i \in 1..k
  <2>1. PICK j : j = r.at + i - 1
    OBVIOUS
  <2>2. x = z
    BY <1>6
  <2>3. Replay(z, j) = z
    BY <1>5
  <2> QED BY <1>7, <2>1, <2>2, <2>3
<1>8. StaysIn(A, r, k)
  BY <1>1, <1>7, <1>a DEF StaysIn
<1>b. PICK a : Replayed(a, A, r, k)
  BY <1>4, <1>8, ReplaySteps
<1>9. Rebuilt(r) = z
  <2>1. k \in 0..k
    BY <1>3
  <2> QED BY <1>6, <1>b, <2>1 DEF Replayed
<1>10. z.inst = r.inst /\ z.qty = r.qty /\ z.price = r.price /\ z.kind = r.kind /\ z.tp = r.tp
  BY <1>1 DEF Tagged
<1> QED BY <1>9, <1>10, Instruments DEF RebuiltAs

\* Rows of the fund follow their path.
LEMMA RebuiltFund ==
    ASSUME NEW e \in Nat, e = Len(hist), NEW r \in LiveRows(e), r.kind # "none", r.inst = K200
    PROVE  RebuiltAs(Rebuilt(r), r, e)
<1>1. PICK z : z = Tagged(r)
  OBVIOUS
<1>2. r.at \in 0..e /\ r.kind \in {"grid", "core"}
  BY Instruments DEF LiveRows, Rows
<1>3. PICK k \in Nat : k = e - r.at
  BY <1>2
<1>4. k = ReplayBefore - r.at + 1
  BY <1>2, <1>3 DEF ReplayBefore
<1>5. PICK at \in Nat : at = r.at /\ e = at + k
  <2>1. PICK at \in 0..e : at = r.at
    BY <1>2
  <2>2. at \in Nat /\ e = at + k
    BY <1>3, <2>1
  <2> QED BY <2>1, <2>2
<1>6. PICK inst, qty, price : inst = r.inst /\ qty = r.qty /\ price = r.price
  OBVIOUS
<1>7. PICK T : T = {r.tp, NoPrice} \cup {TakeProfit(hist[i].close, hist[i].grid) : i \in 0..e}
  OBVIOUS
<1> DEFINE Of(kind, tp) == [inst |-> inst, qty |-> qty, price |-> price, kind |-> kind, tp |-> tp]
<1>8. PICK A : A = {Of(p[1], p[2]) : p \in {"grid", "core"} \X T}
  OBVIOUS
<1>9. \A x \in A : \E kind \in {"grid", "core"} : \E tp \in T : x = Of(kind, tp)
  BY <1>8
<1>10. \A kind \in {"grid", "core"} : \A tp \in T : Of(kind, tp) \in A
  <2> TAKE kind \in {"grid", "core"}
  <2> TAKE tp \in T
  <2>1. PICK p \in {"grid", "core"} \X T : p = <<kind, tp>>
    OBVIOUS
  <2>2. p[1] = kind /\ p[2] = tp
    BY <2>1
  <2> QED BY <1>8, <2>2
<1>11. z \in A
  <2>1. z = Of(r.kind, r.tp)
    BY <1>1, <1>6 DEF Tagged
  <2>2. r.tp \in T
    BY <1>7
  <2> QED BY <1>2, <1>10, <2>1, <2>2
<1>12. \A kind \in {"grid", "core"} : \A tp \in T : \A i :
          Replay(Of(kind, tp), i) = Of(TurnKind(kind, regimes[i], regimes[i + 1]),
                                       TurnTp(kind, tp, regimes[i], regimes[i + 1], hist[i]))
  <2> TAKE kind \in {"grid", "core"}
  <2> TAKE tp \in T
  <2> TAKE i
  <2>1. PICK x : x = Of(kind, tp)
    OBVIOUS
  <2>2. inst \in {K200, LEV} /\ inst = K200
    BY <1>6
  <2> QED BY <2>1, <2>2, ReplayIs
<1>13. \A kind \in {"grid", "core"} : \A tp \in T : \A i \in 0..e :
          /\ TurnKind(kind, regimes[i], regimes[i + 1]) \in {"grid", "core"}
          /\ TurnTp(kind, tp, regimes[i], regimes[i + 1], hist[i]) \in T
  BY <1>7 DEF TurnKind, TurnTp
<1>14. \A x \in A : \A i \in 1..k : Replay(x, r.at + i - 1) \in A
  <2> TAKE x \in A
  <2> TAKE i \in 1..k
  <2>1. PICK kind, tp : kind \in {"grid", "core"} /\ tp \in T /\ x = Of(kind, tp)
    BY <1>9
  <2>2. PICK j \in 0..e : j = r.at + i - 1
    BY <1>5
  <2>3. PICK kind2, tp2 : /\ kind2 = TurnKind(kind, regimes[j], regimes[j + 1])
                          /\ tp2 = TurnTp(kind, tp, regimes[j], regimes[j + 1], hist[j])
    OBVIOUS
  <2>4. kind2 \in {"grid", "core"} /\ tp2 \in T
    BY <1>13, <2>1, <2>2, <2>3
  <2>5. Replay(x, j) = Of(kind2, tp2)
    BY <1>12, <2>1, <2>3
  <2>6. Of(kind2, tp2) \in A
    BY <1>10, <2>4
  <2> QED BY <2>2, <2>5, <2>6
<1>15. StaysIn(A, r, k)
  BY <1>1, <1>11, <1>14 DEF StaysIn
<1>a. PICK a : Replayed(a, A, r, k)
  BY <1>4, <1>15, ReplaySteps
<1>16. /\ a[0] = z /\ Rebuilt(r) = a[k]
       /\ \A i \in 1..k : a[i] = Replay(a[i - 1], r.at + i - 1)
       /\ \A i \in 0..k : a[i] \in A
  BY <1>1, <1>a DEF Replayed
<1>17. PICK x : x = Rebuilt(r)
  OBVIOUS
<1>18. x \in A
  <2>1. k \in 0..k
    BY <1>3
  <2> QED BY <1>16, <1>17, <2>1
<1>19. x.inst = r.inst /\ x.qty = r.qty /\ x.price = r.price /\ x.kind \in {"grid", "core"}
  BY <1>6, <1>9, <1>18
<1>20. ASSUME NEW g, Path(g, r, regimes, hist, e) PROVE <<x.kind, x.tp>> = g[e]
  <2>1. PICK G : G = {i \in 0..k : <<a[i].kind, a[i].tp>> = g[at + i]}
    OBVIOUS
  <2>2. 0 \in G
    <3>1. a[0].kind = r.kind /\ a[0].tp = r.tp
      BY <1>1, <1>16 DEF Tagged
    <3>2. g[at] = <<r.kind, r.tp>> /\ at + 0 = at
      BY <1>5, <1>20 DEF Path
    <3> QED BY <2>1, <3>1, <3>2
  <2>3. ASSUME NEW i \in 1..k, i - 1 \in G PROVE i \in G
    <3>1. PICK j \in 0..e : j = r.at + i - 1 /\ j = at + (i - 1) /\ j + 1 = at + i /\ j \in r.at..(e - 1)
      BY <1>5
    <3>2. i - 1 \in 0..k
      OBVIOUS
    <3>c. a[i - 1] \in A
      BY <1>16, <3>2
    <3>3. PICK kind, tp : kind \in {"grid", "core"} /\ tp \in T /\ a[i - 1] = Of(kind, tp)
      BY <1>9, <3>c
    <3>4. PICK kind2, tp2 : /\ kind2 = TurnKind(kind, regimes[j], regimes[j + 1])
                            /\ tp2 = TurnTp(kind, tp, regimes[j], regimes[j + 1], hist[j])
      OBVIOUS
    <3>5. a[i] = Of(kind2, tp2)
      <4>1. a[i] = Replay(a[i - 1], j)
        BY <1>16, <3>1
      <4>2. Replay(Of(kind, tp), j) = Of(kind2, tp2)
        BY <1>12, <3>3, <3>4
      <4> QED BY <3>3, <4>1, <4>2
    <3>6. g[j] = <<kind, tp>>
      <4>1. <<a[i - 1].kind, a[i - 1].tp>> = g[j]
        BY <2>1, <2>3, <3>1
      <4>2. a[i - 1].kind = kind /\ a[i - 1].tp = tp
        BY <3>3
      <4> QED BY <4>1, <4>2
    <3>7. g[j + 1] = <<TurnKind(g[j][1], regimes[j], regimes[j + 1]),
                       TurnTp(g[j][1], g[j][2], regimes[j], regimes[j + 1], hist[j])>>
      BY <1>20, <3>1 DEF Path
    <3>8. g[j][1] = kind /\ g[j][2] = tp
      BY <3>6
    <3>9. g[j + 1] = <<kind2, tp2>>
      BY <3>4, <3>7, <3>8
    <3>10. a[i].kind = kind2 /\ a[i].tp = tp2
      BY <3>5
    <3>11. <<a[i].kind, a[i].tp>> = g[at + i]
      BY <3>1, <3>9, <3>10
    <3> QED BY <2>1, <3>11
  <2>4. \A i \in 0..k : i \in G
    BY <2>2, <2>3, PlacesAll
  <2>5. k \in 0..k
    BY <1>3
  <2> QED BY <1>5, <1>16, <1>17, <2>1, <2>4, <2>5
<1>21. RebuiltAs(x, r, e)
  BY <1>19, <1>20, Instruments DEF RebuiltAs
<1> QED BY <1>17, <1>21

\* A row without a tag is of the fund, or strategic.
LEMMA RebuiltPlain ==
    ASSUME NEW r, r.kind = "none", NEW x, x = Rebuilt(r)
    PROVE  x.inst = r.inst /\ x.qty = r.qty /\ x.price = r.price /\ x.kind = IF r.inst = LEV THEN "lev_strat" ELSE "core"
  BY DEF Rebuilt

\* A lot and its row at evening e: instrument, quantity and price are the same, and kind and
\* price to sell are where the path of the row has led.
Turned(l, r, rs, hs, e) == \E g : Path(g, r, rs, hs, e) /\ g[e] = <<l.kind, l.tp>>
Twin(l, r, rs, hs, e) ==
    /\ l.inst = r.inst /\ l.qty = r.qty /\ l.price = r.price /\ l.tag = r.tp /\ r.kind # "none" /\ r.at \in 1..e
    /\ l.inst = LEV => l.kind = r.kind /\ l.tp = r.tp
    /\ l.inst = K200 => Turned(l, r, rs, hs, e)
TwinSet(rs, hs, e) == {p \in SimLots \X LiveRows(e) : Twin(p[1], p[2], rs, hs, e)}

\* Such pairs.
LEMMA TwinIn ==
    ASSUME NEW l \in SimLots, NEW rs, NEW hs, NEW e, NEW r \in LiveRows(e)
    PROVE  <<l, r>> \in TwinSet(rs, hs, e) <=> Twin(l, r, rs, hs, e)
<1>1. PICK p \in SimLots \X LiveRows(e) : p = <<l, r>>
  OBVIOUS
<1>2. p[1] = l /\ p[2] = r
  BY <1>1
<1> QED BY <1>1, <1>2 DEF TwinSet

\* The path of a row just bought.
LEMMA FreshPath ==
    ASSUME NEW e \in Nat, NEW r, r.at = e, NEW kind, NEW tp, kind = r.kind, tp = r.tp, NEW rs, NEW hs
    PROVE  \E g : Path(g, r, rs, hs, e) /\ g[e] = <<kind, tp>>
<1>1. PICK g : g = [k \in {e} |-> <<kind, tp>>]
  OBVIOUS
<1>2. g[e] = <<kind, tp>>
  BY <1>1
<1>3. \A k \in e..(e - 1) : FALSE
  OBVIOUS
<1>4. Path(g, r, rs, hs, e)
  BY <1>2, <1>3 DEF Path
<1> QED BY <1>2, <1>4

\* A path does not depend on the quantity of the row.
LEMMA PathAlone ==
    ASSUME NEW r, NEW c, c.at = r.at, c.kind = r.kind, c.tp = r.tp, NEW rs, NEW hs, NEW e, NEW g
    PROVE  Path(g, r, rs, hs, e) => Path(g, c, rs, hs, e)
  BY DEF Path

\* Such pairs are twins.
LEMMA TwinSetIs == ASSUME NEW e \in Nat \ {0}, NEW rs, NEW hs PROVE Twins(TwinSet(rs, hs, e), e)
<1>1. PICK P : P = TwinSet(rs, hs, e)
  OBVIOUS
<1>2. ASSUME NEW l \in SimLots, NEW r \in LiveRows(e), <<l, r>> \in P
      PROVE  /\ l.inst = r.inst /\ l.qty = r.qty /\ l.tag = r.tp /\ r.kind # "none"
             /\ l.inst = LEV => l.kind = r.kind
             /\ \A q \in Nat \ {0} : <<[l EXCEPT !.qty = q], [r EXCEPT !.qty = q]>> \in P
  <2>1. Twin(l, r, rs, hs, e)
    BY <1>1, <1>2, TwinIn
  <2>2. ASSUME NEW q \in Nat \ {0} PROVE <<[l EXCEPT !.qty = q], [r EXCEPT !.qty = q]>> \in P
    <3>1. PICK c, d : c = [l EXCEPT !.qty = q] /\ d = [r EXCEPT !.qty = q]
      OBVIOUS
    <3>2. /\ c \in SimLots /\ c.qty = q /\ c.inst = l.inst /\ c.kind = l.kind /\ c.price = l.price
          /\ c.tp = l.tp /\ c.tag = l.tag
      BY <3>1, SimLotsLotted
    <3>3. /\ d \in LiveRows(e) /\ d.qty = q /\ d.inst = r.inst /\ d.kind = r.kind /\ d.price = r.price
          /\ d.tp = r.tp /\ d.at = r.at
      BY <3>1, RowShrinks
    <3>4. l.inst = K200 => Turned(c, d, rs, hs, e)
      <4> SUFFICES ASSUME l.inst = K200 PROVE Turned(c, d, rs, hs, e)
        OBVIOUS
      <4>1. PICK g : Path(g, r, rs, hs, e) /\ g[e] = <<l.kind, l.tp>>
        BY <2>1 DEF Twin, Turned
      <4>2. Path(g, d, rs, hs, e)
        BY <3>3, <4>1, PathAlone
      <4>3. g[e] = <<c.kind, c.tp>>
        BY <3>2, <4>1
      <4> QED BY <4>2, <4>3 DEF Turned
    <3>5. Twin(c, d, rs, hs, e)
      BY <2>1, <3>2, <3>3, <3>4 DEF Twin
    <3> QED BY <1>1, <3>1, <3>2, <3>3, <3>5, TwinIn
  <2> QED BY <2>1, <2>2 DEF Twin
<1>3. ASSUME NEW l \in SimLots, NEW r \in LiveRows(e), Fresh(l, r, e) PROVE <<l, r>> \in P
  <2>1. l.kind = r.kind /\ l.tp = r.tp /\ r.at = e /\ e \in 1..e
    BY <1>3 DEF Fresh
  <2>2. Turned(l, r, rs, hs, e)
    <3>1. PICK kind, tp : kind = r.kind /\ tp = r.tp
      OBVIOUS
    <3>2. \E g : Path(g, r, rs, hs, e) /\ g[e] = <<kind, tp>>
      BY <2>1, <3>1, FreshPath
    <3>3. l.kind = kind /\ l.tp = tp
      BY <2>1, <3>1
    <3> QED BY <3>2, <3>3 DEF Turned
  <2>3. Twin(l, r, rs, hs, e)
    BY <1>3, <2>1, <2>2 DEF Fresh, Twin
  <2> QED BY <1>1, <2>3, TwinIn
<1> QED BY <1>1, <1>2, <1>3 DEF Twins

\* Rows of the first bars are rows of all of them.
LEMMA LiveLater ==
    ASSUME NEW m \in Nat
    PROVE  /\ LiveRows(m) \subseteq LiveRows(m + 1)
           /\ \A r \in LiveRows(m) : r \in FundRows(m) <=> r \in FundRows(m + 1)
           /\ \A r \in LiveRows(m) : r \in StratRows(m) <=> r \in StratRows(m + 1)
           /\ \A r \in LiveRows(m) : \A kind : r \in TactRows(m, kind) <=> r \in TactRows(m + 1, kind)
           /\ Counting(LiveRows(m)) /\ Counting(LiveRows(m + 1))
<1>1. Rows(m) \subseteq Rows(m + 1)
  BY DEF Rows
<1>2. LiveRows(m) \subseteq LiveRows(m + 1)
  BY <1>1 DEF LiveRows
<1>3. \A r \in LiveRows(m) : r \in FundRows(m) <=> r \in FundRows(m + 1)
  BY <1>2 DEF FundRows
<1>4. \A r \in LiveRows(m) : r \in StratRows(m) <=> r \in StratRows(m + 1)
  BY <1>2 DEF StratRows
<1>5. \A r \in LiveRows(m) : \A kind : r \in TactRows(m, kind) <=> r \in TactRows(m + 1, kind)
  BY <1>2 DEF TactRows
<1>6. Counting(LiveRows(m)) /\ Counting(LiveRows(m + 1))
  BY DEF Counting, LiveRows, Rows
<1> QED BY <1>2, <1>3, <1>4, <1>5, <1>6

\* So are lots and rows that are level.
LEMMA LevelLater ==
    ASSUME NEW m \in Nat, NEW s, NEW w, Level(s, w, m)
    PROVE  Level(s, w, m + 1)
<1>1. PICK X, Y : X = LiveRows(m) /\ Y = LiveRows(m + 1)
  OBVIOUS
<1>2. /\ X \subseteq Y
      /\ \A r \in X : r \in FundRows(m) <=> r \in FundRows(m + 1)
      /\ \A r \in X : r \in StratRows(m) <=> r \in StratRows(m + 1)
      /\ \A r \in X : \A kind : r \in TactRows(m, kind) <=> r \in TactRows(m + 1, kind)
      /\ Counting(X) /\ Counting(Y)
  BY <1>1, LiveLater
<1>3. w \in Seq(X) /\ Arranged(w, SeedsFirst(m))
  BY <1>1 DEF Level
<1>4. PICK y \in Tactical, z \in Tactical : InLine(s, w, m, y, z)
  BY DEF Level
<1>5. w \in Seq(Y) /\ \A i \in 1..Len(w) : w[i] \in X /\ w[i] \in Y
  BY <1>2, <1>3
<1>6. Arranged(w, SeedsFirst(m + 1))
  BY <1>1, <1>3, <1>5 DEF Arranged, SeedsFirst
<1>7. Arranged(w, KindFirst(Y, y))
  <2>1. Arranged(w, KindFirst(X, y))
    BY <1>1, <1>4 DEF InLine
  <2> QED BY <1>5, <2>1 DEF Arranged, KindFirst
<1>8. \A R, S : (\A r \in X : r \in R <=> r \in S) => Qty(w, R) = Qty(w, S)
  <2> SUFFICES ASSUME NEW R, NEW S, \A r \in X : r \in R <=> r \in S PROVE Qty(w, R) = Qty(w, S)
    OBVIOUS
  <2>1. \A i \in 1..Len(w) : (w[i] \in R <=> w[i] \in S) /\ (w[i] \in R => w[i].qty = w[i].qty)
    BY <1>5
  <2> QED BY <1>2, <1>3, <2>1, QtySame
<1>9. RowsHeld(w, m, y, z) = RowsHeld(w, m + 1, y, z)
  <2>1. Qty(w, FundRows(m)) = Qty(w, FundRows(m + 1))
    BY <1>2, <1>8
  <2>2. Qty(w, StratRows(m)) = Qty(w, StratRows(m + 1))
    BY <1>2, <1>8
  <2>3. Qty(w, TactRows(m, y)) = Qty(w, TactRows(m + 1, y))
    BY <1>2, <1>8
  <2>4. Qty(w, TactRows(m, z)) = Qty(w, TactRows(m + 1, z))
    BY <1>2, <1>8
  <2> QED BY <2>1, <2>2, <2>3, <2>4 DEF RowsHeld
<1>10. InLine(s, w, m + 1, y, z)
  BY <1>1, <1>4, <1>7, <1>9 DEF InLine
<1> QED BY <1>1, <1>5, <1>6, <1>10 DEF Level

\* A path does not see the bar of the evening it has come to.
LEMMA PathHeld ==
    ASSUME NEW r, NEW e \in Nat, r.at \in 1..e, NEW rs, NEW X, NEW hs \in Seq(X), Len(hs) = e - 1, NEW b \in X, NEW g,
           Path(g, r, rs, hs, e)
    PROVE  Path(g, r, rs, Append(hs, b), e)
<1>1. PICK h : h = Append(hs, b)
  OBVIOUS
<1>2. \A k \in r.at..(e - 1) : h[k] = hs[k]
  <2> TAKE k \in r.at..(e - 1)
  <2>1. k \in 1..Len(hs)
    OBVIOUS
  <2> QED BY <1>1, <2>1
<1>3. Path(g, r, rs, h, e)
  BY <1>2 DEF Path
<1> QED BY <1>1, <1>3

\* So twins stay twins on the next bar.
LEMMA TwinsHeld ==
    ASSUME NEW e \in Nat, NEW s \in Seq(SimLots), NEW w \in Seq(LiveRows(e)), NEW rs, NEW X, NEW hs \in Seq(X),
           Len(hs) = e - 1, NEW b \in X, Paired(s, w, TwinSet(rs, hs, e))
    PROVE  Paired(s, w, TwinSet(rs, Append(hs, b), e))
<1>1. PICK h, P, Q : h = Append(hs, b) /\ P = TwinSet(rs, hs, e) /\ Q = TwinSet(rs, h, e)
  OBVIOUS
<1>2. Len(s) = Len(w) /\ \A i \in 1..Len(s) : <<s[i], w[i]>> \in P
  BY <1>1 DEF Paired
<1>3. ASSUME NEW i \in 1..Len(s) PROVE <<s[i], w[i]>> \in Q
  <2>1. PICK l, r : l \in SimLots /\ l = s[i] /\ r = w[i] /\ r \in LiveRows(e)
    BY <1>2
  <2>2. Twin(l, r, rs, hs, e)
    BY <1>1, <1>2, <2>1, TwinIn
  <2>3. l.inst = K200 => Turned(l, r, rs, h, e)
    <3> SUFFICES ASSUME l.inst = K200 PROVE Turned(l, r, rs, h, e)
      OBVIOUS
    <3>1. PICK g : Path(g, r, rs, hs, e) /\ g[e] = <<l.kind, l.tp>>
      BY <2>2 DEF Twin, Turned
    <3>2. r.at \in 1..e
      BY <2>2 DEF Twin
    <3>3. Path(g, r, rs, h, e)
      BY <1>1, <3>1, <3>2, PathHeld
    <3> QED BY <3>1, <3>3 DEF Turned
  <2>4. Twin(l, r, rs, h, e)
    BY <2>2, <2>3 DEF Twin
  <2> QED BY <1>1, <2>1, <2>4, TwinIn
<1> QED BY <1>1, <1>2, <1>3 DEF Paired

\* A path goes on by one evening.
LEMMA PathOn ==
    ASSUME NEW r, NEW e \in Nat, r.at \in 1..e, NEW X, NEW rs \in Seq(X), Len(rs) = e, NEW new \in X, NEW hs,
           NEW l, Turned(l, r, rs, hs, e), NEW c, c.kind = TurnKind(l.kind, rs[e], new),
           c.tp = TurnTp(l.kind, l.tp, rs[e], new, hs[e])
    PROVE  Turned(c, r, Append(rs, new), hs, e + 1)
<1>a. PICK g : Path(g, r, rs, hs, e) /\ g[e] = <<l.kind, l.tp>>
  BY DEF Turned
<1>b. PICK kind, tp : kind = l.kind /\ tp = l.tp
  OBVIOUS
<1>1. PICK at \in Nat : at = r.at /\ at \in 1..e
  OBVIOUS
<1>2. PICK q : q = Append(rs, new)
  OBVIOUS
<1>3. \A k \in 1..e : q[k] = rs[k]
  BY <1>2
<1>4. q[e + 1] = new
  BY <1>2
<1>5. PICK last : last = <<TurnKind(kind, rs[e], new), TurnTp(kind, tp, rs[e], new, hs[e])>>
  OBVIOUS
<1>6. PICK f : f = [k \in at..(e + 1) |-> IF k = e + 1 THEN last ELSE g[k]]
  OBVIOUS
<1>7. f[e + 1] = last /\ \A k \in at..e : f[k] = g[k]
  BY <1>1, <1>6
<1>8. f[at] = <<r.kind, r.tp>>
  BY <1>1, <1>7, <1>a DEF Path
<1>9. ASSUME NEW k \in at..e
      PROVE  f[k + 1] = <<TurnKind(f[k][1], q[k], q[k + 1]), TurnTp(f[k][1], f[k][2], q[k], q[k + 1], hs[k])>>
  <2>1. CASE k = e
    <3>1. f[k] = g[e] /\ f[k][1] = kind /\ f[k][2] = tp
      BY <1>7, <1>a, <1>b, <2>1
    <3>2. q[k] = rs[e] /\ q[k + 1] = new /\ f[k + 1] = last /\ hs[k] = hs[e]
      BY <1>1, <1>3, <1>4, <1>7, <2>1
    <3> QED BY <1>5, <3>1, <3>2
  <2>2. CASE k # e
    <3>1. k \in at..(e - 1) /\ k + 1 \in at..e /\ k \in 1..e /\ k + 1 \in 1..e
      BY <1>1, <2>2
    <3>2. g[k + 1] = <<TurnKind(g[k][1], rs[k], rs[k + 1]), TurnTp(g[k][1], g[k][2], rs[k], rs[k + 1], hs[k])>>
      BY <1>1, <1>a, <3>1 DEF Path
    <3>3. f[k] = g[k] /\ f[k + 1] = g[k + 1] /\ q[k] = rs[k] /\ q[k + 1] = rs[k + 1]
      BY <1>3, <1>7, <3>1
    <3> QED BY <3>2, <3>3
  <2> QED BY <2>1, <2>2
<1>10. Path(f, r, q, hs, e + 1)
  <2>1. (e + 1) - 1 = e
    OBVIOUS
  <2> QED BY <1>1, <1>8, <1>9, <2>1 DEF Path
<1>11. f[e + 1] = <<c.kind, c.tp>>
  BY <1>5, <1>7, <1>b
<1> QED BY <1>2, <1>10, <1>11 DEF Turned

\* The conversion of the evening keeps twins.
LEMMA TwinsTurned ==
    ASSUME NEW e \in Nat \ {0}, NEW s \in Seq(SimLots), NEW v \in Seq(SimLots), NEW w \in Seq(LiveRows(e)),
           NEW X, NEW rs \in Seq(X), Len(rs) = e, NEW new \in X, NEW hs, NEW old, old = rs[e], NEW b, b = hs[e],
           Converted(s, v, old, new, b), Paired(s, w, TwinSet(rs, hs, e))
    PROVE  Paired(v, w, TwinSet(Append(rs, new), hs, e + 1))
<1>1. PICK q, P, Q : q = Append(rs, new) /\ P = TwinSet(rs, hs, e) /\ Q = TwinSet(q, hs, e + 1)
  OBVIOUS
<1>2. Len(s) = Len(w) /\ Len(v) = Len(s) /\ \A i \in 1..Len(s) : <<s[i], w[i]>> \in P
  BY <1>1 DEF Paired, Converted
<1>3. ASSUME NEW i \in 1..Len(s) PROVE <<v[i], w[i]>> \in Q
  <2>1. PICK l, r : l \in SimLots /\ l = s[i] /\ r = w[i] /\ r \in LiveRows(e)
    BY <1>2
  <2>2. PICK c \in SimLots : c = v[i]
    BY <1>2
  <2>3. Twin(l, r, rs, hs, e)
    BY <1>1, <1>2, <2>1, TwinIn
  <2>4. /\ c.inst = l.inst /\ c.qty = l.qty /\ c.price = l.price /\ c.tag = l.tag
        /\ l.inst = LEV => c = l
        /\ l.inst = K200 => c.kind = TurnKind(l.kind, old, new) /\ c.tp = TurnTp(l.kind, l.tp, old, new, b)
    BY <2>1, <2>2 DEF Converted
  <2>5. r \in LiveRows(e + 1)
    BY <2>1, LiveLater
  <2>6. r.at \in 1..e /\ r.at \in 1..(e + 1)
    BY <2>3 DEF Twin
  <2>7. c.inst = K200 => Turned(c, r, q, hs, e + 1)
    <3> SUFFICES ASSUME c.inst = K200 PROVE Turned(c, r, q, hs, e + 1)
      OBVIOUS
    <3>1. Turned(l, r, rs, hs, e)
      BY <2>3, <2>4 DEF Twin
    <3>2. c.kind = TurnKind(l.kind, rs[e], new) /\ c.tp = TurnTp(l.kind, l.tp, rs[e], new, hs[e])
      BY <2>4
    <3> QED BY <1>1, <2>6, <3>1, <3>2, PathOn
  <2>8. Twin(c, r, q, hs, e + 1)
    BY <2>3, <2>4, <2>6, <2>7 DEF Twin
  <2>9. <<c, r>> \in Q
    BY <1>1, <2>5, <2>8, TwinIn
  <2> QED BY <2>1, <2>2, <2>9
<1> QED BY <1>1, <1>2, <1>3 DEF Paired

\* What the rows are rebuilt as, and of it what the tracks are.
LEMMA RebuiltTracks ==
    ASSUME NEW e \in Nat, e = Len(hist), NEW r \in LiveRows(e), NEW x, x = Rebuilt(r)
    PROVE  /\ x.qty = r.qty /\ x.qty \in Nat
           /\ x.kind = "lev_strat" <=> r \in StratRows(e)
           /\ \A kind \in Tactical : x.kind = kind <=> r \in TactRows(e, kind)
<1>1. r.qty \in Nat /\ r.inst \in {K200, LEV}
  BY DEF LiveRows, Rows
<1>2. CASE r.kind = "none"
  <2>1. x.qty = r.qty /\ x.kind = IF r.inst = LEV THEN "lev_strat" ELSE "core"
    BY <1>2, RebuiltPlain
  <2> QED BY <1>1, <1>2, <2>1, Instruments DEF StratRows, TactRows, Tactical
<1>3. CASE r.kind # "none" /\ r.inst = LEV
  <2>1. RebuiltAs(x, r, e)
    BY <1>3, RebuiltPair
  <2>2. x.qty = r.qty /\ x.kind = r.kind
    BY <1>3, <2>1 DEF RebuiltAs
  <2> QED BY <1>1, <1>3, <2>2 DEF StratRows, TactRows, Tactical
<1>4. CASE r.kind # "none" /\ r.inst = K200
  <2>1. RebuiltAs(x, r, e)
    BY <1>4, RebuiltFund
  <2>2. x.qty = r.qty /\ x.kind \in {"grid", "core"}
    BY <1>4, <2>1 DEF RebuiltAs
  <2>3. r.kind \in {"grid", "core"} /\ r.inst # LEV
    BY <1>4, Instruments DEF LiveRows
  <2> QED BY <1>1, <2>2, <2>3 DEF StratRows, TactRows, Tactical
<1> QED BY <1>1, <1>2, <1>3, <1>4

\* What is held of a kind, counted in another sequence.
Marked(v, w, kind, S) ==
    Len(v) = Len(w) /\ \A i \in 1..Len(w) : (v[i].kind = kind <=> w[i] \in S) /\ v[i].qty = w[i].qty

\* Where the places of a kind are marked and the quantities agree, as much is held.
LEMMA KindSame ==
    ASSUME NEW Y, Counting(Y), NEW w \in Seq(Y), NEW Z, Counting(Z), NEW v \in Seq(Z), NEW kind, NEW S,
           Marked(v, w, kind, S)
    PROVE  HeldKind(v, {kind}) = Qty(w, S)
<1>a. Len(v) = Len(w) /\ \A i \in 1..Len(w) : (v[i].kind = kind <=> w[i] \in S) /\ v[i].qty = w[i].qty
  BY DEF Marked
<1>1. PICK R : R = OfKind(v, {kind})
  OBVIOUS
<1>2. \A i \in 1..Len(v) : (v[i] \in R <=> w[i] \in S) /\ (v[i] \in R => v[i].qty = w[i].qty)
  BY <1>1, <1>a DEF OfKind, Range
<1>3. Qty(v, R) = Qty(w, S)
  BY <1>2, <1>a, QtySame
<1> QED BY <1>1, <1>3 DEF HeldKind

\* A live account in line with the simulation holds what it holds.
LEMMA LiveHeld ==
    ASSUME NEW e \in Nat, e = Len(hist), NEW s \in Seq(SimLots), NEW w, Level(s, w, e),
           NEW x, x = [i \in 1..Len(w) |-> Rebuilt(w[i])]
    PROVE  Held(w, K200) = Held(s, K200) /\ \A kind \in LevKinds : HeldKind(x, {kind}) = HeldKind(s, {kind})
<1>1. PICK Y : Y = LiveRows(e)
  OBVIOUS
<1>2. w \in Seq(Y) /\ Counting(Y) /\ \A i \in 1..Len(w) : w[i] \in Y
  <2>1. w \in Seq(Y)
    BY <1>1 DEF Level
  <2>2. Counting(Y)
    BY <1>1, LiveLater
  <2> QED BY <2>1, <2>2
<1>3. PICK y \in Tactical, z \in Tactical : InLine(s, w, e, y, z)
  BY DEF Level
<1>4. y # z /\ LotsHeld(s, y, z) = RowsHeld(w, e, y, z)
  BY <1>3 DEF InLine
<1>5. /\ Qty(s, FundLots) = Qty(w, FundRows(e)) /\ Qty(s, StratLots) = Qty(w, StratRows(e))
      /\ Qty(s, TactLotsOf(y)) = Qty(w, TactRows(e, y)) /\ Qty(s, TactLotsOf(z)) = Qty(w, TactRows(e, z))
  BY <1>4 DEF LotsHeld, RowsHeld
<1>6. Held(w, K200) = Held(s, K200)
  <2>1. \A i \in 1..Len(w) : /\ w[i] \in OfInst(w, K200) <=> w[i] \in FundRows(e)
                             /\ w[i] \in OfInst(w, K200) => w[i].qty = w[i].qty
    BY <1>1, <1>2 DEF OfInst, FundRows, Range
  <2>2. PICK R, S : R = OfInst(w, K200) /\ S = FundRows(e)
    OBVIOUS
  <2>3. \A i \in 1..Len(w) : (w[i] \in R <=> w[i] \in S) /\ (w[i] \in R => w[i].qty = w[i].qty)
    BY <2>1, <2>2
  <2>4. Qty(w, R) = Qty(w, S)
    BY <1>2, <2>3, QtySame
  <2> QED BY <1>5, <2>2, <2>4, HeldIs DEF Held
<1>7. PICK Z : Z = {Rebuilt(r) : r \in Y}
  OBVIOUS
<1>8. Counting(Z)
  BY <1>1, <1>7, RebuiltTracks DEF Counting
<1>9. x \in Seq(Z) /\ Len(x) = Len(w) /\ \A i \in 1..Len(w) : x[i] = Rebuilt(w[i])
  BY <1>2, <1>7
<1>10. \A kind, S : (\A i \in 1..Len(w) : x[i].kind = kind <=> w[i] \in S) => HeldKind(x, {kind}) = Qty(w, S)
  <2> SUFFICES ASSUME NEW kind, NEW S, \A i \in 1..Len(w) : x[i].kind = kind <=> w[i] \in S
      PROVE HeldKind(x, {kind}) = Qty(w, S)
    OBVIOUS
  <2>1. \A i \in 1..Len(w) : (x[i].kind = kind <=> w[i] \in S) /\ x[i].qty = w[i].qty
    BY <1>1, <1>2, <1>9, RebuiltTracks
  <2>2. PICK v : v = x
    OBVIOUS
  <2>3. v \in Seq(Z) /\ Len(v) = Len(w) /\ \A i \in 1..Len(w) : (v[i].kind = kind <=> w[i] \in S) /\ v[i].qty = w[i].qty
    BY <1>9, <2>1, <2>2
  <2>4. HeldKind(v, {kind}) = Qty(w, S)
    <3>1. w \in Seq(Y) /\ Counting(Y) /\ Counting(Z)
      BY <1>2, <1>8
    <3>2. v \in Seq(Z) /\ Len(v) = Len(w)
      BY <2>3
    <3>3. Marked(v, w, kind, S)
      BY <2>3 DEF Marked
    <3> QED BY <3>1, <3>2, <3>3, KindSame
  <2> QED BY <2>2, <2>4
<1>11. HeldKind(x, {"lev_strat"}) = HeldKind(s, {"lev_strat"})
  <2>1. \A i \in 1..Len(w) : x[i].kind = "lev_strat" <=> w[i] \in StratRows(e)
    BY <1>1, <1>2, <1>9, RebuiltTracks
  <2>2. HeldKind(x, {"lev_strat"}) = Qty(w, StratRows(e))
    BY <1>10, <2>1
  <2> QED BY <1>5, <2>2, HeldIs
<1>12. \A kind \in Tactical : HeldKind(x, {kind}) = HeldKind(s, {kind})
  <2> SUFFICES ASSUME NEW kind \in Tactical PROVE HeldKind(x, {kind}) = HeldKind(s, {kind})
    OBVIOUS
  <2>1. \A i \in 1..Len(w) : x[i].kind = kind <=> w[i] \in TactRows(e, kind)
    BY <1>1, <1>2, <1>9, RebuiltTracks
  <2>2. HeldKind(x, {kind}) = Qty(w, TactRows(e, kind))
    BY <1>10, <2>1
  <2>3. HeldKind(s, {kind}) = Qty(s, TactLotsOf(kind))
    BY TactHeld
  <2>4. kind = y \/ kind = z
    BY <1>4 DEF Tactical
  <2> QED BY <1>5, <2>2, <2>3, <2>4
<1> QED BY <1>6, <1>11, <1>12 DEF LevKinds

\* The lots rebuilt are, place by place, those of the simulation.
LEMMA LiveSame ==
    ASSUME NEW e \in Nat, e = Len(hist), NEW s \in Seq(SimLots), NEW w \in Seq(LiveRows(e)),
           Paired(s, w, TwinSet(regimes, hist, e)), NEW x, x = [i \in 1..Len(w) |-> Rebuilt(w[i])]
    PROVE  SameLots(x, s)
<1>1. Len(s) = Len(w) /\ Len(x) = Len(w) /\ \A i \in 1..Len(w) : x[i] = Rebuilt(w[i])
  BY DEF Paired
<1>2. ASSUME NEW i \in 1..Len(w)
      PROVE  /\ x[i].inst = s[i].inst /\ x[i].kind = s[i].kind /\ x[i].tp = s[i].tp
             /\ x[i].price = s[i].price /\ x[i].qty = s[i].qty
  <2>1. PICK l, r : l \in SimLots /\ l = s[i] /\ r = w[i] /\ r \in LiveRows(e)
    BY <1>1
  <2>2. <<l, r>> \in TwinSet(regimes, hist, e)
    BY <1>1, <2>1 DEF Paired
  <2>3. Twin(l, r, regimes, hist, e)
    BY <2>1, <2>2, TwinIn
  <2>4. l.inst = r.inst /\ l.qty = r.qty /\ l.price = r.price /\ r.kind # "none" /\ l.inst \in {K200, LEV}
    <3>1. l.inst \in {K200, LEV}
      BY <2>1 DEF SimLots
    <3> QED BY <2>3, <3>1 DEF Twin
  <2>5. PICK c : c = Rebuilt(r)
    OBVIOUS
  <2>6. RebuiltAs(c, r, e)
    BY <2>1, <2>4, <2>5, RebuiltPair, RebuiltFund
  <2>7. c.kind = l.kind /\ c.tp = l.tp
    <3>1. CASE r.inst = LEV
      BY <2>3, <2>4, <2>6, <3>1 DEF RebuiltAs, Twin
    <3>2. CASE r.inst = K200
      <4>1. PICK g : Path(g, r, regimes, hist, e) /\ g[e] = <<l.kind, l.tp>>
        BY <2>3, <2>4, <3>2 DEF Twin, Turned
      <4>2. <<c.kind, c.tp>> = g[e]
        BY <2>6, <3>2, <4>1 DEF RebuiltAs
      <4> QED BY <4>1, <4>2
    <3> QED BY <2>4, <3>1, <3>2
  <2>8. c = x[i]
    BY <1>1, <2>1, <2>5
  <2> QED BY <2>1, <2>4, <2>6, <2>7, <2>8 DEF RebuiltAs
<1> DEFINE key(l) == <<l.inst, l.kind, l.tp, l.price, l.qty>>
<1>3. \A i \in 1..Len(w) : key(x[i]) = key(s[i])
  BY <1>2
<1> DEFINE places(u, l) == {i \in 1..Len(u) : key(u[i]) = key(l)}
<1>4. \A l : places(x, l) = places(s, l)
  <2> HIDE DEF key
  <2> QED BY <1>1, <1>3
<1>5. \A l \in Range(x) \cup Range(s) : Cardinality(places(x, l)) = Cardinality(places(s, l))
  <2> HIDE DEF places
  <2> QED BY <1>4
<1> QED BY <1>5 DEF SameLots

-----------------------------------------------------------------------------
(* The invariant, action by action. *)

\* The regimes as the lots are converted by now, and the evening they have come to.
RegimesNow == IF plan.planned THEN Append(regimes, regime) ELSE regimes
EveningNow == IF plan.planned THEN Len(hist) + 1 ELSE Len(hist)

\* The parts of the invariant: lots and rows are level; the plan fits the lots; without a seed the
\* lots are twins of the rows until a take-profit has strayed; nothing is held before the first
\* plan; the regime of the last evening is recorded.
Lined == Level(lots, rows, Len(hist)) /\ Arranged(lots, ById)
PlanFits ==
    plan.ok => Ranked(plan.orders, lots, nextLot) /\ Earmarked(plan.orders, lots) /\ FirstOk <= Len(hist)
Twinned == seed = <<>> /\ ~strayed => Paired(lots, rows, TwinSet(RegimesNow, hist, EveningNow))
NoneYet == seed = <<>> /\ (Len(hist) <= first \/ Len(hist) <= FirstOk) => Len(lots) = 0 /\ Len(rows) = 0
RegimeHeld == ~plan.planned /\ Len(hist) > first => regimes[Len(hist)] = regime
LiveInv == PlannerInv /\ Lined /\ PlanFits /\ Twinned /\ NoneYet /\ RegimeHeld

\* The lots of the start are level with its rows.
LEMMA SeedsLevel ==
    ASSUME NEW n \in Nat, NEW s \in Seq(SimLots), NEW w \in Seq(Rows(0)), Len(s) = n, Len(w) = n,
           \A i \in 1..n : /\ s[i].id = i /\ s[i].inst = w[i].inst /\ s[i].qty = w[i].qty /\ w[i].kind = "none"
                           /\ s[i].kind = IF s[i].inst = K200 THEN "core" ELSE "lev_strat"
    PROVE  Level(s, w, 0) /\ Arranged(s, ById)
<1>1. \A i \in 1..n : s[i] \in SimLots /\ s[i].inst \in {K200, LEV} /\ w[i] \in Rows(0)
  BY DEF SimLots
<1>2. \A i \in 1..n : w[i] \in LiveRows(0)
  BY <1>1 DEF LiveRows
<1>3. PICK X, Y : X = SimLots /\ Y = LiveRows(0)
  OBVIOUS
<1>4. s \in Seq(X) /\ w \in Seq(Y) /\ Counting(X) /\ Counting(Y)
  <2>1. w \in Seq(Y)
    BY <1>2, <1>3
  <2>2. 0 \in Nat
    OBVIOUS
  <2>3. Counting(Y)
    BY <1>3, <2>2, LiveLater
  <2> QED BY <1>3, <2>1, <2>3, SimLotsCount
<1>5. Arranged(s, ById)
  <2> SUFFICES ASSUME NEW i \in 1..Len(s), NEW j \in 1..Len(s), i < j PROVE <<s[i], s[j]>> \in ById
    BY DEF Arranged
  <2>1. s[i].id < s[j].id /\ s[i] \in SimLots /\ s[j] \in SimLots
    BY <1>1
  <2> QED BY <2>1 DEF ById
<1>6. Arranged(w, SeedsFirst(0))
  BY <1>2 DEF Arranged, SeedsFirst
<1>7. PICK y \in Tactical, z \in Tactical : y = "lev_tact1" /\ z = "lev_tact2" /\ y # z
  BY DEF Tactical
<1>8. \A i \in 1..n : s[i].kind \notin Tactical /\ w[i].kind \notin Tactical
  BY <1>1 DEF Tactical
<1>9. Arranged(s, KindFirst(X, y)) /\ Arranged(w, KindFirst(Y, y))
  BY <1>1, <1>2, <1>3, <1>8 DEF Arranged, KindFirst
<1>10. Qty(s, FundLots) = Qty(w, FundRows(0))
  <2>1. \A i \in 1..Len(s) : (s[i] \in FundLots <=> w[i] \in FundRows(0)) /\ (s[i] \in FundLots => s[i].qty = w[i].qty)
    BY <1>1, <1>2 DEF FundLots, FundRows
  <2> QED BY <1>4, <2>1, QtySame
<1>11. Qty(s, StratLots) = Qty(w, StratRows(0))
  <2>1. \A i \in 1..Len(s) : (s[i] \in StratLots <=> w[i] \in StratRows(0)) /\ (s[i] \in StratLots => s[i].qty = w[i].qty)
    BY <1>1, <1>2, Instruments DEF StratLots, StratRows
  <2> QED BY <1>4, <2>1, QtySame
<1>12. \A kind \in Tactical : Qty(s, TactLotsOf(kind)) = Qty(w, TactRows(0, kind))
  <2> TAKE kind \in Tactical
  <2>1. \A i \in 1..Len(s) : /\ s[i] \in TactLotsOf(kind) <=> w[i] \in TactRows(0, kind)
                             /\ s[i] \in TactLotsOf(kind) => s[i].qty = w[i].qty
    BY <1>8 DEF TactLotsOf, TactRows
  <2> QED BY <1>4, <2>1, QtySame
<1>13. LotsHeld(s, y, z) = RowsHeld(w, 0, y, z)
  BY <1>10, <1>11, <1>12 DEF LotsHeld, RowsHeld
<1>14. InLine(s, w, 0, y, z)
  BY <1>3, <1>7, <1>9, <1>13 DEF InLine
<1> QED BY <1>3, <1>4, <1>5, <1>6, <1>14 DEF Level

\* Empty sequences are paired.
LEMMA NonePaired == ASSUME NEW s, NEW w, Len(s) = 0, Len(w) = 0, NEW P PROVE Paired(s, w, P)
  BY DEF Paired

\* The simulation starts with lots and rows of the seed.
LEMMA LiveStarts == PlannerInit => LiveInv
<1> SUFFICES ASSUME PlannerInit PROVE LiveInv
  OBVIOUS
<1>1. PlannerInv /\ hist = <<>> /\ Len(hist) = 0 /\ plan = NoPlan
  BY PlannerStarts DEF PlannerInit
<1>2. ~plan.ok /\ ~plan.planned
  BY <1>1 DEF NoPlan
<1>a. PICK H : H = [inst : {K200, LEV}, qty : Nat \ {0}, price : Nat]
  OBVIOUS
<1>b. seed \in Seq(H)
  BY <1>a, PlannerAssumption DEF PlannerInit
<1>3. PICK n \in Nat : n = Len(seed) /\ \A i \in 1..n : seed[i] \in H
  BY <1>b
<1>4. lots = [i \in 1..n |-> SeedLot(i)] /\ rows = [i \in 1..n |-> SeedRow(i)]
  BY <1>3 DEF PlannerInit
<1>5. PICK s \in Seq(SimLots), w \in Seq(SimLots) \cup Seq(Rows(0)) : s = lots /\ w = rows /\ w \in Seq(Rows(0))
  BY <1>1, InvSettles DEF PlannerInv, PlannerTypes, Settled
<1>6. Len(s) = n /\ Len(w) = n /\ \A i \in 1..n : s[i] = SeedLot(i) /\ w[i] = SeedRow(i)
  BY <1>4, <1>5
<1>7. \A i \in 1..n : /\ s[i].id = i /\ s[i].inst = w[i].inst /\ s[i].qty = w[i].qty /\ w[i].kind = "none"
                      /\ s[i].kind = IF s[i].inst = K200 THEN "core" ELSE "lev_strat"
  <2> TAKE i \in 1..n
  <2>1. PICK h, kind : h = seed[i] /\ kind = IF h.inst = K200 THEN "core" ELSE "lev_strat"
    OBVIOUS
  <2>2. s[i] = [id |-> i, inst |-> h.inst, qty |-> h.qty, price |-> h.price, tp |-> NoPrice,
                tag |-> NoPrice, kind |-> kind]
    BY <1>6, <2>1 DEF SeedLot
  <2>3. w[i] = [inst |-> h.inst, qty |-> h.qty, price |-> h.price, at |-> 0, kind |-> "none", tp |-> NoPrice]
    BY <1>6, <2>1 DEF SeedRow
  <2>4. s[i].id = i /\ s[i].inst = h.inst /\ s[i].qty = h.qty /\ s[i].kind = kind
    BY <2>2
  <2>5. w[i].inst = h.inst /\ w[i].qty = h.qty /\ w[i].kind = "none"
    BY <2>3
  <2> QED BY <2>1, <2>4, <2>5
<1>8. Level(s, w, 0) /\ Arranged(s, ById)
  <2>1. s \in Seq(SimLots) /\ w \in Seq(Rows(0)) /\ Len(s) = n /\ Len(w) = n /\ n \in Nat
    BY <1>3, <1>5, <1>6
  <2> QED BY <1>7, <2>1, SeedsLevel
<1>9. Lined
  BY <1>1, <1>5, <1>8 DEF Lined
<1>10. seed = <<>> => Len(lots) = 0 /\ Len(rows) = 0
  BY <1>3, <1>5, <1>6
<1>11. Twinned
  BY <1>10, NonePaired DEF Twinned
<1>12. RegimeHeld
  <2>1. first \in Nat
    BY <1>1 DEF PlannerInv, PlannerTypes
  <2> QED BY <1>1, <2>1 DEF RegimeHeld
<1> QED BY <1>1, <1>2, <1>9, <1>10, <1>11, <1>12 DEF LiveInv, PlanFits, NoneYet

\* What pairs are twins is only seen with the flags.
LEMMA TwinSetStays == ASSUME NEW rs, NEW hs, NEW e, flags' = flags PROVE TwinSet(rs, hs, e)' = TwinSet(rs, hs, e)
<1>1. \A kind, old, new : TurnKind(kind, old, new)' = TurnKind(kind, old, new)
  BY DEF TurnKind
<1>2. \A kind, tp, old, new, b : TurnTp(kind, tp, old, new, b)' = TurnTp(kind, tp, old, new, b)
  BY DEF TurnTp
<1>3. \A g, r : Path(g, r, rs, hs, e)' <=> Path(g, r, rs, hs, e)
  BY <1>1, <1>2 DEF Path
<1>4. \A l, r : Turned(l, r, rs, hs, e)' <=> Turned(l, r, rs, hs, e)
  BY <1>3 DEF Turned
<1>5. \A l, r : Twin(l, r, rs, hs, e)' <=> Twin(l, r, rs, hs, e)
  BY <1>4 DEF Twin
<1> QED BY <1>5 DEF TwinSet

\* A bar of the warm-up: nothing is held without a seed.
LEMMA LiveWarmup == LiveInv /\ PlannerInv' /\ Warmup => LiveInv'
<1> SUFFICES ASSUME LiveInv, PlannerInv', Warmup PROVE LiveInv'
  OBVIOUS
<1>1. PlannerTypes /\ PlanCurrent /\ Lined /\ NoneYet
  BY DEF LiveInv, PlannerInv
<1>2. Len(hist) < first /\ UNCHANGED <<flags, seed, first, cash, lots, nextLot, firstPlan, plan, rows, strayed>>
  BY DEF Warmup
<1>3. PICK b \in Bars : hist' = Append(hist, b)
  BY DEF Warmup
<1>4. PICK n \in Nat : n = Len(hist) /\ first \in Nat /\ n < first
  BY <1>1, <1>2 DEF PlannerTypes
<1>5. Len(hist') = n + 1
  BY <1>1, <1>3, <1>4 DEF PlannerTypes
<1>6. ~plan.ok
  <2>1. ~(n >= first)
    BY <1>4
  <2> QED BY <1>1, <1>4, <2>1 DEF PlanCurrent, NoPlan
<1>7. seed = <<>> => Len(lots) = 0 /\ Len(rows) = 0
  BY <1>1, <1>4 DEF NoneYet
<1>8. Lined'
  <2>1. Level(lots, rows, n) /\ Arranged(lots, ById)
    BY <1>1, <1>4 DEF Lined
  <2>2. Level(lots, rows, n + 1)
    BY <2>1, LevelLater
  <2>3. PICK s, w, m : s = lots /\ w = rows /\ m = n + 1
    OBVIOUS
  <2>4. lots' = s /\ rows' = w /\ Len(hist') = m
    BY <1>2, <1>5, <2>3
  <2>5. Level(s, w, m) /\ Arranged(s, ById)
    BY <2>1, <2>2, <2>3
  <2> QED BY <2>4, <2>5 DEF Lined
<1>9. PlanFits'
  BY <1>2, <1>6 DEF PlanFits
<1>10. (seed = <<>> => Len(lots) = 0 /\ Len(rows) = 0)'
  BY <1>2, <1>7
<1>11. Twinned'
  BY <1>10, NonePaired DEF Twinned
<1>12. NoneYet'
  BY <1>10 DEF NoneYet
<1>13. RegimeHeld'
  <2>1. ~(Len(hist') > first')
    BY <1>2, <1>4, <1>5
  <2> QED BY <2>1 DEF RegimeHeld
<1> QED BY <1>8, <1>9, <1>11, <1>12, <1>13 DEF LiveInv

\* A step that changes nothing.
LEMMA LiveStutter == LiveInv /\ PlannerInv' /\ UNCHANGED plannerVars => LiveInv'
<1> SUFFICES ASSUME LiveInv, PlannerInv', UNCHANGED plannerVars PROVE LiveInv'
  OBVIOUS
<1>1. /\ flags' = flags /\ seed' = seed /\ first' = first /\ hist' = hist /\ regimes' = regimes /\ regime' = regime
      /\ lots' = lots /\ nextLot' = nextLot /\ plan' = plan /\ rows' = rows /\ strayed' = strayed
  BY DEF plannerVars
<1>2. Lined /\ PlanFits /\ Twinned /\ NoneYet /\ RegimeHeld
  BY DEF LiveInv
<1>3. PICK s, w, e, os, nx : s = lots /\ w = rows /\ e = Len(hist) /\ os = plan.orders /\ nx = nextLot
  OBVIOUS
<1>4. lots' = s /\ rows' = w /\ Len(hist') = e /\ plan'.orders = os /\ nextLot' = nx
  BY <1>1, <1>3
<1>5. Lined'
  <2>1. Level(s, w, e) /\ Arranged(s, ById)
    BY <1>2, <1>3 DEF Lined
  <2> QED BY <1>4, <2>1 DEF Lined
<1>6. PlanFits'
  <2>1. plan.ok => Ranked(os, s, nx) /\ Earmarked(os, s) /\ FirstOk <= e
    BY <1>2, <1>3 DEF PlanFits
  <2>2. plan'.ok => Ranked(os, s, nx) /\ Earmarked(os, s) /\ FirstOk <= e
    BY <1>1, <2>1
  <2> QED BY <1>4, <2>2 DEF PlanFits
<1>7. Twinned'
  <2>1. PICK rs, hs, ev : rs = RegimesNow /\ hs = hist /\ ev = EveningNow
    OBVIOUS
  <2>2. RegimesNow' = rs /\ hist' = hs /\ EveningNow' = ev
    BY <1>1, <2>1 DEF RegimesNow, EveningNow
  <2>3. PICK P : P = TwinSet(rs, hs, ev)
    OBVIOUS
  <2>4. TwinSet(rs, hs, ev)' = P
    BY <1>1, <2>3, TwinSetStays
  <2>5. seed' = <<>> /\ ~strayed' => Paired(s, w, P)
    BY <1>1, <1>2, <1>3, <2>1, <2>3 DEF Twinned
  <2> QED BY <1>4, <2>2, <2>4, <2>5 DEF Twinned
<1>8. NoneYet'
  BY <1>1, <1>2 DEF NoneYet
<1>9. RegimeHeld'
  BY <1>1, <1>2 DEF RegimeHeld
<1> QED BY <1>5, <1>6, <1>7, <1>8, <1>9 DEF LiveInv

\* An evening without a plan: the lots stay, and there are none without a seed.
LEMMA LiveIdle == LiveInv /\ PlannerInv' /\ MakePlan /\ Len(hist) < FirstOk => LiveInv'
<1> SUFFICES ASSUME LiveInv, PlannerInv', MakePlan, Len(hist) < FirstOk PROVE LiveInv'
  OBVIOUS
<1>1. PlannerTypes /\ Lined /\ NoneYet
  BY DEF LiveInv, PlannerInv
<1>2. /\ plan' = [NoPlan EXCEPT !.planned = TRUE] /\ lots' = lots
      /\ UNCHANGED <<flags, seed, first, hist, regimes, nextLot, rows, strayed>>
  BY DEF MakePlan
<1>3. ~plan'.ok /\ plan'.planned
  BY <1>2 DEF NoPlan
<1>4. PICK n \in Nat : n = Len(hist) /\ n <= FirstOk
  BY <1>1, PlannerAssumption DEF PlannerTypes
<1>5. (seed = <<>> => Len(lots) = 0 /\ Len(rows) = 0)'
  <2>1. seed = <<>> => Len(lots) = 0 /\ Len(rows) = 0
    BY <1>1, <1>4 DEF NoneYet
  <2> QED BY <1>2, <2>1
<1>6. Lined'
  <2>1. PICK s, w, e : s = lots /\ w = rows /\ e = Len(hist)
    OBVIOUS
  <2>2. lots' = s /\ rows' = w /\ Len(hist') = e
    BY <1>2, <2>1
  <2>3. Level(s, w, e) /\ Arranged(s, ById)
    BY <1>1, <2>1 DEF Lined
  <2> QED BY <2>2, <2>3 DEF Lined
<1>7. Twinned'
  BY <1>5, NonePaired DEF Twinned
<1>8. NoneYet'
  BY <1>5 DEF NoneYet
<1> QED BY <1>3, <1>6, <1>7, <1>8 DEF LiveInv, PlanFits, RegimeHeld

\* The plan of an evening, and the conversion of the lots.
LEMMA LiveMakePlan == LiveInv /\ PlannerInv' /\ MakePlan /\ ~(Len(hist) < FirstOk) => LiveInv'
<1> SUFFICES ASSUME LiveInv, PlannerInv', MakePlan, ~(Len(hist) < FirstOk) PROVE LiveInv'
  OBVIOUS
<1>1. PlannerTypes /\ Lined /\ NoneYet /\ Twinned /\ RegimeHeld
  BY DEF LiveInv, PlannerInv
<1>2. ~plan.planned /\ Len(hist) >= first /\ UNCHANGED <<flags, seed, first, hist, regimes, nextLot, rows, strayed>>
  BY DEF MakePlan
<1>3. PICK p, b, old : p = PlanOf(bar) /\ b = bar /\ old = regime
  OBVIOUS
<1>4. plan' = p /\ regime' = p.regime /\ lots' = Convert(lots, old, p.regime, b)
  BY <1>3 DEF MakePlan
<1>5. PICK e \in Nat \ {0} : e = Len(hist) /\ e >= first /\ first \in Nat /\ FirstOk <= e
  <2>1. FirstOk \in Nat \ {0} /\ Len(hist) \in Nat /\ first \in Nat
    BY <1>1, PlannerAssumption DEF PlannerTypes
  <2> QED BY <1>2, <2>1
<1>6. Settled /\ BarOK(b) /\ Priced(b) /\ Worth(cash, lots, b) >= 0
  <2>1. Len(hist) >= 1
    BY <1>5
  <2>2. Worth(cash, lots, bar) >= 0
    BY DEF MakePlan, Solvent
  <2> QED BY <1>1, <1>3, <2>1, <2>2, InvSettles, BarsOK
<1>7. PICK nx \in Nat, s \in Seq(SimLots) : nx = nextLot /\ s = lots /\ s \in Seq(LotsTo(nx))
  BY <1>1, InvSettles DEF PlannerTypes, Settled
<1>8. PICK w : w = rows
  OBVIOUS
<1>9. Level(s, w, e) /\ Arranged(s, ById) /\ w \in Seq(LiveRows(e))
  BY <1>1, <1>5, <1>7, <1>8 DEF Lined, Level
<1>10. PICK os, new : os = p.orders /\ new = p.regime
  OBVIOUS
<1>11. Ranked(os, s, nx) /\ Earmarked(os, s)
  <2>1. Numbered
    BY <1>7, <1>9 DEF Numbered
  <2>2. os = PlanOf(b).orders
    BY <1>3, <1>10
  <2>3. Ranked(os, lots, nextLot) /\ Earmarked(os, lots)
    BY <1>6, <2>1, <2>2, PlanRanks
  <2> QED BY <1>7, <2>3
<1>12. PICK v : v = Convert(s, old, new, b)
  OBVIOUS
<1>13. v \in Seq(LotsTo(nx)) /\ Converted(s, v, old, new, b)
  BY <1>6, <1>7, <1>12, ConvertIs
<1>14. v \in Seq(SimLots)
  BY <1>13 DEF LotsTo
<1>15. Level(v, w, e) /\ Arranged(v, ById) /\ Ranked(os, v, nx) /\ Earmarked(os, v)
  BY <1>7, <1>9, <1>11, <1>13, <1>14, ConvertStays
<1>16. lots' = v /\ rows' = w /\ Len(hist') = e /\ plan'.orders = os /\ nextLot' = nx /\ regime' = new
  BY <1>2, <1>4, <1>5, <1>7, <1>8, <1>10, <1>12
<1>17. plan'.planned
  <2>1. p.planned
    BY <1>3 DEF PlanOf
  <2> QED BY <1>4, <2>1
<1>18. Lined'
  BY <1>15, <1>16 DEF Lined
<1>19. PlanFits'
  BY <1>5, <1>15, <1>16 DEF PlanFits
<1>20. NoneYet'
  <2>1. seed = <<>> /\ (e <= first \/ e <= FirstOk) => Len(s) = 0 /\ Len(w) = 0
    BY <1>1, <1>5, <1>7, <1>8 DEF NoneYet
  <2>2. Len(v) = Len(s)
    BY <1>13 DEF Converted
  <2> QED BY <1>2, <1>16, <2>1, <2>2 DEF NoneYet
<1>21. Twinned'
  <2>1. PICK rs, hs, q, P : rs = regimes /\ hs = hist /\ q = Append(rs, new) /\ P = TwinSet(q, hs, e + 1)
    OBVIOUS
  <2>2. RegimesNow' = q /\ hist' = hs /\ EveningNow' = e + 1
    BY <1>2, <1>16, <1>17, <2>1 DEF RegimesNow, EveningNow
  <2>3. PICK up : up = e + 1
    OBVIOUS
  <2>4. TwinSet(q, hs, up)' = P
    <3>1. flags' = flags
      BY <1>2
    <3> QED BY <2>1, <2>3, <3>1, TwinSetStays
  <2>5. ASSUME seed = <<>>, ~strayed PROVE Paired(v, w, P)
    <3>1. CASE e <= first
      <4>1. Len(s) = 0 /\ Len(w) = 0
        BY <1>1, <1>5, <1>7, <1>8, <2>5, <3>1 DEF NoneYet
      <4>2. Len(v) = 0
        BY <1>13, <4>1 DEF Converted
      <4> QED BY <4>1, <4>2, NonePaired
    <3>2. CASE ~(e <= first)
      <4>1. old = rs[e]
        <5>1. Len(hist) > first
          BY <1>5, <3>2
        <5> QED BY <1>1, <1>2, <1>3, <1>5, <2>1, <5>1 DEF RegimeHeld
      <4>2. b = hs[e]
        BY <1>3, <1>5, <2>1 DEF bar
      <4>3. Paired(s, w, TwinSet(rs, hs, e))
        BY <1>1, <1>2, <1>5, <1>7, <1>8, <2>1, <2>5 DEF Twinned, RegimesNow, EveningNow
      <4>4. PICK X : X = Regimes \cup {"NONE"}
        OBVIOUS
      <4>5. rs \in Seq(X) /\ Len(rs) = e
        BY <1>1, <1>5, <2>1, <4>4 DEF PlannerTypes
      <4>6. new \in X
        BY <1>16, <4>4 DEF PlannerInv, PlannerTypes
      <4> QED BY <1>7, <1>9, <1>13, <1>14, <2>1, <4>1, <4>2, <4>3, <4>5, <4>6, TwinsTurned
    <3> QED BY <3>1, <3>2
  <2>6. seed' = <<>> /\ ~strayed' => Paired(v, w, P)
    BY <1>2, <2>5
  <2>7. RegimesNow' = q /\ hist' = hs /\ EveningNow' = up
    BY <2>2, <2>3
  <2> QED BY <1>16, <2>4, <2>6, <2>7 DEF Twinned
<1> QED BY <1>17, <1>18, <1>19, <1>20, <1>21 DEF LiveInv, RegimeHeld

\* The account a plan can be filled from is in order.
LEMMA AccountInLine ==
    ASSUME PlannerTypes, Lined, InPlan(lots, nextLot)
    PROVE  Orderly(AccountNow, Len(hist) + 1, nextLot)
<1>1. PICK n \in Nat : n = Len(hist)
  BY DEF PlannerTypes
<1>2. PICK t \in Accounts(Len(hist) + 1) : t = AccountNow
  BY AccountHolds
<1>3. PICK nx, s, w : nx \in Nat /\ nx = nextLot /\ s = lots /\ w = rows
  BY DEF PlannerTypes
<1>4. t.lots = s /\ t.rows = w /\ t.next = nx
  BY <1>2, <1>3 DEF AccountNow
<1>5. Level(s, w, n + 1) /\ Arranged(s, ById)
  <2>1. Level(s, w, n) /\ Arranged(s, ById)
    BY <1>1, <1>3 DEF Lined
  <2> QED BY <2>1, LevelLater
<1>6. s \in Seq(Offerable(nx))
  <2>1. s \in Seq(LotsTo(nx))
    BY <1>3 DEF PlannerTypes
  <2>2. ASSUME NEW i \in 1..Len(s) PROVE s[i] \in Offerable(nx)
    <3>1. s[i] \in LotsTo(nx)
      BY <2>1
    <3>2. ASSUME NEW j \in 1..Len(plan.orders), plan.orders[j].side = "sell", plan.orders[j].kind = "tp",
                 s[i].id = plan.orders[j].lot
          PROVE  s[i].inst = K200
      <4>1. Sound(plan.orders[j], s, nx)
        BY <1>3 DEF InPlan
      <4> QED BY <3>2, <4>1 DEF Sound, Whose
    <3> QED BY <3>1, <3>2 DEF Offerable
  <2> QED BY <2>1, <2>2
<1>7. nx <= nx
  BY <1>3
<1>8. Orderly(t, Len(hist) + 1, nx)
  BY <1>1, <1>2, <1>4, <1>5, <1>6, <1>7 DEF Orderly
<1> QED BY <1>2, <1>3, <1>8

\* What a trade leaves, and when it strays.
BoughtNow(b) == Pass(3, Pass(2, Pass(1, AccountNow, b), b), b)
Stray(b) == Pass(4, BoughtNow(b), b) # BoughtNow(b) /\ \E l \in Range(BoughtNow(b).lots) : OffTag(l)

\* A trade leaves the account of the passes, and strays only where the fourth one sells beside a lot
\* off its tag.
LEMMA TradeMoves ==
    ASSUME Trade
    PROVE  \E b \in Bars :
             LET after == IF plan.ok THEN Pass(4, BoughtNow(b), b) ELSE AccountNow
             IN  lots' = after.lots /\ rows' = after.rows /\ nextLot' = after.next
                 /\ hist' = Append(hist, b) /\ (~strayed' => ~strayed) /\ (~strayed' /\ plan.ok => ~Stray(b))
  BY DEF Trade, BoughtNow, Stray, AccountNow

\* Filled, the account is in order, and its lots are still twins of the rows where it has not
\* strayed.
LEMMA FilledInLine ==
    ASSUME LiveInv, plan.ok, NEW b \in Bars, NEW v, v = Pass(4, BoughtNow(b), b)
    PROVE  /\ Orderly(v, Len(hist) + 1, nextLot)
           /\ ~Stray(b) => Following(AccountNow, v, Len(hist) + 1)
<1>1. PlannerInv /\ PlannerTypes /\ Lined /\ PlanFits
  BY DEF LiveInv, PlannerInv
<1>2. Fillable /\ BarOK(b)
  BY <1>1, PlanFills, BarsOK
<1>3. PICK nx, s : nx \in Nat /\ nx = nextLot /\ s = lots
  BY <1>1 DEF PlannerTypes
<1>4. Ranked(plan.orders, s, nx) /\ Earmarked(plan.orders, s)
  BY <1>1, <1>3 DEF PlanFits
<1>5. InPlan(s, nx)
  BY <1>2, <1>3, <1>4, RankedIs
<1>6. PICK t, m : t = AccountNow /\ m = Len(hist) + 1
  OBVIOUS
<1>7. Orderly(t, m, nx) /\ t.lots = s
  BY <1>1, <1>3, <1>5, <1>6, AccountInLine DEF AccountNow
<1>8. PICK u : u = BoughtNow(b)
  OBVIOUS
<1>9. u = Pass(3, Pass(2, Pass(1, t, b), b), b) /\ v = Pass(4, u, b)
  BY <1>6, <1>8 DEF BoughtNow
<1>10. /\ Orderly(v, m, nx)
       /\ v = u \/ (\A i \in 1..Len(u.lots) : ~OffTag(u.lots[i])) => Following(t, v, m)
  <2>1. InPlan(t.lots, nx) /\ Earmarked(plan.orders, t.lots)
    BY <1>4, <1>5, <1>7
  <2> QED BY <1>2, <1>6, <1>7, <1>9, <2>1, FilledFollows
<1>11. ASSUME ~Stray(b) PROVE v = u \/ (\A i \in 1..Len(u.lots) : ~OffTag(u.lots[i]))
  <2>1. v = u \/ ~(\E l \in Range(u.lots) : OffTag(l))
    BY <1>8, <1>9, <1>11 DEF Stray
  <2> QED BY <2>1 DEF Range
<1> QED BY <1>3, <1>6, <1>10, <1>11

\* The fills of the next bar.
LEMMA LiveTrade == LiveInv /\ PlannerInv' /\ Trade => LiveInv'
<1> SUFFICES ASSUME LiveInv, PlannerInv', Trade PROVE LiveInv'
  OBVIOUS
<1>1. PlannerInv /\ PlannerTypes /\ PlanCurrent /\ Lined /\ PlanFits /\ Twinned /\ NoneYet
  BY DEF LiveInv, PlannerInv
<1>2. /\ plan.planned /\ plan' = NoPlan /\ regimes' = Append(regimes, regime)
      /\ UNCHANGED <<flags, seed, first, regime, firstPlan>>
  BY DEF Trade
<1>3. PICK b \in Bars :
             LET after == IF plan.ok THEN Pass(4, BoughtNow(b), b) ELSE AccountNow
             IN  lots' = after.lots /\ rows' = after.rows /\ nextLot' = after.next
                 /\ hist' = Append(hist, b) /\ (~strayed' => ~strayed) /\ (~strayed' /\ plan.ok => ~Stray(b))
  BY TradeMoves
<1>4. PICK a : a = IF plan.ok THEN Pass(4, BoughtNow(b), b) ELSE AccountNow
  OBVIOUS
<1>5. lots' = a.lots /\ rows' = a.rows /\ hist' = Append(hist, b)
  BY <1>3, <1>4
<1>a. (~strayed' => ~strayed) /\ (~strayed' /\ plan.ok => ~Stray(b))
  BY <1>3
<1>6. ~plan'.ok /\ ~plan'.planned
  BY <1>2 DEF NoPlan
<1>7. PICK n \in Nat : n = Len(hist) /\ first \in Nat
  BY <1>1 DEF PlannerTypes
<1>8. Len(hist') = n + 1 /\ regimes'[n + 1] = regime
  BY <1>1, <1>2, <1>5, <1>7 DEF PlannerTypes
<1>9. PICK s, w, m : s = a.lots /\ w = a.rows /\ m = n + 1
  OBVIOUS
<1>10. lots' = s /\ rows' = w /\ Len(hist') = m
  BY <1>5, <1>8, <1>9
<1>11. ~plan.ok => s = lots /\ w = rows
  BY <1>4, <1>9 DEF AccountNow
<1>12. Level(s, w, m) /\ Arranged(s, ById)
  <2>1. CASE plan.ok
    <3>1. a = Pass(4, BoughtNow(b), b)
      BY <1>4, <2>1
    <3>2. Orderly(a, Len(hist) + 1, nextLot)
      BY <2>1, <3>1, FilledInLine
    <3> QED BY <1>7, <1>9, <3>2 DEF Orderly
  <2>2. CASE ~plan.ok
    <3>1. Level(s, w, n) /\ Arranged(s, ById)
      BY <1>1, <1>7, <1>11, <2>2 DEF Lined
    <3> QED BY <1>9, <3>1, LevelLater
  <2> QED BY <2>1, <2>2
<1>13. Lined'
  BY <1>10, <1>12 DEF Lined
<1>14. NoneYet'
  <2>1. CASE plan.ok
    <3>1. FirstOk <= n /\ n >= first /\ FirstOk \in Nat
      BY <1>1, <1>7, <2>1, PlannerAssumption DEF PlanFits, PlanCurrent, NoPlan
    <3>2. ~(n + 1 <= first) /\ ~(n + 1 <= FirstOk)
      BY <1>7, <3>1
    <3> QED BY <1>2, <1>8, <3>2 DEF NoneYet
  <2>2. CASE ~plan.ok
    <3>1. FirstOk \in Nat
      BY PlannerAssumption
    <3>2. n + 1 <= first \/ n + 1 <= FirstOk => n <= first \/ n <= FirstOk
      BY <1>7, <3>1
    <3>3. seed = <<>> /\ (n <= first \/ n <= FirstOk) => Len(s) = 0 /\ Len(w) = 0
      BY <1>1, <1>7, <1>11, <2>2 DEF NoneYet
    <3> QED BY <1>2, <1>8, <1>10, <3>2, <3>3 DEF NoneYet
  <2> QED BY <2>1, <2>2
<1>15. Twinned'
  <2>1. PICK q, hs, h, P, Q : /\ q = Append(regimes, regime) /\ hs = hist /\ h = Append(hs, b)
                              /\ P = TwinSet(q, hs, m) /\ Q = TwinSet(q, h, m)
    OBVIOUS
  <2>2. RegimesNow' = q /\ hist' = h /\ EveningNow' = m
    BY <1>2, <1>5, <1>6, <1>10, <2>1 DEF RegimesNow, EveningNow
  <2>3. TwinSet(q, h, m)' = Q
    <3>1. flags' = flags
      BY <1>2
    <3> QED BY <2>1, <3>1, TwinSetStays
  <2>4. ASSUME seed = <<>>, ~strayed' PROVE Paired(s, w, Q)
    <3>1. Paired(lots, rows, P)
      BY <1>1, <1>2, <1>5, <1>7, <1>9, <1>a, <2>1, <2>4 DEF Twinned, RegimesNow, EveningNow
    <3>2. Paired(s, w, P)
      <4>1. CASE plan.ok
        <5>1. a = Pass(4, BoughtNow(b), b) /\ ~Stray(b)
          BY <1>4, <1>a, <2>4, <4>1
        <5>2. Following(AccountNow, a, Len(hist) + 1)
          BY <4>1, <5>1, FilledInLine
        <5>3. PICK t : t = AccountNow /\ t.lots = lots /\ t.rows = rows
          <6>1. PICK t : t = AccountNow
            OBVIOUS
          <6>2. t.lots = lots /\ t.rows = rows
            BY <6>1 DEF AccountNow
          <6> QED BY <6>1, <6>2
        <5>4. Following(t, a, m)
          BY <1>7, <1>9, <5>2, <5>3
        <5>5. Twins(P, m)
          <6>1. m \in Nat \ {0}
            BY <1>9
          <6> QED BY <2>1, <6>1, TwinSetIs
        <5>6. Paired(t.lots, t.rows, P)
          BY <3>1, <5>3
        <5> QED BY <1>9, <5>4, <5>5, <5>6 DEF Following
      <4>2. CASE ~plan.ok
        BY <1>11, <3>1, <4>2
      <4> QED BY <4>1, <4>2
    <3>3. s \in Seq(SimLots)
      <4>1. lots' \in Seq(LotsTo(nextLot'))
        BY DEF PlannerInv, PlannerTypes
      <4> QED BY <1>10, <4>1 DEF LotsTo
    <3>4. w \in Seq(LiveRows(m))
      BY <1>12 DEF Level
    <3>5. PICK X : X = Bars
      OBVIOUS
    <3>6. hs \in Seq(X) /\ b \in X /\ Len(hs) = m - 1 /\ m \in Nat
      BY <1>1, <1>7, <1>9, <2>1, <3>5 DEF PlannerTypes
    <3>7. Paired(s, w, TwinSet(q, hs, m))
      BY <2>1, <3>2
    <3>8. Paired(s, w, TwinSet(q, Append(hs, b), m))
      BY <3>3, <3>4, <3>6, <3>7, TwinsHeld
    <3> QED BY <2>1, <3>8
  <2>5. seed' = <<>> /\ ~strayed' => Paired(s, w, Q)
    BY <1>2, <2>4
  <2> QED BY <1>10, <2>2, <2>3, <2>5 DEF Twinned
<1>16. RegimeHeld'
  BY <1>2, <1>8 DEF RegimeHeld
<1> QED BY <1>6, <1>13, <1>14, <1>15, <1>16 DEF LiveInv, PlanFits

\* Every step keeps it.
LEMMA LiveSteps == LiveInv /\ [PlannerNext]_plannerVars => LiveInv'
<1> SUFFICES ASSUME LiveInv, [PlannerNext]_plannerVars PROVE LiveInv'
  OBVIOUS
<1>1. PlannerInv'
  BY PlannerSteps DEF LiveInv
<1>2. CASE Warmup
  BY <1>1, <1>2, LiveWarmup
<1>3. CASE MakePlan
  BY <1>1, <1>3, LiveIdle, LiveMakePlan
<1>4. CASE Trade
  BY <1>1, <1>4, LiveTrade
<1>5. CASE UNCHANGED plannerVars
  BY <1>1, <1>5, LiveStutter
<1> QED BY <1>2, <1>3, <1>4, <1>5 DEF PlannerNext

\* In the evening the live account is the simulated one.
LEMMA LiveGiven == LiveInv => LiveUntilStrayed
<1> SUFFICES ASSUME LiveInv PROVE LiveUntilStrayed
  OBVIOUS
<1>1. PlannerTypes /\ Lined /\ Twinned
  BY DEF LiveInv, PlannerInv
<1>2. PICK e, s, w : e \in Nat /\ s \in Seq(SimLots) /\ e = Len(hist) /\ s = lots /\ w = rows
  BY <1>1, InvSettles DEF PlannerTypes, Settled
<1>3. Level(s, w, e) /\ w \in Seq(LiveRows(e))
  BY <1>1, <1>2 DEF Lined, Level
<1>4. PICK x : x = [i \in 1..Len(w) |-> Rebuilt(w[i])] /\ x = LiveLots
  BY <1>2 DEF LiveLots
<1>5. LiveHoldings
  <2>1. Held(w, K200) = Held(s, K200) /\ \A kind \in LevKinds : HeldKind(x, {kind}) = HeldKind(s, {kind})
    BY <1>2, <1>3, <1>4, LiveHeld
  <2> QED BY <1>2, <1>4, <2>1 DEF LiveHoldings
<1>6. ASSUME ~plan.planned, seed = <<>>, ~strayed PROVE SameLots(LiveLots, lots)
  <2>1. Paired(s, w, TwinSet(regimes, hist, e))
    BY <1>1, <1>2, <1>6 DEF Twinned, RegimesNow, EveningNow
  <2>2. SameLots(x, s)
    BY <1>2, <1>3, <1>4, <2>1, LiveSame
  <2> QED BY <1>2, <1>4, <2>2
<1> QED BY <1>5, <1>6 DEF LiveUntilStrayed

\* Until a take-profit is sold beside a lot that is off its tag, the lots of the live ledger are
\* those of the simulation: lots.rebuild_lots follows backtest.run_backtest.
THEOREM LiveFollows == PlannerSpec => []LiveUntilStrayed
<1>1. PlannerInit => LiveInv
  BY LiveStarts
<1>2. LiveInv /\ [PlannerNext]_plannerVars => LiveInv'
  BY LiveSteps
<1>3. LiveInv => LiveUntilStrayed
  BY LiveGiven
<1> QED BY <1>1, <1>2, <1>3, PTL DEF PlannerSpec
=============================================================================

--------------------------- MODULE OrderBookProofs ---------------------------
(***************************************************************************)
(* Proofs about OrderBook for every set of orders and inputs, and about    *)
(* the lists PlatformFill makes of its trades.                             *)
(*                                                                         *)
(* BookInv is the inductive invariant.  Beyond the properties themselves   *)
(* it says which order is being processed, that everything in the book     *)
(* arrived before it, and that every price has a place in each sorted      *)
(* array, which is what insertPriceSorted looks for.                       *)
(***************************************************************************)
EXTENDS PlatformFill, Integers, FiniteSets, SequencesExt, FiniteSetTheorems, SequenceTheorems,
        WellFoundedInduction, NaturalsInduction, TLAPS

(* Numbers, by induction over the naturals, from the well-foundedness of <. *)

\* Induction over the naturals: what fails for some number fails for a least one.
LEMMA Least ==
    ASSUME NEW T \in SUBSET Nat, T # {}
    PROVE  \E n \in T : \A m \in T : n <= m
<1>1. IsWellFoundedOn(OpToRel(<, Nat), Nat)
  BY NatLessThanWellFounded
<1>2. PICK x \in T : \A y \in T : ~ (<<y, x>> \in OpToRel(<, Nat))
  BY <1>1, WFMin
<1>3. \A y \in Nat : y < x => <<y, x>> \in OpToRel(<, Nat)
  BY DEF OpToRel
<1>4. \A y \in T : ~(y < x)
  BY <1>2, <1>3
<1>5. \A y \in T : x <= y
  BY <1>4
<1>. QED
  BY <1>5

\* Induction over the naturals, for the set of the numbers that have the property.
LEMMA Induct ==
    ASSUME NEW S \in SUBSET Nat, 0 \in S, \A k \in S : k + 1 \in S
    PROVE  S = Nat
<1>1. SUFFICES ASSUME Nat \ S # {} PROVE FALSE
  OBVIOUS
<1>2. PICK k \in Nat \ S : \A m \in Nat \ S : k <= m
  BY <1>1, Least, Zenon
<1>3. k - 1 \in Nat /\ (k - 1) + 1 = k
  BY <1>2
<1>4. k - 1 \in S
  BY <1>2, <1>3
<1>. QED
  BY <1>2, <1>3, <1>4

\* Max is what it says.
LEMMA MaxIs ==
    ASSUME NEW n \in Nat, NEW s \in SUBSET (1..n), s # {}
    PROVE  /\ Max(s) \in s
           /\ \A m \in s : (\A y \in s : m >= y) => Max(s) = m
<1>. DEFINE T == {n - x : x \in s}
<1>1. T \in SUBSET Nat /\ T # {}
  <2>1. \A x \in s : n - x \in Nat
    OBVIOUS
  <2>. QED
    BY <2>1
<1>2. PICK t \in T : \A y \in T : t <= y
  BY <1>1, Least
<1>3. PICK m \in s : t = n - m
  OBVIOUS
<1>4. \A y \in s : m >= y
  BY <1>2, <1>3
<1>5. Max(s) \in s /\ \A y \in s : Max(s) >= y
  BY <1>4 DEF Max
<1>6. \A x, y \in s : x >= y /\ y >= x => x = y
  <2>1. s \subseteq Nat
    OBVIOUS
  <2>. HIDE DEF T
  <2>. QED
    BY <2>1
<1>. QED
  BY <1>5, <1>6

\* Min is what it says.
LEMMA MinIs ==
    ASSUME NEW n \in Nat, NEW s \in SUBSET (1..n), s # {}
    PROVE  /\ Min(s) \in s
           /\ \A m \in s : (\A y \in s : m <= y) => Min(s) = m
<1>1. s \in SUBSET Nat
  OBVIOUS
<1>2. PICK m \in s : \A y \in s : m <= y
  BY <1>1, Least
<1>3. Min(s) \in s /\ \A y \in s : Min(s) <= y
  BY <1>2 DEF Min
<1>4. \A x, y \in s : x <= y /\ y <= x => x = y
  BY <1>1
<1>. QED
  BY <1>3, <1>4

----------------------------------------------------------------------------
(* FoldLeft is recursion over the sets of indexes, the greatest first.  A  *)
(* fold that adds up gives the totals of the prefixes.                     *)

\* g gives the totals of the parts of qs, as the fold computes them.
IsTotals(g, qs, n) ==
    g = [s \in SUBSET (1..n) |->
            IF s = {} THEN 0 ELSE g[s \ {Max(s)}] + qs[Max(s)]]

\* The totals of one number more.
LEMMA TotalsExtend ==
    ASSUME NEW n \in Nat, NEW qs, NEW g, IsTotals(g, qs, n)
    PROVE  \E h : IsTotals(h, qs, n + 1)
<1>. DEFINE h == [s \in SUBSET (1..(n + 1)) |->
                    IF (n + 1) \in s THEN g[s \ {n + 1}] + qs[n + 1] ELSE g[s]]
<1>1. ASSUME NEW s \in SUBSET (1..(n + 1))
      PROVE h[s] = IF s = {} THEN 0 ELSE h[s \ {Max(s)}] + qs[Max(s)]
  <2>1. CASE (n + 1) \in s
    <3>1. Max(s) = n + 1
      <4>1. \A y \in s : n + 1 >= y
        OBVIOUS
      <4>2. n + 1 \in Nat
        OBVIOUS
      <4>. QED
        BY <2>1, <4>1, <4>2, MaxIs, Zenon
    <3>2. s \ {n + 1} \in SUBSET (1..(n + 1)) /\ (n + 1) \notin s \ {n + 1} 
      OBVIOUS
    <3>3. h[s \ {n + 1}] = g[s \ {n + 1}]
      BY <3>2
    <3>. QED
      BY <2>1, <3>1, <3>3
  <2>2. CASE (n + 1) \notin s
    <3>1. s \in SUBSET (1..n) /\ h[s] = g[s]
      BY <2>2
    <3>3. CASE s # {}
      <4>1. Max(s) \in s
        BY <3>1, <3>3, MaxIs
      <4>2. s \ {Max(s)} \in SUBSET (1..(n + 1)) /\ (n + 1) \notin s \ {Max(s)}
        BY <2>2
      <4>3. h[s \ {Max(s)}] = g[s \ {Max(s)}]
        BY <4>2
      <4>5. g[s] = g[s \ {Max(s)}] + qs[Max(s)]
        BY <3>1, <3>3, Zenon DEF IsTotals
      <4>. QED
        BY <3>1, <3>3, <4>3, <4>5
    <3>4. CASE s = {}
      BY <3>1, <3>4 DEF IsTotals
    <3>. QED
      BY <3>3, <3>4
  <2>. QED
    BY <2>1, <2>2
<1>2. h = [s \in SUBSET (1..(n + 1)) |-> h[s]]
  OBVIOUS
<1>. HIDE DEF h
<1>3. h = [s \in SUBSET (1..(n + 1)) |-> IF s = {} THEN 0 ELSE h[s \ {Max(s)}] + qs[Max(s)]]
  BY <1>1, <1>2, Zenon
<1>. QED
  BY <1>3 DEF IsTotals

\* Totals exist.
LEMMA TotalsExist ==
    ASSUME NEW n \in Nat, NEW qs
    PROVE  \E g : IsTotals(g, qs, n)
<1>. DEFINE S == {k \in Nat : \E g : IsTotals(g, qs, k)}
<1>1. 0 \in S
  <2>. DEFINE g == [s \in SUBSET (1..0) |-> 0]
  <2>1. g = [s \in SUBSET (1..0) |-> IF s = {} THEN 0 ELSE g[s \ {Max(s)}] + qs[Max(s)]]
    OBVIOUS
  <2>2. IsTotals(g, qs, 0)
    BY <2>1 DEF IsTotals
  <2>. QED
    BY <2>2
<1>2. \A k \in S : k + 1 \in S
  BY TotalsExtend
<1>3. S = Nat
  <2>. HIDE DEF S
  <2>1. S \in SUBSET Nat
    BY DEF S
  <2>. QED
    BY <1>1, <1>2, <2>1, Induct, Zenon
<1>. QED
  BY <1>3

\* The total of the first k, added up from the left.
LEMMA TotalsOfPrefix ==
    ASSUME NEW n \in Nat, NEW qs, NEW g, IsTotals(g, qs, n)
    PROVE  /\ g[1..0] = 0
           /\ \A k \in 0..(n - 1) : g[1..(k + 1)] = g[1..k] + qs[k + 1]
<1>1. g[1..0] = 0
  BY DEF IsTotals
<1>2. ASSUME NEW k \in 0..(n - 1) PROVE g[1..(k + 1)] = g[1..k] + qs[k + 1]
  <2>1. 1..(k + 1) \in SUBSET (1..n) /\ 1..(k + 1) # {} /\ k + 1 \in 1..(k + 1)
    OBVIOUS
  <2>2. \A y \in 1..(k + 1) : k + 1 >= y
    OBVIOUS
  <2>3. Max(1..(k + 1)) = k + 1
    BY <2>1, <2>2, MaxIs, Zenon
  <2>4. 1..(k + 1) \ {k + 1} = 1..k
    OBVIOUS
  <2>. QED
    BY <2>1, <2>3, <2>4 DEF IsTotals
<1>. QED
  BY <1>1, <1>2

\* Totals of sequences that begin alike agree on their common beginning.
LEMMA TotalsAgree ==
    ASSUME NEW n \in Nat, NEW p \in Nat, n <= p, NEW qs, NEW rs, NEW g, NEW h,
           IsTotals(g, qs, n), IsTotals(h, rs, p), \A i \in 1..n : qs[i] \in Nat /\ rs[i] = qs[i]
    PROVE  g[1..n] = h[1..n] /\ g[1..n] \in Nat
<1>. DEFINE S == {k \in Nat : k <= n => g[1..k] = h[1..k] /\ g[1..k] \in Nat}
<1>1. 0 \in S
  <2>1. g[1..0] = 0 /\ h[1..0] = 0
    BY TotalsOfPrefix, Zenon
  <2>. QED
    BY <2>1
<1>2. ASSUME NEW k \in S PROVE k + 1 \in S
  <2>1. SUFFICES ASSUME k + 1 <= n
                 PROVE  g[1..(k + 1)] = h[1..(k + 1)] /\ g[1..(k + 1)] \in Nat
    BY <1>2
  <2>2. k \in 0..(n - 1) /\ k \in 0..(p - 1)
    BY <1>2, <2>1
  <2>3. g[1..(k + 1)] = g[1..k] + qs[k + 1] /\ h[1..(k + 1)] = h[1..k] + rs[k + 1]
    BY <2>2, TotalsOfPrefix
  <2>4. qs[k + 1] \in Nat /\ rs[k + 1] = qs[k + 1]
    BY <2>2
  <2>. QED
    BY <1>2, <2>2, <2>3, <2>4
<1>3. S = Nat
  <2>. HIDE DEF S
  <2>1. S \in SUBSET Nat
    BY DEF S
  <2>. QED
    BY <1>1, <1>2, <2>1, Induct, Zenon
<1>. QED
  BY <1>3

\* The entries of a sequence are finitely many.
LEMMA SeqIsFinite ==
    ASSUME NEW S, NEW s \in Seq(S)
    PROVE  IsFiniteSet(ToSet(s)) /\ ToSet(s) \in SUBSET S
<1>1. DOMAIN s = 1..Len(s) /\ Len(s) \in Nat
  OBVIOUS
<1>2. IsFiniteSet(1..Len(s))
  BY <1>1, FS_Interval
<1>3. s \in Surjection(1..Len(s), ToSet(s))
  BY <1>1 DEF Surjection, ToSet
<1>. QED
  BY <1>1, <1>2, <1>3, FS_Surjection DEF ToSet

----------------------------------------------------------------------------
(* The prices of the book, and the orders that rest there. *)

\* k prices stay before p, the rest follow it.
PlaceIn(s, ps, p, k) ==
    /\ \A i \in 1..k : ~Better(s, p, ps[i])
    /\ \A i \in (k + 1)..Len(ps) : Better(s, p, ps[i])

EveryPriceHasAPlace ==
    \A s \in Side, p \in Prices : \E k \in 0..Len(prices[s]) : PlaceIn(s, prices[s], p, k)

\* processOrder works on the one order that is PENDING, the last to arrive.
TakerIsPending ==
    /\ \A o \in Orders : status[o] = "PENDING" <=> o = taker
    /\ taker # NoOrder =>
        /\ createdAt[taker] = clock
        /\ order[taker].type = "LIMIT" => order[taker].price \in Prices

\* What is in the book arrived before the order being processed.
BookArrivedBefore ==
    \A s \in Side, p \in Prices : \A i \in DOMAIN levels[s][p] :
        /\ createdAt[levels[s][p][i]] <= clock
        /\ taker # NoOrder => createdAt[levels[s][p][i]] < clock

BookInv ==
    /\ TypeOK
    /\ BookWellFormed
    /\ Uncrossed
    /\ EveryPriceHasAPlace
    /\ TakerIsPending
    /\ BookArrivedBefore

\* Prices are natural numbers, so Better compares them as such.
LEMMA PricesAreNat == Prices \subseteq Nat
BY InputsAssumption DEF Prices, OrderInput

\* Better orders the prices of a side.
LEMMA BetterIsOrder ==
    ASSUME NEW s \in Side, NEW p \in Prices, NEW q \in Prices, NEW r \in Prices
    PROVE  /\ ~Better(s, p, p)
           /\ Better(s, p, q) => ~Better(s, q, p)
           /\ Better(s, p, q) /\ Better(s, q, r) => Better(s, p, r)
           /\ ~Better(s, p, q) /\ ~Better(s, q, r) => ~Better(s, p, r)
           /\ Better(s, p, q) \/ Better(s, q, p) \/ p = q
<1>. p \in Nat /\ q \in Nat /\ r \in Nat
  BY PricesAreNat
<1>. QED
  BY DEF Better

\* A push to the end of a list.
LEMMA Appended ==
    ASSUME NEW S, NEW seq \in Seq(S), NEW e \in S
    PROVE  /\ Append(seq, e) \in Seq(S)
           /\ Len(Append(seq, e)) = Len(seq) + 1
           /\ Append(seq, e) # << >>
           /\ \A i \in 1..Len(seq) : Append(seq, e)[i] = seq[i]
           /\ Append(seq, e)[Len(seq) + 1] = e
BY AppendProperties

----------------------------------------------------------------------------
(* The sorted arrays. *)

\* What insertPriceSorted returns, place by place.
LEMMA InsertedPrice ==
    ASSUME NEW s \in Side, NEW ps \in Seq(Prices), NEW p \in Prices,
           NEW k \in 0..Len(ps), PlaceIn(s, ps, p, k)
    PROVE  LET qs == InsertPriceSorted(s, ps, p)
           IN  /\ qs \in Seq(Prices)
               /\ Len(qs) = Len(ps) + 1
               /\ \A i \in 1..k : qs[i] = ps[i]
               /\ qs[k + 1] = p
               /\ \A i \in (k + 2)..(Len(ps) + 1) : qs[i] = ps[i - 1]
<1>. DEFINE beaten == {i \in DOMAIN ps : Better(s, p, ps[i])}
            qs == InsertPriceSorted(s, ps, p)
<1>1. beaten = (k + 1)..Len(ps)
  BY DEF PlaceIn
<1>2. CASE k = Len(ps)
  <2>1. beaten = {}
    BY <1>1, <1>2
  <2>2. qs = Append(ps, p)
    BY <2>1 DEF InsertPriceSorted
  <2>. QED
    BY <1>2, <2>2, AppendProperties
<1>3. CASE k < Len(ps)
  <2>1. Min(beaten) = k + 1
    <3>1. k + 1 \in beaten /\ \A i \in beaten : k + 1 <= i
      BY <1>1, <1>3
    <3>2. \A m \in beaten : (\A i \in beaten : m <= i) => m = k + 1
      BY <1>1, <3>1
    <3>. QED
      BY <3>1, <3>2 DEF Min
  <2>2. qs = SubSeq(ps, 1, k) \o <<p>> \o SubSeq(ps, k + 1, Len(ps))
    <3>1. qs = InsertAt(ps, k + 1, p)
      BY <1>1, <1>3, <2>1 DEF InsertPriceSorted
    <3>2. (k + 1) - 1 = k
      OBVIOUS
    <3>3. InsertAt(ps, k + 1, p)
              = SubSeq(ps, 1, (k + 1) - 1) \o <<p>> \o SubSeq(ps, k + 1, Len(ps))
      BY DEF InsertAt
    <3>. QED
      BY <3>1, <3>2, <3>3
  <2>3. /\ SubSeq(ps, 1, k) \in Seq(Prices)
        /\ Len(SubSeq(ps, 1, k)) = k
        /\ \A i \in 1..k : SubSeq(ps, 1, k)[i] = ps[i]
    BY SubSeqProperties
  <2>4. /\ SubSeq(ps, k + 1, Len(ps)) \in Seq(Prices)
        /\ Len(SubSeq(ps, k + 1, Len(ps))) = Len(ps) - k
        /\ \A i \in 1..(Len(ps) - k) : SubSeq(ps, k + 1, Len(ps))[i] = ps[k + i]
    BY <1>3, SubSeqProperties
  <2>5. /\ <<p>> \in Seq(Prices)
        /\ Len(<<p>>) = 1
        /\ <<p>>[1] = p
    OBVIOUS
  <2>. HIDE DEF qs
  <2>6. /\ SubSeq(ps, 1, k) \o <<p>> \in Seq(Prices)
        /\ Len(SubSeq(ps, 1, k) \o <<p>>) = k + 1
        /\ \A i \in 1..k : (SubSeq(ps, 1, k) \o <<p>>)[i] = ps[i]
        /\ (SubSeq(ps, 1, k) \o <<p>>)[k + 1] = p
    BY <2>3, <2>5, ConcatProperties
  <2>. DEFINE a == SubSeq(ps, 1, k) \o <<p>>
              b == SubSeq(ps, k + 1, Len(ps))
  <2>7. /\ a \in Seq(Prices) /\ b \in Seq(Prices)
        /\ qs = a \o b /\ Len(a) = k + 1 /\ Len(b) = Len(ps) - k
    BY <2>2, <2>4, <2>6
  <2>8. /\ \A i \in 1..k : a[i] = ps[i]
        /\ a[k + 1] = p
    BY <2>6
  <2>9. \A i \in (k + 2)..(Len(ps) + 1) : b[i - (k + 1)] = ps[i - 1]
    BY <1>3, <2>4
  <2>. HIDE DEF a, b
  <2>10. /\ qs \in Seq(Prices)
         /\ Len(qs) = Len(a) + Len(b)
         /\ \A i \in 1..(Len(a) + Len(b)) : qs[i] = IF i <= Len(a) THEN a[i] ELSE b[i - Len(a)]
    BY <2>7, ConcatProperties
  <2>11. Len(qs) = Len(ps) + 1
    BY <1>3, <2>7, <2>10
  <2>12. /\ \A i \in 1..k : qs[i] = ps[i]
         /\ qs[k + 1] = p
    BY <1>3, <2>7, <2>8, <2>10
  <2>13. \A i \in (k + 2)..(Len(ps) + 1) : qs[i] = ps[i - 1]
    BY <1>3, <2>7, <2>9, <2>10
  <2>. QED
    BY <2>10, <2>11, <2>12, <2>13 DEF qs
<1>. QED
  BY <1>2, <1>3

\* removePrice of the first price.
LEMMA RemovedPrice ==
    ASSUME NEW s \in Side, NEW ps \in Seq(Prices), ps # << >>,
           \A i, j \in DOMAIN ps : i < j => ps[i] # ps[j]
    PROVE  RemovePrice(ps, ps[1]) = Tail(ps)
<1>1. {i \in DOMAIN ps : ps[i] = ps[1]} = {1}
  OBVIOUS
<1>2. Min({1}) = 1
  BY DEF Min
<1>3. RemovePrice(ps, ps[1]) = SubSeq(ps, 1, 0) \o SubSeq(ps, 2, Len(ps))
  <2>1. RemovePrice(ps, ps[1]) = RemoveAt(ps, 1)
    BY <1>1, <1>2 DEF RemovePrice
  <2>2. 1 - 1 = 0 /\ 1 + 1 = 2
    OBVIOUS
  <2>3. RemoveAt(ps, 1) = SubSeq(ps, 1, 1 - 1) \o SubSeq(ps, 1 + 1, Len(ps))
    BY DEF RemoveAt
  <2>. QED
    BY <2>1, <2>2, <2>3
<1>4. SubSeq(ps, 1, 0) = << >> /\ SubSeq(ps, 2, Len(ps)) = Tail(ps) /\ Tail(ps) \in Seq(Prices)
  BY SubSeqEmpty, TailIsSubSeq, HeadTailProperties
<1>. QED
  BY <1>3, <1>4, ConcatEmptySeq

Sorted(s, ps) == \A i, j \in DOMAIN ps : i < j => Better(s, ps[i], ps[j])
Holds(ps, p) == \E i \in DOMAIN ps : ps[i] = p
HasPlaces(s, ps) == \A p \in Prices : \E k \in 0..Len(ps) : PlaceIn(s, ps, p, k)

\* insertPriceSorted keeps a sorted array sorted, adds the one price, and
\* leaves a place for every other.
LEMMA InsertKeepsOrder ==
    ASSUME NEW s \in Side, NEW ps \in Seq(Prices), NEW p \in Prices,
           ~Holds(ps, p), Sorted(s, ps), HasPlaces(s, ps)
    PROVE  LET qs == InsertPriceSorted(s, ps, p)
           IN  /\ qs \in Seq(Prices)
               /\ Sorted(s, qs)
               /\ \A q \in Prices : Holds(qs, q) <=> (q = p \/ Holds(ps, q))
               /\ HasPlaces(s, qs)
<1>. DEFINE qs == InsertPriceSorted(s, ps, p)
<1>1. PICK k \in 0..Len(ps) : PlaceIn(s, ps, p, k)
  BY DEF HasPlaces
<1>2. /\ qs \in Seq(Prices)
      /\ Len(qs) = Len(ps) + 1
      /\ \A i \in 1..k : qs[i] = ps[i]
      /\ qs[k + 1] = p
      /\ \A i \in (k + 2)..(Len(ps) + 1) : qs[i] = ps[i - 1]
  BY <1>1, InsertedPrice
<1>. HIDE DEF qs
<1>3. DOMAIN qs = 1..(Len(ps) + 1) /\ DOMAIN ps = 1..Len(ps)
  BY <1>2
<1>4. \A i \in DOMAIN ps : ps[i] \in Prices /\ ps[i] # p
  BY DEF Holds
<1>5. Sorted(s, qs)
  <2>. SUFFICES ASSUME NEW i \in 1..(Len(ps) + 1), NEW j \in 1..(Len(ps) + 1), i < j
                PROVE  Better(s, qs[i], qs[j])
    BY <1>3 DEF Sorted
  <2>1. CASE j <= k
    <3>1. i \in DOMAIN ps /\ j \in DOMAIN ps /\ qs[i] = ps[i] /\ qs[j] = ps[j]
      BY <1>2, <1>3, <2>1
    <3>. QED
      BY <3>1 DEF Sorted
  <2>2. CASE j = k + 1
    <3>1. qs[i] = ps[i] /\ qs[j] = p /\ ~Better(s, p, ps[i]) /\ i \in DOMAIN ps
      BY <1>1, <1>2, <1>3, <2>2 DEF PlaceIn
    <3>. QED
      BY <1>4, <3>1, BetterIsOrder
  <2>3. CASE i = k + 1
    BY <1>1, <1>2, <1>3, <2>3 DEF PlaceIn
  <2>4. CASE i <= k /\ j > k + 1
    <3>1. i \in DOMAIN ps /\ j - 1 \in DOMAIN ps /\ i < j - 1 /\ qs[i] = ps[i] /\ qs[j] = ps[j - 1]
      BY <1>2, <1>3, <2>4
    <3>. QED
      BY <3>1 DEF Sorted
  <2>5. CASE i > k + 1
    <3>1. /\ i - 1 \in DOMAIN ps /\ j - 1 \in DOMAIN ps /\ i - 1 < j - 1
          /\ qs[i] = ps[i - 1] /\ qs[j] = ps[j - 1]
      BY <1>2, <1>3, <2>5
    <3>. QED
      BY <3>1 DEF Sorted
  <2>. QED
    BY <2>1, <2>2, <2>3, <2>4, <2>5
<1>6. ASSUME NEW q \in Prices
      PROVE  Holds(qs, q) <=> (q = p \/ Holds(ps, q))
  <2>1. ASSUME NEW i \in DOMAIN qs, qs[i] = q
        PROVE  q = p \/ Holds(ps, q)
    <3>1. CASE i <= k
      BY <1>2, <1>3, <2>1, <3>1 DEF Holds
    <3>2. CASE i = k + 1
      BY <1>2, <2>1, <3>2
    <3>3. CASE i > k + 1
      BY <1>2, <1>3, <2>1, <3>3 DEF Holds
    <3>. QED
      BY <1>3, <3>1, <3>2, <3>3
  <2>2. ASSUME NEW i \in DOMAIN ps, ps[i] = q
        PROVE  Holds(qs, q)
    <3>1. CASE i <= k
      BY <1>2, <1>3, <2>2, <3>1 DEF Holds
    <3>2. CASE i > k
      <4>1. i + 1 \in DOMAIN qs /\ qs[i + 1] = ps[i]
        BY <1>2, <1>3, <3>2
      <4>. QED
        BY <2>2, <4>1 DEF Holds
    <3>. QED
      BY <1>3, <3>1, <3>2
  <2>3. Holds(qs, p)
    BY <1>2, <1>3 DEF Holds
  <2>. QED
    BY <2>1, <2>2, <2>3 DEF Holds
<1>7. ASSUME NEW q \in Prices
      PROVE  \E n \in 0..Len(qs) : PlaceIn(s, qs, q, n)
  <2>1. PICK n \in 0..Len(ps) : PlaceIn(s, ps, q, n)
    BY DEF HasPlaces
  <2>2. CASE Better(s, q, p)
    <3>1. n <= k
      <4>1. ASSUME NEW i \in (k + 1)..Len(ps)
            PROVE  Better(s, q, ps[i])
        <5>1. Better(s, p, ps[i]) /\ ps[i] \in Prices
          BY <1>1, <1>3, <1>4 DEF PlaceIn
        <5>. QED
          BY <2>2, <5>1, BetterIsOrder
      <4>. QED
        BY <2>1, <4>1 DEF PlaceIn
    <3>2. ASSUME NEW i \in (n + 1)..Len(qs)
          PROVE  Better(s, q, qs[i])
      BY <1>2, <1>3, <2>1, <2>2, <3>1 DEF PlaceIn
    <3>3. ASSUME NEW i \in 1..n
          PROVE  ~Better(s, q, qs[i])
      BY <1>2, <1>3, <2>1, <3>1 DEF PlaceIn
    <3>. QED
      BY <1>2, <3>2, <3>3 DEF PlaceIn
  <2>3. CASE ~Better(s, q, p)
    <3>1. k <= n
      <4>1. ASSUME NEW i \in 1..k
            PROVE  ~Better(s, q, ps[i])
        <5>1. ~Better(s, p, ps[i]) /\ ps[i] \in Prices
          BY <1>1, <1>3, <1>4 DEF PlaceIn
        <5>. QED
          BY <2>3, <5>1, BetterIsOrder
      <4>. QED
        BY <2>1, <4>1 DEF PlaceIn
    <3>2. ASSUME NEW i \in ((n + 1) + 1)..Len(qs)
          PROVE  Better(s, q, qs[i])
      BY <1>2, <1>3, <2>1, <3>1 DEF PlaceIn
    <3>3. ASSUME NEW i \in 1..(n + 1)
          PROVE  ~Better(s, q, qs[i])
      <4>1. CASE i <= k
        BY <1>2, <1>3, <2>1, <3>1, <4>1 DEF PlaceIn
      <4>2. CASE i = k + 1
        BY <1>2, <2>3, <4>2
      <4>3. CASE i > k + 1
        BY <1>2, <1>3, <2>1, <4>3 DEF PlaceIn
      <4>. QED
        BY <4>1, <4>2, <4>3
    <3>4. PlaceIn(s, qs, q, n + 1)
      BY <3>2, <3>3 DEF PlaceIn
    <3>. QED
      BY <1>2, <3>4
  <2>. QED
    BY <2>2, <2>3
<1>. QED
  BY <1>2, <1>5, <1>6, <1>7 DEF qs, HasPlaces

\* So does taking the first price away.
LEMMA TailKeepsOrder ==
    ASSUME NEW s \in Side, NEW ps \in Seq(Prices), ps # << >>,
           Sorted(s, ps), HasPlaces(s, ps)
    PROVE  /\ Tail(ps) \in Seq(Prices)
           /\ Sorted(s, Tail(ps))
           /\ \A q \in Prices : Holds(Tail(ps), q) <=> (q # ps[1] /\ Holds(ps, q))
           /\ HasPlaces(s, Tail(ps))
<1>. DEFINE qs == Tail(ps)
<1>1. /\ qs \in Seq(Prices)
      /\ Len(qs) = Len(ps) - 1
      /\ \A i \in 1..Len(qs) : qs[i] = ps[i + 1]
  BY HeadTailProperties
<1>. HIDE DEF qs
<1>2. /\ DOMAIN qs = 1..(Len(ps) - 1) /\ DOMAIN ps = 1..Len(ps)
      /\ \A i \in DOMAIN ps : ps[i] \in Prices
      /\ Len(ps) > 0
  BY <1>1
<1>3. Sorted(s, qs)
  <2>. SUFFICES ASSUME NEW i \in DOMAIN qs, NEW j \in DOMAIN qs, i < j
                PROVE  Better(s, qs[i], qs[j])
    BY DEF Sorted
  <2>1. /\ i + 1 \in DOMAIN ps /\ j + 1 \in DOMAIN ps /\ i + 1 < j + 1
        /\ qs[i] = ps[i + 1] /\ qs[j] = ps[j + 1]
    BY <1>1, <1>2
  <2>. QED
    BY <2>1 DEF Sorted
<1>4. ASSUME NEW q \in Prices
      PROVE  Holds(qs, q) <=> (q # ps[1] /\ Holds(ps, q))
  <2>1. ASSUME NEW i \in DOMAIN ps, i > 1
        PROVE  ps[i] # ps[1]
    <3>1. Better(s, ps[1], ps[i]) /\ ps[1] \in Prices
      BY <1>2, <2>1 DEF Sorted
    <3>. QED
      BY <3>1, BetterIsOrder
  <2>2. ASSUME NEW i \in DOMAIN qs, qs[i] = q
        PROVE  q # ps[1] /\ Holds(ps, q)
    <3>1. i + 1 \in DOMAIN ps /\ i + 1 > 1 /\ ps[i + 1] = q
      BY <1>1, <1>2, <2>2
    <3>. QED
      BY <2>1, <3>1 DEF Holds
  <2>3. ASSUME NEW i \in DOMAIN ps, ps[i] = q, q # ps[1]
        PROVE  Holds(qs, q)
    <3>1. i - 1 \in DOMAIN qs /\ qs[i - 1] = ps[i]
      BY <1>1, <1>2, <2>3
    <3>. QED
      BY <2>3, <3>1 DEF Holds
  <2>. QED
    BY <2>2, <2>3 DEF Holds
<1>5. ASSUME NEW q \in Prices
      PROVE  \E n \in 0..Len(qs) : PlaceIn(s, qs, q, n)
  <2>1. PICK k \in 0..Len(ps) : PlaceIn(s, ps, q, k)
    BY DEF HasPlaces
  <2>2. CASE k = 0
    <3>1. PlaceIn(s, qs, q, 0)
      BY <1>1, <1>2, <2>1, <2>2 DEF PlaceIn
    <3>. QED
      BY <1>1, <1>2, <3>1
  <2>3. CASE k > 0
    <3>1. PlaceIn(s, qs, q, k - 1)
      BY <1>1, <1>2, <2>1, <2>3 DEF PlaceIn
    <3>. QED
      BY <1>1, <2>3, <3>1
  <2>. QED
    BY <2>2, <2>3
<1>. QED
  BY <1>1, <1>3, <1>4, <1>5 DEF qs, HasPlaces

\* With the arrays and the levels in step, the best price is the first one.
LEMMA BestIsFirst ==
    ASSUME TypeOK, PricesAreLevels, NEW s \in Side
    PROVE  /\ HasBest(s) => /\ prices[s] # << >>
                            /\ BestPrice(s) = prices[s][1]
                            /\ prices[s][1] \in Prices
                            /\ levels[s][prices[s][1]] # << >>
           /\ ~HasBest(s) => \A p \in Prices : levels[s][p] = << >>
<1>. prices[s] \in Seq(Prices)
  BY DEF TypeOK
<1>1. LevelIndexes(s) = 1..Len(prices[s])
  BY DEF LevelIndexes, PricesAreLevels
<1>2. CASE prices[s] = << >>
  BY <1>1, <1>2 DEF HasBest, PricesAreLevels
<1>3. CASE prices[s] # << >>
  <2>1. 1 \in LevelIndexes(s) /\ \A i \in LevelIndexes(s) : 1 <= i
    BY <1>1, <1>3
  <2>2. Min(LevelIndexes(s)) = 1
    BY <1>1, <2>1 DEF Min
  <2>3. HasBest(s) /\ BestPrice(s) = prices[s][1]
    BY <2>1, <2>2 DEF HasBest, BestPrice
  <2>4. prices[s][1] \in Prices
    BY <1>3
  <2>5. levels[s][prices[s][1]] # << >>
    BY <2>1 DEF LevelIndexes
  <2>. QED
    BY <1>3, <2>3, <2>4, <2>5
<1>. QED
  BY <1>2, <1>3

----------------------------------------------------------------------------
(* The initial state and the arrival of an order. *)

\* A new OrderBook: nothing in it, no order processed.
LEMMA InitInv == BookInit => BookInv
<1>. SUFFICES ASSUME BookInit PROVE BookInv
  OBVIOUS
<1>1. NoInput \in OrderInput
  BY PartiesAssumption DEF NoInput, OrderInput, Side, OrderType
<1>2. TypeOK
  BY <1>1 DEF BookInit, TypeOK, Status
<1>3. \A s \in Side : prices[s] = << >> /\ \A p \in Prices : levels[s][p] = << >>
  BY DEF BookInit
<1>4. BookWellFormed
  <2>1. PricesSorted /\ PricesAreLevels
    BY <1>3 DEF PricesSorted, PricesAreLevels
  <2>2. LevelsHoldTheirOrders /\ LevelsAreFifo
    BY <1>3 DEF LevelsHoldTheirOrders, LevelsAreFifo
  <2>3. RestingIsInBook
    BY DEF BookInit, RestingIsInBook, RestingStatus
  <2>. QED
    BY <2>1, <2>2, <2>3 DEF BookWellFormed
<1>5. Uncrossed
  BY <1>3 DEF Uncrossed, Side
<1>6. EveryPriceHasAPlace
  BY <1>3 DEF EveryPriceHasAPlace, PlaceIn
<1>7. TakerIsPending
  BY NoOrderAssumption DEF BookInit, TakerIsPending
<1>8. BookArrivedBefore
  BY <1>3 DEF BookArrivedBefore
<1>. QED
  BY <1>2, <1>4, <1>5, <1>6, <1>7, <1>8 DEF BookInv

\* An order in the book is one that rests, so neither new nor pending.
LEMMA InTheBook ==
    ASSUME TypeOK, LevelsHoldTheirOrders, NEW s \in Side, NEW p \in Prices,
           NEW i \in DOMAIN levels[s][p]
    PROVE  /\ levels[s][p][i] \in Orders
           /\ status[levels[s][p][i]] \in RestingStatus
           /\ status[levels[s][p][i]] \notin {"NEW", "PENDING"}
BY DEF TypeOK, LevelsHoldTheirOrders, RestingStatus

\* Refuse and Accept: the new order is not in the book, which stays as it is.
LEMMA ArriveInv ==
    ASSUME BookInv, NEW o \in Orders, NEW in \in Inputs, NEW price \in Int,
           Arrive(o, in, price), NEW st \in {"PENDING", "REJECTED"}, NEW n \in Nat,
           status' = [status EXCEPT ![o] = st],
           rem' = [rem EXCEPT ![o] = n],
           taker' = IF st = "PENDING" THEN o ELSE NoOrder,
           (st = "PENDING" /\ in.type = "LIMIT") => price \in Prices
    PROVE  BookInv'
<1>. USE DEF BookInv, BookWellFormed
<1>1. TypeOK'
  <2>1. [in EXCEPT !.price = price] \in OrderInput
    BY InputsAssumption DEF OrderInput
  <2>. QED
    BY <2>1 DEF TypeOK, Arrive, Status, TerminalStatus
<1>2. /\ levels' = levels /\ prices' = prices /\ clock' = clock + 1 /\ taker = NoOrder
      /\ status[o] = "NEW"
      /\ order' = [order EXCEPT ![o] = [in EXCEPT !.price = price]]
      /\ createdAt' = [createdAt EXCEPT ![o] = clock + 1]
  BY DEF Arrive
<1>3. \A x \in Orders \ {o} :
          /\ order'[x] = order[x] /\ rem'[x] = rem[x] /\ status'[x] = status[x]
          /\ createdAt'[x] = createdAt[x]
  BY <1>2 DEF TypeOK
<1>4. ASSUME NEW s \in Side, NEW p \in Prices, NEW i \in DOMAIN levels[s][p]
      PROVE  levels[s][p][i] \in Orders \ {o}
  BY <1>2, InTheBook
<1>5. (PricesSorted /\ PricesAreLevels /\ Uncrossed /\ EveryPriceHasAPlace)'
  <2>1. PricesSorted' /\ EveryPriceHasAPlace'
    BY <1>2 DEF PricesSorted, EveryPriceHasAPlace, PlaceIn, Better
  <2>2. PricesAreLevels' /\ Uncrossed'
    BY <1>2 DEF PricesAreLevels, Uncrossed
  <2>. QED
    BY <2>1, <2>2
<1>6. LevelsHoldTheirOrders'
  BY <1>2, <1>3, <1>4 DEF LevelsHoldTheirOrders
<1>7. LevelsAreFifo'
  BY <1>2, <1>3, <1>4 DEF LevelsAreFifo
<1>8. RestingIsInBook'
  <2>1. status'[o] \notin RestingStatus
    BY DEF TypeOK, RestingStatus
  <2>2. ASSUME NEW x \in Orders, status'[x] \in RestingStatus
        PROVE  /\ order'[x].price \in Prices
               /\ \E i \in DOMAIN levels'[order'[x].side][order'[x].price] :
                      levels'[order'[x].side][order'[x].price][i] = x
    <3>1. x \in Orders \ {o}
      BY <2>1, <2>2
    <3>2. status[x] \in RestingStatus /\ order'[x] = order[x]
      BY <1>3, <2>2, <3>1
    <3>3. /\ order[x].price \in Prices
          /\ \E i \in DOMAIN levels[order[x].side][order[x].price] :
                 levels[order[x].side][order[x].price][i] = x
      <4>1. RestingIsInBook
        OBVIOUS
      <4>. QED
        BY <3>2, <4>1, Zenon DEF RestingIsInBook
    <3>. QED
      BY <1>2, <3>2, <3>3, Zenon
  <2>. QED
    BY <2>2 DEF RestingIsInBook
<1>9. TakerIsPending'
  <2>1. status'[o] = st /\ createdAt'[o] = clock + 1 /\ order'[o] = [in EXCEPT !.price = price]
    BY <1>2 DEF TypeOK
  <2>2. [in EXCEPT !.price = price].type = in.type /\ [in EXCEPT !.price = price].price = price
    BY InputsAssumption DEF OrderInput
  <2>3. \A x \in Orders : status[x] # "PENDING"
    BY <1>2, NoOrderAssumption DEF TakerIsPending
  <2>4. \A x \in Orders : status'[x] = "PENDING" <=> x = taker'
    BY <1>3, <2>1, <2>3, NoOrderAssumption
  <2>5. ASSUME taker' # NoOrder
        PROVE  taker' = o /\ st = "PENDING"
    BY <2>5
  <2>6. ASSUME taker' # NoOrder
        PROVE  /\ createdAt'[taker'] = clock'
               /\ order'[taker'].type = "LIMIT" => order'[taker'].price \in Prices
    BY <1>2, <2>1, <2>2, <2>5, <2>6
  <2>. QED
    BY <2>4, <2>6 DEF TakerIsPending
<1>10. BookArrivedBefore'
  <2>1. ASSUME NEW s \in Side, NEW p \in Prices, NEW i \in DOMAIN levels[s][p]
        PROVE  createdAt'[levels[s][p][i]] < clock'
    <3>1. /\ createdAt[levels[s][p][i]] <= clock
          /\ createdAt'[levels[s][p][i]] = createdAt[levels[s][p][i]]
      BY <1>3, <1>4 DEF BookArrivedBefore
    <3>2. createdAt[levels[s][p][i]] \in Nat /\ clock \in Nat
      BY <1>4 DEF TypeOK
    <3>. QED
      BY <1>2, <3>1, <3>2
  <2>2. ASSUME NEW s \in Side, NEW p \in Prices, NEW i \in DOMAIN levels[s][p]
        PROVE  createdAt'[levels[s][p][i]] \in Nat /\ clock' \in Nat
    BY <1>1, <1>4 DEF TypeOK
  <2>3. ASSUME NEW s \in Side, NEW p \in Prices, NEW i \in DOMAIN levels[s][p]
        PROVE  createdAt'[levels[s][p][i]] <= clock'
    BY <2>1, <2>2
  <2>. QED
    BY <1>2, <2>1, <2>3 DEF BookArrivedBefore
<1>. QED
  BY <1>1, <1>5, <1>6, <1>7, <1>8, <1>9, <1>10

\* The call of processOrder, refused or accepted, keeps the invariant.
LEMMA CallInv ==
    ASSUME BookInv, NEW o \in Orders, NEW in \in Inputs, Refuse(o, in) \/ Accept(o, in)
    PROVE  BookInv'
<1>0. in \in OrderInput
  BY InputsAssumption
<1>1. CASE Refuse(o, in)
  <2>1. /\ Arrive(o, in, 0)
        /\ status' = [status EXCEPT ![o] = "REJECTED"]
        /\ rem' = [rem EXCEPT ![o] = 0]
        /\ taker' = NoOrder
    BY <1>1 DEF Refuse, Arrive
  <2>2. taker' = IF "REJECTED" = "PENDING" THEN o ELSE NoOrder
    BY <2>1
  <2>3. 0 \in Nat /\ 0 \in Int /\ "REJECTED" \in {"PENDING", "REJECTED"}
    OBVIOUS
  <2>4. ("REJECTED" = "PENDING" /\ in.type = "LIMIT") => 0 \in Prices
    OBVIOUS
  <2>. QED
    BY <2>1, <2>2, <2>3, <2>4, ArriveInv
<1>2. CASE Accept(o, in)
  <2>1. /\ Arrive(o, in, PriceOf(in))
        /\ status' = [status EXCEPT ![o] = "PENDING"]
        /\ rem' = [rem EXCEPT ![o] = in.qty]
        /\ taker' = o
    BY <1>2 DEF Accept
  <2>2. in.qty \in Nat /\ PriceOf(in) \in Int
    BY <1>0, <1>2 DEF Accept, Refused, OrderInput, PriceOf
  <2>3. in.type = "LIMIT" => PriceOf(in) \in Prices
    BY <1>0, <1>2 DEF Accept, Refused, OrderInput, PriceOf, Prices
  <2>. QED
    BY <2>1, <2>2, <2>3, ArriveInv
<1>. QED
  BY <1>1, <1>2

----------------------------------------------------------------------------
(* The end of processOrder. *)

\* CancelRemainder and Complete touch the order only.
LEMMA CloseInv ==
    ASSUME BookInv, taker # NoOrder, NEW st \in TerminalStatus, Return(taker, st),
           UNCHANGED <<levels, prices>>
    PROVE  BookInv'
<1>. USE DEF BookInv, BookWellFormed
<1>1. taker \in Orders /\ status[taker] = "PENDING"
  BY DEF TypeOK, TakerIsPending
<1>2. /\ levels' = levels /\ prices' = prices /\ order' = order /\ rem' = rem
      /\ createdAt' = createdAt /\ clock' = clock /\ trades' = trades /\ taker' = NoOrder
      /\ status' = [status EXCEPT ![taker] = st]
  BY DEF Return
<1>3. \A x \in Orders \ {taker} : status'[x] = status[x]
  BY <1>1, <1>2 DEF TypeOK
<1>4. status'[taker] = st /\ st \notin RestingStatus /\ st # "PENDING"
  BY <1>1, <1>2 DEF TypeOK, TerminalStatus, RestingStatus
<1>5. TypeOK'
  BY <1>2 DEF TypeOK, Status
<1>6. ASSUME NEW s \in Side, NEW p \in Prices, NEW i \in DOMAIN levels[s][p]
      PROVE  levels[s][p][i] \in Orders \ {taker}
  BY <1>1, InTheBook
<1>7. /\ (PricesSorted /\ PricesAreLevels /\ Uncrossed /\ EveryPriceHasAPlace)'
      /\ LevelsAreFifo'
  <2>1. (PricesSorted /\ PricesAreLevels /\ Uncrossed /\ EveryPriceHasAPlace)'
    <3>1. PricesSorted' /\ EveryPriceHasAPlace'
      BY <1>2 DEF PricesSorted, EveryPriceHasAPlace, PlaceIn, Better
    <3>2. PricesAreLevels' /\ Uncrossed'
      BY <1>2 DEF PricesAreLevels, Uncrossed
    <3>. QED
      BY <3>1, <3>2
  <2>2. LevelsAreFifo'
    BY <1>2 DEF LevelsAreFifo
  <2>. QED
    BY <2>1, <2>2
<1>8. LevelsHoldTheirOrders'
  BY <1>2, <1>3, <1>6 DEF LevelsHoldTheirOrders
<1>9. RestingIsInBook'
  BY <1>2, <1>3, <1>4 DEF RestingIsInBook
<1>10. TakerIsPending'
  BY <1>1, <1>2, <1>3, <1>4, NoOrderAssumption DEF TakerIsPending
<1>11. BookArrivedBefore'
  BY <1>2 DEF BookArrivedBefore
<1>. QED
  BY <1>5, <1>7, <1>8, <1>9, <1>10, <1>11

\* What the loop leaves to rest meets nothing on the other side.
LEMMA RemainderDoesNotCross ==
    ASSUME BookInv, LoopDone, rem[taker] > 0, order[taker].type = "LIMIT",
           NEW p \in Prices, levels[Opposite(order[taker].side)][p] # << >>
    PROVE  Better(order[taker].side, p, order[taker].price)
<1>. USE DEF BookInv, BookWellFormed
<1>. DEFINE s == order[taker].side
            t == Opposite(s)
<1>1. /\ taker \in Orders /\ s \in Side /\ t \in Side /\ order[taker].price \in Prices
      /\ prices[t] \in Seq(Prices)
  BY DEF LoopDone, TypeOK, TakerIsPending, OrderInput, Opposite, Side
<1>2. HasBest(t)
  BY <1>1, BestIsFirst
<1>3. Better(s, BestPrice(t), order[taker].price)
  BY <1>2 DEF LoopDone, CanMatch, Crosses
<1>4. BestPrice(t) = prices[t][1] /\ prices[t][1] \in Prices
  BY <1>1, <1>2, BestIsFirst
<1>5. PICK i \in DOMAIN prices[t] : prices[t][i] = p
  BY <1>1 DEF PricesAreLevels
<1>6. CASE i = 1
  BY <1>3, <1>4, <1>5, <1>6
<1>7. CASE i > 1
  <2>1. 1 \in DOMAIN prices[t] /\ Better(t, prices[t][1], p)
    BY <1>1, <1>5, <1>7 DEF PricesSorted
  <2>2. p \in Nat /\ prices[t][1] \in Nat /\ order[taker].price \in Nat
    BY <1>1, <1>4, PricesAreNat
  <2>3. CASE s = "BID"
    BY <1>3, <1>4, <2>1, <2>2, <2>3 DEF Better, Opposite
  <2>4. CASE s = "ASK"
    BY <1>3, <1>4, <2>1, <2>2, <2>4 DEF Better, Opposite
  <2>. QED
    BY <1>1, <2>3, <2>4 DEF Side
<1>. QED
  BY <1>1, <1>5, <1>6, <1>7

\* addToBook of the remainder keeps the invariant.
LEMMA RestInv ==
    ASSUME BookInv, Rest
    PROVE  BookInv'
<1>. USE DEF BookInv, BookWellFormed
<1>1. PICK s \in Side, p \in Prices :
         /\ order[taker].side = s /\ order[taker].price = p /\ order[taker].type = "LIMIT"
         /\ taker \in Orders /\ taker # NoOrder /\ status[taker] = "PENDING"
         /\ createdAt[taker] = clock /\ rem[taker] > 0
  <2>1. order[taker].side \in Side /\ order[taker].price \in Prices
    BY DEF Rest, LoopDone, TypeOK, TakerIsPending, OrderInput
  <2>2. /\ order[taker].type = "LIMIT"
        /\ taker \in Orders /\ taker # NoOrder /\ status[taker] = "PENDING"
        /\ createdAt[taker] = clock /\ rem[taker] > 0
    BY DEF Rest, LoopDone, TypeOK, TakerIsPending
  <2>. QED
    BY <2>1, <2>2
<1>. DEFINE L == levels[s][p]
            n == Len(L) + 1
<1>2. /\ levels' = [levels EXCEPT ![s][p] = Append(L, taker)]
      /\ order' = order /\ rem' = rem /\ createdAt' = createdAt /\ clock' = clock
      /\ trades' = trades /\ taker' = NoOrder
      /\ status' = [status EXCEPT ![taker] = RestStatus(taker)]
      /\ RestStatus(taker) \in RestingStatus
  BY <1>1 DEF Rest, Return, AddToBook, PushLevel, RestStatus, RestingStatus
<1>3. /\ levels \in [Side -> [Prices -> Seq(Orders)]]
      /\ prices \in [Side -> Seq(Prices)]
      /\ L \in Seq(Orders)
      /\ createdAt \in [Orders -> Nat] /\ clock \in Nat
  BY <1>1 DEF TypeOK
<1>4. /\ levels'[s][p] = Append(L, taker)
      /\ \A s2 \in Side, p2 \in Prices :
             ~(s2 = s /\ p2 = p) => levels'[s2][p2] = levels[s2][p2]
      /\ levels' \in [Side -> [Prices -> Seq(Orders)]]
  BY <1>1, <1>2, <1>3
<1>5. /\ status'[taker] \in RestingStatus
      /\ \A x \in Orders \ {taker} : status'[x] = status[x]
      /\ \A x \in Orders : status'[x] # "PENDING"
  BY <1>1, <1>2 DEF TypeOK, TakerIsPending, RestingStatus
<1>6. ASSUME NEW s2 \in Side, NEW p2 \in Prices, NEW i \in DOMAIN levels[s2][p2]
      PROVE  levels[s2][p2][i] \in Orders \ {taker}
  BY <1>1, InTheBook
<1>7. /\ DOMAIN levels'[s][p] = 1..n /\ DOMAIN L = 1..(n - 1) /\ n \in Nat \ {0}
      /\ levels'[s][p][n] = taker
      /\ \A i \in 1..(n - 1) : levels'[s][p][i] = L[i]
      /\ levels'[s][p] # << >>
  <2>1. Len(L) \in Nat /\ DOMAIN L = 1..Len(L)
    BY <1>3
  <2>. L \in Seq(Orders) /\ taker \in Orders
    BY <1>1, <1>3
  <2>. HIDE DEF L
  <2>2. /\ Append(L, taker) \in Seq(Orders) /\ Len(Append(L, taker)) = Len(L) + 1
        /\ Append(L, taker) # << >>
        /\ \A i \in 1..Len(L) : Append(L, taker)[i] = L[i]
        /\ Append(L, taker)[Len(L) + 1] = taker
    BY Appended
  <2>3. DOMAIN Append(L, taker) = 1..(Len(L) + 1) /\ Len(L) + 1 - 1 = Len(L)
    BY <2>1, <2>2
  <2>. QED
    BY <1>4, <2>1, <2>2, <2>3
<1>. HIDE DEF L, n
\* An entry of the new levels is an old one or the taker, at the end of its level.
<1>8. ASSUME NEW s2 \in Side, NEW p2 \in Prices, NEW i \in DOMAIN levels'[s2][p2]
      PROVE  \/ i \in DOMAIN levels[s2][p2] /\ levels'[s2][p2][i] = levels[s2][p2][i]
             \/ s2 = s /\ p2 = p /\ i = n /\ levels'[s2][p2][i] = taker
  <2>1. CASE s2 = s /\ p2 = p
    <3>1. i \in 1..n
      BY <1>7, <2>1
    <3>2. i = n \/ i \in 1..(n - 1)
      BY <1>7, <3>1
    <3>. QED
      BY <1>7, <2>1, <3>2 DEF L
  <2>2. CASE ~(s2 = s /\ p2 = p)
    BY <1>4, <2>2
  <2>. QED
    BY <2>1, <2>2
<1>9. /\ prices' \in [Side -> Seq(Prices)]
      /\ \A s2 \in Side \ {s} : prices'[s2] = prices[s2]
      /\ Sorted(s, prices'[s])
      /\ \A q \in Prices : Holds(prices'[s], q) <=> (q = p \/ Holds(prices[s], q))
      /\ HasPlaces(s, prices'[s])
  <2>1. /\ prices[s] \in Seq(Prices) /\ Sorted(s, prices[s]) /\ HasPlaces(s, prices[s])
        /\ Holds(prices[s], p) <=> L # << >>
    BY <1>1, <1>3 DEF PricesSorted, Sorted, EveryPriceHasAPlace, HasPlaces, PricesAreLevels, Holds, L
  <2>2. CASE L = << >>
    <3>1. prices' = [prices EXCEPT ![s] = InsertPriceSorted(s, prices[s], p)]
      BY <1>1, <2>2 DEF Rest, AddToBook, L
    <3>2. prices'[s] = InsertPriceSorted(s, prices[s], p)
      BY <1>1, <1>3, <3>1
    <3>3. /\ prices'[s] \in Seq(Prices) /\ Sorted(s, prices'[s])
          /\ \A q \in Prices : Holds(prices'[s], q) <=> (q = p \/ Holds(prices[s], q))
          /\ HasPlaces(s, prices'[s])
      BY <1>1, <2>1, <2>2, <3>2, InsertKeepsOrder
    <3>. QED
      BY <1>1, <1>3, <3>1, <3>2, <3>3
  <2>3. CASE L # << >>
    <3>1. prices' = prices
      BY <1>1, <2>3 DEF Rest, AddToBook, L
    <3>. QED
      BY <1>1, <1>3, <2>1, <2>3, <3>1
  <2>. QED
    BY <2>2, <2>3
<1>10. TypeOK'
  BY <1>1, <1>2, <1>4, <1>9 DEF TypeOK, Status
<1>11. PricesSorted' /\ EveryPriceHasAPlace'
  <2>1. ASSUME NEW s2 \in Side
        PROVE  Sorted(s2, prices'[s2]) /\ HasPlaces(s2, prices'[s2])
    BY <1>9 DEF PricesSorted, Sorted, EveryPriceHasAPlace, HasPlaces
  <2>. QED
    BY <2>1 DEF PricesSorted, Sorted, EveryPriceHasAPlace, HasPlaces, PlaceIn, Better
<1>12. PricesAreLevels'
  <2>1. ASSUME NEW s2 \in Side, NEW q \in Prices
        PROVE  levels'[s2][q] # << >> <=> Holds(prices'[s2], q)
    <3>1. levels[s2][q] # << >> <=> Holds(prices[s2], q)
      BY DEF PricesAreLevels, Holds
    <3>2. CASE s2 = s /\ q = p
      BY <1>1, <1>7, <1>9, <3>2
    <3>3. CASE s2 = s /\ q # p
      BY <1>1, <1>4, <1>9, <3>1, <3>3
    <3>4. CASE s2 # s
      BY <1>4, <1>9, <3>1, <3>4
    <3>. QED
      BY <3>2, <3>3, <3>4
  <2>. QED
    BY <2>1 DEF PricesAreLevels, Holds
<1>13. LevelsHoldTheirOrders'
  <2>1. ASSUME NEW s2 \in Side, NEW p2 \in Prices, NEW i \in DOMAIN levels[s2][p2]
        PROVE  LET x == levels[s2][p2][i]
               IN  /\ order'[x].side = s2 /\ order'[x].price = p2 /\ order'[x].type = "LIMIT"
                   /\ status'[x] \in RestingStatus /\ rem'[x] > 0
    BY <1>2, <1>5, <1>6 DEF LevelsHoldTheirOrders
  <2>2. /\ order'[taker].side = s /\ order'[taker].price = p /\ order'[taker].type = "LIMIT"
        /\ status'[taker] \in RestingStatus /\ rem'[taker] > 0
    BY <1>1, <1>2, <1>5
  <2>3. ASSUME NEW s2 \in Side, NEW p2 \in Prices, NEW i \in DOMAIN levels'[s2][p2]
        PROVE  LET x == levels'[s2][p2][i]
               IN  /\ order'[x].side = s2 /\ order'[x].price = p2 /\ order'[x].type = "LIMIT"
                   /\ status'[x] \in RestingStatus /\ rem'[x] > 0
    <3>1. CASE i \in DOMAIN levels[s2][p2] /\ levels'[s2][p2][i] = levels[s2][p2][i]
      BY <2>1, <3>1
    <3>2. CASE s2 = s /\ p2 = p /\ i = n /\ levels'[s2][p2][i] = taker
      BY <2>2, <3>2
    <3>. QED
      BY <1>8, <3>1, <3>2
  <2>. QED
    BY <2>3 DEF LevelsHoldTheirOrders
<1>14. LevelsAreFifo'
  <2>1. ASSUME NEW s2 \in Side, NEW p2 \in Prices,
               NEW i \in DOMAIN levels'[s2][p2], NEW j \in DOMAIN levels'[s2][p2], i < j
        PROVE  createdAt[levels'[s2][p2][i]] < createdAt[levels'[s2][p2][j]]
    <3>1. CASE i \in DOMAIN levels[s2][p2] /\ j \in DOMAIN levels[s2][p2]
      <4>1. /\ levels'[s2][p2][i] = levels[s2][p2][i]
            /\ levels'[s2][p2][j] = levels[s2][p2][j]
        BY <1>7, <1>8, <3>1 DEF L
      <4>. QED
        BY <2>1, <3>1, <4>1 DEF LevelsAreFifo
    <3>2. CASE s2 = s /\ p2 = p /\ j = n
      <4>1. i \in 1..(n - 1)
        BY <1>7, <2>1, <3>2
      <4>2. createdAt[L[i]] < clock
        BY <1>1, <1>7, <4>1 DEF BookArrivedBefore, L
      <4>. QED
        BY <1>1, <1>7, <3>2, <4>1, <4>2
    <3>3. CASE s2 = s /\ p2 = p /\ i = n
      <4>1. j \in 1..n /\ n \in Nat
        BY <1>7, <3>3
      <4>. QED
        BY <2>1, <3>3, <4>1
    <3>. QED
      BY <1>8, <3>1, <3>2, <3>3
  <2>. QED
    BY <1>2, <2>1 DEF LevelsAreFifo
<1>15. RestingIsInBook'
  <2>1. ASSUME NEW x \in Orders, status'[x] \in RestingStatus
        PROVE  /\ order[x].price \in Prices
               /\ \E i \in DOMAIN levels'[order[x].side][order[x].price] :
                      levels'[order[x].side][order[x].price][i] = x
    <3>1. CASE x = taker
      <4>1. n \in DOMAIN levels'[s][p] /\ levels'[s][p][n] = x
        BY <1>7, <3>1
      <4>. QED
        BY <1>1, <3>1, <4>1
    <3>2. CASE x # taker
      <4>1. PICK s2 \in Side, p2 \in Prices : order[x].side = s2 /\ order[x].price = p2
        BY <1>5, <2>1, <3>2 DEF RestingIsInBook, TypeOK, OrderInput
      <4>2. PICK i \in DOMAIN levels[s2][p2] : levels[s2][p2][i] = x
        BY <1>5, <2>1, <3>2, <4>1 DEF RestingIsInBook
      <4>3. i \in DOMAIN levels'[s2][p2] /\ levels'[s2][p2][i] = x
        <5>1. CASE s2 = s /\ p2 = p
          <6>1. i \in 1..(n - 1) /\ L[i] = x
            BY <1>7, <4>2, <5>1 DEF L
          <6>2. i \in 1..n
            BY <1>7, <6>1
          <6>. QED
            BY <1>7, <5>1, <6>1, <6>2
        <5>2. CASE ~(s2 = s /\ p2 = p)
          BY <1>4, <4>2, <5>2
        <5>. QED
          BY <5>1, <5>2
      <4>. QED
        BY <4>1, <4>3
    <3>. QED
      BY <3>1, <3>2
  <2>. QED
    BY <1>2, <2>1 DEF RestingIsInBook
<1>16. Uncrossed'
  <2>. SUFFICES ASSUME NEW b \in Prices, NEW a \in Prices,
                       levels'["BID"][b] # << >>, levels'["ASK"][a] # << >>
                PROVE  b < a
    BY DEF Uncrossed
  <2>1. ASSUME NEW q \in Prices, levels[Opposite(s)][q] # << >>
        PROVE  Better(s, q, p)
    BY <1>1, <2>1, RemainderDoesNotCross DEF Rest
  <2>2. "BID" \in Side /\ "ASK" \in Side /\ "BID" # "ASK"
    BY DEF Side
  <2>3. CASE s = "BID" /\ b = p
    <3>1. levels["ASK"][a] # << >>
      BY <1>4, <2>2, <2>3
    <3>. QED
      BY <2>1, <2>3, <3>1 DEF Opposite, Better
  <2>4. CASE s = "ASK" /\ a = p
    <3>1. levels["BID"][b] # << >>
      BY <1>4, <2>2, <2>4
    <3>. QED
      BY <2>1, <2>4, <3>1, <2>2 DEF Opposite, Better
  <2>5. CASE ~(s = "BID" /\ b = p) /\ ~(s = "ASK" /\ a = p)
    BY <1>4, <2>2, <2>5 DEF Uncrossed
  <2>. QED
    BY <2>3, <2>4, <2>5
<1>17. TakerIsPending'
  BY <1>2, <1>5, NoOrderAssumption DEF TakerIsPending
<1>18. BookArrivedBefore'
  <2>1. ASSUME NEW s2 \in Side, NEW p2 \in Prices, NEW i \in DOMAIN levels'[s2][p2]
        PROVE  createdAt[levels'[s2][p2][i]] <= clock
    <3>1. CASE i \in DOMAIN levels[s2][p2] /\ levels'[s2][p2][i] = levels[s2][p2][i]
      BY <3>1 DEF BookArrivedBefore
    <3>2. CASE levels'[s2][p2][i] = taker
      BY <1>1, <1>3, <3>2
    <3>. QED
      BY <1>8, <3>1, <3>2
  <2>. QED
    BY <1>2, <2>1 DEF BookArrivedBefore
<1>. QED
  BY <1>10, <1>11, <1>12, <1>13, <1>14, <1>15, <1>16, <1>17, <1>18
----------------------------------------------------------------------------
(* The matching loop. *)

\* matchOne is about to match the taker with m, from the level of price p on side s.
IsMaker(s, p, m) ==
    /\ s = Opposite(order[taker].side)
    /\ p = BestPrice(s)
    /\ m = Maker(order[taker].side)

\* m is the first order of the first level of side s, which is that of price p.
IsFirst(s, p, m) ==
    /\ prices[s] # << >> /\ p = prices[s][1]
    /\ levels[s][p] # << >> /\ m = levels[s][p][1]
    /\ order[m].side = s /\ order[m].price = p

\* The maker is the head of the best level of the other side: a resting LIMIT
\* order with something left, and not the taker.
LEMMA MakerIsResting ==
    ASSUME BookInv, taker # NoOrder, CanMatch(taker),
           NEW s, NEW p, NEW m, IsMaker(s, p, m)
    PROVE  /\ taker \in Orders /\ status[taker] = "PENDING" /\ rem[taker] > 0
           /\ s \in Side /\ p \in Prices /\ m \in Orders \ {taker}
           /\ IsFirst(s, p, m)
           /\ order[m].type = "LIMIT" /\ status[m] \in RestingStatus /\ rem[m] > 0
<1>. USE DEF BookInv, BookWellFormed
<1>1. taker \in Orders /\ status[taker] = "PENDING" /\ rem[taker] > 0 /\ s \in Side
  BY DEF TypeOK, TakerIsPending, CanMatch, OrderInput, Opposite, Side, IsMaker
<1>2. /\ prices[s] # << >> /\ p = prices[s][1] /\ p \in Prices /\ levels[s][p] # << >>
  BY <1>1, BestIsFirst DEF CanMatch, IsMaker
<1>3. levels[s][p] \in Seq(Orders) /\ m = Head(levels[s][p])
  BY <1>1, <1>2 DEF TypeOK, Maker, IsMaker
<1>4. m = levels[s][p][1] /\ 1 \in DOMAIN levels[s][p]
  BY <1>2, <1>3, HeadTailProperties
<1>5. m \in Orders /\ status[m] \in RestingStatus /\ m # taker
  BY <1>1, <1>2, <1>4, InTheBook
<1>6. order[m].side = s /\ order[m].price = p /\ order[m].type = "LIMIT" /\ rem[m] > 0
  BY <1>1, <1>2, <1>4 DEF LevelsHoldTheirOrders
<1>. QED
  BY <1>1, <1>2, <1>4, <1>5, <1>6 DEF IsFirst

\* No resting order of that side is ahead of the maker in price-time priority.
LEMMA MakerIsBest ==
    ASSUME BookInv, taker # NoOrder, CanMatch(taker),
           NEW s, NEW p, NEW m, IsMaker(s, p, m),
           NEW o \in Orders \ {m}, order[o].side = s, status[o] \in RestingStatus
    PROVE  \/ Better(s, order[m].price, order[o].price)
           \/ order[m].price = order[o].price /\ createdAt[m] < createdAt[o]
<1>. USE DEF BookInv, BookWellFormed
<1>1. /\ s \in Side /\ p \in Prices /\ prices[s] # << >> /\ p = prices[s][1]
      /\ m = levels[s][p][1] /\ order[m].price = p
  BY MakerIsResting DEF IsFirst
<1>2. PICK q \in Prices : order[o].price = q
  BY DEF RestingIsInBook
<1>3. PICK i \in DOMAIN levels[s][q] : levels[s][q][i] = o
  BY <1>2 DEF RestingIsInBook
<1>4. levels[s][p] \in Seq(Orders) /\ levels[s][q] \in Seq(Orders) /\ prices[s] \in Seq(Prices)
  BY <1>1 DEF TypeOK
<1>5. CASE q = p
  <2>1. i # 1
    BY <1>1, <1>3, <1>5
  <2>2. 1 \in DOMAIN levels[s][p] /\ i \in DOMAIN levels[s][p] /\ 1 < i
    BY <1>3, <1>4, <1>5, <2>1
  <2>. QED
    BY <1>1, <1>2, <1>3, <1>5, <2>2 DEF LevelsAreFifo
<1>6. CASE q # p
  <2>1. levels[s][q] # << >>
    BY <1>3, <1>4
  <2>2. PICK j \in DOMAIN prices[s] : prices[s][j] = q
    BY <1>1, <2>1 DEF PricesAreLevels
  <2>3. 1 \in DOMAIN prices[s] /\ 1 < j
    BY <1>1, <1>4, <1>6, <2>2
  <2>. QED
    BY <1>1, <1>2, <2>2, <2>3 DEF PricesSorted
<1>. QED
  BY <1>5, <1>6

\* What matchOne does to the quantities, to either party's status and to the
\* list of trades.
LEMMA MatchEffect ==
    ASSUME BookInv, MatchOne, NEW s, NEW p, NEW m, IsMaker(s, p, m)
    PROVE  /\ rem' \in [Orders -> Nat]
           /\ \A x \in Orders \ {m, taker} : rem'[x] = rem[x]
           /\ rem'[m] < rem[m] /\ rem'[taker] < rem[taker]
           /\ \A x \in Orders \ {m} : status'[x] = status[x]
           /\ trades' \in Seq(Trade)
           /\ Len(trades') = Len(trades) + 1
           /\ \A i \in 1..Len(trades) : trades'[i] = trades[i]
           /\ trades'[Len(trades')].maker = m /\ trades'[Len(trades')].taker = taker
           /\ \/ rem'[m] > 0 /\ status'[m] = "PARTIALLY_FILLED" /\ UNCHANGED <<levels, prices>>
              \/ rem'[m] <= 0 /\ status'[m] = "FILLED" /\ RemoveFromBook(m)
<1>. USE DEF BookInv, BookWellFormed
<1>. DEFINE q == FillQty(taker, m)
<1>1. /\ taker \in Orders /\ m \in Orders /\ m # taker /\ p \in Prices /\ rem[m] > 0 /\ rem[taker] > 0
  BY MakerIsResting DEF MatchOne
<1>2. rem[m] \in Nat /\ rem[taker] \in Nat /\ rem \in [Orders -> Nat]
  BY <1>1 DEF TypeOK
<1>3. q \in Nat /\ 0 < q /\ q <= rem[m] /\ q <= rem[taker]
  BY <1>1, <1>2 DEF FillQty
<1>. HIDE DEF q
<1>4. /\ rem' = [rem EXCEPT ![m] = @ - q, ![taker] = @ - q]
      /\ status' = [status EXCEPT ![m] = IF rem[m] - q <= 0 THEN "FILLED" ELSE "PARTIALLY_FILLED"]
      /\ IF rem[m] - q <= 0 THEN RemoveFromBook(m) ELSE UNCHANGED <<levels, prices>>
      /\ trades' = Append(trades, TradeOf(taker, m, p, q))
  BY DEF MatchOne, IsMaker, q
<1>5. rem'[m] = rem[m] - q /\ rem'[taker] = rem[taker] - q
  BY <1>1, <1>2, <1>4
<1>6. /\ rem' \in [Orders -> Nat]
      /\ \A x \in Orders \ {m, taker} : rem'[x] = rem[x]
      /\ rem'[m] < rem[m] /\ rem'[taker] < rem[taker]
  BY <1>1, <1>2, <1>3, <1>4, <1>5
<1>7. /\ \A x \in Orders \ {m} : status'[x] = status[x]
      /\ \/ rem'[m] > 0 /\ status'[m] = "PARTIALLY_FILLED" /\ UNCHANGED <<levels, prices>>
         \/ rem'[m] <= 0 /\ status'[m] = "FILLED" /\ RemoveFromBook(m)
  BY <1>1, <1>2, <1>3, <1>4, <1>5 DEF TypeOK
<1>8. /\ trades' \in Seq(Trade) /\ Len(trades') = Len(trades) + 1
      /\ \A i \in 1..Len(trades) : trades'[i] = trades[i]
      /\ trades'[Len(trades')].maker = m /\ trades'[Len(trades')].taker = taker
  <2>1. TradeOf(taker, m, p, q) \in Trade /\ trades \in Seq(Trade)
    BY <1>1, <1>3 DEF TradeOf, Trade, TypeOK
  <2>2. /\ TradeOf(taker, m, p, q).maker = m
        /\ TradeOf(taker, m, p, q).taker = taker
    BY DEF TradeOf
  <2>. DEFINE tr == TradeOf(taker, m, p, q)
  <2>. HIDE DEF tr
  <2>3. tr \in Trade /\ tr.maker = m /\ tr.taker = taker /\ trades' = Append(trades, tr)
    BY <1>4, <2>1, <2>2 DEF tr
  <2>. QED
    BY <2>1, <2>3, Appended
<1>. QED
  BY <1>6, <1>7, <1>8

\* removeFromBook of a maker that is filled: the entries of the new levels are
\* the old ones without it, in the same order.
LEMMA RemovedEntries ==
    ASSUME BookInv, NEW s \in Side, NEW p \in Prices, NEW m \in Orders,
           IsFirst(s, p, m), RemoveFromBook(m)
    PROVE  /\ levels' \in [Side -> [Prices -> Seq(Orders)]]
           /\ \A s2 \in Side, p2 \in Prices :
                 ~(s2 = s /\ p2 = p) => levels'[s2][p2] = levels[s2][p2]
           /\ levels'[s][p] = Tail(levels[s][p]) /\ levels'[s][p] \in Seq(Orders)
           /\ \A i \in DOMAIN levels'[s][p] :
                 i + 1 \in DOMAIN levels[s][p] /\ levels'[s][p][i] = levels[s][p][i + 1]
           /\ \A i \in DOMAIN levels[s][p] :
                 i > 1 => i - 1 \in DOMAIN levels'[s][p] /\ levels'[s][p][i - 1] = levels[s][p][i]
           /\ \A s2 \in Side, p2 \in Prices : \A i \in DOMAIN levels'[s2][p2] :
                 levels'[s2][p2][i] \in Orders \ {m}
<1>. USE DEF BookInv, BookWellFormed
<1>. DEFINE L == levels[s][p]
<1>1. levels \in [Side -> [Prices -> Seq(Orders)]] /\ L \in Seq(Orders) /\ L # << >>
  BY DEF TypeOK, IsFirst
<1>2. levels' = [levels EXCEPT ![s][p] = Tail(L)]
  BY DEF RemoveFromBook, IsFirst
<1>. HIDE DEF L
<1>3. /\ Tail(L) \in Seq(Orders) /\ Len(Tail(L)) = Len(L) - 1
      /\ \A i \in 1..Len(Tail(L)) : Tail(L)[i] = L[i + 1]
  BY <1>1, HeadTailProperties
<1>4. /\ DOMAIN L = 1..Len(L) /\ Len(L) \in Nat /\ Len(L) > 0
      /\ DOMAIN Tail(L) = 1..(Len(L) - 1)
  BY <1>1, <1>3
<1>5. /\ levels' \in [Side -> [Prices -> Seq(Orders)]]
      /\ levels'[s][p] = Tail(L) /\ levels'[s][p] \in Seq(Orders)
      /\ \A s2 \in Side, p2 \in Prices :
            ~(s2 = s /\ p2 = p) => levels'[s2][p2] = levels[s2][p2]
  BY <1>1, <1>2, <1>3
<1>6. /\ \A i \in DOMAIN Tail(L) : i + 1 \in DOMAIN L /\ Tail(L)[i] = L[i + 1]
      /\ \A i \in DOMAIN L : i > 1 => i - 1 \in DOMAIN Tail(L) /\ Tail(L)[i - 1] = L[i]
  BY <1>3, <1>4
<1>7. ASSUME NEW s2 \in Side, NEW p2 \in Prices, NEW i \in DOMAIN levels'[s2][p2]
      PROVE  levels'[s2][p2][i] \in Orders \ {m}
  <2>1. CASE s2 = s /\ p2 = p
    <3>1. i + 1 \in DOMAIN L /\ levels'[s2][p2][i] = L[i + 1] /\ 1 \in DOMAIN L /\ 1 < i + 1
      BY <1>4, <1>5, <1>6, <2>1
    <3>2. createdAt[L[1]] < createdAt[L[i + 1]] /\ L[1] = m
      BY <3>1 DEF LevelsAreFifo, L, IsFirst
    <3>3. createdAt[m] \in Nat /\ L[i + 1] \in Orders
      BY <1>1, <3>1 DEF TypeOK
    <3>. QED
      BY <3>1, <3>2, <3>3
  <2>2. CASE ~(s2 = s /\ p2 = p)
    <3>1. i \in DOMAIN levels[s2][p2] /\ levels'[s2][p2][i] = levels[s2][p2][i]
      BY <1>5, <2>2
    <3>2. /\ levels[s2][p2][i] \in Orders
          /\ order[levels[s2][p2][i]].side = s2 /\ order[levels[s2][p2][i]].price = p2
      BY <3>1, InTheBook DEF LevelsHoldTheirOrders
    <3>3. order[m].side = s /\ order[m].price = p
      BY DEF IsFirst
    <3>. QED
      BY <2>2, <3>1, <3>2, <3>3
  <2>. QED
    BY <2>1, <2>2
<1>. QED
  BY <1>5, <1>6, <1>7 DEF L

\* ... and the arrays lose its price if nothing else rests there.
LEMMA RemovedPrices ==
    ASSUME BookInv, NEW s \in Side, NEW p \in Prices, NEW m \in Orders,
           IsFirst(s, p, m), RemoveFromBook(m)
    PROVE  /\ prices' \in [Side -> Seq(Prices)]
           /\ \A s2 \in Side : Sorted(s2, prices'[s2]) /\ HasPlaces(s2, prices'[s2])
           /\ \A s2 \in Side, q \in Prices :
                 Holds(prices'[s2], q) <=>
                     /\ Holds(prices[s2], q)
                     /\ s2 = s /\ q = p => Tail(levels[s][p]) # << >>
<1>. USE DEF BookInv, BookWellFormed
<1>1. /\ prices \in [Side -> Seq(Prices)]
      /\ \A s2 \in Side : Sorted(s2, prices[s2]) /\ HasPlaces(s2, prices[s2])
  BY DEF TypeOK, PricesSorted, Sorted, EveryPriceHasAPlace, HasPlaces
<1>2. CASE Tail(levels[s][p]) = << >>
  <2>1. prices' = [prices EXCEPT ![s] = RemovePrice(prices[s], p)]
    BY <1>2 DEF RemoveFromBook, IsFirst
  <2>2. \A i, j \in DOMAIN prices[s] : i < j => prices[s][i] # prices[s][j]
    <3>1. ASSUME NEW i \in DOMAIN prices[s], NEW j \in DOMAIN prices[s], i < j
          PROVE  prices[s][i] # prices[s][j]
      <4>1. prices[s][i] \in Prices /\ prices[s][j] \in Prices
        BY <1>1
      <4>2. Better(s, prices[s][i], prices[s][j])
        BY <3>1 DEF PricesSorted
      <4>. QED
        BY <4>1, <4>2, BetterIsOrder
    <3>. QED
      BY <3>1
  <2>3. prices'[s] = Tail(prices[s])
    BY <1>1, <2>1, <2>2, RemovedPrice DEF IsFirst
  <2>4. /\ prices'[s] \in Seq(Prices) /\ Sorted(s, prices'[s]) /\ HasPlaces(s, prices'[s])
        /\ \A q \in Prices : Holds(prices'[s], q) <=> (q # p /\ Holds(prices[s], q))
    BY <1>1, <2>3, TailKeepsOrder DEF IsFirst
  <2>5. \A s2 \in Side \ {s} : prices'[s2] = prices[s2]
    BY <1>1, <2>1
  <2>6. prices' \in [Side -> Seq(Prices)]
    BY <1>1, <2>1, <2>4
  <2>7. ASSUME NEW s2 \in Side
        PROVE  /\ Sorted(s2, prices'[s2]) /\ HasPlaces(s2, prices'[s2])
               /\ \A q \in Prices :
                     Holds(prices'[s2], q) <=> Holds(prices[s2], q) /\ ~(s2 = s /\ q = p)
    <3>1. CASE s2 = s
      BY <2>4, <3>1
    <3>2. CASE s2 # s
      BY <1>1, <2>5, <3>2
    <3>. QED
      BY <3>1, <3>2
  <2>. QED
    BY <1>2, <2>6, <2>7
<1>3. CASE Tail(levels[s][p]) # << >>
  <2>1. prices' = prices
    BY <1>3 DEF RemoveFromBook, IsFirst
  <2>. QED
    BY <1>1, <1>3, <2>1
<1>. QED
  BY <1>2, <1>3

\* matchOne keeps the invariant.
LEMMA MatchInv ==
    ASSUME BookInv, MatchOne
    PROVE  BookInv'
<1>. USE DEF BookInv, BookWellFormed
<1>1. PICK s, p, m : IsMaker(s, p, m)
  BY DEF IsMaker
<1>2. /\ taker \in Orders /\ status[taker] = "PENDING" /\ taker # NoOrder
      /\ s \in Side /\ p \in Prices /\ m \in Orders \ {taker}
      /\ IsFirst(s, p, m) /\ status[m] \in RestingStatus
  BY <1>1, MakerIsResting DEF MatchOne
<1>3. /\ rem' \in [Orders -> Nat]
      /\ \A x \in Orders \ {m, taker} : rem'[x] = rem[x]
      /\ \A x \in Orders \ {m} : status'[x] = status[x]
      /\ trades' \in Seq(Trade)
      /\ \/ rem'[m] > 0 /\ status'[m] = "PARTIALLY_FILLED" /\ UNCHANGED <<levels, prices>>
         \/ rem'[m] <= 0 /\ status'[m] = "FILLED" /\ RemoveFromBook(m)
  BY <1>1, MatchEffect
<1>4. order' = order /\ createdAt' = createdAt /\ clock' = clock /\ taker' = taker
  BY DEF MatchOne
<1>5. status' \in [Orders -> Status]
  <2>1. \E st \in Status : status' = [status EXCEPT ![m] = st]
    BY <1>1 DEF MatchOne, IsMaker, Status, RestingStatus, TerminalStatus
  <2>. QED
    BY <2>1 DEF TypeOK
<1>6. TakerIsPending'
  <2>1. \A x \in Orders : status'[x] = "PENDING" <=> x = taker
    BY <1>2, <1>3 DEF TakerIsPending, RestingStatus
  <2>. QED
    BY <1>4, <2>1 DEF TakerIsPending
<1>7. ASSUME NEW s2 \in Side, NEW p2 \in Prices, NEW i \in DOMAIN levels[s2][p2]
      PROVE  levels[s2][p2][i] \in Orders \ {taker}
  BY <1>2, InTheBook
<1>8. CASE rem'[m] > 0 /\ status'[m] = "PARTIALLY_FILLED" /\ UNCHANGED <<levels, prices>>
  <2>. levels' = levels /\ prices' = prices
    BY <1>8
  <2>1. TypeOK'
    BY <1>3, <1>4, <1>5 DEF TypeOK
  <2>2. (PricesSorted /\ PricesAreLevels /\ Uncrossed /\ EveryPriceHasAPlace)'
    <3>1. PricesSorted' /\ EveryPriceHasAPlace'
      BY DEF PricesSorted, EveryPriceHasAPlace, PlaceIn, Better
    <3>2. PricesAreLevels' /\ Uncrossed'
      BY DEF PricesAreLevels, Uncrossed
    <3>. QED
      BY <3>1, <3>2
  <2>3. LevelsAreFifo' /\ BookArrivedBefore'
    BY <1>4 DEF LevelsAreFifo, BookArrivedBefore
  <2>4. ASSUME NEW s2 \in Side, NEW p2 \in Prices, NEW i \in DOMAIN levels[s2][p2]
        PROVE  LET x == levels[s2][p2][i]
               IN  /\ order'[x].side = s2 /\ order'[x].price = p2 /\ order'[x].type = "LIMIT"
                   /\ status'[x] \in RestingStatus /\ rem'[x] > 0
    BY <1>3, <1>4, <1>7, <1>8 DEF LevelsHoldTheirOrders, RestingStatus
  <2>5. LevelsHoldTheirOrders'
    BY <2>4 DEF LevelsHoldTheirOrders
  <2>6. \A x \in Orders : status'[x] \in RestingStatus => status[x] \in RestingStatus
    BY <1>2, <1>3
  <2>7. RestingIsInBook'
    BY <1>4, <2>6 DEF RestingIsInBook
  <2>. QED
    BY <1>6, <2>1, <2>2, <2>3, <2>5, <2>7
<1>9. CASE rem'[m] <= 0 /\ status'[m] = "FILLED" /\ RemoveFromBook(m)
  <2>1. /\ levels' \in [Side -> [Prices -> Seq(Orders)]]
        /\ \A s2 \in Side, p2 \in Prices :
              ~(s2 = s /\ p2 = p) => levels'[s2][p2] = levels[s2][p2]
        /\ levels'[s][p] = Tail(levels[s][p]) /\ levels'[s][p] \in Seq(Orders)
        /\ \A i \in DOMAIN levels'[s][p] :
              i + 1 \in DOMAIN levels[s][p] /\ levels'[s][p][i] = levels[s][p][i + 1]
        /\ \A i \in DOMAIN levels[s][p] :
              i > 1 => i - 1 \in DOMAIN levels'[s][p] /\ levels'[s][p][i - 1] = levels[s][p][i]
        /\ \A s2 \in Side, p2 \in Prices : \A i \in DOMAIN levels'[s2][p2] :
              levels'[s2][p2][i] \in Orders \ {m}
    BY <1>2, <1>9, RemovedEntries
  <2>2. /\ prices' \in [Side -> Seq(Prices)]
        /\ \A s2 \in Side : Sorted(s2, prices'[s2]) /\ HasPlaces(s2, prices'[s2])
        /\ \A s2 \in Side, q \in Prices :
              Holds(prices'[s2], q) <=>
                  /\ Holds(prices[s2], q)
                  /\ s2 = s /\ q = p => Tail(levels[s][p]) # << >>
    BY <1>2, <1>9, RemovedPrices
  \* Every entry of the new levels is an entry of the old ones.
  <2>3. ASSUME NEW s2 \in Side, NEW p2 \in Prices, NEW i \in DOMAIN levels'[s2][p2]
        PROVE  \E j \in DOMAIN levels[s2][p2] : levels'[s2][p2][i] = levels[s2][p2][j]
    <3>1. CASE s2 = s /\ p2 = p
      BY <2>1, <3>1
    <3>2. CASE ~(s2 = s /\ p2 = p)
      BY <2>1, <3>2
    <3>. QED
      BY <3>1, <3>2
  <2>4. TypeOK'
    BY <1>3, <1>4, <1>5, <2>1, <2>2 DEF TypeOK
  <2>5. PricesSorted' /\ EveryPriceHasAPlace'
    BY <2>2 DEF PricesSorted, Sorted, EveryPriceHasAPlace, HasPlaces, PlaceIn, Better
  <2>6. PricesAreLevels'
    <3>1. ASSUME NEW s2 \in Side, NEW q \in Prices
          PROVE  levels'[s2][q] # << >> <=> Holds(prices'[s2], q)
      <4>1. levels[s2][q] # << >> <=> Holds(prices[s2], q)
        BY DEF PricesAreLevels, Holds
      <4>2. CASE s2 = s /\ q = p
        <5>1. levels[s][p] # << >>
          BY <1>2 DEF IsFirst
        <5>. QED
          BY <2>1, <2>2, <4>1, <4>2, <5>1
      <4>3. CASE ~(s2 = s /\ q = p)
        BY <2>1, <2>2, <4>1, <4>3
      <4>. QED
        BY <4>2, <4>3
    <3>. QED
      BY <3>1 DEF PricesAreLevels, Holds
  <2>7. LevelsHoldTheirOrders'
    <3>1. ASSUME NEW s2 \in Side, NEW p2 \in Prices, NEW i \in DOMAIN levels'[s2][p2]
          PROVE  LET x == levels'[s2][p2][i]
                 IN  /\ order'[x].side = s2 /\ order'[x].price = p2 /\ order'[x].type = "LIMIT"
                     /\ status'[x] \in RestingStatus /\ rem'[x] > 0
      <4>1. PICK x \in Orders \ {m, taker}, j \in DOMAIN levels[s2][p2] :
               levels'[s2][p2][i] = x /\ levels[s2][p2][j] = x
        BY <1>7, <2>1, <2>3
      <4>2. /\ order[x].side = s2 /\ order[x].price = p2 /\ order[x].type = "LIMIT"
            /\ status[x] \in RestingStatus /\ rem[x] > 0
        BY <4>1 DEF LevelsHoldTheirOrders
      <4>. QED
        BY <1>3, <1>4, <4>1, <4>2
    <3>. QED
      BY <3>1 DEF LevelsHoldTheirOrders
  <2>8. LevelsAreFifo'
    <3>1. ASSUME NEW s2 \in Side, NEW p2 \in Prices,
                 NEW i \in DOMAIN levels'[s2][p2], NEW j \in DOMAIN levels'[s2][p2], i < j
          PROVE  createdAt[levels'[s2][p2][i]] < createdAt[levels'[s2][p2][j]]
      <4>1. CASE s2 = s /\ p2 = p
        <5>1. /\ i + 1 \in DOMAIN levels[s][p] /\ levels'[s][p][i] = levels[s][p][i + 1]
              /\ j + 1 \in DOMAIN levels[s][p] /\ levels'[s][p][j] = levels[s][p][j + 1]
          BY <2>1, <4>1
        <5>2. i + 1 < j + 1
          <6>1. levels'[s][p] \in Seq(Orders)
            BY <2>1
          <6>2. i \in Nat /\ j \in Nat
            BY <4>1, <6>1
          <6>. QED
            BY <3>1, <6>2
        <5>3. createdAt[levels[s][p][i + 1]] < createdAt[levels[s][p][j + 1]]
          BY <1>2, <5>1, <5>2 DEF LevelsAreFifo
        <5>. QED
          BY <4>1, <5>1, <5>3
      <4>2. CASE ~(s2 = s /\ p2 = p)
        <5>1. levels'[s2][p2] = levels[s2][p2]
          BY <2>1, <4>2
        <5>. QED
          BY <3>1, <5>1 DEF LevelsAreFifo
      <4>. QED
        BY <4>1, <4>2
    <3>. QED
      BY <1>4, <3>1 DEF LevelsAreFifo
  <2>9. RestingIsInBook'
    <3>1. ASSUME NEW x \in Orders, status'[x] \in RestingStatus
          PROVE  /\ order[x].price \in Prices
                 /\ \E i \in DOMAIN levels'[order[x].side][order[x].price] :
                        levels'[order[x].side][order[x].price][i] = x
      <4>1. x # m /\ status[x] \in RestingStatus
        BY <1>3, <1>9, <3>1 DEF RestingStatus
      <4>2. PICK s2 \in Side, p2 \in Prices : order[x].side = s2 /\ order[x].price = p2
        BY <4>1 DEF RestingIsInBook, TypeOK, OrderInput
      <4>3. PICK i \in DOMAIN levels[s2][p2] : levels[s2][p2][i] = x
        BY <4>1, <4>2 DEF RestingIsInBook
      <4>4. \E j \in DOMAIN levels'[s2][p2] : levels'[s2][p2][j] = x
        <5>1. CASE s2 = s /\ p2 = p
          <6>1. i # 1
            BY <1>2, <4>1, <4>3, <5>1 DEF IsFirst
          <6>2. levels[s][p] \in Seq(Orders)
            BY <1>2 DEF TypeOK
          <6>3. i > 1
            BY <4>3, <5>1, <6>1, <6>2
          <6>. QED
            BY <2>1, <4>3, <5>1, <6>3
        <5>2. CASE ~(s2 = s /\ p2 = p)
          BY <2>1, <4>3, <5>2
        <5>. QED
          BY <5>1, <5>2
      <4>. QED
        BY <4>2, <4>4
    <3>. QED
      BY <1>4, <3>1 DEF RestingIsInBook
  <2>10. Uncrossed'
    <3>1. ASSUME NEW s2 \in Side, NEW p2 \in Prices, levels'[s2][p2] # << >>
          PROVE  levels[s2][p2] # << >>
      <4>1. CASE s2 = s /\ p2 = p
        BY <1>2, <4>1 DEF IsFirst
      <4>2. CASE ~(s2 = s /\ p2 = p)
        BY <2>1, <3>1, <4>2
      <4>. QED
        BY <4>1, <4>2
    <3>. QED
      BY <3>1 DEF Uncrossed, Side
  <2>11. BookArrivedBefore'
    <3>1. ASSUME NEW s2 \in Side, NEW p2 \in Prices, NEW i \in DOMAIN levels'[s2][p2]
          PROVE  /\ createdAt[levels'[s2][p2][i]] <= clock
                 /\ taker # NoOrder => createdAt[levels'[s2][p2][i]] < clock
      <4>1. PICK j \in DOMAIN levels[s2][p2] : levels'[s2][p2][i] = levels[s2][p2][j]
        BY <2>3
      <4>. QED
        BY <4>1 DEF BookArrivedBefore
    <3>. QED
      BY <1>4, <3>1 DEF BookArrivedBefore
  <2>. QED
    BY <1>6, <2>4, <2>5, <2>6, <2>7, <2>8, <2>9, <2>10, <2>11
<1>. QED
  BY <1>3, <1>8, <1>9

----------------------------------------------------------------------------
(* The theorems. *)

\* Every step of the book keeps the invariant.
LEMMA NextInv ==
    ASSUME BookInv, [BookNext]_bookVars
    PROVE  BookInv'
<1>1. CASE Call
  BY <1>1, CallInv DEF Call
<1>2. CASE MatchOne
  BY <1>2, MatchInv
<1>3. CASE Rest
  BY <1>3, RestInv
<1>4. CASE CancelRemainder
  <2>1. \E st \in TerminalStatus : Return(taker, st)
    BY <1>4 DEF CancelRemainder, TerminalStatus
  <2>2. taker # NoOrder /\ UNCHANGED <<levels, prices>>
    BY <1>4 DEF CancelRemainder, LoopDone
  <2>. QED
    BY <2>1, <2>2, CloseInv
<1>5. CASE Complete
  <2>1. "FILLED" \in TerminalStatus /\ Return(taker, "FILLED")
    BY <1>5 DEF Complete, TerminalStatus
  <2>2. taker # NoOrder /\ UNCHANGED <<levels, prices>>
    BY <1>5 DEF Complete, LoopDone
  <2>. QED
    BY <2>1, <2>2, CloseInv
<1>6. CASE UNCHANGED bookVars
  BY <1>6 DEF bookVars, BookInv, TypeOK, BookWellFormed, PricesSorted, PricesAreLevels,
              LevelsHoldTheirOrders, LevelsAreFifo, RestingIsInBook, Uncrossed,
              EveryPriceHasAPlace, PlaceIn, Better, TakerIsPending, BookArrivedBefore
<1>. QED
  BY <1>1, <1>2, <1>3, <1>4, <1>5, <1>6 DEF BookNext, Run

\* BookInv holds in every state of the book.
THEOREM BookInvariant == BookSpec => []BookInv
<1>1. BookInv /\ [BookNext]_bookVars => BookInv'
  BY NextInv
<1>. QED
  BY InitInv, <1>1, PTL DEF BookSpec

\* Types, for any orders and inputs: no remaining quantity goes below zero.
THEOREM TypeCorrect == BookSpec => []TypeOK
<1>1. BookInv => TypeOK
  BY DEF BookInv
<1>. QED
  BY BookInvariant, <1>1, PTL

\* addToBook and removeFromBook keep arrays, levels and orders in agreement.
THEOREM BookStaysWellFormed == BookSpec => []BookWellFormed
<1>1. BookInv => BookWellFormed
  BY DEF BookInv
<1>. QED
  BY BookInvariant, <1>1, PTL

\* A resting bid never meets a resting ask.
THEOREM NeverCrossed == BookSpec => []Uncrossed
<1>1. BookInv => Uncrossed
  BY DEF BookInv
<1>. QED
  BY BookInvariant, <1>1, PTL

\* An order that may trade at any price and has something left at the end of
\* the loop has emptied the other side.
THEOREM RemainderEmptiesSide == BookSpec => []RemainderMeansEmptySide
<1>1. BookInv => RemainderMeansEmptySide
  <2>. SUFFICES ASSUME BookInv, NEW o \in Orders, taker = o, ~CanMatch(o), rem[o] > 0,
                       order[o].type # "LIMIT", NEW p \in Prices
                PROVE  levels[Opposite(order[o].side)][p] = << >>
    BY DEF RemainderMeansEmptySide
  <2>1. Opposite(order[o].side) \in Side
    BY DEF BookInv, TypeOK, OrderInput, Opposite, Side
  <2>2. ~HasBest(Opposite(order[o].side))
    BY DEF CanMatch, Crosses
  <2>. QED
    BY <2>1, <2>2, BestIsFirst DEF BookInv, BookWellFormed
<1>. QED
  BY BookInvariant, <1>1, PTL

\* Only matchOne adds a trade, and it names the maker and the taker.
LEMMA TradesAreMatches ==
    ASSUME BookInv, [BookNext]_bookVars, trades' # trades
    PROVE  /\ MatchOne
           /\ \A s, p, m : IsMaker(s, p, m) =>
                 trades'[Len(trades')].maker = m /\ trades'[Len(trades')].taker = taker
<1>1. MatchOne
  BY DEF BookNext, Call, Refuse, Accept, Arrive, Run, Rest, CancelRemainder, Complete, Return,
         bookVars
<1>. QED
  BY <1>1, MatchEffect

\* Price-time priority: whatever the orders and their inputs, each trade is
\* with the best-priced resting order that arrived first.
THEOREM PriorityIsKept == BookSpec => PriceTimePriority
<1>. DEFINE A == \A m \in Orders :
        (trades' # trades /\ m = trades'[Len(trades')].maker) =>
            \A o \in Orders \ {m} :
                (order[o].side = order[m].side /\ status[o] \in RestingStatus) =>
                    \/ Better(order[m].side, order[m].price, order[o].price)
                    \/ order[m].price = order[o].price /\ createdAt[m] < createdAt[o]
<1>1. ASSUME BookInv, [BookNext]_bookVars
      PROVE  A
  <2>. SUFFICES ASSUME trades' # trades, NEW o \in Orders,
                       LET m == trades'[Len(trades')].maker
                       IN  o # m /\ order[o].side = order[m].side /\ status[o] \in RestingStatus
                PROVE  LET m == trades'[Len(trades')].maker
                       IN  \/ Better(order[m].side, order[m].price, order[o].price)
                           \/ order[m].price = order[o].price /\ createdAt[m] < createdAt[o]
    OBVIOUS
  <2>1. PICK s, p, m : IsMaker(s, p, m)
    BY DEF IsMaker
  <2>2. MatchOne /\ trades'[Len(trades')].maker = m
    BY <1>1, <2>1, TradesAreMatches
  <2>3. taker # NoOrder /\ CanMatch(taker)
    BY <2>2 DEF MatchOne
  <2>4. order[m].side = s
    BY <1>1, <2>1, <2>3, MakerIsResting DEF IsFirst
  <2>5. o \in Orders \ {m} /\ order[o].side = s /\ status[o] \in RestingStatus
    BY <2>2, <2>4
  <2>6. \/ Better(s, order[m].price, order[o].price)
        \/ order[m].price = order[o].price /\ createdAt[m] < createdAt[o]
    BY <1>1, <2>1, <2>3, <2>5, MakerIsBest
  <2>. QED
    BY <2>2, <2>4, <2>6
<1>2. BookInv /\ [BookNext]_bookVars => [A]_bookVars
  BY <1>1
<1>. QED
  BY BookInvariant, <1>2, PTL DEF BookSpec, PriceTimePriority

\* A FILLED, CANCELLED or REJECTED order keeps its status and quantity, and no
\* later trade names it.
THEOREM TerminalStaysFinal == BookSpec => TerminalIsFinal
<1>. DEFINE A == \A o \in Orders : status[o] \in TerminalStatus =>
        /\ status'[o] = status[o]
        /\ rem'[o] = rem[o]
        /\ trades' # trades =>
               o \notin {trades'[Len(trades')].maker, trades'[Len(trades')].taker}
<1>1. ASSUME BookInv, [BookNext]_bookVars
      PROVE  A
  <2>. SUFFICES ASSUME NEW o \in Orders, status[o] \in TerminalStatus
                PROVE  /\ status'[o] = status[o] /\ rem'[o] = rem[o]
                       /\ trades' # trades =>
                            o \notin {trades'[Len(trades')].maker, trades'[Len(trades')].taker}
    OBVIOUS
  <2>1. /\ status[o] \notin {"NEW", "PENDING"} \union RestingStatus
        /\ status \in [Orders -> Status] /\ rem \in [Orders -> Nat]
    BY <1>1 DEF TerminalStatus, RestingStatus, BookInv, TypeOK
  <2>2. taker # NoOrder => o # taker
    BY <1>1, <2>1 DEF BookInv, TakerIsPending
  <2>3. CASE MatchOne
    <3>1. PICK s, p, m : IsMaker(s, p, m)
      BY DEF IsMaker
    <3>2. taker # NoOrder /\ CanMatch(taker)
      BY <2>3 DEF MatchOne
    <3>3. o \notin {m, taker}
      BY <1>1, <2>1, <2>2, <3>1, <3>2, MakerIsResting
    <3>. QED
      BY <1>1, <2>3, <3>1, <3>3, MatchEffect
  <2>4. CASE Call
    <3>1. PICK x \in Orders : status[x] = "NEW" /\ \E in \in Inputs : Refuse(x, in) \/ Accept(x, in)
      BY <2>4 DEF Call, Refuse, Accept, Arrive
    <3>2. x # o
      BY <2>1, <3>1
    <3>. QED
      BY <2>1, <3>1, <3>2 DEF Refuse, Accept, Arrive
  <2>5. CASE Rest \/ CancelRemainder \/ Complete
    <3>1. taker # NoOrder /\ trades' = trades /\ rem' = rem
          /\ \E st : status' = [status EXCEPT ![taker] = st]
      BY <2>5 DEF Rest, CancelRemainder, Complete, LoopDone, Return
    <3>. QED
      BY <2>1, <2>2, <3>1
  <2>6. CASE UNCHANGED bookVars
    BY <2>6 DEF bookVars
  <2>. QED
    BY <1>1, <2>3, <2>4, <2>5, <2>6 DEF BookNext, Run
<1>2. BookInv /\ [BookNext]_bookVars => [A]_bookVars
  BY <1>1
<1>. QED
  BY BookInvariant, <1>2, PTL DEF BookSpec, TerminalIsFinal


----------------------------------------------------------------------------
(* What the statuses say about the fills.  StatusMeaning is not inductive: *)
(* that a maker hit again is still below its quantity needs rem <= qty for *)
(* every order that was accepted, and that a rejected order has never      *)
(* traded needs to know which statuses the parties of a trade can have.    *)

\* Nothing remains that was not asked for.
NeverMoreThanAsked ==
    \A o \in Orders : status[o] \notin {"NEW", "REJECTED"} => rem[o] <= order[o].qty

\* The maker of a trade was resting, its taker being processed, and neither
\* goes back or becomes REJECTED.
TradedStatuses ==
    \A i \in 1..Len(trades) :
        /\ status[trades[i].maker] \notin {"NEW", "PENDING", "REJECTED"}
        /\ status[trades[i].taker] \notin {"NEW", "REJECTED"}

FillInv == NeverMoreThanAsked /\ TradedStatuses /\ StatusMeaning

\* The parties of a trade are orders.
LEMMA TradeParties ==
    ASSUME TypeOK
    PROVE  /\ DOMAIN trades = 1..Len(trades) /\ Len(trades) \in Nat
           /\ \A i \in 1..Len(trades) : trades[i].maker \in Orders /\ trades[i].taker \in Orders
<1>1. trades \in Seq(Trade)
  BY DEF TypeOK
<1>2. \A i \in 1..Len(trades) : trades[i] \in Trade
  BY <1>1
<1>3. \A t \in Trade : t.maker \in Orders /\ t.taker \in Orders
  BY DEF Trade
<1>4. DOMAIN trades = 1..Len(trades) /\ Len(trades) \in Nat
  BY <1>1
<1>. QED
  BY <1>2, <1>3, <1>4

\* At first every order is new and nothing has traded.
LEMMA InitFillInv == BookInit => FillInv
<1>. SUFFICES ASSUME BookInit PROVE FillInv
  OBVIOUS
<1>1. (\A o \in Orders : status[o] = "NEW") /\ trades = << >>
  BY DEF BookInit
<1>. QED
  BY <1>1 DEF FillInv, NeverMoreThanAsked, TradedStatuses, StatusMeaning

\* processOrder receives an order.
LEMMA CallFillInv ==
    ASSUME BookInv, FillInv, NEW o \in Orders, NEW in \in Inputs, Refuse(o, in) \/ Accept(o, in)
    PROVE  FillInv'
<1>. USE DEF FillInv
<1>1. TypeOK
  BY DEF BookInv
<1>2. /\ status[o] = "NEW" /\ trades' = trades
      /\ order' = [order EXCEPT ![o] = order'[o]]
      /\ rem' = [rem EXCEPT ![o] = rem'[o]]
      /\ status' = [status EXCEPT ![o] = status'[o]]
  BY <1>1 DEF Refuse, Accept, Arrive, TypeOK
<1>3. \A x \in Orders \ {o} : order'[x] = order[x] /\ rem'[x] = rem[x] /\ status'[x] = status[x]
  BY <1>1, <1>2 DEF TypeOK
<1>4. \/ status'[o] = "REJECTED"
      \/ status'[o] = "PENDING" /\ rem'[o] = order'[o].qty /\ rem'[o] \in Int
  <2>1. CASE Refuse(o, in)
    BY <1>1, <2>1 DEF Refuse, TypeOK
  <2>2. CASE Accept(o, in)
    <3>1. in \in OrderInput
      BY InputsAssumption
    <3>2. rem'[o] = in.qty /\ status'[o] = "PENDING" /\ order'[o].qty = in.qty /\ in.qty \in Int
      BY <1>1, <2>2, <3>1 DEF Accept, Arrive, TypeOK, OrderInput
    <3>. QED
      BY <3>2
  <2>. QED
    BY <2>1, <2>2
<1>5. \A i \in 1..Len(trades) : trades[i].maker # o /\ trades[i].taker # o
  BY <1>1, <1>2, TradeParties DEF TradedStatuses
<1>6. NeverMoreThanAsked'
  BY <1>3, <1>4 DEF NeverMoreThanAsked
<1>7. TradedStatuses'
  BY <1>1, <1>2, <1>3, <1>5, TradeParties DEF TradedStatuses
<1>8. StatusMeaning'
  <2>1. ASSUME NEW x \in Orders \ {o}
        PROVE  /\ status'[x] = "LIVE" => rem'[x] = order'[x].qty
               /\ status'[x] = "PARTIALLY_FILLED" => 0 < rem'[x] /\ rem'[x] < order'[x].qty
               /\ status'[x] = "FILLED" => rem'[x] = 0
               /\ status'[x] = "CANCELLED" => order'[x].type # "LIMIT" /\ rem'[x] > 0
               /\ status'[x] = "REJECTED" =>
                     \A i \in DOMAIN trades : x \notin {trades[i].taker, trades[i].maker}
    BY <1>3 DEF StatusMeaning
  <2>2. /\ status'[o] \notin {"LIVE", "PARTIALLY_FILLED", "FILLED", "CANCELLED"}
        /\ \A i \in DOMAIN trades : o \notin {trades[i].taker, trades[i].maker}
    BY <1>1, <1>4, <1>5, TradeParties
  <2>. QED
    BY <1>2, <2>1, <2>2 DEF StatusMeaning
<1>. QED
  BY <1>6, <1>7, <1>8

\* One round of the loop.
LEMMA MatchFillInv ==
    ASSUME BookInv, FillInv, MatchOne
    PROVE  FillInv'
<1>. USE DEF FillInv
<1>1. PICK s, p, m : IsMaker(s, p, m)
  BY DEF IsMaker
<1>2. /\ taker \in Orders /\ status[taker] = "PENDING"
      /\ m \in Orders \ {taker} /\ status[m] \in RestingStatus
  BY <1>1, MakerIsResting DEF MatchOne
<1>3. /\ \A x \in Orders \ {m, taker} : rem'[x] = rem[x]
      /\ rem'[m] < rem[m] /\ rem'[taker] < rem[taker]
      /\ \A x \in Orders \ {m} : status'[x] = status[x]
      /\ Len(trades') = Len(trades) + 1
      /\ \A i \in 1..Len(trades) : trades'[i] = trades[i]
      /\ trades'[Len(trades')].maker = m /\ trades'[Len(trades')].taker = taker
      /\ \/ rem'[m] > 0 /\ status'[m] = "PARTIALLY_FILLED"
         \/ rem'[m] <= 0 /\ status'[m] = "FILLED"
  BY <1>1, MatchEffect
<1>4. TypeOK /\ TypeOK' /\ order' = order
  BY MatchInv DEF BookInv, MatchOne
<1>5. \A x \in Orders : rem[x] \in Nat /\ rem'[x] \in Nat /\ order[x].qty \in Int
  BY <1>4 DEF TypeOK, OrderInput
<1>6. NeverMoreThanAsked'
  <2>1. ASSUME NEW x \in Orders, status'[x] \notin {"NEW", "REJECTED"}
        PROVE  rem'[x] <= order[x].qty
    <3>1. status[x] \notin {"NEW", "REJECTED"}
      BY <1>2, <1>3, <2>1 DEF RestingStatus
    <3>2. rem[x] <= order[x].qty /\ rem'[x] <= rem[x]
      BY <1>2, <1>3, <1>5, <3>1 DEF NeverMoreThanAsked
    <3>. QED
      BY <1>5, <3>2
  <2>. QED
    BY <1>4, <2>1 DEF NeverMoreThanAsked
<1>7. DOMAIN trades' = 1..(Len(trades) + 1) /\ DOMAIN trades = 1..Len(trades) /\ Len(trades) \in Nat
  BY <1>3, <1>4, TradeParties DEF TypeOK
<1>8. ASSUME NEW x \in Orders
      PROVE  status'[x] = status[x] \/ status'[x] \in {"PARTIALLY_FILLED", "FILLED"}
  BY <1>2, <1>3
<1>9. TradedStatuses'
  <2>1. ASSUME NEW i \in 1..(Len(trades) + 1)
        PROVE  /\ status'[trades'[i].maker] \notin {"NEW", "PENDING", "REJECTED"}
               /\ status'[trades'[i].taker] \notin {"NEW", "REJECTED"}
    <3>1. CASE i \in 1..Len(trades)
      <4>1. /\ trades'[i].maker = trades[i].maker /\ trades[i].maker \in Orders
            /\ trades'[i].taker = trades[i].taker /\ trades[i].taker \in Orders
            /\ status[trades[i].maker] \notin {"NEW", "PENDING", "REJECTED"}
            /\ status[trades[i].taker] \notin {"NEW", "REJECTED"}
        BY <1>3, <1>4, <3>1, TradeParties DEF TradedStatuses
      <4>. QED
        BY <1>8, <4>1
    <3>2. CASE i = Len(trades) + 1
      BY <1>2, <1>3, <3>2
    <3>. QED
      BY <1>7, <3>1, <3>2
  <2>. QED
    BY <1>3, <2>1 DEF TradedStatuses
<1>10. StatusMeaning'
  <2>1. ASSUME NEW x \in Orders
        PROVE  /\ status'[x] = "LIVE" => rem'[x] = order[x].qty
               /\ status'[x] = "PARTIALLY_FILLED" => 0 < rem'[x] /\ rem'[x] < order[x].qty
               /\ status'[x] = "FILLED" => rem'[x] = 0
               /\ status'[x] = "CANCELLED" => order[x].type # "LIMIT" /\ rem'[x] > 0
    <3>1. CASE x = m
      <4>1. rem[m] <= order[m].qty
        BY <1>2 DEF NeverMoreThanAsked, RestingStatus
      <4>. QED
        BY <1>2, <1>3, <1>5, <3>1, <4>1
    <3>2. CASE x = taker
      BY <1>2, <1>3, <3>2
    <3>3. CASE x \notin {m, taker}
      BY <1>3, <3>3 DEF StatusMeaning
    <3>. QED
      BY <3>1, <3>2, <3>3
  <2>2. ASSUME NEW x \in Orders, status'[x] = "REJECTED", NEW i \in DOMAIN trades'
        PROVE  x \notin {trades'[i].taker, trades'[i].maker}
    BY <1>3, <1>7, <1>9, <2>2 DEF TradedStatuses
  <2>. QED
    BY <1>4, <2>1, <2>2 DEF StatusMeaning
<1>. QED
  BY <1>6, <1>9, <1>10

\* The end of processOrder: the status it gives fits what remains.
LEMMA EndFillInv ==
    ASSUME BookInv, FillInv, Rest \/ CancelRemainder \/ Complete
    PROVE  FillInv'
<1>. USE DEF FillInv
<1>1. taker \in Orders /\ taker # NoOrder /\ status[taker] = "PENDING" /\ TypeOK
  BY DEF Rest, CancelRemainder, Complete, LoopDone, BookInv, TypeOK, TakerIsPending
<1>2. /\ order' = order /\ rem' = rem /\ trades' = trades
      /\ status' = [status EXCEPT ![taker] = status'[taker]]
  BY <1>1 DEF Rest, CancelRemainder, Complete, Return, TypeOK
<1>3. \A x \in Orders \ {taker} : status'[x] = status[x]
  BY <1>1, <1>2 DEF TypeOK
<1>4. /\ rem[taker] \in Nat /\ order[taker].qty \in Int /\ rem[taker] <= order[taker].qty
      /\ \A i \in 1..Len(trades) : trades[i].maker # taker
  BY <1>1, TradeParties DEF TypeOK, OrderInput, NeverMoreThanAsked, TradedStatuses
<1>5. \/ status'[taker] = "LIVE" /\ rem[taker] = order[taker].qty
      \/ status'[taker] = "PARTIALLY_FILLED" /\ 0 < rem[taker] /\ rem[taker] < order[taker].qty
      \/ status'[taker] = "FILLED" /\ rem[taker] = 0
      \/ status'[taker] = "CANCELLED" /\ order[taker].type # "LIMIT" /\ rem[taker] > 0
      \/ status'[taker] = "REJECTED" /\ \A i \in DOMAIN trades : trades[i].taker # taker
  <2>1. CASE Rest
    <3>1. status'[taker] = RestStatus(taker) /\ rem[taker] > 0
      BY <1>1, <2>1 DEF Rest, Return, TypeOK
    <3>. QED
      BY <1>4, <3>1 DEF RestStatus
  <2>2. CASE CancelRemainder
    BY <1>1, <2>2 DEF CancelRemainder, Return, TypeOK
  <2>3. CASE Complete
    BY <1>1, <1>4, <2>3 DEF Complete, Return, TypeOK
  <2>. QED
    BY <2>1, <2>2, <2>3
<1>6. NeverMoreThanAsked'
  BY <1>2, <1>3, <1>4 DEF NeverMoreThanAsked
<1>7. TradedStatuses'
  <2>1. ASSUME NEW i \in 1..Len(trades)
        PROVE  /\ status'[trades[i].maker] \notin {"NEW", "PENDING", "REJECTED"}
               /\ status'[trades[i].taker] \notin {"NEW", "REJECTED"}
    <3>1. /\ trades[i].maker \in Orders \ {taker} /\ trades[i].taker \in Orders
          /\ i \in DOMAIN trades
      BY <1>1, <1>4, TradeParties
    <3>2. status'[trades[i].maker] \notin {"NEW", "PENDING", "REJECTED"}
      BY <1>3, <3>1 DEF TradedStatuses
    <3>3. CASE trades[i].taker = taker
      BY <1>5, <3>1, <3>2, <3>3
    <3>4. CASE trades[i].taker # taker
      BY <1>3, <3>1, <3>2, <3>4 DEF TradedStatuses
    <3>. QED
      BY <3>3, <3>4
  <2>. QED
    BY <1>2, <2>1 DEF TradedStatuses
<1>8. StatusMeaning'
  <2>1. ASSUME NEW x \in Orders
        PROVE  /\ status'[x] = "LIVE" => rem[x] = order[x].qty
               /\ status'[x] = "PARTIALLY_FILLED" => 0 < rem[x] /\ rem[x] < order[x].qty
               /\ status'[x] = "FILLED" => rem[x] = 0
               /\ status'[x] = "CANCELLED" => order[x].type # "LIMIT" /\ rem[x] > 0
               /\ status'[x] = "REJECTED" =>
                     \A i \in DOMAIN trades : x \notin {trades[i].taker, trades[i].maker}
    <3>1. CASE x = taker
      <4>1. \A i \in DOMAIN trades : trades[i].maker # taker
        BY <1>1, <1>4, TradeParties
      <4>. QED
        BY <1>5, <3>1, <4>1
    <3>2. CASE x # taker
      BY <1>3, <3>2 DEF StatusMeaning
    <3>. QED
      BY <3>1, <3>2
  <2>. QED
    BY <1>2, <2>1 DEF StatusMeaning
<1>. QED
  BY <1>6, <1>7, <1>8

\* Every step of the book keeps what the statuses say.
LEMMA NextFillInv ==
    ASSUME BookInv, FillInv, [BookNext]_bookVars
    PROVE  FillInv'
<1>1. CASE Call
  BY <1>1, CallFillInv DEF Call
<1>2. CASE MatchOne
  BY <1>2, MatchFillInv
<1>3. CASE Rest \/ CancelRemainder \/ Complete
  BY <1>3, EndFillInv
<1>4. CASE UNCHANGED bookVars
  BY <1>4 DEF bookVars, FillInv, NeverMoreThanAsked, TradedStatuses, StatusMeaning
<1>. QED
  BY <1>1, <1>2, <1>3, <1>4 DEF BookNext, Run

\* A LIVE order is untouched, a PARTIALLY_FILLED one has something left and
\* something filled, a FILLED one nothing left, a CANCELLED one is not a LIMIT
\* order, and a REJECTED one never traded.
THEOREM StatusTellsTheFills == BookSpec => []StatusMeaning
<1>1. BookInv /\ FillInv /\ [BookNext]_bookVars => FillInv'
  BY NextFillInv
<1>2. FillInv => StatusMeaning
  BY DEF FillInv
<1>. QED
  BY InitFillInv, BookInvariant, <1>1, <1>2, PTL DEF BookSpec

----------------------------------------------------------------------------
(* Total adds up what each trade moved. *)

\* Total is the last of the totals.
LEMMA TotalIs ==
    ASSUME NEW n \in Nat, NEW qs, DOMAIN qs = 1..n
    PROVE  Total(qs) = (CHOOSE g : IsTotals(g, qs, n))[1..n]
BY Zenon DEF Total, FoldLeft, MapThenFoldSet, IsTotals

\* Nothing adds up to nothing.
LEMMA TotalEmpty == Total(<< >>) = 0
<1>1. DOMAIN << >> = 1..0
  OBVIOUS
<1>. DEFINE g == CHOOSE g : IsTotals(g, << >>, 0)
<1>2. IsTotals(g, << >>, 0)
  BY TotalsExist, Zenon
<1>. QED
  BY <1>1, <1>2, TotalIs, TotalsOfPrefix, Zenon

\* A number more adds itself.
LEMMA TotalAppend ==
    ASSUME NEW qs \in Seq(Nat), NEW q \in Nat
    PROVE  /\ Total(qs) \in Nat
           /\ Total(Append(qs, q)) = Total(qs) + q
<1>. DEFINE n == Len(qs)
           rs == Append(qs, q)
           g == CHOOSE g : IsTotals(g, qs, n)
           h == CHOOSE h : IsTotals(h, rs, n + 1)
<1>1. n \in Nat /\ DOMAIN qs = 1..n /\ DOMAIN rs = 1..(n + 1) /\ n + 1 \in Nat
  OBVIOUS
<1>2. /\ \A i \in 1..n : qs[i] \in Nat /\ rs[i] = qs[i]
      /\ rs[n + 1] = q
  OBVIOUS
<1>. HIDE DEF n, rs
<1>3. IsTotals(g, qs, n) /\ IsTotals(h, rs, n + 1)
  BY <1>1, TotalsExist, Zenon
<1>4. Total(qs) = g[1..n] /\ Total(rs) = h[1..(n + 1)]
  BY <1>1, TotalIs, Zenon
<1>. HIDE DEF g, h
<1>5. g[1..n] = h[1..n] /\ g[1..n] \in Nat
  <2>1. n <= n + 1
    BY <1>1
  <2>. QED
    BY <1>1, <1>2, <1>3, <2>1, TotalsAgree, ZenonT(30)
<1>6. h[1..(n + 1)] = h[1..n] + rs[n + 1]
  <2>1. n \in 0..((n + 1) - 1)
    BY <1>1
  <2>. QED
    BY <1>1, <1>3, <2>1, TotalsOfPrefix, ZenonT(30)
<1>. QED
  BY <1>2, <1>4, <1>5, <1>6 DEF rs
----------------------------------------------------------------------------
(* Conservation. *)

\* What a round of the loop trades.
LEMMA MatchTrade ==
    ASSUME BookInv, MatchOne, NEW s, NEW p, NEW m, IsMaker(s, p, m)
    PROVE  \E q \in Nat \ {0}, tr \in Trade :
               /\ rem'[m] = rem[m] - q /\ rem'[taker] = rem[taker] - q
               /\ q <= rem[m] /\ q <= rem[taker]
               /\ trades' = Append(trades, tr)
               /\ tr.maker = m /\ tr.taker = taker /\ tr.qty = q
<1>. DEFINE q == FillQty(taker, m)
            tr == TradeOf(taker, m, p, q)
<1>1. /\ taker \in Orders /\ m \in Orders /\ m # taker /\ p \in Prices
      /\ rem[m] > 0 /\ rem[taker] > 0 /\ rem \in [Orders -> Nat]
  BY MakerIsResting DEF MatchOne, BookInv, TypeOK
<1>2. q \in Nat \ {0} /\ q <= rem[m] /\ q <= rem[taker]
  BY <1>1 DEF FillQty
<1>3. /\ rem' = [rem EXCEPT ![m] = @ - q, ![taker] = @ - q]
      /\ trades' = Append(trades, tr)
  BY DEF MatchOne, IsMaker
<1>4. tr \in Trade /\ tr.maker = m /\ tr.taker = taker /\ tr.qty = q
  BY <1>1, <1>2 DEF TradeOf, Trade
<1>. HIDE DEF q, tr
<1>5. rem'[m] = rem[m] - q /\ rem'[taker] = rem[taker] - q
  BY <1>1, <1>2, <1>3
<1>. QED
  BY <1>2, <1>3, <1>4, <1>5

\* What the trades moved for an order are quantities.
LEMMA MovedIsNat ==
    ASSUME TypeOK, NEW x
    PROVE  Moved(x) \in Seq(Nat) /\ Len(Moved(x)) = Len(trades)
<1>1. trades \in Seq(Trade)
  BY DEF TypeOK
<1>2. \A i \in 1..Len(trades) : trades[i].qty \in Nat
  <2>1. \A i \in 1..Len(trades) : trades[i] \in Trade
    BY <1>1
  <2>2. \A t \in Trade : t.qty \in Nat
    BY DEF Trade
  <2>. QED
    BY <2>1, <2>2
<1>3. DOMAIN Moved(x) = 1..Len(trades) /\ Len(trades) \in Nat
  BY <1>1 DEF Moved
<1>4. \A i \in 1..Len(trades) : Moved(x)[i] \in Nat
  BY <1>1, <1>2 DEF Moved
<1>. HIDE DEF Moved
<1>5. Moved(x) = [i \in 1..Len(trades) |-> Moved(x)[i]]
  BY <1>3 DEF Moved
<1>. QED
  BY <1>3, <1>4, <1>5

\* A trade moves its quantity for its parties and nothing for the others.
LEMMA TradeMoves ==
    ASSUME TypeOK, NEW tr \in Trade, trades' = Append(trades, tr), NEW x
    PROVE  Traded(x)' = Traded(x) + (IF x \in {tr.taker, tr.maker} THEN tr.qty ELSE 0)
<1>. DEFINE d == IF x \in {tr.taker, tr.maker} THEN tr.qty ELSE 0
<1>1. trades \in Seq(Trade) /\ d \in Nat
  BY DEF TypeOK, Trade
<1>2. Moved(x) \in Seq(Nat) /\ Len(Moved(x)) = Len(trades)
  BY MovedIsNat
<1>3. Moved(x)' = Append(Moved(x), d)
  <2>1. /\ DOMAIN trades' = 1..(Len(trades) + 1) /\ DOMAIN trades = 1..Len(trades)
        /\ Len(trades) \in Nat
        /\ \A i \in 1..Len(trades) : trades'[i] = trades[i]
        /\ trades'[Len(trades) + 1] = tr
    BY <1>1
  <2>2. DOMAIN Append(Moved(x), d) = 1..(Len(trades) + 1)
    BY <1>1, <1>2
  <2>3. \A i \in 1..Len(trades) : Moved(x)'[i] = Append(Moved(x), d)[i]
    <3>1. \A i \in 1..Len(trades) : Append(Moved(x), d)[i] = Moved(x)[i]
      BY <1>1, <1>2
    <3>2. \A i \in 1..Len(trades) : Moved(x)'[i] = Moved(x)[i]
      BY <2>1 DEF Moved
    <3>. QED
      BY <3>1, <3>2
  <2>4. Moved(x)'[Len(trades) + 1] = d
    BY <2>1 DEF Moved
  <2>5. Append(Moved(x), d)[Len(trades) + 1] = d
    BY <1>1, <1>2
  <2>6. Moved(x)' = [i \in 1..(Len(trades) + 1) |-> Moved(x)'[i]]
    BY <2>1 DEF Moved
  <2>7. Append(Moved(x), d) = [i \in 1..(Len(trades) + 1) |-> Append(Moved(x), d)[i]]
    BY <1>1, <1>2, <2>2
  <2>8. \A i \in 1..(Len(trades) + 1) : Moved(x)'[i] = Append(Moved(x), d)[i]
    <3>1. \A i \in 1..(Len(trades) + 1) : i \in 1..Len(trades) \/ i = Len(trades) + 1
      BY <2>1
    <3>. HIDE DEF d
    <3>. QED
      BY <2>3, <2>4, <2>5, <3>1, Zenon
  <2>. QED
    BY <2>6, <2>7, <2>8
<1>. QED
  BY <1>1, <1>2, <1>3, TotalAppend DEF Traded

\* An order that has not arrived has traded nothing; the others what they lack.
ConserveInv ==
    /\ Conservation
    /\ \A o \in Orders : status[o] = "NEW" => Traded(o) = 0

\* Nothing has traded at first.
LEMMA InitConserveInv == BookInit => ConserveInv
<1>. SUFFICES ASSUME BookInit PROVE ConserveInv
  OBVIOUS
<1>1. (\A o \in Orders : status[o] = "NEW") /\ trades = << >>
  BY DEF BookInit
<1>2. \A o \in Orders : Moved(o) = << >>
  BY <1>1 DEF Moved
<1>. QED
  BY <1>1, <1>2, TotalEmpty DEF ConserveInv, Conservation, Traded

\* Every step keeps the accounts.
LEMMA NextConserveInv ==
    ASSUME BookInv, ConserveInv, [BookNext]_bookVars
    PROVE  ConserveInv'
<1>. USE DEF ConserveInv
<1>1. TypeOK
  BY DEF BookInv
<1>2. \A x \in Orders : rem[x] \in Nat /\ order[x].qty \in Int
  BY <1>1 DEF TypeOK, OrderInput
<1>3. ASSUME NEW o \in Orders, NEW in \in Inputs, Refuse(o, in) \/ Accept(o, in)
      PROVE  ConserveInv'
  <2>1. /\ status[o] = "NEW" /\ trades' = trades
        /\ order' = [order EXCEPT ![o] = order'[o]]
        /\ rem' = [rem EXCEPT ![o] = rem'[o]]
        /\ status' = [status EXCEPT ![o] = status'[o]]
    BY <1>1, <1>3 DEF Refuse, Accept, Arrive, TypeOK
  <2>2. \A x \in Orders : Traded(x)' = Traded(x)
    BY <2>1 DEF Traded, Moved
  <2>3. \A x \in Orders \ {o} : order'[x] = order[x] /\ rem'[x] = rem[x] /\ status'[x] = status[x]
    BY <1>1, <2>1 DEF TypeOK
  <2>4. \/ status'[o] = "REJECTED"
        \/ status'[o] = "PENDING" /\ rem'[o] = order'[o].qty /\ rem'[o] \in Int
    <3>1. CASE Refuse(o, in)
      BY <1>1, <3>1 DEF Refuse, TypeOK
    <3>2. CASE Accept(o, in)
      <4>1. in \in OrderInput
        BY InputsAssumption
      <4>2. rem'[o] = in.qty /\ status'[o] = "PENDING" /\ order'[o].qty = in.qty /\ in.qty \in Int
        BY <1>1, <3>2, <4>1 DEF Accept, Arrive, TypeOK, OrderInput
      <4>. QED
        BY <4>2
    <3>. QED
      BY <1>3, <3>1, <3>2
  <2>. QED
    BY <2>1, <2>2, <2>3, <2>4 DEF Conservation
<1>4. CASE MatchOne
  <2>1. PICK s, p, m : IsMaker(s, p, m)
    BY DEF IsMaker
  <2>2. /\ taker \in Orders /\ status[taker] = "PENDING"
        /\ m \in Orders \ {taker} /\ status[m] \in RestingStatus
    BY <1>4, <2>1, MakerIsResting DEF MatchOne
  <2>3. PICK q \in Nat \ {0}, tr \in Trade :
            /\ rem'[m] = rem[m] - q /\ rem'[taker] = rem[taker] - q
            /\ trades' = Append(trades, tr)
            /\ tr.maker = m /\ tr.taker = taker /\ tr.qty = q
    BY <1>4, <2>1, MatchTrade
  <2>4. /\ order' = order
        /\ \A x \in Orders \ {m, taker} : rem'[x] = rem[x]
        /\ \A x \in Orders \ {m} : status'[x] = status[x]
        /\ status'[m] \in {"PARTIALLY_FILLED", "FILLED"}
    BY <1>4, <2>1, MatchEffect DEF MatchOne
  <2>5. \A x \in Orders : Traded(x)' = Traded(x) + (IF x \in {taker, m} THEN q ELSE 0)
    BY <1>1, <2>3, TradeMoves
  <2>6. \A x \in Orders : Traded(x) \in Nat
    <3>1. \A x \in Orders : Moved(x) \in Seq(Nat)
      BY <1>1, MovedIsNat
    <3>2. 0 \in Nat
      OBVIOUS
    <3>. QED
      BY <3>1, <3>2, TotalAppend, Zenon DEF Traded
  <2>7. Conservation'
    <3>1. ASSUME NEW x \in Orders, status'[x] \notin {"NEW", "REJECTED"}
          PROVE  Traded(x)' = order'[x].qty - rem'[x]
      <4>1. Traded(x) = order[x].qty - rem[x]
        BY <2>2, <2>4, <3>1 DEF Conservation, RestingStatus
      <4>2. rem'[x] = rem[x] - (IF x \in {taker, m} THEN q ELSE 0)
        BY <1>2, <2>2, <2>3, <2>4
      <4>. QED
        <5>1. Traded(x)' = Traded(x) + (IF x \in {taker, m} THEN q ELSE 0)
          BY <2>5
        <5>2. order'[x].qty = order[x].qty /\ order[x].qty \in Int /\ rem[x] \in Int /\ q \in Int
          BY <1>2, <2>3, <2>4
        <5>. QED
          BY <4>1, <4>2, <5>1, <5>2
    <3>. QED
      BY <3>1 DEF Conservation
  <2>8. ASSUME NEW x \in Orders, status'[x] = "NEW"
        PROVE  Traded(x)' = 0
    BY <2>2, <2>4, <2>5, <2>6, <2>8
  <2>. QED
    BY <2>7, <2>8
<1>5. CASE Rest \/ CancelRemainder \/ Complete
  <2>1. /\ order' = order /\ rem' = rem /\ trades' = trades
        /\ taker \in Orders /\ status[taker] = "PENDING"
        /\ status' = [status EXCEPT ![taker] = status'[taker]]
        /\ status'[taker] \in {"LIVE", "PARTIALLY_FILLED", "CANCELLED", "REJECTED", "FILLED"}
    BY <1>1, <1>5 DEF Rest, CancelRemainder, Complete, LoopDone, Return, RestStatus, BookInv,
                      TypeOK, TakerIsPending
  <2>2. \A x \in Orders : Traded(x)' = Traded(x)
    BY <2>1 DEF Traded, Moved
  <2>3. \A x \in Orders \ {taker} : status'[x] = status[x]
    BY <1>1, <2>1 DEF TypeOK
  <2>4. Conservation'
    <3>1. ASSUME NEW x \in Orders, status'[x] \notin {"NEW", "REJECTED"}
          PROVE  Traded(x)' = order'[x].qty - rem'[x]
      <4>1. status[x] \notin {"NEW", "REJECTED"}
        BY <2>1, <2>3, <3>1
      <4>. QED
        BY <2>1, <2>2, <4>1 DEF Conservation
    <3>. QED
      BY <3>1 DEF Conservation
  <2>5. ASSUME NEW x \in Orders, status'[x] = "NEW"
        PROVE  Traded(x)' = 0
    <3>1. status[x] = "NEW"
      BY <2>1, <2>3, <2>5
    <3>. QED
      BY <2>2, <3>1
  <2>. QED
    BY <2>4, <2>5
<1>6. CASE UNCHANGED bookVars
  <2>1. \A x \in Orders : Traded(x)' = Traded(x)
    BY <1>6 DEF bookVars, Traded, Moved
  <2>. QED
    BY <1>6, <2>1 DEF bookVars, Conservation
<1>. QED
  BY <1>3, <1>4, <1>5, <1>6 DEF BookNext, Call, Run

\* The trades account for exactly what left each order, over any number of
\* takers and makers.
THEOREM NothingFilledTwice == BookSpec => []Conservation
<1>1. BookInv /\ ConserveInv /\ [BookNext]_bookVars => ConserveInv'
  BY NextConserveInv
<1>2. ConserveInv => Conservation
  BY DEF ConserveInv
<1>. QED
  BY InitConserveInv, BookInvariant, <1>1, <1>2, PTL DEF BookSpec

----------------------------------------------------------------------------
(* A taker's own trades, as PlatformFill cuts them out of the trades. *)

\* While an order is processed its trades are the last ones.
TakerTradesLast ==
    taker # NoOrder =>
        \A i, j \in 1..Len(trades) :
            (i < j /\ trades[i].taker = taker) => trades[j].taker = taker

\* The indexes of o's trades as a taker.
Own(o) == {i \in DOMAIN trades : trades[i].taker = o}

\* The list is made of trades.
LEMMA BookTradesType ==
    ASSUME TypeOK, NEW o
    PROVE  /\ BookTrades(o) \in Seq(Trade)
           /\ \A k \in DOMAIN BookTrades(o) : \E i \in 1..Len(trades) : BookTrades(o)[k] = trades[i]
<1>1. trades \in Seq(Trade) /\ DOMAIN trades = 1..Len(trades) /\ Len(trades) \in Nat
  BY DEF TypeOK
<1>2. CASE Own(o) = {}
  <2>1. BookTrades(o) = << >>
    BY <1>2 DEF BookTrades, Own
  <2>. QED
    BY <2>1
<1>3. CASE Own(o) # {}
  <2>. DEFINE a == Min(Own(o))
              b == Max(Own(o))
  <2>1. Own(o) \in SUBSET (1..Len(trades))
    BY <1>1 DEF Own
  <2>2. a \in 1..Len(trades) /\ b \in 1..Len(trades)
    BY <1>1, <1>3, <2>1, MinIs, MaxIs
  <2>3. BookTrades(o) = SubSeq(trades, a, b)
    BY <1>3 DEF BookTrades, Own
  <2>. HIDE DEF a, b
  <2>4. \A i \in a..b : trades[i] \in Trade
    BY <1>1, <2>2
  <2>5. /\ SubSeq(trades, a, b) \in Seq(Trade)
        /\ Len(SubSeq(trades, a, b)) = IF a <= b THEN (b - a) + 1 ELSE 0
        /\ \A i \in 1..((b - a) + 1) : SubSeq(trades, a, b)[i] = trades[(a + i) - 1]
    BY <2>2, <2>4, SubSeqProperties
  <2>6. ASSUME NEW k \in DOMAIN BookTrades(o)
        PROVE  \E i \in 1..Len(trades) : BookTrades(o)[k] = trades[i]
    <3>1. k \in 1..((b - a) + 1)
      BY <2>2, <2>3, <2>5
    <3>2. (a + k) - 1 \in 1..Len(trades)
      BY <1>1, <2>2, <3>1
    <3>. QED
      BY <2>3, <2>5, <3>1, <3>2
  <2>. QED
    BY <2>3, <2>5, <2>6
<1>. QED
  BY <1>2, <1>3

\* The trades of others leave an order's own list alone.
LEMMA BookTradesKept ==
    ASSUME TypeOK, NEW o, NEW tr \in Trade, trades' = Append(trades, tr), tr.taker # o
    PROVE  BookTrades(o)' = BookTrades(o)
<1>1. /\ trades \in Seq(Trade) /\ DOMAIN trades = 1..Len(trades) /\ Len(trades) \in Nat
      /\ trades' \in Seq(Trade) /\ DOMAIN trades' = 1..(Len(trades) + 1)
      /\ \A i \in 1..Len(trades) : trades'[i] = trades[i]
      /\ trades'[Len(trades) + 1] = tr
  BY DEF TypeOK
<1>2. Own(o)' = Own(o)
  BY <1>1 DEF Own
<1>3. CASE Own(o) = {}
  BY <1>2, <1>3 DEF BookTrades, Own
<1>4. CASE Own(o) # {}
  <2>. DEFINE a == Min(Own(o))
              b == Max(Own(o))
  <2>1. Own(o) \in SUBSET (1..Len(trades))
    BY <1>1 DEF Own
  <2>2. a \in 1..Len(trades) /\ b \in 1..Len(trades)
    BY <1>1, <1>4, <2>1, MinIs, MaxIs
  <2>3. BookTrades(o) = SubSeq(trades, a, b) /\ BookTrades(o)' = SubSeq(trades', a, b)
    BY <1>2, <1>4 DEF BookTrades, Own
  <2>. HIDE DEF a, b
  <2>4. trades' = trades \o <<tr>> /\ <<tr>> \in Seq(Trade)
    BY <1>1, AppendIsConcat
  <2>5. SubSeq(trades \o <<tr>>, a, b) = SubSeq(trades, a, b)
    BY <1>1, <2>2, <2>4, SubSeqOfConcat1
  <2>. QED
    BY <2>3, <2>4, <2>5
<1>. QED
  BY <1>3, <1>4

\* A trade of the order being processed goes to the end of its list.
LEMMA BookTradesGrow ==
    ASSUME TypeOK, TakerTradesLast, taker # NoOrder, NEW o, o = taker,
           NEW tr \in Trade, trades' = Append(trades, tr), tr.taker = o
    PROVE  BookTrades(o)' = Append(BookTrades(o), tr)
<1>. DEFINE n == Len(trades)
<1>1. /\ trades \in Seq(Trade) /\ DOMAIN trades = 1..n /\ n \in Nat /\ n + 1 \in Nat
      /\ trades' \in Seq(Trade) /\ DOMAIN trades' = 1..(n + 1)
      /\ \A i \in 1..n : trades'[i] = trades[i]
      /\ trades'[n + 1] = tr
      /\ Len(trades') = n + 1
  BY DEF TypeOK
<1>2. trades' = trades \o <<tr>> /\ <<tr>> \in Seq(Trade)
  BY <1>1, AppendIsConcat
<1>. HIDE DEF n
<1>3. Own(o) \in SUBSET (1..n) /\ Own(o)' \in SUBSET (1..(n + 1))
  BY <1>1 DEF Own
<1>4. Own(o)' = Own(o) \union {n + 1}
  <2>1. 1..(n + 1) = 1..n \union {n + 1}
    BY <1>1
  <2>. QED
    BY <1>1, <2>1 DEF Own
<1>5. Max(Own(o)') = n + 1
  <2>1. \A y \in Own(o)' : n + 1 >= y
    BY <1>1, <1>3
  <2>2. n + 1 \in Own(o)'
    BY <1>4
  <2>. QED
    BY <1>1, <1>3, <2>1, <2>2, MaxIs, Zenon
<1>6. CASE Own(o) = {}
  <2>1. Own(o)' = {n + 1}
    BY <1>4, <1>6
  <2>2. Min(Own(o)') = n + 1
    BY <1>1, <1>3, <2>1, MinIs, Zenon
  <2>3. BookTrades(o) = << >> /\ BookTrades(o)' = SubSeq(trades', n + 1, n + 1)
    BY <1>5, <1>6, <2>1, <2>2 DEF BookTrades, Own
  <2>4. SubSeq(trades', n + 1, n + 1) = <<tr>>
    <3>. DEFINE z == SubSeq(trades', n + 1, n + 1)
    <3>1. \A i \in (n + 1)..(n + 1) : trades'[i] \in Trade
      BY <1>1
    <3>2. /\ z \in Seq(Trade)
          /\ Len(z) = IF n + 1 <= n + 1 THEN ((n + 1) - (n + 1)) + 1 ELSE 0
          /\ \A i \in 1..(((n + 1) - (n + 1)) + 1) : z[i] = trades'[((n + 1) + i) - 1]
      BY <1>1, <3>1, SubSeqProperties
    <3>. HIDE DEF z
    <3>3. Len(z) = 1 /\ z[1] = tr
      BY <1>1, <3>2
    <3>4. \A i \in 1..Len(z) : z[i] = <<tr>>[i]
      BY <3>3
    <3>. QED
      BY <1>2, <3>2, <3>3, <3>4, SeqEqual DEF z
  <2>. QED
    BY <2>3, <2>4
<1>7. CASE Own(o) # {}
  <2>. DEFINE a == Min(Own(o))
  <2>1. a \in Own(o) /\ a \in 1..n /\ \A m \in Own(o) : a <= m
    <3>1. a \in Own(o)
      BY <1>1, <1>3, <1>7, MinIs
    <3>2. PICK m \in Own(o) : \A y \in Own(o) : m <= y
      <4>1. Own(o) \in SUBSET Nat
        BY <1>3
      <4>. QED
        BY <1>7, <4>1, Least, Zenon
    <3>3. a = m
      BY <1>1, <1>3, <1>7, <3>2, MinIs, Zenon
    <3>. QED
      BY <1>3, <3>1, <3>2, <3>3
  <2>2. n \in Own(o)
    <3>1. a = n \/ a < n
      BY <1>1, <2>1
    <3>2. n \in 1..n
      BY <1>1, <2>1
    <3>. QED
      BY <1>1, <2>1, <3>1, <3>2 DEF Own, TakerTradesLast, n
  <2>3. Max(Own(o)) = n
    <3>1. \A y \in Own(o) : n >= y
      BY <1>1, <1>3
    <3>. QED
      BY <1>1, <1>3, <2>2, <3>1, MaxIs, Zenon
  <2>4. Min(Own(o)') = a
    <3>1. a \in Own(o)' /\ \A y \in Own(o)' : a <= y
      BY <1>1, <1>4, <2>1
    <3>. QED
      BY <1>1, <1>3, <3>1, MinIs, Zenon
  <2>5. /\ BookTrades(o) = SubSeq(trades, a, n)
        /\ BookTrades(o)' = SubSeq(trades', a, n + 1)
    BY <1>4, <1>5, <1>7, <2>3, <2>4 DEF BookTrades, Own
  <2>. HIDE DEF a
  <2>6. SubSeq(trades', a, n + 1) = SubSeq(trades', a, (n + 1) - 1) \o <<trades'[n + 1]>>
    <3>1. a \in 1..Len(trades') /\ n + 1 \in a..Len(trades')
      BY <1>1, <2>1
    <3>. QED
      BY <1>1, <3>1, SubSeqRecursiveSecond
  <2>7. SubSeq(trades', a, n) = SubSeq(trades, a, n)
    <3>1. n \in 1..n
      BY <1>1, <2>1
    <3>. QED
      BY <1>1, <1>2, <2>1, <3>1, SubSeqOfConcat1 DEF n
  <2>8. (n + 1) - 1 = n
    BY <1>1
  <2>9. Append(BookTrades(o), tr) = BookTrades(o) \o <<tr>>
    BY BookTradesType, AppendIsConcat
  <2>. QED
    BY <1>1, <2>5, <2>6, <2>7, <2>8, <2>9
<1>. QED
  BY <1>6, <1>7
==============================================================================

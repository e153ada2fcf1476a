--------------------------- MODULE TradesInvariant ---------------------------
(***************************************************************************)
(* The inductive invariant of TradesPersistence, for every set of orders,  *)
(* parties, inputs and workers, and that the steps of the engine and of    *)
(* the route keep it.                                                      *)
(*                                                                         *)
(* Inv has a part for whatever may fail: what the book and the platform    *)
(* have filled (BooksInv, ListInv), that a job tells what became of its    *)
(* order (JobsInv), how far each worker is (WorkInv), what the tables may  *)
(* say (TablesInv, NewInv), and that no trade of a processed order is in   *)
(* none of the tables, the queue and the workers (CoverInv).  ExactInv is  *)
(* about the time before the first failure: there one worker at most has a *)
(* job, the jobs are in line, and the tables say exactly what the jobs     *)
(* that are done and the statements of the one at work have written.       *)
(***************************************************************************)
EXTENDS TradesPersistence, OrderBookProofs

(* Sequences and sums. *)

\* A finite set as a sequence.
LEMMA SetToSeqIs ==
    ASSUME NEW S, IsFiniteSet(S)
    PROVE  /\ SetToSeq(S) \in Seq(S)
           /\ ToSet(SetToSeq(S)) = S
           /\ IsInjective(SetToSeq(S))
           /\ Len(SetToSeq(S)) = Cardinality(S)
<1>. DEFINE n == Cardinality(S)  f == SetToSeq(S)
<1>1. n \in Nat /\ ExistsBijection(1..n, S)
  BY FS_CardinalityType
<1>2. \E g \in [1..n -> S] : IsInjective(g)
  BY <1>1, Zenon DEF ExistsBijection, Bijection, Injection
<1>3. f \in [1..n -> S] /\ IsInjective(f)
  BY <1>2, Zenon DEF SetToSeq
<1>. HIDE DEF n, f
<1>4. f \in Surjection(1..n, S)
  <2>1. f \in Injection(1..n, S) /\ IsFiniteSet(1..n) /\ Cardinality(1..n) = n
    BY <1>1, <1>3, FS_Interval DEF Injection
  <2>. QED
    BY <2>1, FS_Injection, Zenon DEF n
<1>5. f \in Seq(S) /\ Len(f) = n /\ DOMAIN f = 1..n
  BY <1>1, <1>3
<1>6. ToSet(f) = S
  BY <1>3, <1>4, <1>5 DEF ToSet, Surjection
<1>. QED
  BY <1>3, <1>5, <1>6 DEF n, f

----------------------------------------------------------------------------
(* MapThenSumSet is recursion over the subsets of a set, whichever element *)
(* CHOOSE takes first.  What it adds up is the value a function has at     *)
(* each element, an operator's being those of some function.               *)

SumOver(f, S) == MapThenSumSet(LAMBDA x : f[x], S)

\* The element that is taken first.
First(s) == CHOOSE x \in s : TRUE

\* g gives the sums of the subsets of S, as the fold computes them.
IsSums(g, f, S) ==
    g = [s \in SUBSET S |-> IF s = {} THEN 0 ELSE f[First(s)] + g[s \ {First(s)}]]

\* The same for the subsets with k elements or fewer.
UpTo(S, k) == {s \in SUBSET S : Cardinality(s) <= k}
IsSumsUpTo(g, f, S, k) ==
    g = [s \in UpTo(S, k) |-> IF s = {} THEN 0 ELSE f[First(s)] + g[s \ {First(s)}]]

\* Taking the first leaves a smaller set.
LEMMA FirstTaken ==
    ASSUME NEW S, IsFiniteSet(S), S # {}
    PROVE  /\ First(S) \in S /\ IsFiniteSet(S \ {First(S)})
           /\ Cardinality(S) \in Nat /\ Cardinality(S \ {First(S)}) = Cardinality(S) - 1
           /\ Cardinality(S) - 1 \in Nat
<1>1. First(S) \in S
  BY DEF First
<1>2. /\ IsFiniteSet(S \ {First(S)}) /\ Cardinality(S \ {First(S)}) = Cardinality(S) - 1
      /\ Cardinality(S) \in Nat /\ Cardinality(S \ {First(S)}) \in Nat
  BY <1>1, FS_RemoveElement, FS_CardinalityType, Zenon
<1>. QED
  BY <1>1, <1>2

\* Sums of one element more.
LEMMA SumsExtend ==
    ASSUME NEW S, IsFiniteSet(S), NEW f, NEW k \in Nat, NEW g, IsSumsUpTo(g, f, S, k)
    PROVE  \E h : IsSumsUpTo(h, f, S, k + 1)
<1>. DEFINE h == [s \in UpTo(S, k + 1) |-> IF s = {} THEN 0 ELSE f[First(s)] + g[s \ {First(s)}]]
<1>1. ASSUME NEW s \in UpTo(S, k + 1), s # {}
      PROVE  h[s \ {First(s)}] = g[s \ {First(s)}]
  <2>1. s \in SUBSET S /\ IsFiniteSet(s) /\ Cardinality(s) <= k + 1
    BY <1>1, FS_Subset, Zenon DEF UpTo
  <2>2. PICK r : r = s \ {First(s)}
    OBVIOUS
  <2>3. r \in SUBSET S /\ Cardinality(r) <= k /\ Cardinality(r) <= k + 1
    <3>1. Cardinality(s) \in Nat /\ Cardinality(r) = Cardinality(s) - 1
      BY <1>1, <2>1, <2>2, FirstTaken, Zenon
    <3>2. r \in SUBSET S
      BY <2>1, <2>2
    <3>. QED
      BY <2>1, <3>1, <3>2
  <2>4. r \in UpTo(S, k) /\ r \in UpTo(S, k + 1)
    BY <2>3 DEF UpTo
  <2>5. g[r] = IF r = {} THEN 0 ELSE f[First(r)] + g[r \ {First(r)}]
    BY <2>4, Zenon DEF IsSumsUpTo
  <2>6. h[r] = IF r = {} THEN 0 ELSE f[First(r)] + g[r \ {First(r)}]
    BY <2>4, Zenon
  <2>. QED
    BY <2>2, <2>5, <2>6
<1>2. \A s \in UpTo(S, k + 1) :
        h[s] = IF s = {} THEN 0 ELSE f[First(s)] + h[s \ {First(s)}]
  <2>1. ASSUME NEW s \in UpTo(S, k + 1)
        PROVE  h[s] = IF s = {} THEN 0 ELSE f[First(s)] + h[s \ {First(s)}]
    <3>1. h[s] = IF s = {} THEN 0 ELSE f[First(s)] + g[s \ {First(s)}]
      BY Zenon
    <3>. HIDE DEF h
    <3>2. CASE s = {}
      BY <3>1, <3>2
    <3>3. CASE s # {}
      BY <1>1, <3>1, <3>3
    <3>. QED
      BY <3>2, <3>3
  <2>. QED
    BY <2>1
<1>3. h = [s \in UpTo(S, k + 1) |-> h[s]]
  OBVIOUS
<1>. HIDE DEF h
<1>4. h = [s \in UpTo(S, k + 1) |-> IF s = {} THEN 0 ELSE f[First(s)] + h[s \ {First(s)}]]
  BY <1>2, <1>3, Zenon
<1>. QED
  BY <1>4, Zenon DEF IsSumsUpTo

\* Sums exist.
LEMMA SumsExist ==
    ASSUME NEW S, IsFiniteSet(S), NEW f
    PROVE  \E g : IsSums(g, f, S)
<1>. DEFINE N == {k \in Nat : \E g : IsSumsUpTo(g, f, S, k)}
<1>1. 0 \in N
  <2>. DEFINE g == [s \in UpTo(S, 0) |-> 0]
  <2>1. \A s \in UpTo(S, 0) : s = {}
    <3>1. ASSUME NEW s \in UpTo(S, 0) PROVE s = {}
      <4>1. IsFiniteSet(s) /\ Cardinality(s) <= 0
        BY FS_Subset, Zenon DEF UpTo
      <4>2. Cardinality(s) = 0
        BY <4>1, FS_CardinalityType
      <4>. QED
        BY <4>1, <4>2, FS_EmptySet, Zenon
    <3>. QED
      BY <3>1
  <2>2. g = [s \in UpTo(S, 0) |-> IF s = {} THEN 0 ELSE f[First(s)] + g[s \ {First(s)}]]
    BY <2>1, Zenon
  <2>3. IsSumsUpTo(g, f, S, 0)
    BY <2>2, Zenon DEF IsSumsUpTo
  <2>. QED
    BY <2>3
<1>2. \A k \in N : k + 1 \in N
  BY SumsExtend
<1>3. N = Nat
  <2>. HIDE DEF N
  <2>1. N \in SUBSET Nat
    BY DEF N
  <2>. QED
    BY <1>1, <1>2, <2>1, Induct, Zenon
<1>4. PICK g : IsSumsUpTo(g, f, S, Cardinality(S))
  BY <1>3, FS_CardinalityType, Zenon
<1>5. UpTo(S, Cardinality(S)) = SUBSET S
  BY FS_Subset, Zenon DEF UpTo
<1>. QED
  BY <1>4, <1>5, Zenon DEF IsSumsUpTo, IsSums

\* A sum does not depend on the set whose subset it is the sum of.
LEMMA SumsAgree ==
    ASSUME NEW S, IsFiniteSet(S), NEW R, NEW f, NEW e, NEW g, NEW h,
           IsSums(g, f, S), IsSums(h, e, R)
    PROVE  \A s \in SUBSET S : (s \in SUBSET R /\ \A x \in s : f[x] = e[x]) => g[s] = h[s]
<1>. DEFINE Fits(s) == s \in SUBSET R /\ \A x \in s : f[x] = e[x]
            N == {k \in Nat : \A s \in SUBSET S : (Cardinality(s) = k /\ Fits(s)) => g[s] = h[s]}
<1>0. /\ \A s \in SUBSET S : g[s] = IF s = {} THEN 0 ELSE f[First(s)] + g[s \ {First(s)}]
      /\ \A s \in SUBSET R : h[s] = IF s = {} THEN 0 ELSE e[First(s)] + h[s \ {First(s)}]
  BY Zenon DEF IsSums
<1>1. 0 \in N
  <2>1. ASSUME NEW s \in SUBSET S, Cardinality(s) = 0 PROVE g[s] = h[s]
    <3>1. s = {}
      BY <2>1, FS_Subset, FS_EmptySet, Zenon
    <3>2. s \in SUBSET R
      BY <3>1
    <3>. QED
      BY <1>0, <3>1, <3>2
  <2>. QED
    BY <2>1
<1>2. ASSUME NEW k \in N PROVE k + 1 \in N
  <2>1. SUFFICES ASSUME NEW s \in SUBSET S, Cardinality(s) = k + 1, Fits(s) PROVE g[s] = h[s]
    OBVIOUS
  <2>2. s # {} /\ IsFiniteSet(s)
    BY <1>2, <2>1, FS_Subset, FS_EmptySet
  <2>3. PICK r, x : x = First(s) /\ r = s \ {x}
    OBVIOUS
  <2>4. x \in s /\ r \in SUBSET S /\ Cardinality(r) = k
    <3>1. x \in s /\ Cardinality(r) = Cardinality(s) - 1
      BY <2>2, <2>3, FirstTaken, Zenon
    <3>2. r \in SUBSET S
      BY <2>1, <2>3
    <3>. QED
      BY <1>2, <2>1, <3>1, <3>2
  <2>5. Fits(r)
    BY <2>1, <2>3
  <2>6. g[r] = h[r]
    BY <1>2, <2>4, <2>5
  <2>7. g[s] = f[x] + g[r] /\ h[s] = e[x] + h[r]
    BY <1>0, <2>1, <2>2, <2>3
  <2>8. f[x] = e[x]
    BY <2>1, <2>4
  <2>. QED
    BY <2>6, <2>7, <2>8
<1>3. N = Nat
  <2>. HIDE DEF N
  <2>1. N \in SUBSET Nat
    BY DEF N
  <2>. QED
    BY <1>1, <1>2, <2>1, Induct, Zenon
<1>4. \A s \in SUBSET S : Cardinality(s) \in Nat
  BY FS_Subset, FS_CardinalityType, Zenon
<1>. QED
  BY <1>3, <1>4

\* Any element may be taken first.
LEMMA SumsTake ==
    ASSUME NEW S, IsFiniteSet(S), NEW f, \A x \in S : f[x] \in Nat, NEW g, IsSums(g, f, S)
    PROVE  \A s \in SUBSET S : g[s] \in Nat /\ \A x \in s : g[s] = f[x] + g[s \ {x}]
<1>. DEFINE Good(s) == g[s] \in Nat /\ \A x \in s : g[s] = f[x] + g[s \ {x}]
            N == {k \in Nat : \A s \in SUBSET S : Cardinality(s) <= k => Good(s)}
<1>0. \A s \in SUBSET S : g[s] = IF s = {} THEN 0 ELSE f[First(s)] + g[s \ {First(s)}]
  BY Zenon DEF IsSums
<1>1. 0 \in N
  <2>1. ASSUME NEW s \in SUBSET S, Cardinality(s) <= 0 PROVE Good(s)
    <3>1. IsFiniteSet(s) /\ Cardinality(s) = 0
      BY <2>1, FS_Subset, FS_CardinalityType
    <3>2. s = {}
      BY <3>1, FS_EmptySet, Zenon
    <3>. QED
      BY <1>0, <3>2
  <2>. QED
    BY <2>1
<1>2. ASSUME NEW k \in N PROVE k + 1 \in N
  <2>1. SUFFICES ASSUME NEW s \in SUBSET S, Cardinality(s) = k + 1 PROVE Good(s)
    <3>1. \A s \in SUBSET S : Cardinality(s) \in Nat
      BY FS_Subset, FS_CardinalityType, Zenon
    <3>2. \A s \in SUBSET S : Cardinality(s) <= k + 1 => Cardinality(s) <= k \/ Cardinality(s) = k + 1
      BY <1>2, <3>1
    <3>3. \A s \in SUBSET S : Cardinality(s) <= k => Good(s)
      BY <1>2
    <3>4. k + 1 \in Nat
      BY <1>2
    <3>. HIDE DEF Good
    <3>5. ASSUME \A s \in SUBSET S : Cardinality(s) = k + 1 => Good(s)
          PROVE  \A s \in SUBSET S : Cardinality(s) <= k + 1 => Good(s)
      BY <3>2, <3>3, <3>5, Zenon
    <3>. QED
      BY <3>4, <3>5
  <2>2. s # {} /\ IsFiniteSet(s)
    BY <1>2, <2>1, FS_Subset, FS_EmptySet
  <2>3. PICK r, c : c = First(s) /\ r = s \ {c}
    OBVIOUS
  <2>4. c \in s /\ r \in SUBSET S /\ Cardinality(r) = k /\ IsFiniteSet(r)
    <3>1. c \in s /\ Cardinality(r) = Cardinality(s) - 1 /\ IsFiniteSet(r)
      BY <2>2, <2>3, FirstTaken, Zenon
    <3>2. r \in SUBSET S
      BY <2>1, <2>3
    <3>. QED
      BY <1>2, <2>1, <3>1, <3>2
  <2>5. Good(r)
    BY <1>2, <2>4
  <2>6. g[s] = f[c] + g[r] /\ f[c] \in Nat
    BY <1>0, <2>1, <2>2, <2>3, <2>4
  <2>7. ASSUME NEW x \in s PROVE g[s] = f[x] + g[s \ {x}]
    <3>1. CASE x = c
      BY <2>3, <2>6, <3>1
    <3>2. CASE x # c
      <4>1. PICK u, v : u = s \ {x} /\ v = r \ {x}
        OBVIOUS
      <4>2. x \in r /\ c \in u /\ u \in SUBSET S /\ v = u \ {c} /\ f[x] \in Nat
        BY <2>1, <2>3, <2>4, <3>2, <4>1
      <4>3. Cardinality(u) = k
        <5>1. Cardinality(u) = Cardinality(s) - 1
          BY <2>2, <4>1, FS_RemoveElement, Zenon
        <5>. QED
          BY <1>2, <2>1, <5>1
      <4>4. Good(u)
        BY <1>2, <4>2, <4>3
      <4>5. g[r] = f[x] + g[v] /\ g[u] = f[c] + g[v] /\ g[u] \in Nat
        BY <2>5, <4>1, <4>2, <4>4
      <4>6. g[v] \in Nat
        <5>1. v \in SUBSET S /\ IsFiniteSet(u)
          BY <2>2, <4>1, <4>2, FS_Subset
        <5>3. Cardinality(v) = Cardinality(u) - 1
          BY <4>2, <5>1, FS_RemoveElement, Zenon
        <5>2. Cardinality(v) <= k
          BY <1>2, <4>3, <5>3
        <5>. QED
          BY <1>2, <5>1, <5>2
      <4>7. PICK m, n, p, q, t, y, z :
               /\ m = g[s] /\ n = g[r] /\ p = g[u] /\ q = g[v] /\ y = f[x] /\ z = f[c] /\ t = g[s \ {x}]
        OBVIOUS
      <4>8. m = z + n /\ n = y + q /\ p = z + q /\ p = t /\ y \in Nat /\ z \in Nat /\ q \in Nat
        BY <2>6, <4>1, <4>2, <4>5, <4>6, <4>7, Zenon
      <4>9. m = y + t
        BY <4>8
      <4>. QED
        BY <4>7, <4>9, Zenon
    <3>. QED
      BY <3>1, <3>2
  <2>. QED
    BY <2>5, <2>6, <2>7
<1>3. N = Nat
  <2>. HIDE DEF N
  <2>1. N \in SUBSET Nat
    BY DEF N
  <2>. QED
    BY <1>1, <1>2, <2>1, Induct, Zenon
<1>4. \A s \in SUBSET S : Cardinality(s) \in Nat
  BY FS_Subset, FS_CardinalityType, Zenon
<1>. QED
  BY <1>3, <1>4

\* What SumOver computes.
LEMMA SumIs ==
    ASSUME NEW S, NEW f
    PROVE  SumOver(f, S) = (CHOOSE a : IsSums(a, f, S))[S]
BY Zenon DEF SumOver, MapThenSumSet, MapThenFoldSet, IsSums, First

\* Nothing adds up to nothing.
LEMMA SumEmpty ==
    ASSUME NEW f
    PROVE  SumOver(f, {}) = 0
<1>1. PICK g : g = CHOOSE a : IsSums(a, f, {})
  OBVIOUS
<1>2. IsSums(g, f, {})
  BY <1>1, SumsExist, FS_EmptySet, Zenon
<1>3. g[{}] = 0
  BY <1>2 DEF IsSums
<1>. QED
  BY <1>1, <1>3, SumIs, Zenon

\* The values at the elements are all that matters.
LEMMA SumSame ==
    ASSUME NEW S, IsFiniteSet(S), NEW f, NEW e, \A x \in S : f[x] = e[x]
    PROVE  SumOver(f, S) = SumOver(e, S)
<1>1. PICK g, h : g = (CHOOSE a : IsSums(a, f, S)) /\ h = (CHOOSE a : IsSums(a, e, S))
  OBVIOUS
<1>2. IsSums(g, f, S) /\ IsSums(h, e, S)
  BY <1>1, SumsExist, Zenon
<1>4. \A s \in SUBSET S : (s \in SUBSET S /\ \A x \in s : f[x] = e[x]) => g[s] = h[s]
  BY <1>2, SumsAgree
<1>3. g[S] = h[S]
  BY <1>4
<1>. QED
  BY <1>1, <1>3, SumIs, Zenon

\* A sum is a number, and an element in it adds its value.
LEMMA SumTakes ==
    ASSUME NEW S, IsFiniteSet(S), NEW f, \A x \in S : f[x] \in Nat
    PROVE  /\ SumOver(f, S) \in Nat
           /\ \A x \in S : SumOver(f, S) = SumOver(f, S \ {x}) + f[x]
<1>1. PICK g : g = CHOOSE a : IsSums(a, f, S)
  OBVIOUS
<1>2. IsSums(g, f, S) /\ SumOver(f, S) = g[S]
  BY <1>1, SumsExist, SumIs, Zenon
<1>3. g[S] \in Nat /\ \A x \in S : g[S] = f[x] + g[S \ {x}] /\ g[S \ {x}] \in Nat
  BY <1>2, SumsTake
<1>4. ASSUME NEW x \in S PROVE g[S \ {x}] = SumOver(f, S \ {x})
  <2>1. PICK R : R = S \ {x}
    OBVIOUS
  <2>2. IsFiniteSet(R) /\ R \in SUBSET S
    BY <2>1, FS_Subset
  <2>3. PICK h : h = CHOOSE a : IsSums(a, f, R)
    OBVIOUS
  <2>4. IsSums(h, f, R) /\ SumOver(f, R) = h[R]
    BY <2>2, <2>3, SumsExist, SumIs, Zenon
  <2>6. \A s \in SUBSET S : (s \in SUBSET R /\ \A y \in s : f[y] = f[y]) => g[s] = h[s]
    BY <1>2, <2>4, SumsAgree
  <2>5. g[R] = h[R]
    BY <2>2, <2>6
  <2>. QED
    BY <2>1, <2>4, <2>5
<1>5. ASSUME NEW x \in S PROVE f[x] + g[S \ {x}] = g[S \ {x}] + f[x]
  <2>1. PICK a, b : a = f[x] /\ b = g[S \ {x}]
    OBVIOUS
  <2>2. a \in Nat /\ b \in Nat
    BY <1>3, <2>1, Zenon
  <2>3. a + b = b + a
    BY <2>2
  <2>. QED
    BY <2>1, <2>3, Zenon
<1>. QED
  BY <1>2, <1>3, <1>4, <1>5, Zenon

\* An element more adds its value.
LEMMA SumAdds ==
    ASSUME NEW S, IsFiniteSet(S), NEW x, x \notin S, NEW f, \A y \in S \union {x} : f[y] \in Nat
    PROVE  SumOver(f, S \union {x}) = SumOver(f, S) + f[x]
<1>1. PICK R : R = S \union {x}
  OBVIOUS
<1>2. IsFiniteSet(R) /\ R \ {x} = S /\ x \in R
  BY <1>1, FS_AddElement
<1>. QED
  BY <1>1, <1>2, SumTakes

\* A sum is at least the value of each of its elements, and of two together.
LEMMA SumCovers ==
    ASSUME NEW S, IsFiniteSet(S), NEW f, \A x \in S : f[x] \in Nat
    PROVE  /\ \A x \in S : f[x] <= SumOver(f, S)
           /\ \A x, y \in S : x # y => f[x] + f[y] <= SumOver(f, S)
<1>1. ASSUME NEW x \in S
      PROVE  /\ SumOver(f, S) = SumOver(f, S \ {x}) + f[x] /\ SumOver(f, S \ {x}) \in Nat
             /\ \A y \in S \ {x} : SumOver(f, S \ {x}) = SumOver(f, (S \ {x}) \ {y}) + f[y]
                                     /\ SumOver(f, (S \ {x}) \ {y}) \in Nat
  <2>1. PICK R : R = S \ {x}
    OBVIOUS
  <2>2. IsFiniteSet(R) /\ R \subseteq S
    BY <2>1, FS_Subset
  <2>3. \A y \in R : IsFiniteSet(R \ {y}) /\ R \ {y} \subseteq S
    BY <2>2, FS_Subset
  <2>4. SumOver(f, S) = SumOver(f, R) + f[x]
    BY <2>1, SumTakes
  <2>5. SumOver(f, R) \in Nat /\ \A y \in R : SumOver(f, R) = SumOver(f, R \ {y}) + f[y]
    BY <2>2, SumTakes
  <2>6. \A y \in R : SumOver(f, R \ {y}) \in Nat
    BY <2>3, SumTakes
  <2>. QED
    BY <2>1, <2>4, <2>5, <2>6
<1>2. ASSUME NEW x \in S PROVE f[x] <= SumOver(f, S)
  <2>1. PICK a, b, c : a = SumOver(f, S) /\ b = SumOver(f, S \ {x}) /\ c = f[x]
    OBVIOUS
  <2>2. a = b + c /\ b \in Nat /\ c \in Nat
    BY <1>1, <2>1, Zenon
  <2>3. c <= a
    BY <2>2
  <2>. QED
    BY <2>1, <2>3, Zenon
<1>3. ASSUME NEW x \in S, NEW y \in S, x # y PROVE f[x] + f[y] <= SumOver(f, S)
  <2>1. y \in S \ {x} /\ f[x] \in Nat /\ f[y] \in Nat
    BY <1>3
  <2>2. PICK a, b, c : /\ a = SumOver(f, S) /\ b = SumOver(f, S \ {x})
                       /\ c = SumOver(f, (S \ {x}) \ {y})
    OBVIOUS
  <2>3. a = b + f[x] /\ b = c + f[y] /\ b \in Nat /\ c \in Nat
    BY <1>1, <2>1, <2>2, Zenon
  <2>4. f[x] + f[y] <= a
    BY <2>1, <2>3
  <2>. QED
    BY <2>2, <2>4, Zenon
<1>. QED
  BY <1>2, <1>3

----------------------------------------------------------------------------
(* What is known of the book, of the route and of what the platform fills. *)

ByContract(o) == GoesToContract(order[o])
Accepted(o) == status[o] # "NEW" /\ ~ByContract(o) /\ ~Refused(order[o])

QtySum(S) == MapThenSumSet(LAMBDA t : t.qty, S)
CostSum(S) == MapThenSumSet(LAMBDA t : t.price * t.qty, S)

\* The book's trades that name o, those that o made, and what became of o.
TradesWith(o) == {t \in ToSet(trades) : o \in {t.maker, t.taker}}
Made(o) == {t \in ToSet(trades) : t.maker = o}
Result(o) == ResultStatus(o, platformFilled[o])

\* The book may have been emptied by a restart, and orders outside it are PENDING
\* on the contract; what is in it is as in BookInv.
ShelfInv ==
    /\ TypeOK
    /\ LevelsHoldTheirOrders /\ LevelsAreFifo /\ BookArrivedBefore
    /\ taker # NoOrder =>
          /\ status[taker] = "PENDING" /\ ~ByContract(taker)
          /\ createdAt[taker] = clock
          /\ order[taker].type = "LIMIT" => order[taker].price \in Prices

\* A trade is of a resting maker and a taker from the book that meet once.
TradeOK(t) ==
    /\ t.qty > 0
    /\ t.maker # t.taker
    /\ order[t.maker].type = "LIMIT" /\ Accepted(t.maker)
    /\ status[t.maker] \in {"PARTIALLY_FILLED", "FILLED"}
    /\ Accepted(t.taker) /\ status[t.taker] # "REJECTED"
    /\ rem[t.maker] = 0 \/ rem[t.taker] = 0

\* Statuses and remaining quantities.
StatusOK(o) ==
    /\ status[o] = "NEW" => order[o] = NoInput
    /\ status[o] = "PENDING" => o = taker \/ ByContract(o)
    /\ Accepted(o) /\ o # taker => (status[o] = "FILLED" <=> rem[o] = 0)
    /\ status[o] \in RestingStatus => order[o].type = "LIMIT" /\ Accepted(o)
    /\ status[o] # "NEW" /\ ~ByContract(o) /\ Refused(order[o]) => status[o] = "REJECTED"
    /\ ByContract(o) => status[o] \in {"PENDING", "FILLED"}
    /\ ByContract(o) => (status[o] = "FILLED" <=> o \in direct)
    /\ o \in routing \union direct => ByContract(o)
    /\ o \in direct => order[o].qty >= 0 

\* Only a MARKET order that has left the book with something remaining has
\* anything from the platform.
PlatformOK(o) ==
    /\ platformFilled[o] \in Nat
    /\ platformFilled[o] > 0 =>
          /\ order[o].type = "MARKET" /\ Accepted(o) /\ status[o] \in {"CANCELLED", "REJECTED"}
          /\ platformFilled[o] <= rem[o]

FillsInv ==
    /\ TakerTradesLast
    /\ \A i \in DOMAIN trades : TradeOK(trades[i])
    /\ \A o \in Orders : StatusOK(o) /\ PlatformOK(o)
    /\ \A o \in Orders : Accepted(o) => QtySum(TradesWith(o)) = order[o].qty - rem[o]
    /\ IsFiniteSet(Recorded)

BooksInv == ShelfInv /\ FillsInv

\* The trades of the book are all different, and those of a taker in a row.
ListInv ==
    /\ \A i, j \in DOMAIN trades : trades[i] = trades[j] => i = j
    /\ \A i, j, k \in DOMAIN trades :
          (i < j /\ j < k /\ trades[i].taker = trades[k].taker) => trades[j].taker = trades[k].taker

----------------------------------------------------------------------------
(* What is known of the jobs, of the workers and of the rows. *)

\* A job tells what became of its order when it left the engine.
JobOK(job) ==
    /\ job \in JobType
    /\ job.order \in Recorded
    /\ ToSet(job.trades) = TradesOf(job.order)
    /\ IsInjective(job.trades)
    /\ IF Made(job.order) = {} THEN job.status = Result(job.order)
       ELSE job.status \in RestingStatus

JobsInv == jobs \in Seq(JobType) /\ \A j \in ToSet(jobs) : JobOK(j)

Looping == {"maker", "makerRow", "buyer", "buyerRow", "seller", "sellerRow", "short"}
Written == Looping \union {"cre", "volume", "done"}

WorkType == [at : Written \union {"idle", "order", "trades"}, job : JobType \union {NoJob},
             i : Nat, seen : Status \union {"none"}, row : [id : Nat, amt : Nat]]

WorkOK(x) ==
    /\ x.at = "idle" => x = Idle
    /\ x.at # "idle" => JobOK(x.job)
    /\ IF x.at \in Looping THEN x.i \in 1..Len(x.job.trades) ELSE x.i \in {0, 1}
    /\ x.at = "trades" => x.job.trades # << >>
    /\ x.at = "makerRow" /\ x.seen # "none" => x.job.trades[x.i].maker \in Orders
    /\ x.at \in Written => ToSet(x.job.trades) \subseteq dbTrades
    /\ x.row = NoRow \/ x.row.id \in DOMAIN positions
    /\ x.at = "short" => x.row # NoRow /\ x.job.trades[x.i].qty > x.row.amt

WorkInv == work \in [Workers -> WorkType] /\ \A x \in {work[w] : w \in Workers} : WorkOK(x)

RowAccts == {v.acct : v \in Parties} \union {PlatformAcct, NoAcct}

RowType == [acct : RowAccts,
            chain : {"main", "tenderly"}, side : {"LONG", "SHORT"}, open : BOOLEAN, amt : Nat]

\* The tables.
TablesInv ==
    /\ dbStatus \in [Orders -> Status \union {"none"}]
    /\ \A o \in Orders : dbStatus[o] # "none" => o \in Recorded
    /\ \A o \in Orders : dbStatus[o] = "FILLED" => Result(o) = "FILLED"
    /\ dbTrades \subseteq AllTrades
    /\ positions \in Seq(RowType)
    /\ volume \in Nat
    /\ sent \in [Orders -> Nat]
    /\ dropped \subseteq Orders /\ faults \in 0..MaxFaults
    /\ routing \union direct \subseteq Orders /\ routing \intersect direct = {}
    /\ platformFilled \in [Orders -> Nat]

\* Where the trades of an order are that has been processed.
CoverInv ==
    \A o \in Recorded \ dropped :
        \/ TradesOf(o) \subseteq dbTrades
        \/ \E k \in DOMAIN jobs : jobs[k].order = o
        \/ \E w \in Busy : work[w].job.order = o

----------------------------------------------------------------------------
(* What is known as long as nothing has failed. *)

\* The record of the one worker that has a job.
Cur == IF Busy = {} THEN Idle ELSE work[CHOOSE w \in Busy : TRUE]

Queued == {jobs[k].order : k \in DOMAIN jobs}

\* The trades of a job from the i-th on, and those that some step has still to see.
From(x, i) == {x.job.trades[k] : k \in i..Len(x.job.trades)}
MakersLeft(x) == IF x.at \in {"maker", "makerRow"} THEN From(x, x.i) ELSE {}
BuysLeft(x) ==
    CASE x.at \in {"maker", "makerRow"} -> From(x, 1)
      [] x.at \in {"buyer", "buyerRow"} -> From(x, x.i)
      [] x.at \in {"seller", "sellerRow", "short"} -> From(x, x.i + 1)
      [] OTHER -> {}
SalesLeft(x) ==
    CASE x.at \in {"maker", "makerRow"} -> From(x, 1)
      [] x.at \in {"buyer", "buyerRow", "seller", "sellerRow", "short"} -> From(x, x.i)
      [] OTHER -> {}
SendsLeft(x) == IF x.at \in Looping \union {"cre"} THEN From(x, 1) ELSE {}
VolumeLeft(x) == IF x.at \in Looping \union {"cre", "volume"} THEN From(x, 1) ELSE {}

\* Every order has one job, and a maker's comes before its takers'.
LineInv(x) ==
    /\ \A v, w \in Busy : v = w
    /\ \A k, l \in DOMAIN jobs : jobs[k].order = jobs[l].order => k = l
    /\ Busy # {} => x.job.order \notin Queued
    /\ \A k, l \in DOMAIN jobs : k <= l =>
          \A t \in ToSet(jobs[k].trades) : t.maker # jobs[l].order
    /\ \A t \in dbTrades \union ToSet(x.job.trades) : t.maker \notin Queued
    /\ x.at = "order" => \A t \in dbTrades : t.maker # x.job.order

\* The Trade rows are those of the jobs that got as far.
DoneInv(x) ==
    \A t \in dbTrades : /\ t.taker \notin Queued
                        /\ x.at \in {"order", "trades"} => t.taker # x.job.order

\* The fills of an order as a maker that its row has seen.
Seen(x, o) == {t \in dbTrades \ MakersLeft(x) : t.maker = o}

\* A row says what they did to it.
RowOK(x, o) ==
    IF Seen(x, o) # {}
    THEN dbStatus[o] = IF \E t \in Seen(x, o) : t.qty >= order[o].qty THEN "FILLED"
                       ELSE "PARTIALLY_FILLED"
    ELSE IF Made(o) = {} THEN dbStatus[o] = Result(o) ELSE dbStatus[o] \in RestingStatus

RowsInv(x) ==
    /\ \A o \in Recorded \ Queued : (x.at = "order" => x.job.order # o) => RowOK(x, o)
    /\ x.at = "makerRow" =>
          x.seen = IF x.job.trades[x.i].maker \in Orders THEN dbStatus[x.job.trades[x.i].maker]
                   ELSE "none"

BuyerAcct(t) == Acct(Buyer(t))
SellerAcct(t) == Acct(Seller(t))

\* What a worker has read of a position is what is there.
ReadOK(x, acct) ==
    IF x.row = NoRow THEN LongRows(acct, ChainOf(x.job)) = {}
    ELSE /\ x.row.id \in LongRows(acct, ChainOf(x.job))
         /\ positions[x.row.id].amt = x.row.amt

\* AtMostOneOpenLong, of the rows as they are.
OneLong ==
    \A i, j \in DOMAIN positions :
        (/\ positions[i].acct = positions[j].acct /\ positions[i].chain = positions[j].chain
         /\ positions[i].side = "LONG" /\ positions[i].open
         /\ positions[j].side = "LONG" /\ positions[j].open) => i = j

LongInv(x) ==
    /\ OneLong
    /\ x.at = "buyerRow" => \A a \in {BuyerAcct(x.job.trades[x.i])} : ReadOK(x, a)
    /\ x.at = "sellerRow" => \A a \in {SellerAcct(x.job.trades[x.i])} : ReadOK(x, a)

\* The purchases and the sales of an account that have been applied to its rows.
Buys(x, a) == {t \in dbTrades \ BuysLeft(x) : BuyerAcct(t) = a}
Sales(x, a) == {t \in dbTrades \ SalesLeft(x) : SellerAcct(t) = a}
Supply(a) == IF a = PlatformAcct THEN PlatformSupply ELSE 0
HalfSold(x, a) == IF x.at = "short" /\ SellerAcct(x.job.trades[x.i]) = a THEN x.row.amt ELSE 0

NetInv(x) ==
    \A a \in Accounts :
        Net(a) = QtySum(Buys(x, a)) - QtySum(Sales(x, a)) + Supply(a) - HalfSold(x, a)

VolumeInv(x) == volume = CostSum(dbTrades \ VolumeLeft(x))

\* The fills an order's signature has been sent for.
Sent(x, o) == {t \in dbTrades \ SendsLeft(x) : o \in {t.maker, t.taker}}

\* What the route has sent for it.
ByRoute(o) == IF ByContract(o) THEN 1 ELSE 0

SentInv(x) ==
    \A o \in Orders : (order[o].who.kind = "agent" /\ HasSignature(o)) =>
        sent[o] = Cardinality(Sent(x, o)) + ByRoute(o)

\* Nothing is sent for an order before it has arrived.
NewInv == \A o \in Orders : status[o] = "NEW" => sent[o] = 0

Exact(x) ==
    /\ LineInv(x) /\ DoneInv(x) /\ RowsInv(x) /\ LongInv(x)
    /\ NetInv(x) /\ VolumeInv(x) /\ SentInv(x)

ExactInv == faults = 0 => dropped = {} /\ \A x \in {Cur} : Exact(x)

Inv == BooksInv /\ ListInv /\ JobsInv /\ WorkInv /\ TablesInv /\ NewInv /\ CoverInv /\ ExactInv

----------------------------------------------------------------------------
(* The book, which a restart may have emptied. *)

\* An input keeps its kind whatever price it is given.
LEMMA SameKind ==
    ASSUME NEW in \in OrderInput, NEW p
    PROVE  LET r == [in EXCEPT !.price = p]
           IN  /\ GoesToContract(r) = GoesToContract(in)
               /\ r.side = in.side /\ r.type = in.type /\ r.qty = in.qty /\ r.who = in.who
               /\ r.price = p
               /\ p \in Int => r \in OrderInput
BY DEF GoesToContract, OrderInput

\* A best price is one of a level that holds orders.
LEMMA BestHolds ==
    ASSUME TypeOK, NEW s \in Side, HasBest(s)
    PROVE  BestPrice(s) \in Prices /\ levels[s][BestPrice(s)] # << >>
<1>1. prices[s] \in Seq(Prices) /\ Len(prices[s]) \in Nat
  BY DEF TypeOK
<1>2. LevelIndexes(s) \in SUBSET (1..Len(prices[s])) /\ LevelIndexes(s) # {}
  BY <1>1 DEF LevelIndexes, HasBest
<1>3. PICK i : i = Min(LevelIndexes(s)) /\ i \in LevelIndexes(s)
  BY <1>1, <1>2, MinIs
<1>4. i \in 1..Len(prices[s]) /\ levels[s][prices[s][i]] # << >>
  BY <1>1, <1>3 DEF LevelIndexes
<1>5. prices[s][i] \in Prices
  BY <1>1, <1>4
<1>. QED
  BY <1>3, <1>4, <1>5 DEF BestPrice

\* matchOne is about to match the taker with m, the head of a level of the other side.
Heads(s, p, m) ==
    /\ s = Opposite(order[taker].side)
    /\ p = BestPrice(s)
    /\ m = Head(levels[s][p])

\* The maker rests in the book, and is not the taker.
LEMMA HeadRests ==
    ASSUME ShelfInv, taker # NoOrder, CanMatch(taker), NEW s, NEW p, NEW m, Heads(s, p, m)
    PROVE  /\ taker \in Orders /\ status[taker] = "PENDING" /\ rem[taker] > 0
           /\ s \in Side /\ p \in Prices /\ m \in Orders \ {taker}
           /\ levels[s][p] \in Seq(Orders) /\ levels[s][p] # << >> /\ m = levels[s][p][1]
           /\ order[m].side = s /\ order[m].price = p /\ order[m].type = "LIMIT"
           /\ status[m] \in RestingStatus /\ rem[m] > 0
<1>. USE DEF ShelfInv
<1>1. taker \in Orders /\ status[taker] = "PENDING" /\ rem[taker] > 0 /\ s \in Side
  BY DEF TypeOK, CanMatch, OrderInput, Opposite, Side, Heads
<1>2. p \in Prices /\ levels[s][p] # << >>
  BY <1>1, BestHolds DEF CanMatch, Heads
<1>3. levels[s][p] \in Seq(Orders) /\ m = Head(levels[s][p])
  BY <1>1, <1>2 DEF TypeOK, Heads
<1>4. m = levels[s][p][1] /\ 1 \in DOMAIN levels[s][p]
  BY <1>2, <1>3, HeadTailProperties
<1>5. m \in Orders /\ status[m] \in RestingStatus /\ m # taker
  BY <1>1, <1>2, <1>4, InTheBook
<1>6. order[m].side = s /\ order[m].price = p /\ order[m].type = "LIMIT" /\ rem[m] > 0
  BY <1>1, <1>2, <1>4 DEF LevelsHoldTheirOrders
<1>. QED
  BY <1>1, <1>2, <1>3, <1>4, <1>5, <1>6

\* What a round of the loop trades and does to its parties.
Meets(s, p, m, q, tr) ==
    /\ q \in Nat \ {0} /\ q <= rem[m] /\ q <= rem[taker] /\ (q = rem[m] \/ q = rem[taker])
    /\ tr \in Trade /\ tr.maker = m /\ tr.taker = taker /\ tr.price = p /\ tr.qty = q
    /\ trades' = Append(trades, tr)
    /\ rem' = [rem EXCEPT ![m] = @ - q, ![taker] = @ - q]
    /\ status' = [status EXCEPT ![m] = IF rem[m] - q <= 0 THEN "FILLED" ELSE "PARTIALLY_FILLED"]
    /\ IF rem[m] - q <= 0 THEN RemoveFromBook(m) ELSE UNCHANGED <<levels, prices>>

\* A round of the loop is such a meeting.
LEMMA RoundMeets ==
    ASSUME ShelfInv, MatchOne
    PROVE  \E s, p, m, q, tr : Heads(s, p, m) /\ Meets(s, p, m, q, tr)
<1>1. PICK s, p, m : Heads(s, p, m)
  BY DEF Heads
<1>. DEFINE q == FillQty(taker, m)
            tr == TradeOf(taker, m, p, q)
<1>2. /\ taker \in Orders /\ m \in Orders /\ m # taker /\ p \in Prices
      /\ rem[m] > 0 /\ rem[taker] > 0 /\ rem[m] \in Nat /\ rem[taker] \in Nat
  BY <1>1, HeadRests DEF MatchOne, ShelfInv, TypeOK
<1>3. q \in Nat \ {0} /\ q <= rem[m] /\ q <= rem[taker] /\ (q = rem[m] \/ q = rem[taker])
  BY <1>2 DEF FillQty
<1>4. /\ rem' = [rem EXCEPT ![m] = @ - q, ![taker] = @ - q]
      /\ status' = [status EXCEPT ![m] = IF rem[m] - q <= 0 THEN "FILLED" ELSE "PARTIALLY_FILLED"]
      /\ IF rem[m] - q <= 0 THEN RemoveFromBook(m) ELSE UNCHANGED <<levels, prices>>
      /\ trades' = Append(trades, tr)
  <2>1. m = Maker(order[taker].side) /\ p = BestPrice(Opposite(order[taker].side))
    BY <1>1 DEF Heads, Maker
  <2>. QED
    BY <2>1 DEF MatchOne
<1>5. tr \in Trade /\ tr.maker = m /\ tr.taker = taker /\ tr.price = p /\ tr.qty = q
  BY <1>2, <1>3 DEF TradeOf, Trade
<1>. HIDE DEF q, tr
<1>6. Meets(s, p, m, q, tr)
  BY <1>3, <1>4, <1>5 DEF Meets
<1>. QED
  BY <1>1, <1>6

\* Its numbers.
LEMMA MeetsRem ==
    ASSUME ShelfInv, MatchOne, NEW s, NEW p, NEW m, NEW q, NEW tr,
           Heads(s, p, m), Meets(s, p, m, q, tr)
    PROVE  /\ rem' \in [Orders -> Nat]
           /\ rem'[m] = rem[m] - q /\ rem'[taker] = rem[taker] - q
           /\ \A x \in Orders \ {m, taker} : rem'[x] = rem[x]
           /\ rem'[m] = 0 \/ rem'[taker] = 0
           /\ status' \in [Orders -> Status]
           /\ status'[m] = IF rem'[m] = 0 THEN "FILLED" ELSE "PARTIALLY_FILLED"
           /\ \A x \in Orders \ {m} : status'[x] = status[x]
           /\ IF rem'[m] = 0 THEN RemoveFromBook(m) ELSE UNCHANGED <<levels, prices>>
<1>1. /\ taker \in Orders /\ m \in Orders /\ m # taker
      /\ rem \in [Orders -> Nat] /\ status \in [Orders -> Status]
  BY HeadRests DEF MatchOne, ShelfInv, TypeOK
<1>2. rem[m] \in Nat /\ rem[taker] \in Nat
  BY <1>1
<1>3. q \in Nat /\ q <= rem[m] /\ q <= rem[taker] /\ (q = rem[m] \/ q = rem[taker])
  BY DEF Meets
<1>4. rem' = [rem EXCEPT ![m] = @ - q, ![taker] = @ - q]
  BY DEF Meets
<1>5. /\ rem'[m] = rem[m] - q /\ rem'[taker] = rem[taker] - q
      /\ \A x \in Orders \ {m, taker} : rem'[x] = rem[x]
  BY <1>1, <1>2, <1>4
<1>6. rem' \in [Orders -> Nat]
  BY <1>1, <1>2, <1>3, <1>4, <1>5
<1>7. rem'[m] = 0 \/ rem'[taker] = 0
  BY <1>2, <1>3, <1>5
<1>8. rem[m] - q <= 0 <=> rem'[m] = 0
  BY <1>2, <1>3, <1>5
<1>9. /\ status' = [status EXCEPT ![m] = IF rem'[m] = 0 THEN "FILLED" ELSE "PARTIALLY_FILLED"]
      /\ IF rem'[m] = 0 THEN RemoveFromBook(m) ELSE UNCHANGED <<levels, prices>>
  BY <1>8, Zenon DEF Meets
<1>10. /\ status' \in [Orders -> Status]
       /\ status'[m] = IF rem'[m] = 0 THEN "FILLED" ELSE "PARTIALLY_FILLED"
       /\ \A x \in Orders \ {m} : status'[x] = status[x]
  BY <1>1, <1>9 DEF Status, RestingStatus, TerminalStatus
<1>. QED
  BY <1>5, <1>6, <1>7, <1>9, <1>10

\* removePrice returns prices.
LEMMA RemovePriceType ==
    ASSUME NEW ps \in Seq(Prices), NEW p
    PROVE  RemovePrice(ps, p) \in Seq(Prices)
<1>. DEFINE at == {i \in DOMAIN ps : ps[i] = p}
<1>1. CASE at = {}
  BY <1>1 DEF RemovePrice
<1>2. CASE at # {}
  <2>1. Len(ps) \in Nat /\ at \in SUBSET (1..Len(ps))
    OBVIOUS
  <2>2. Min(at) \in 1..Len(ps)
    BY <1>2, <2>1, MinIs
  <2>3. RemovePrice(ps, p) = RemoveAt(ps, Min(at))
    BY <1>2 DEF RemovePrice
  <2>. HIDE DEF at
  <2>4. RemoveAt(ps, Min(at)) = SubSeq(ps, 1, Min(at) - 1) \o SubSeq(ps, Min(at) + 1, Len(ps))
    BY DEF RemoveAt
  <2>5. SubSeq(ps, 1, Min(at) - 1) \in Seq(Prices) /\ SubSeq(ps, Min(at) + 1, Len(ps)) \in Seq(Prices)
    <3>1. \A i \in 1..(Min(at) - 1) : ps[i] \in Prices
      BY <2>1, <2>2
    <3>2. \A i \in (Min(at) + 1)..Len(ps) : ps[i] \in Prices
      BY <2>1, <2>2
    <3>. QED
      BY <2>1, <2>2, <3>1, <3>2, SubSeqProperties
  <2>. QED
    BY <2>3, <2>4, <2>5, ConcatProperties
<1>. QED
  BY <1>1, <1>2

\* So does insertPriceSorted.
LEMMA InsertPriceType ==
    ASSUME NEW s, NEW ps \in Seq(Prices), NEW p \in Prices
    PROVE  InsertPriceSorted(s, ps, p) \in Seq(Prices)
<1>. DEFINE beaten == {i \in DOMAIN ps : Better(s, p, ps[i])}
<1>1. CASE beaten = {}
  BY <1>1 DEF InsertPriceSorted
<1>2. CASE beaten # {}
  <2>1. Len(ps) \in Nat /\ beaten \in SUBSET (1..Len(ps))
    OBVIOUS
  <2>2. Min(beaten) \in 1..Len(ps)
    BY <1>2, <2>1, MinIs
  <2>3. InsertPriceSorted(s, ps, p) = InsertAt(ps, Min(beaten), p)
    BY <1>2 DEF InsertPriceSorted
  <2>. HIDE DEF beaten
  <2>4. InsertAt(ps, Min(beaten), p) =
            SubSeq(ps, 1, Min(beaten) - 1) \o <<p>> \o SubSeq(ps, Min(beaten), Len(ps))
    BY DEF InsertAt
  <2>5. SubSeq(ps, 1, Min(beaten) - 1) \in Seq(Prices) /\ SubSeq(ps, Min(beaten), Len(ps)) \in Seq(Prices)
    <3>1. \A i \in 1..(Min(beaten) - 1) : ps[i] \in Prices
      BY <2>1, <2>2
    <3>2. \A i \in Min(beaten)..Len(ps) : ps[i] \in Prices
      BY <2>1, <2>2
    <3>. QED
      BY <2>1, <2>2, <3>1, <3>2, SubSeqProperties
  <2>. QED
    BY <2>3, <2>4, <2>5, ConcatProperties
<1>. QED
  BY <1>1, <1>2

----------------------------------------------------------------------------
(* The steps of the book. *)

\* A step that leaves the book and what rests in it alone, and starts an order at most.
LEMMA ShelfUntouched ==
    ASSUME ShelfInv, TypeOK', UNCHANGED levels,
           \A x \in Orders : status[x] \in RestingStatus =>
               /\ order'[x] = order[x] /\ rem'[x] = rem[x]
               /\ status'[x] = status[x] /\ createdAt'[x] = createdAt[x],
           clock <= clock',
           taker' # NoOrder =>
               /\ clock < clock' /\ createdAt'[taker'] = clock'
               /\ status'[taker'] = "PENDING" /\ ~GoesToContract(order'[taker'])
               /\ order'[taker'].type = "LIMIT" => order'[taker'].price \in Prices
    PROVE  ShelfInv'
<1>1. ASSUME NEW s \in Side, NEW p \in Prices, NEW i \in DOMAIN levels[s][p],
             NEW x, x = levels[s][p][i]
      PROVE  /\ x \in Orders /\ order'[x].side = s /\ order'[x].price = p /\ order'[x].type = "LIMIT"
             /\ status'[x] \in RestingStatus /\ rem'[x] > 0
             /\ createdAt'[x] = createdAt[x] /\ createdAt[x] <= clock
             /\ createdAt[x] \in Nat
  <2>1. x \in Orders /\ status[x] \in RestingStatus
    BY <1>1, InTheBook DEF ShelfInv
  <2>2. /\ order[x].side = s /\ order[x].price = p /\ order[x].type = "LIMIT" /\ rem[x] > 0
        /\ createdAt[x] <= clock
    BY <1>1 DEF ShelfInv, LevelsHoldTheirOrders, BookArrivedBefore
  <2>3. createdAt[x] \in Nat
    BY <2>1 DEF ShelfInv, TypeOK
  <2>. QED
    BY <2>1, <2>2, <2>3
<1>2. LevelsHoldTheirOrders'
  BY <1>1 DEF LevelsHoldTheirOrders
<1>3. LevelsAreFifo'
  <2>1. ASSUME NEW s \in Side, NEW p \in Prices, NEW i \in DOMAIN levels[s][p],
               NEW j \in DOMAIN levels[s][p], i < j
        PROVE  createdAt'[levels[s][p][i]] < createdAt'[levels[s][p][j]]
    <3>1. createdAt[levels[s][p][i]] < createdAt[levels[s][p][j]]
      BY <2>1 DEF ShelfInv, LevelsAreFifo
    <3>. QED
      BY <1>1, <3>1
  <2>. QED
    BY <2>1 DEF LevelsAreFifo
<1>4. BookArrivedBefore'
  <2>1. ASSUME NEW s \in Side, NEW p \in Prices, NEW i \in DOMAIN levels[s][p]
        PROVE  /\ createdAt'[levels[s][p][i]] <= clock'
               /\ taker' # NoOrder => createdAt'[levels[s][p][i]] < clock'
    <3>1. clock \in Nat /\ clock' \in Nat
      BY DEF ShelfInv, TypeOK
    <3>. QED
      BY <1>1, <3>1
  <2>. QED
    BY <2>1 DEF BookArrivedBefore
<1>. QED
  BY <1>2, <1>3, <1>4 DEF ShelfInv, ByContract

\* removeFromBook of a filled maker: the new levels are the old ones without it.
LEMMA Unshelved ==
    ASSUME ShelfInv, NEW s \in Side, NEW p \in Prices, NEW m \in Orders,
           levels[s][p] # << >>, m = levels[s][p][1], RemoveFromBook(m)
    PROVE  /\ levels' \in [Side -> [Prices -> Seq(Orders)]]
           /\ prices' \in [Side -> Seq(Prices)]
           /\ \A s2 \in Side, p2 \in Prices : \A i \in DOMAIN levels'[s2][p2] :
                  /\ levels'[s2][p2][i] \in Orders \ {m}
                  /\ i \in Nat
                  /\ LET k == IF s2 = s /\ p2 = p THEN i + 1 ELSE i
                     IN  k \in DOMAIN levels[s2][p2] /\ levels'[s2][p2][i] = levels[s2][p2][k]
<1>. DEFINE L == levels[s][p]
<1>1. /\ levels \in [Side -> [Prices -> Seq(Orders)]] /\ L \in Seq(Orders) /\ L # << >>
      /\ prices \in [Side -> Seq(Prices)]
  BY DEF ShelfInv, TypeOK
<1>2. order[m].side = s /\ order[m].price = p
  <2>1. 1 \in DOMAIN L
    BY <1>1
  <2>. QED
    BY <2>1 DEF ShelfInv, LevelsHoldTheirOrders
<1>3. levels' = [levels EXCEPT ![s][p] = Tail(L)]
  BY <1>2 DEF RemoveFromBook
<1>4. prices' \in [Side -> Seq(Prices)]
  <2>1. \/ prices' = prices
        \/ prices' = [prices EXCEPT ![s] = RemovePrice(prices[s], p)]
    BY <1>2 DEF RemoveFromBook
  <2>2. RemovePrice(prices[s], p) \in Seq(Prices)
    BY <1>1, RemovePriceType
  <2>. QED
    BY <1>1, <2>1, <2>2
<1>. HIDE DEF L
<1>5. /\ Tail(L) \in Seq(Orders) /\ Len(Tail(L)) = Len(L) - 1
      /\ \A i \in 1..Len(Tail(L)) : Tail(L)[i] = L[i + 1]
  BY <1>1, HeadTailProperties
<1>6. /\ DOMAIN L = 1..Len(L) /\ Len(L) \in Nat /\ Len(L) > 0
      /\ DOMAIN Tail(L) = 1..(Len(L) - 1)
  BY <1>1, <1>5
<1>7. /\ levels' \in [Side -> [Prices -> Seq(Orders)]]
      /\ levels'[s][p] = Tail(L)
      /\ \A s2 \in Side, p2 \in Prices :
            ~(s2 = s /\ p2 = p) => levels'[s2][p2] = levels[s2][p2]
  BY <1>1, <1>3, <1>5
<1>8. ASSUME NEW s2 \in Side, NEW p2 \in Prices, NEW i \in DOMAIN levels'[s2][p2]
      PROVE  /\ levels'[s2][p2][i] \in Orders \ {m}
             /\ i \in Nat
             /\ LET k == IF s2 = s /\ p2 = p THEN i + 1 ELSE i
                IN  k \in DOMAIN levels[s2][p2] /\ levels'[s2][p2][i] = levels[s2][p2][k]
  <2>1. CASE s2 = s /\ p2 = p
    <3>1. i \in 1..(Len(L) - 1)
      BY <1>6, <1>7, <2>1
    <3>2. i + 1 \in DOMAIN L /\ Tail(L)[i] = L[i + 1] /\ 1 \in DOMAIN L /\ 1 < i + 1 /\ i \in Nat
      BY <1>5, <1>6, <3>1
    <3>3. createdAt[L[1]] < createdAt[L[i + 1]] /\ L[1] = m
      BY <3>2 DEF ShelfInv, LevelsAreFifo, L
    <3>4. createdAt[m] \in Nat /\ L[i + 1] \in Orders
      BY <1>1, <3>2 DEF ShelfInv, TypeOK
    <3>5. L[i + 1] # m
      BY <3>3, <3>4
    <3>. QED
      BY <1>7, <2>1, <3>2, <3>4, <3>5 DEF L
  <2>2. CASE ~(s2 = s /\ p2 = p)
    <3>1. i \in DOMAIN levels[s2][p2] /\ levels'[s2][p2][i] = levels[s2][p2][i]
      BY <1>7, <2>2
    <3>2. /\ levels[s2][p2][i] \in Orders
          /\ order[levels[s2][p2][i]].side = s2 /\ order[levels[s2][p2][i]].price = p2
      BY <3>1, InTheBook DEF ShelfInv, LevelsHoldTheirOrders
    <3>3. levels[s2][p2] \in Seq(Orders)
      BY <1>1
    <3>4. i \in Nat
      BY <3>1, <3>3
    <3>. QED
      BY <1>2, <2>2, <3>1, <3>2, <3>4
  <2>. QED
    BY <2>1, <2>2
<1>. QED
  BY <1>4, <1>7, <1>8, Zenon

\* matchOne.
LEMMA ShelfMatch ==
    ASSUME ShelfInv, MatchOne
    PROVE  ShelfInv'
<1>1. PICK s, p, m, q, tr : Heads(s, p, m) /\ Meets(s, p, m, q, tr)
  BY RoundMeets
<1>2. /\ taker \in Orders /\ status[taker] = "PENDING" /\ taker # NoOrder
      /\ s \in Side /\ p \in Prices /\ m \in Orders \ {taker}
      /\ levels[s][p] \in Seq(Orders) /\ levels[s][p] # << >> /\ m = levels[s][p][1]
      /\ order[m].side = s /\ order[m].price = p /\ order[m].type = "LIMIT"
  BY <1>1, HeadRests DEF MatchOne
<1>3. /\ rem' \in [Orders -> Nat] /\ status' \in [Orders -> Status]
      /\ \A x \in Orders \ {m, taker} : rem'[x] = rem[x]
      /\ status'[m] = IF rem'[m] = 0 THEN "FILLED" ELSE "PARTIALLY_FILLED"
      /\ \A x \in Orders \ {m} : status'[x] = status[x]
      /\ IF rem'[m] = 0 THEN RemoveFromBook(m) ELSE UNCHANGED <<levels, prices>>
  BY <1>1, MeetsRem
<1>4. order' = order /\ createdAt' = createdAt /\ clock' = clock /\ taker' = taker
  BY DEF MatchOne
<1>5. trades' \in Seq(Trade)
  BY <1>1 DEF Meets, ShelfInv, TypeOK
<1>6. /\ levels' \in [Side -> [Prices -> Seq(Orders)]]
      /\ prices' \in [Side -> Seq(Prices)]
      /\ \A s2 \in Side, p2 \in Prices : \A i \in DOMAIN levels'[s2][p2] :
             /\ rem'[m] = 0 => levels'[s2][p2][i] \in Orders \ {m}
             /\ i \in Nat
             /\ LET k == IF rem'[m] = 0 /\ s2 = s /\ p2 = p THEN i + 1 ELSE i
                IN  k \in DOMAIN levels[s2][p2] /\ levels'[s2][p2][i] = levels[s2][p2][k]
  <2>1. CASE rem'[m] = 0
    <3>1. RemoveFromBook(m)
      BY <1>3, <2>1
    <3>. QED
      BY <1>2, <2>1, <3>1, Unshelved
  <2>2. CASE rem'[m] # 0
    <3>1. levels' = levels /\ prices' = prices
      BY <1>3, <2>2
    <3>2. levels \in [Side -> [Prices -> Seq(Orders)]] /\ prices \in [Side -> Seq(Prices)]
      BY DEF ShelfInv, TypeOK
    <3>. QED
      BY <2>2, <3>1, <3>2
  <2>. QED
    BY <2>1, <2>2
<1>7. TypeOK'
  BY <1>3, <1>4, <1>5, <1>6 DEF ShelfInv, TypeOK
<1>8. ASSUME NEW s2 \in Side, NEW p2 \in Prices, NEW i \in DOMAIN levels'[s2][p2],
             NEW x, x = levels'[s2][p2][i]
      PROVE  /\ x \in Orders /\ order[x].side = s2 /\ order[x].price = p2 /\ order[x].type = "LIMIT"
             /\ status'[x] \in RestingStatus /\ rem'[x] > 0
             /\ createdAt[x] <= clock /\ createdAt[x] < clock
  <2>. DEFINE k == IF rem'[m] = 0 /\ s2 = s /\ p2 = p THEN i + 1 ELSE i
  <2>0. /\ rem'[m] = 0 => levels'[s2][p2][i] \in Orders \ {m}
        /\ k \in DOMAIN levels[s2][p2] /\ levels'[s2][p2][i] = levels[s2][p2][k]
    BY <1>6
  <2>. HIDE DEF k
  <2>1. k \in DOMAIN levels[s2][p2] /\ x = levels[s2][p2][k]
    BY <1>8, <2>0
  <2>2. x \in Orders /\ status[x] \in RestingStatus /\ x # taker
    BY <1>2, <2>1, InTheBook DEF ShelfInv
  <2>3. /\ order[x].side = s2 /\ order[x].price = p2 /\ order[x].type = "LIMIT" /\ rem[x] > 0
        /\ createdAt[x] <= clock /\ createdAt[x] < clock
    <3>1. BookArrivedBefore /\ LevelsHoldTheirOrders
      BY DEF ShelfInv
    <3>2. createdAt[x] <= clock /\ createdAt[x] < clock
      BY <1>2, <2>1, <3>1 DEF BookArrivedBefore
    <3>. QED
      BY <1>2, <2>1, <3>1, <3>2 DEF LevelsHoldTheirOrders
  <2>4. CASE x = m
    <3>1. rem'[m] # 0 /\ rem'[m] \in Nat
      BY <1>2, <1>3, <1>8, <2>0, <2>4
    <3>2. rem'[x] > 0 /\ status'[x] = "PARTIALLY_FILLED"
      BY <1>3, <2>4, <3>1
    <3>. QED
      BY <2>2, <2>3, <3>2 DEF RestingStatus
  <2>5. CASE x # m
    BY <1>3, <2>2, <2>3, <2>5
  <2>. QED
    BY <2>4, <2>5
<1>9. LevelsHoldTheirOrders'
  BY <1>4, <1>8 DEF LevelsHoldTheirOrders
<1>10. BookArrivedBefore'
  BY <1>4, <1>8 DEF BookArrivedBefore
<1>11. LevelsAreFifo'
  <2>1. ASSUME NEW s2 \in Side, NEW p2 \in Prices,
               NEW i \in DOMAIN levels'[s2][p2], NEW j \in DOMAIN levels'[s2][p2], i < j
        PROVE  createdAt[levels'[s2][p2][i]] < createdAt[levels'[s2][p2][j]]
    <3>. DEFINE K(n) == IF rem'[m] = 0 /\ s2 = s /\ p2 = p THEN n + 1 ELSE n
    <3>1. /\ i \in Nat /\ K(i) \in DOMAIN levels[s2][p2] /\ levels'[s2][p2][i] = levels[s2][p2][K(i)]
          /\ j \in Nat /\ K(j) \in DOMAIN levels[s2][p2] /\ levels'[s2][p2][j] = levels[s2][p2][K(j)]
      BY <1>6
    <3>2. K(i) < K(j)
      BY <2>1, <3>1
    <3>. HIDE DEF K
    <3>3. createdAt[levels[s2][p2][K(i)]] < createdAt[levels[s2][p2][K(j)]]
      BY <3>1, <3>2 DEF ShelfInv, LevelsAreFifo
    <3>. QED
      BY <3>1, <3>3
  <2>. QED
    BY <1>4, <2>1 DEF LevelsAreFifo
<1>12. (taker # NoOrder =>
          /\ status[taker] = "PENDING" /\ ~ByContract(taker)
          /\ createdAt[taker] = clock
          /\ order[taker].type = "LIMIT" => order[taker].price \in Prices)'
  BY <1>2, <1>3, <1>4 DEF ShelfInv, ByContract
<1>. QED
  BY <1>7, <1>9, <1>10, <1>11, <1>12 DEF ShelfInv

\* The remainder of a LIMIT order goes to the book.
LEMMA ShelfRest ==
    ASSUME ShelfInv, Rest
    PROVE  ShelfInv'
<1>1. PICK s \in Side, p \in Prices :
         /\ order[taker].side = s /\ order[taker].price = p /\ order[taker].type = "LIMIT"
         /\ taker \in Orders /\ taker # NoOrder /\ status[taker] = "PENDING"
         /\ createdAt[taker] = clock /\ rem[taker] > 0
  <2>1. order[taker].side \in Side /\ order[taker].price \in Prices
    BY DEF Rest, LoopDone, ShelfInv, TypeOK, OrderInput
  <2>2. /\ order[taker].type = "LIMIT"
        /\ taker \in Orders /\ taker # NoOrder /\ status[taker] = "PENDING"
        /\ createdAt[taker] = clock /\ rem[taker] > 0
    BY DEF Rest, LoopDone, ShelfInv, TypeOK
  <2>. QED
    BY <2>1, <2>2
<1>. DEFINE L == levels[s][p]
            n == Len(L) + 1
<1>2. /\ levels' = [levels EXCEPT ![s][p] = Append(L, taker)]
      /\ order' = order /\ rem' = rem /\ createdAt' = createdAt /\ clock' = clock
      /\ trades' = trades /\ taker' = NoOrder
      /\ status' = [status EXCEPT ![taker] = RestStatus(taker)]
      /\ RestStatus(taker) \in RestingStatus
  BY <1>1 DEF Rest, Return, AddToBook, PushLevel, RestStatus, RestingStatus
<1>3. /\ levels \in [Side -> [Prices -> Seq(Orders)]]
      /\ prices \in [Side -> Seq(Prices)]
      /\ L \in Seq(Orders)
      /\ createdAt \in [Orders -> Nat] /\ clock \in Nat /\ status \in [Orders -> Status]
  BY <1>1 DEF ShelfInv, TypeOK
<1>4. /\ levels'[s][p] = Append(L, taker)
      /\ \A s2 \in Side, p2 \in Prices :
             ~(s2 = s /\ p2 = p) => levels'[s2][p2] = levels[s2][p2]
      /\ levels' \in [Side -> [Prices -> Seq(Orders)]]
  BY <1>1, <1>2, <1>3
<1>5. /\ status'[taker] \in RestingStatus
      /\ \A x \in Orders \ {taker} : status'[x] = status[x]
      /\ status' \in [Orders -> Status]
  BY <1>1, <1>2, <1>3 DEF Status
<1>6. ASSUME NEW s2 \in Side, NEW p2 \in Prices, NEW i \in DOMAIN levels[s2][p2]
      PROVE  levels[s2][p2][i] \in Orders \ {taker} /\ status[levels[s2][p2][i]] \in RestingStatus
  BY <1>1, InTheBook DEF ShelfInv
<1>7. /\ DOMAIN levels'[s][p] = 1..n /\ DOMAIN L = 1..(n - 1) /\ n \in Nat \ {0}
      /\ levels'[s][p][n] = taker
      /\ \A i \in 1..(n - 1) : levels'[s][p][i] = L[i]
  <2>1. Len(L) \in Nat /\ DOMAIN L = 1..Len(L)
    BY <1>3
  <2>. L \in Seq(Orders) /\ taker \in Orders
    BY <1>1, <1>3
  <2>. HIDE DEF L
  <2>2. /\ Append(L, taker) \in Seq(Orders) /\ Len(Append(L, taker)) = Len(L) + 1
        /\ Append(L, taker) # << >>
        /\ \A i \in 1..Len(L) : Append(L, taker)[i] = L[i]
        /\ Append(L, taker)[Len(L) + 1] = taker
    BY Appended
  <2>3. DOMAIN Append(L, taker) = 1..(Len(L) + 1) /\ Len(L) + 1 - 1 = Len(L)
    BY <2>1, <2>2
  <2>. QED
    BY <1>4, <2>1, <2>2, <2>3
<1>. HIDE DEF L, n
<1>8. ASSUME NEW s2 \in Side, NEW p2 \in Prices, NEW i \in DOMAIN levels'[s2][p2]
      PROVE  \/ i \in DOMAIN levels[s2][p2] /\ levels'[s2][p2][i] = levels[s2][p2][i]
             \/ s2 = s /\ p2 = p /\ i = n /\ levels'[s2][p2][i] = taker
  <2>1. CASE s2 = s /\ p2 = p
    <3>1. i \in 1..n
      BY <1>7, <2>1
    <3>2. i = n \/ i \in 1..(n - 1)
      BY <1>7, <3>1
    <3>. QED
      BY <1>7, <2>1, <3>2 DEF L
  <2>2. CASE ~(s2 = s /\ p2 = p)
    BY <1>4, <2>2
  <2>. QED
    BY <2>1, <2>2
<1>9. prices' \in [Side -> Seq(Prices)]
  <2>1. \/ prices' = prices
        \/ prices' = [prices EXCEPT ![s] = InsertPriceSorted(s, prices[s], p)]
    BY <1>1, <1>3 DEF Rest, AddToBook
  <2>2. InsertPriceSorted(s, prices[s], p) \in Seq(Prices)
    BY <1>3, InsertPriceType
  <2>. QED
    BY <1>3, <2>1, <2>2
<1>10. TypeOK'
  BY <1>2, <1>4, <1>5, <1>9 DEF ShelfInv, TypeOK
<1>11. ASSUME NEW s2 \in Side, NEW p2 \in Prices, NEW i \in DOMAIN levels'[s2][p2],
              NEW x, x = levels'[s2][p2][i]
       PROVE  /\ x \in Orders /\ order[x].side = s2 /\ order[x].price = p2 /\ order[x].type = "LIMIT"
              /\ status'[x] \in RestingStatus /\ rem[x] > 0
              /\ createdAt[x] <= clock
  <2>1. CASE i \in DOMAIN levels[s2][p2] /\ x = levels[s2][p2][i]
    <3>1. x \in Orders \ {taker} /\ status[x] \in RestingStatus
      BY <1>6, <2>1
    <3>2. /\ order[x].side = s2 /\ order[x].price = p2 /\ order[x].type = "LIMIT" /\ rem[x] > 0
          /\ createdAt[x] <= clock
      BY <2>1 DEF ShelfInv, LevelsHoldTheirOrders, BookArrivedBefore
    <3>. QED
      BY <1>5, <3>1, <3>2
  <2>2. CASE s2 = s /\ p2 = p /\ x = taker
    BY <1>1, <1>3, <1>5, <2>2
  <2>. QED
    BY <1>8, <1>11, <2>1, <2>2
<1>12. LevelsHoldTheirOrders'
  BY <1>2, <1>11 DEF LevelsHoldTheirOrders
<1>13. BookArrivedBefore'
  BY <1>2, <1>11 DEF BookArrivedBefore
<1>14. LevelsAreFifo'
  <2>1. ASSUME NEW s2 \in Side, NEW p2 \in Prices,
               NEW i \in DOMAIN levels'[s2][p2], NEW j \in DOMAIN levels'[s2][p2], i < j
        PROVE  createdAt[levels'[s2][p2][i]] < createdAt[levels'[s2][p2][j]]
    <3>1. CASE i \in DOMAIN levels[s2][p2] /\ j \in DOMAIN levels[s2][p2]
      <4>1. /\ levels'[s2][p2][i] = levels[s2][p2][i]
            /\ levels'[s2][p2][j] = levels[s2][p2][j]
        BY <1>7, <1>8, <3>1 DEF L
      <4>. QED
        BY <2>1, <3>1, <4>1 DEF ShelfInv, LevelsAreFifo
    <3>2. CASE s2 = s /\ p2 = p /\ j = n
      <4>1. i \in 1..(n - 1)
        BY <1>7, <2>1, <3>2
      <4>2. createdAt[L[i]] < clock
        BY <1>1, <1>7, <4>1 DEF ShelfInv, BookArrivedBefore, L
      <4>. QED
        BY <1>1, <1>7, <3>2, <4>1, <4>2
    <3>3. CASE s2 = s /\ p2 = p /\ i = n
      <4>1. j \in 1..n /\ n \in Nat
        BY <1>7, <3>3
      <4>. QED
        BY <2>1, <3>3, <4>1
    <3>. QED
      BY <1>8, <3>1, <3>2, <3>3
  <2>. QED
    BY <1>2, <2>1 DEF LevelsAreFifo
<1>. QED
  BY <1>2, <1>10, <1>12, <1>13, <1>14 DEF ShelfInv

----------------------------------------------------------------------------
(* Sums of quantities and of costs, as sums of the values of a function. *)

\* g gives the quantities of the subsets of S, or their costs.
IsQtys(g, S) == g = [s \in SUBSET S |-> IF s = {} THEN 0 ELSE First(s).qty + g[s \ {First(s)}]]
IsCosts(g, S) ==
    g = [s \in SUBSET S |-> IF s = {} THEN 0
                            ELSE First(s).price * First(s).qty + g[s \ {First(s)}]]

\* What MapThenSumSet computes.
LEMMA QtySumIs ==
    ASSUME NEW S
    PROVE  QtySum(S) = (CHOOSE a : IsQtys(a, S))[S]
BY Zenon DEF QtySum, MapThenSumSet, MapThenFoldSet, IsQtys, First

\* The same of the costs.
LEMMA CostSumIs ==
    ASSUME NEW S
    PROVE  CostSum(S) = (CHOOSE a : IsCosts(a, S))[S]
BY Zenon DEF CostSum, MapThenSumSet, MapThenFoldSet, IsCosts, First

Qtys(S) == [t \in S |-> t.qty]
Costs(S) == [t \in S |-> t.price * t.qty]

\* The element that the sum takes first.
LEMMA FirstIn ==
    ASSUME NEW S, NEW s \in SUBSET S, s # {}
    PROVE  First(s) \in S
BY DEF First

\* Its table is that of the sums of a function.
LEMMA QtysAre ==
    ASSUME NEW S, NEW g
    PROVE  IsQtys(g, S) <=> IsSums(g, Qtys(S), S)
<1>1. \A s \in SUBSET S : (IF s = {} THEN 0 ELSE First(s).qty + g[s \ {First(s)}])
                        = (IF s = {} THEN 0 ELSE Qtys(S)[First(s)] + g[s \ {First(s)}])
  <2>1. ASSUME NEW s \in SUBSET S, s # {} PROVE First(s).qty = Qtys(S)[First(s)]
    BY <2>1, FirstIn DEF Qtys
  <2>. QED
    BY <2>1
<1>2. [s \in SUBSET S |-> IF s = {} THEN 0 ELSE First(s).qty + g[s \ {First(s)}]]
    = [s \in SUBSET S |-> IF s = {} THEN 0 ELSE Qtys(S)[First(s)] + g[s \ {First(s)}]]
  BY <1>1, Zenon
<1>. QED
  BY <1>2, Zenon DEF IsQtys, IsSums

\* So is that of the costs.
LEMMA CostsAre ==
    ASSUME NEW S, NEW g
    PROVE  IsCosts(g, S) <=> IsSums(g, Costs(S), S)
<1>1. \A s \in SUBSET S :
          (IF s = {} THEN 0 ELSE First(s).price * First(s).qty + g[s \ {First(s)}])
        = (IF s = {} THEN 0 ELSE Costs(S)[First(s)] + g[s \ {First(s)}])
  <2>1. ASSUME NEW s \in SUBSET S, s # {} PROVE First(s).price * First(s).qty = Costs(S)[First(s)]
    BY <2>1, FirstIn, Zenon DEF Costs
  <2>. QED
    BY <2>1, Zenon
<1>2. [s \in SUBSET S |-> IF s = {} THEN 0 ELSE First(s).price * First(s).qty + g[s \ {First(s)}]]
    = [s \in SUBSET S |-> IF s = {} THEN 0 ELSE Costs(S)[First(s)] + g[s \ {First(s)}]]
  BY <1>1, Zenon
<1>. QED
  BY <1>2, Zenon DEF IsCosts, IsSums

\* The quantities of a set add up as the values of a function do.
LEMMA QtySumOver ==
    ASSUME NEW S, IsFiniteSet(S)
    PROVE  QtySum(S) = SumOver(Qtys(S), S)
<1>1. PICK g, h : g = (CHOOSE a : IsQtys(a, S)) /\ h = (CHOOSE a : IsSums(a, Qtys(S), S))
  OBVIOUS
<1>2. IsSums(h, Qtys(S), S)
  BY <1>1, SumsExist, Zenon
<1>3. IsQtys(g, S)
  BY <1>1, <1>2, QtysAre, Zenon
<1>4. IsSums(g, Qtys(S), S)
  BY <1>3, QtysAre, Zenon
<1>5. \A s \in SUBSET S : (s \in SUBSET S /\ \A x \in s : Qtys(S)[x] = Qtys(S)[x]) => g[s] = h[s]
  BY <1>2, <1>4, SumsAgree
<1>6. g[S] = h[S]
  BY <1>5
<1>. QED
  BY <1>1, <1>6, QtySumIs, SumIs, Zenon

\* So do their costs.
LEMMA CostSumOver ==
    ASSUME NEW S, IsFiniteSet(S)
    PROVE  CostSum(S) = SumOver(Costs(S), S)
<1>1. PICK g, h : g = (CHOOSE a : IsCosts(a, S)) /\ h = (CHOOSE a : IsSums(a, Costs(S), S))
  OBVIOUS
<1>2. IsSums(h, Costs(S), S)
  BY <1>1, SumsExist, Zenon
<1>3. IsCosts(g, S)
  BY <1>1, <1>2, CostsAre, Zenon
<1>4. IsSums(g, Costs(S), S)
  BY <1>3, CostsAre, Zenon
<1>5. \A s \in SUBSET S : (s \in SUBSET S /\ \A x \in s : Costs(S)[x] = Costs(S)[x]) => g[s] = h[s]
  BY <1>2, <1>4, SumsAgree
<1>6. g[S] = h[S]
  BY <1>5
<1>. QED
  BY <1>1, <1>6, CostSumIs, SumIs, Zenon

\* Nothing has no quantity and no cost.
LEMMA NoSums == QtySum({}) = 0 /\ CostSum({}) = 0
BY QtySumOver, CostSumOver, SumEmpty, FS_EmptySet, Zenon

\* One trade more.
LEMMA QtySumAdds ==
    ASSUME NEW S, IsFiniteSet(S), NEW t, t \notin S, \A x \in S \union {t} : x.qty \in Nat
    PROVE  QtySum(S \union {t}) = QtySum(S) + t.qty /\ QtySum(S) \in Nat
<1>1. PICK R : R = S \union {t}
  OBVIOUS
<1>2. IsFiniteSet(R)
  BY <1>1, FS_AddElement
<1>3. \A x \in S \union {t} : Qtys(R)[x] \in Nat
  BY <1>1 DEF Qtys
<1>4. SumOver(Qtys(R), S \union {t}) = SumOver(Qtys(R), S) + Qtys(R)[t]
  BY <1>3, SumAdds
<1>5. SumOver(Qtys(R), S) \in Nat
  BY <1>3, SumTakes
<1>6. \A x \in S : Qtys(R)[x] = Qtys(S)[x]
  BY <1>1 DEF Qtys
<1>7. SumOver(Qtys(R), S) = SumOver(Qtys(S), S)
  BY <1>6, SumSame
<1>8. Qtys(R)[t] = t.qty
  BY <1>1 DEF Qtys
<1>. QED
  BY <1>1, <1>2, <1>4, <1>5, <1>7, <1>8, QtySumOver

\* Its cost.
LEMMA CostSumAdds ==
    ASSUME NEW S, IsFiniteSet(S), NEW t, t \notin S,
           \A x \in S \union {t} : x.price * x.qty \in Nat
    PROVE  CostSum(S \union {t}) = CostSum(S) + t.price * t.qty /\ CostSum(S) \in Nat
<1>1. PICK R : R = S \union {t}
  OBVIOUS
<1>2. IsFiniteSet(R)
  BY <1>1, FS_AddElement
<1>3. \A x \in S \union {t} : Costs(R)[x] \in Nat
  <2>1. ASSUME NEW x \in S \union {t} PROVE Costs(R)[x] \in Nat
    <3>1. Costs(R)[x] = x.price * x.qty
      BY <1>1, Zenon DEF Costs
    <3>. QED
      BY <3>1
  <2>. QED
    BY <2>1
<1>4. SumOver(Costs(R), S \union {t}) = SumOver(Costs(R), S) + Costs(R)[t]
  BY <1>3, SumAdds
<1>5. SumOver(Costs(R), S) \in Nat
  BY <1>3, SumTakes
<1>6. \A x \in S : Costs(R)[x] = Costs(S)[x]
  <2>1. ASSUME NEW x \in S PROVE Costs(R)[x] = Costs(S)[x]
    <3>1. x \in R
      BY <1>1
    <3>. QED
      BY <3>1, Zenon DEF Costs
  <2>. QED
    BY <2>1
<1>7. SumOver(Costs(R), S) = SumOver(Costs(S), S)
  BY <1>6, SumSame
<1>8. Costs(R)[t] = t.price * t.qty
  BY <1>1, Zenon DEF Costs
<1>. QED
  BY <1>1, <1>2, <1>4, <1>5, <1>7, <1>8, CostSumOver, Zenon

\* A sum is a number, and at least what one of its trades or two of them have.
LEMMA QtySumCovers ==
    ASSUME NEW S, IsFiniteSet(S), \A x \in S : x.qty \in Nat
    PROVE  /\ QtySum(S) \in Nat
           /\ \A x \in S : x.qty <= QtySum(S)
           /\ \A x, y \in S : x # y => x.qty + y.qty <= QtySum(S)
<1>1. \A x \in S : Qtys(S)[x] = x.qty /\ Qtys(S)[x] \in Nat
  BY DEF Qtys
<1>2. SumOver(Qtys(S), S) \in Nat
  BY <1>1, SumTakes
<1>3. /\ \A x \in S : Qtys(S)[x] <= SumOver(Qtys(S), S)
      /\ \A x, y \in S : x # y => Qtys(S)[x] + Qtys(S)[y] <= SumOver(Qtys(S), S)
  BY <1>1, SumCovers
<1>. QED
  BY <1>1, <1>2, <1>3, QtySumOver

----------------------------------------------------------------------------
(* The fills of the book, through the engine's and the route's steps. *)

\* The trades of the book as a set.
LEMMA BookTrade ==
    ASSUME TypeOK
    PROVE  /\ IsFiniteSet(ToSet(trades)) /\ ToSet(trades) \in SUBSET Trade
           /\ \A o : IsFiniteSet(TradesWith(o)) /\ TradesWith(o) \in SUBSET ToSet(trades)
           /\ \A t \in ToSet(trades) : t.maker \in Orders /\ t.taker \in Orders /\ t.qty \in Nat
           /\ \A t \in ToSet(trades) : \E i \in DOMAIN trades : t = trades[i]
           /\ \A i \in DOMAIN trades : trades[i] \in ToSet(trades)
<1>1. trades \in Seq(Trade)
  BY DEF TypeOK
<1>2. /\ \A t \in ToSet(trades) : \E i \in DOMAIN trades : t = trades[i]
      /\ \A i \in DOMAIN trades : trades[i] \in ToSet(trades)
      /\ ToSet(trades) \in SUBSET Trade
  BY <1>1 DEF ToSet
<1>3. IsFiniteSet(ToSet(trades))
  BY <1>1, SeqIsFinite
<1>4. \A o : IsFiniteSet(TradesWith(o)) /\ TradesWith(o) \in SUBSET ToSet(trades)
  BY <1>3, FS_Subset DEF TradesWith
<1>5. \A t \in Trade : t.maker \in Orders /\ t.taker \in Orders /\ t.qty \in Nat
  BY DEF Trade
<1>. QED
  BY <1>2, <1>3, <1>4, <1>5

\* What a trade says of its parties, when nothing happens to them that matters.
LEMMA TradeStays ==
    ASSUME TypeOK, NEW t, TradeOK(t),
           order'[t.maker] = order[t.maker], order'[t.taker] = order[t.taker],
           status'[t.maker] = status[t.maker], status'[t.taker] \notin {"NEW", "REJECTED"},
           rem'[t.maker] = rem[t.maker], rem'[t.taker] = rem[t.taker]
    PROVE  TradeOK(t)'
BY DEF TradeOK, Accepted, ByContract

\* The order z is all that is touched, and it made no trade of the book.
Touches(z) ==
    /\ trades' = trades
    /\ \A x \in Orders \ {z} :
          /\ order'[x] = order[x] /\ rem'[x] = rem[x] /\ status'[x] = status[x]
          /\ platformFilled'[x] = platformFilled[x]
          /\ x \in routing' => x \in routing
          /\ x \in direct' <=> x \in direct
    /\ \A t \in ToSet(trades) :
          /\ t.maker # z
          /\ t.taker = z => /\ order'[z] = order[z] /\ rem'[z] = rem[z]
                            /\ status'[z] \notin {"NEW", "REJECTED"}
    /\ taker \in {z, NoOrder}
    /\ taker' \in {z, NoOrder}
    /\ taker' = z => \A t \in ToSet(trades) : t.taker # z

\* The invariant of the fills has to be shown of that order only.
LEMMA FillsTouch ==
    ASSUME BooksInv, NEW z \in Orders, Touches(z),
           StatusOK(z)', PlatformOK(z)',
           Accepted(z)' => QtySum(TradesWith(z)) = order'[z].qty - rem'[z]
    PROVE  FillsInv'
<1>. USE DEF BooksInv
<1>0. TypeOK /\ NoOrder \notin Orders
  BY NoOrderAssumption DEF ShelfInv
<1>1. TakerTradesLast'
  <2>1. trades \in Seq(Trade)
    BY <1>0 DEF TypeOK
  <2>2. taker' = NoOrder \/ \A i \in 1..Len(trades) : trades[i].taker # taker'
    BY <1>0, <2>1, BookTrade DEF Touches
  <2>. QED
    BY <2>2 DEF TakerTradesLast, Touches
<1>2. ASSUME NEW i \in DOMAIN trades PROVE TradeOK(trades[i])'
  <2>1. PICK t : t = trades[i]
    OBVIOUS
  <2>2. TradeOK(t) /\ t \in ToSet(trades) /\ t.maker \in Orders /\ t.taker \in Orders
    BY <1>0, <2>1, BookTrade DEF FillsInv
  <2>3. order'[t.maker] = order[t.maker] /\ status'[t.maker] = status[t.maker] /\ rem'[t.maker] = rem[t.maker]
    BY <2>2 DEF Touches
  <2>4. order'[t.taker] = order[t.taker] /\ rem'[t.taker] = rem[t.taker]
    BY <2>2 DEF Touches
  <2>5. status'[t.taker] \notin {"NEW", "REJECTED"}
    BY <2>2 DEF Touches, TradeOK, Accepted
  <2>6. TradeOK(t)'
    BY <1>0, <2>2, <2>3, <2>4, <2>5, TradeStays
  <2>. QED
    BY <2>1, <2>6 DEF TradeOK, Accepted, ByContract, Touches
<1>3. ASSUME NEW x \in Orders PROVE StatusOK(x)' /\ PlatformOK(x)'
  <2>1. CASE x = z
    BY <2>1
  <2>2. CASE x # z
    <3>1. /\ order'[x] = order[x] /\ rem'[x] = rem[x] /\ status'[x] = status[x]
          /\ platformFilled'[x] = platformFilled[x]
          /\ x \in routing' => x \in routing
          /\ x \in direct' <=> x \in direct
          /\ x # taker /\ x # taker'
      BY <1>0, <2>2 DEF Touches
    <3>2. StatusOK(x) /\ PlatformOK(x)
      BY DEF FillsInv
    <3>3. StatusOK(x)'
      BY <3>1, <3>2 DEF StatusOK, Accepted, ByContract
    <3>4. PlatformOK(x)'
      BY <3>1, <3>2 DEF PlatformOK, Accepted, ByContract
    <3>. QED
      BY <3>3, <3>4
  <2>. QED
    BY <2>1, <2>2
<1>4. ASSUME NEW x \in Orders, Accepted(x)' PROVE QtySum(TradesWith(x))' = order'[x].qty - rem'[x]
  <2>1. TradesWith(x)' = TradesWith(x)
    BY DEF TradesWith, Touches
  <2>2. QtySum(TradesWith(x)) = order'[x].qty - rem'[x]
    <3>1. CASE x = z
      BY <1>4, <3>1
    <3>2. CASE x # z
      <4>1. order'[x] = order[x] /\ rem'[x] = rem[x] /\ status'[x] = status[x]
        BY <3>2 DEF Touches
      <4>2. Accepted(x)
        BY <1>4, <4>1 DEF Accepted, ByContract
      <4>. QED
        BY <4>1, <4>2 DEF FillsInv
    <3>. QED
      BY <3>1, <3>2
  <2>. QED
    BY <2>1, <2>2
<1>5. IsFiniteSet(Recorded)'
  <2>1. PICK R : R = Recorded \union {z}
    OBVIOUS
  <2>2. IsFiniteSet(R)
    BY <2>1, FS_AddElement DEF FillsInv
  <2>3. Recorded' \in SUBSET R
    BY <2>1 DEF Recorded, Touches
  <2>4. IsFiniteSet(Recorded')
    BY <2>2, <2>3, FS_Subset, Zenon
  <2>. QED
    BY <2>4
<1>. QED
  BY <1>1, <1>2, <1>3, <1>4, <1>5 DEF FillsInv, Touches

\* No trade of the book names an order that is not Accepted.
LEMMA TradersAccepted ==
    ASSUME BooksInv, NEW z, ~Accepted(z)
    PROVE  \A t \in ToSet(trades) : t.maker # z /\ t.taker # z
<1>1. TypeOK
  BY DEF BooksInv, ShelfInv
<1>. QED
  BY <1>1, BookTrade DEF BooksInv, FillsInv, TradeOK

\* The types of what a new order brings.
LEMMA NewOrder ==
    ASSUME BooksInv, NEW o \in Orders, status[o] = "NEW"
    PROVE  /\ ~Accepted(o) /\ ~ByContract(o) /\ o \notin direct /\ o \notin routing
           /\ platformFilled[o] = 0 /\ o \notin Recorded
           /\ TradesWith(o) = {} /\ QtySum(TradesWith(o)) = 0
           /\ \A t \in ToSet(trades) : t.maker # o /\ t.taker # o
<1>1. StatusOK(o) /\ PlatformOK(o)
  BY DEF BooksInv, FillsInv
<1>2. ~Accepted(o) /\ ~ByContract(o)
  BY <1>1 DEF Accepted, StatusOK, ByContract, GoesToContract, NoInput
<1>3. o \notin direct /\ o \notin routing
  BY <1>1, <1>2 DEF StatusOK
<1>4. platformFilled[o] = 0
  BY <1>1, <1>2 DEF PlatformOK
<1>5. \A t \in ToSet(trades) : t.maker # o /\ t.taker # o
  BY <1>2, TradersAccepted
<1>6. TradesWith(o) = {}
  BY <1>5 DEF TradesWith
<1>7. QtySum(TradesWith(o)) = 0
  BY <1>6, NoSums
<1>. QED
  BY <1>2, <1>3, <1>4, <1>5, <1>6, <1>7 DEF Recorded

\* An order is placed.
LEMMA BooksPlace ==
    ASSUME BooksInv, NEW o \in Orders, NEW in \in Inputs, Place(o, in)
    PROVE  BooksInv'
<1>. DEFINE price == IF Refused(in) THEN 0 ELSE PriceOf(in)
            st == IF Refused(in) THEN "REJECTED" ELSE "PENDING"
            n == IF Refused(in) THEN 0 ELSE in.qty
<1>0. TypeOK /\ in \in OrderInput /\ o # NoOrder
  BY InputsAssumption, NoOrderAssumption DEF BooksInv, ShelfInv
<1>1. /\ taker = NoOrder /\ status[o] = "NEW"
      /\ order' = [order EXCEPT ![o] = [in EXCEPT !.price = price]]
      /\ clock' = clock + 1
      /\ createdAt' = [createdAt EXCEPT ![o] = clock + 1]
      /\ levels' = levels /\ prices' = prices /\ trades' = trades
      /\ rem' = [rem EXCEPT ![o] = n]
      /\ status' = [status EXCEPT ![o] = st]
      /\ taker' = IF Refused(in) THEN NoOrder ELSE o
      /\ platformFilled' = platformFilled /\ routing' = routing /\ direct' = direct
      /\ ~GoesToContract(in)
  BY DEF Place, Accept, Refuse, Arrive, routeVars
<1>2. price \in Int /\ n \in Nat /\ st \in Status
  <2>1. in.qty \in Int /\ in.price \in Int
    BY <1>0 DEF OrderInput
  <2>. QED
    BY <2>1 DEF Refused, PriceOf, Status, TerminalStatus
<1>3. PICK r : r = [in EXCEPT !.price = price]
  OBVIOUS
<1>4. /\ r \in OrderInput /\ ~GoesToContract(r)
      /\ r.side = in.side /\ r.type = in.type /\ r.qty = in.qty /\ r.who = in.who /\ r.price = price
  BY <1>0, <1>1, <1>2, <1>3, SameKind
<1>5. Refused(r) <=> Refused(in)
  <2>1. in.qty \in Int /\ in.price \in Int
    BY <1>0 DEF OrderInput
  <2>. QED
    BY <1>4, <2>1 DEF Refused, PriceOf
<1>6. ~Refused(in) => (r.type = "LIMIT" => r.price \in Prices) /\ n = r.qty
  <2>1. in.qty \in Int /\ in.price \in Int
    BY <1>0 DEF OrderInput
  <2>. QED
    BY <1>4, <2>1 DEF Refused, PriceOf, Prices
<1>. HIDE DEF price, n, st
<1>7. /\ order'[o] = r /\ rem'[o] = n /\ status'[o] = st /\ createdAt'[o] = clock + 1
      /\ \A x \in Orders \ {o} : /\ order'[x] = order[x] /\ rem'[x] = rem[x]
                                 /\ status'[x] = status[x] /\ createdAt'[x] = createdAt[x]
  BY <1>0, <1>1, <1>3 DEF TypeOK
<1>8. TypeOK'
  BY <1>0, <1>1, <1>2, <1>3, <1>4 DEF TypeOK
<1>9. ShelfInv'
  <2>1. \A x \in Orders : status[x] \in RestingStatus => x # o
    BY <1>1 DEF RestingStatus
  <2>2. taker' # NoOrder => taker' = o /\ ~Refused(in) /\ st = "PENDING"
    BY <1>1 DEF st
  <2>3. clock \in Nat
    BY <1>0 DEF TypeOK
  <2>4. taker' # NoOrder =>
               /\ clock < clock' /\ createdAt'[taker'] = clock'
               /\ status'[taker'] = "PENDING" /\ ~GoesToContract(order'[taker'])
               /\ order'[taker'].type = "LIMIT" => order'[taker'].price \in Prices
    BY <1>1, <1>4, <1>6, <1>7, <2>2, <2>3
  <2>5. clock <= clock'
    BY <1>1, <2>3
  <2>6. ShelfInv
    BY DEF BooksInv
  <2>. QED
    BY <1>1, <1>7, <1>8, <2>1, <2>4, <2>5, <2>6, ShelfUntouched
<1>10. /\ platformFilled[o] = 0 /\ o \notin direct /\ o \notin routing
       /\ QtySum(TradesWith(o)) = 0
       /\ \A t \in ToSet(trades) : t.maker # o /\ t.taker # o
  BY <1>1, NewOrder
<1>11. Touches(o)
  BY <1>1, <1>7, <1>10 DEF Touches
<1>12. StatusOK(o)'
  <2>1. ~ByContract(o)' /\ (Refused(order[o])' <=> Refused(in))
    BY <1>4, <1>5, <1>7 DEF ByContract, Refused
  <2>2. CASE Refused(in)
    <3>1. status'[o] = "REJECTED"
      BY <1>7, <2>2 DEF st
    <3>. QED
      BY <1>1, <1>10, <2>1, <2>2, <3>1 DEF StatusOK, Accepted, RestingStatus
  <2>3. CASE ~Refused(in)
    <3>1. status'[o] = "PENDING" /\ taker' = o
      BY <1>1, <1>7, <2>3 DEF st
    <3>. QED
      BY <1>1, <1>10, <2>1, <2>3, <3>1 DEF StatusOK, Accepted, RestingStatus
  <2>. QED
    BY <2>2, <2>3
<1>13. PlatformOK(o)'
  BY <1>1, <1>10 DEF PlatformOK
<1>14. Accepted(o)' => QtySum(TradesWith(o)) = order'[o].qty - rem'[o]
  <2>1. Accepted(o)' => ~Refused(in)
    BY <1>5, <1>7 DEF Accepted, Refused
  <2>2. r.qty \in Int
    BY <1>4 DEF OrderInput
  <2>. QED
    BY <1>6, <1>7, <1>10, <2>1, <2>2
<1>15. FillsInv'
  BY <1>11, <1>12, <1>13, <1>14, FillsTouch
<1>. QED
  BY <1>9, <1>15 DEF BooksInv

\* matchOne.
LEMMA BooksMatch ==
    ASSUME BooksInv, EngineMatch
    PROVE  BooksInv'
<1>. USE DEF BooksInv
<1>0. ShelfInv' /\ MatchOne /\ platformFilled' = platformFilled /\ routing' = routing /\ direct' = direct
  BY ShelfMatch DEF EngineMatch, routeVars
<1>1. PICK s, p, m, q, tr : Heads(s, p, m) /\ Meets(s, p, m, q, tr)
  BY <1>0, RoundMeets
<1>2. /\ taker \in Orders /\ status[taker] = "PENDING" /\ taker # NoOrder /\ rem[taker] > 0
      /\ m \in Orders \ {taker}
      /\ order[m].type = "LIMIT" /\ status[m] \in RestingStatus /\ rem[m] > 0
  BY <1>0, <1>1, HeadRests DEF MatchOne
<1>3. /\ rem' \in [Orders -> Nat] /\ status' \in [Orders -> Status]
      /\ rem'[m] = rem[m] - q /\ rem'[taker] = rem[taker] - q
      /\ \A x \in Orders \ {m, taker} : rem'[x] = rem[x]
      /\ rem'[m] = 0 \/ rem'[taker] = 0
      /\ status'[m] = IF rem'[m] = 0 THEN "FILLED" ELSE "PARTIALLY_FILLED"
      /\ \A x \in Orders \ {m} : status'[x] = status[x]
  BY <1>0, <1>1, MeetsRem
<1>4. order' = order /\ taker' = taker
  BY <1>0 DEF MatchOne
<1>5. /\ q \in Nat \ {0} /\ tr \in Trade /\ tr.maker = m /\ tr.taker = taker /\ tr.qty = q
      /\ trades' = Append(trades, tr)
  BY <1>1 DEF Meets
<1>6. TypeOK /\ trades \in Seq(Trade) /\ rem \in [Orders -> Nat]
  BY DEF ShelfInv, TypeOK
<1>7. /\ Len(trades) \in Nat /\ DOMAIN trades = 1..Len(trades)
      /\ Len(trades') = Len(trades) + 1 /\ DOMAIN trades' = 1..(Len(trades) + 1)
      /\ \A i \in 1..Len(trades) : trades'[i] = trades[i]
      /\ trades'[Len(trades) + 1] = tr
  BY <1>5, <1>6
<1>8. ~ByContract(taker) /\ Accepted(m) /\ Accepted(taker)
  <2>1. StatusOK(m) /\ StatusOK(taker)
    BY <1>2 DEF FillsInv
  <2>2. ~ByContract(taker)
    BY <1>2 DEF ShelfInv
  <2>3. ~Refused(order[taker])
    BY <1>2, <2>1, <2>2 DEF StatusOK
  <2>. QED
    BY <1>2, <2>1, <2>2, <2>3 DEF StatusOK, Accepted
<1>9. /\ Accepted(m)' /\ Accepted(taker)'
      /\ \A x \in Orders \ {m} : (Accepted(x)' <=> Accepted(x)) /\ (ByContract(x)' <=> ByContract(x))
      /\ ~ByContract(m)'
  BY <1>2, <1>3, <1>4, <1>8 DEF Accepted, ByContract, RestingStatus
<1>10. TakerTradesLast'
  <2>1. ASSUME NEW i \in 1..Len(trades'), NEW j \in 1..Len(trades'), i < j, trades'[i].taker = taker
        PROVE  trades'[j].taker = taker
    <3>1. CASE j = Len(trades) + 1
      BY <1>5, <1>7, <3>1
    <3>2. CASE j # Len(trades) + 1
      <4>1. i \in 1..Len(trades) /\ j \in 1..Len(trades)
        BY <1>7, <2>1, <3>2
      <4>. QED
        BY <1>2, <1>7, <2>1, <4>1 DEF FillsInv, TakerTradesLast
    <3>. QED
      BY <3>1, <3>2
  <2>. QED
    BY <1>4, <2>1 DEF TakerTradesLast
<1>11. TradeOK(tr)'
  BY <1>2, <1>3, <1>4, <1>5, <1>9 DEF TradeOK
<1>12. ASSUME NEW i \in DOMAIN trades PROVE TradeOK(trades[i])'
  <2>1. PICK t : t = trades[i]
    OBVIOUS
  <2>2. TradeOK(t) /\ t.maker \in Orders /\ t.taker \in Orders /\ t.qty \in Nat
    BY <1>6, <2>1, BookTrade DEF FillsInv
  <2>3. t.maker # taker
    BY <1>2, <2>2 DEF TradeOK
  <2>4. status'[t.maker] \in {"PARTIALLY_FILLED", "FILLED"} /\ status'[t.taker] # "REJECTED"
    BY <1>2, <1>3, <2>2 DEF TradeOK
  <2>5. Accepted(t.maker)' /\ Accepted(t.taker)'
    BY <1>9, <2>2 DEF TradeOK
  <2>6. rem'[t.maker] = 0 \/ rem'[t.taker] = 0
    <3>1. rem[t.maker] = 0 => t.maker # m
      BY <1>2
    <3>2. rem[t.taker] = 0 => t.taker # m /\ t.taker # taker
      BY <1>2
    <3>. QED
      BY <1>3, <2>2, <2>3, <3>1, <3>2 DEF TradeOK
  <2>7. TradeOK(t)'
    BY <1>4, <2>2, <2>4, <2>5, <2>6 DEF TradeOK
  <2>8. trades'[i] = t
    BY <1>7, <2>1
  <2>. QED
    BY <2>7, <2>8 DEF TradeOK, Accepted, ByContract
<1>13. \A i \in DOMAIN trades' : TradeOK(trades[i])'
  <2>1. ASSUME NEW i \in DOMAIN trades' PROVE (TradeOK(trades[i]))'
    <3>1. PICK t : t = trades'[i]
      OBVIOUS
    <3>2. TradeOK(t)'
      <4>1. CASE i = Len(trades) + 1
        BY <1>7, <1>11, <3>1, <4>1
      <4>2. CASE i # Len(trades) + 1
        <5>1. i \in DOMAIN trades /\ t = trades'[i]
          BY <1>7, <3>1, <4>2
        <5>. QED
          BY <1>12, <3>1, <5>1 DEF TradeOK, Accepted, ByContract
      <4>. QED
        BY <4>1, <4>2
    <3>. QED
      BY <3>1, <3>2 DEF TradeOK, Accepted, ByContract
  <2>. QED
    BY <2>1
<1>14. ASSUME NEW x \in Orders PROVE StatusOK(x)' /\ PlatformOK(x)'
  <2>1. StatusOK(x) /\ PlatformOK(x)
    BY DEF FillsInv
  <2>2. CASE x = m
    <3>1. status'[x] \in {"FILLED", "PARTIALLY_FILLED"} /\ (status'[x] = "FILLED" <=> rem'[x] = 0)
      BY <1>3, <2>2
    <3>2. Accepted(x)' /\ ~ByContract(x)' /\ ~ByContract(x) /\ order'[x] = order[x] /\ order'[x].type = "LIMIT"
      BY <1>2, <1>4, <1>8, <1>9, <2>2 DEF Accepted
    <3>3. StatusOK(x)'
      BY <1>0, <2>1, <3>1, <3>2 DEF StatusOK, Accepted
    <3>4. PlatformOK(x)'
      BY <1>0, <2>1, <2>2, <1>2, <3>2 DEF PlatformOK
    <3>. QED
      BY <3>3, <3>4
  <2>3. CASE x = taker
    <3>1. status'[x] = "PENDING" /\ status[x] = "PENDING" /\ order'[x] = order[x]
      BY <1>2, <1>3, <1>4, <2>3
    <3>2. Accepted(x)' /\ ~ByContract(x)' /\ ~ByContract(x)
      BY <1>8, <1>9, <1>2, <2>3
    <3>3. StatusOK(x)'
      BY <1>0, <1>4, <2>1, <2>3, <3>1, <3>2 DEF StatusOK, RestingStatus, Accepted
    <3>4. PlatformOK(x)'
      BY <1>0, <2>1, <3>1 DEF PlatformOK
    <3>. QED
      BY <3>3, <3>4
  <2>4. CASE x # m /\ x # taker
    <3>1. status'[x] = status[x] /\ rem'[x] = rem[x] /\ order'[x] = order[x]
      BY <1>3, <1>4, <2>4
    <3>2. (Accepted(x)' <=> Accepted(x)) /\ (ByContract(x)' <=> ByContract(x))
      BY <1>9, <2>4
    <3>3. StatusOK(x)'
      BY <1>0, <1>4, <2>1, <3>1, <3>2 DEF StatusOK
    <3>4. PlatformOK(x)'
      BY <1>0, <2>1, <3>1, <3>2 DEF PlatformOK
    <3>. QED
      BY <3>3, <3>4
  <2>. QED
    BY <2>2, <2>3, <2>4
<1>15. ToSet(trades)' = ToSet(trades) \union {tr}
  <2>1. Len(trades) + 1 \in 1..(Len(trades) + 1) /\ 1..(Len(trades) + 1) = 1..Len(trades) \union {Len(trades) + 1}
    BY <1>7
  <2>. QED
    BY <1>7, <2>1 DEF ToSet
<1>16. tr \notin ToSet(trades)
  <2>1. SUFFICES ASSUME tr \in ToSet(trades) PROVE FALSE
    OBVIOUS
  <2>2. TradeOK(tr)
    BY <1>6, <2>1, BookTrade DEF FillsInv
  <2>. QED
    BY <1>2, <1>5, <2>2 DEF TradeOK
<1>17. ASSUME NEW x \in Orders, Accepted(x)' PROVE QtySum(TradesWith(x))' = order'[x].qty - rem'[x]
  <2>1. Accepted(x)
    BY <1>8, <1>9, <1>17
  <2>2. QtySum(TradesWith(x)) = order[x].qty - rem[x] /\ order[x].qty \in Int /\ rem[x] \in Nat
    BY <1>6, <2>1 DEF FillsInv, TypeOK, OrderInput
  <2>3. CASE x \in {m, taker}
    <3>1. TradesWith(x)' = TradesWith(x) \union {tr} /\ tr \notin TradesWith(x)
      BY <1>5, <1>15, <1>16, <2>3 DEF TradesWith
    <3>2. \A t \in TradesWith(x) \union {tr} : t.qty \in Nat
      BY <1>5, <1>6, BookTrade
    <3>3. IsFiniteSet(TradesWith(x))
      BY <1>6, BookTrade
    <3>4. QtySum(TradesWith(x) \union {tr}) = QtySum(TradesWith(x)) + tr.qty
      BY <3>1, <3>2, <3>3, QtySumAdds
    <3>5. rem'[x] = rem[x] - q
      BY <1>3, <2>3
    <3>. QED
      BY <1>4, <1>5, <2>2, <3>1, <3>4, <3>5
  <2>4. CASE x \notin {m, taker}
    <3>1. TradesWith(x)' = TradesWith(x)
      BY <1>5, <1>15, <2>4 DEF TradesWith
    <3>. QED
      BY <1>3, <1>4, <2>2, <2>4, <3>1
  <2>. QED
    BY <2>3, <2>4
<1>18. IsFiniteSet(Recorded)'
  <2>1. Recorded' \in SUBSET Recorded
    BY <1>2, <1>3 DEF Recorded, RestingStatus
  <2>2. IsFiniteSet(Recorded')
    BY <2>1, FS_Subset DEF FillsInv
  <2>. QED
    BY <2>2
<1>. QED
  BY <1>0, <1>10, <1>13, <1>14, <1>17, <1>18 DEF FillsInv

\* What the platform fills of a remainder.
LEMMA PlatformFills ==
    ASSUME TypeOK, positions \in Seq(RowType), NEW o \in Orders, NEW available \in PlatformReads
    PROVE  PlatformQty(o, available) \in Nat /\ PlatformQty(o, available) <= rem[o]
<1>1. available \in Nat
  <2>1. \A i \in DOMAIN positions : positions[i].amt \in Nat
    <3>1. \A i \in DOMAIN positions : positions[i] \in RowType
      OBVIOUS
    <3>2. \A r \in RowType : r.amt \in Nat
      BY DEF RowType
    <3>. QED
      BY <3>1, <3>2
  <2>. QED
    BY <2>1 DEF PlatformReads
<1>2. rem[o] \in Nat
  BY DEF TypeOK
<1>. QED
  BY <1>1, <1>2 DEF PlatformQty

\* The engine is done with the order o.
Returns(o) ==
    /\ o = taker /\ o \in Orders /\ o # NoOrder /\ taker' = NoOrder
    /\ status[o] = "PENDING" /\ Accepted(o) /\ ~ByContract(o)
    /\ order' = order /\ rem' = rem /\ createdAt' = createdAt /\ clock' = clock /\ trades' = trades
    /\ routing' = routing /\ direct' = direct
    /\ \E st \in Status : status' = [status EXCEPT ![o] = st]
    /\ status'[o] \in RestingStatus \union TerminalStatus
    /\ \A x \in Orders \ {o} : status'[x] = status[x] /\ platformFilled'[x] = platformFilled[x]
    /\ Accepted(o)' /\ ~ByContract(o)'
    /\ platformFilled'[o] \in Nat /\ platformFilled'[o] <= rem[o]
    /\ platformFilled'[o] > 0 => order[o].type = "MARKET"
    /\ status'[o] = "FILLED" <=> rem[o] = 0
    /\ status'[o] \in RestingStatus => order[o].type = "LIMIT"
    /\ order[o].type = "MARKET" /\ rem[o] > 0 => status'[o] \in {"CANCELLED", "REJECTED"}
    /\ status'[o] = "REJECTED" => \A t \in ToSet(trades) : t.taker # o

\* The engine's return is one, with its job in the queue.
LEMMA EngineReturns ==
    ASSUME BooksInv, positions \in Seq(RowType), EngineReturn, DOMAIN platformFilled = Orders
    PROVE  \E o \in Orders : Returns(o) /\ jobs' = Append(jobs, Job(o)')
<1>. USE DEF BooksInv
<1>1. PICK o : o = taker
  OBVIOUS
<1>2. /\ (Rest \/ CancelRemainder \/ Complete)
      /\ jobs' = Append(jobs, Job(o)')
      /\ routing' = routing /\ direct' = direct
  BY <1>1 DEF EngineReturn, routeVars
<1>3. PICK available \in PlatformReads :
          platformFilled' = [platformFilled EXCEPT ![o] =
                   IF order[o].type = "MARKET" THEN PlatformQty(o, available) ELSE 0]
  BY <1>1 DEF EngineReturn
<1>4. TypeOK /\ o \in Orders /\ o # NoOrder /\ status[o] = "PENDING" /\ ~ByContract(o)
  BY <1>1, <1>2 DEF Rest, CancelRemainder, Complete, LoopDone, ShelfInv, TypeOK
<1>5. Accepted(o)
  BY <1>4 DEF FillsInv, StatusOK, Accepted
<1>6. rem[o] \in Nat /\ status \in [Orders -> Status]
  BY <1>4 DEF TypeOK
<1>7. PICK st \in Status :
        /\ Return(o, st) /\ st \in RestingStatus \union TerminalStatus
        /\ st = "FILLED" <=> rem[o] = 0
        /\ st \in RestingStatus => order[o].type = "LIMIT"
        /\ order[o].type = "MARKET" /\ rem[o] > 0 => st \in {"CANCELLED", "REJECTED"}
        /\ st = "REJECTED" => \A i \in DOMAIN trades : trades[i].taker # o
  <2>1. CASE Rest
    <3>1. Return(o, RestStatus(o)) /\ rem[o] > 0 /\ order[o].type = "LIMIT"
      BY <1>1, <2>1 DEF Rest
    <3>2. RestStatus(o) \in RestingStatus
      BY DEF RestStatus, RestingStatus
    <3>. QED
      BY <1>6, <3>1, <3>2 DEF RestingStatus, Status
  <2>2. CASE CancelRemainder
    <3>. DEFINE st == IF order[o].type = "MARKET" /\ (\A i \in DOMAIN trades : trades[i].taker # o)
                      THEN "REJECTED" ELSE "CANCELLED"
    <3>1. Return(o, st) /\ rem[o] > 0 /\ order[o].type # "LIMIT"
      BY <1>1, <2>2 DEF CancelRemainder
    <3>2. /\ st \in {"REJECTED", "CANCELLED"} /\ st \notin RestingStatus
          /\ st = "REJECTED" => \A i \in DOMAIN trades : trades[i].taker # o
      BY DEF RestingStatus
    <3>. HIDE DEF st
    <3>. QED
      BY <1>6, <3>1, <3>2 DEF TerminalStatus, Status
  <2>3. CASE Complete
    <3>1. Return(o, "FILLED") /\ rem[o] <= 0
      BY <1>1, <2>3 DEF Complete
    <3>. QED
      BY <1>6, <3>1 DEF RestingStatus, TerminalStatus, Status
  <2>. QED
    BY <1>2, <2>1, <2>2, <2>3
<1>8. /\ status' = [status EXCEPT ![o] = st] /\ taker' = NoOrder
      /\ order' = order /\ rem' = rem /\ createdAt' = createdAt /\ clock' = clock /\ trades' = trades
  BY <1>7 DEF Return
<1>9. status'[o] = st /\ \A x \in Orders \ {o} : status'[x] = status[x]
  BY <1>4, <1>6, <1>8
<1>10. /\ platformFilled'[o] = IF order[o].type = "MARKET" THEN PlatformQty(o, available) ELSE 0
       /\ \A x \in Orders \ {o} : platformFilled'[x] = platformFilled[x]
  BY <1>3, <1>4
<1>11. /\ platformFilled'[o] \in Nat /\ platformFilled'[o] <= rem[o]
       /\ platformFilled'[o] > 0 => order[o].type = "MARKET"
  BY <1>4, <1>6, <1>10, PlatformFills
<1>12. Accepted(o)' /\ ~ByContract(o)'
  BY <1>4, <1>5, <1>7, <1>8, <1>9 DEF Accepted, ByContract, RestingStatus, TerminalStatus
<1>13. status'[o] = "REJECTED" => \A t \in ToSet(trades) : t.taker # o
  BY <1>4, <1>7, <1>9, BookTrade
<1>14. Returns(o)
  BY <1>1, <1>2, <1>4, <1>5, <1>7, <1>8, <1>9, <1>10, <1>11, <1>12, <1>13 DEF Returns
<1>. QED
  BY <1>2, <1>4, <1>14

\* The order being processed has made no trade.
LEMMA TakerMadeNone ==
    ASSUME BooksInv, NEW o, status[o] = "PENDING"
    PROVE  \A t \in ToSet(trades) : t.maker # o
<1>1. TypeOK
  BY DEF BooksInv, ShelfInv
<1>. QED
  BY <1>1, BookTrade DEF BooksInv, FillsInv, TradeOK

\* The engine returns.
LEMMA BooksReturn ==
    ASSUME BooksInv, EngineReturn, NEW o \in Orders, Returns(o)
    PROVE  BooksInv'
<1>. USE DEF BooksInv
<1>1. o = taker
  BY DEF Returns
<1>2. /\ o \in Orders /\ o # NoOrder /\ taker' = NoOrder /\ status[o] = "PENDING"
      /\ order' = order /\ rem' = rem /\ createdAt' = createdAt /\ clock' = clock /\ trades' = trades
      /\ routing' = routing /\ direct' = direct
      /\ \A x \in Orders \ {o} : status'[x] = status[x] /\ platformFilled'[x] = platformFilled[x]
      /\ status'[o] \in RestingStatus \union TerminalStatus
  BY <1>1 DEF Returns
<1>3. TypeOK
  BY DEF ShelfInv
<1>4. ShelfInv'
  <2>1. CASE Rest
    BY <2>1, ShelfRest
  <2>2. CASE CancelRemainder \/ Complete
    <3>1. levels' = levels /\ prices' = prices
      BY <2>2 DEF CancelRemainder, Complete
    <3>2. status' \in [Orders -> Status]
      BY <1>1, <1>3 DEF Returns, TypeOK
    <3>3. TypeOK'
      BY <1>2, <1>3, <3>1, <3>2 DEF TypeOK
    <3>4. \A x \in Orders : status[x] \in RestingStatus => x # o
      BY <1>2 DEF RestingStatus
    <3>5. clock \in Nat
      BY <1>3 DEF TypeOK
    <3>6. clock <= clock'
      BY <1>2, <3>5
    <3>. QED
      BY <1>2, <3>1, <3>3, <3>4, <3>6, ShelfUntouched
  <2>. QED
    BY <1>1, <2>1, <2>2 DEF EngineReturn
<1>5. Touches(o)
  <2>1. \A t \in ToSet(trades) : t.maker # o
    BY <1>2, TakerMadeNone
  <2>2. \A t \in ToSet(trades) : t.taker = o => status'[o] \notin {"NEW", "REJECTED"}
    BY <1>1, <1>2 DEF Returns, RestingStatus, TerminalStatus
  <2>. QED
    BY <1>1, <1>2, <2>1, <2>2 DEF Touches
<1>6. StatusOK(o) /\ PlatformOK(o)
  BY <1>2 DEF FillsInv
<1>7. /\ Accepted(o)' /\ ~ByContract(o)' /\ ~ByContract(o) /\ Accepted(o)
      /\ platformFilled'[o] \in Nat /\ platformFilled'[o] <= rem[o]
      /\ platformFilled'[o] > 0 => order[o].type = "MARKET"
      /\ status'[o] = "FILLED" <=> rem[o] = 0
      /\ status'[o] \in RestingStatus => order[o].type = "LIMIT"
      /\ order[o].type = "MARKET" /\ rem[o] > 0 => status'[o] \in {"CANCELLED", "REJECTED"}
  BY <1>1 DEF Returns
<1>8. StatusOK(o)'
  <2>1. status'[o] \notin {"NEW", "PENDING"}
    BY <1>2 DEF RestingStatus, TerminalStatus
  <2>. QED
    BY <1>2, <1>6, <1>7, <2>1 DEF StatusOK, Accepted
<1>9. PlatformOK(o)'
  <2>1. rem[o] \in Nat
    BY <1>2, <1>3 DEF TypeOK
  <2>. QED
    BY <1>2, <1>7, <2>1 DEF PlatformOK
<1>10. QtySum(TradesWith(o)) = order'[o].qty - rem'[o]
  BY <1>2, <1>7 DEF FillsInv
<1>11. FillsInv'
  BY <1>2, <1>5, <1>8, <1>9, <1>10, FillsTouch
<1>. QED
  BY <1>4, <1>11

\* The route sends an order to the contract ...
LEMMA BooksSend ==
    ASSUME BooksInv, NEW o \in Orders, NEW in \in Inputs, DirectSend(o, in)
    PROVE  BooksInv'
<1>0. TypeOK /\ in \in OrderInput /\ o # NoOrder /\ QuotePrice \in Nat
  BY InputsAssumption, NoOrderAssumption, NumbersAssumption DEF BooksInv, ShelfInv
<1>1. /\ taker = NoOrder /\ status[o] = "NEW" /\ GoesToContract(in)
      /\ order' = [order EXCEPT ![o] = [in EXCEPT !.price = QuotePrice]]
      /\ status' = [status EXCEPT ![o] = "PENDING"]
      /\ routing' = routing \union {o}
      /\ rem' = rem /\ createdAt' = createdAt /\ clock' = clock /\ levels' = levels /\ prices' = prices
      /\ taker' = taker /\ trades' = trades /\ platformFilled' = platformFilled /\ direct' = direct
  BY DEF DirectSend
<1>2. PICK r : r = [in EXCEPT !.price = QuotePrice]
  OBVIOUS
<1>3. r \in OrderInput /\ GoesToContract(r)
  BY <1>0, <1>1, <1>2, SameKind
<1>4. /\ order'[o] = r /\ status'[o] = "PENDING"
      /\ \A x \in Orders \ {o} : order'[x] = order[x] /\ status'[x] = status[x]
  BY <1>0, <1>1, <1>2 DEF TypeOK
<1>5. TypeOK'
  <2>1. status' \in [Orders -> Status] /\ order' \in [Orders -> OrderInput]
    BY <1>0, <1>1, <1>2, <1>3 DEF TypeOK, Status
  <2>. QED
    BY <1>0, <1>1, <2>1 DEF TypeOK
<1>6. ShelfInv'
  <2>1. \A x \in Orders : status[x] \in RestingStatus => x # o
    BY <1>1 DEF RestingStatus
  <2>2. clock \in Nat
    BY <1>0 DEF TypeOK
  <2>3. clock <= clock'
    BY <1>1, <2>2
  <2>4. ShelfInv
    BY DEF BooksInv
  <2>. QED
    BY <1>1, <1>4, <1>5, <2>1, <2>3, <2>4, ShelfUntouched
<1>7. /\ platformFilled[o] = 0 /\ o \notin direct /\ o \notin routing
      /\ \A t \in ToSet(trades) : t.maker # o /\ t.taker # o
  BY <1>1, NewOrder
<1>8. Touches(o)
  BY <1>1, <1>4, <1>7 DEF Touches
<1>9. ByContract(o)' /\ ~Accepted(o)'
  BY <1>3, <1>4 DEF ByContract, Accepted
<1>10. StatusOK(o)'
  BY <1>1, <1>4, <1>7, <1>9 DEF StatusOK, RestingStatus
<1>11. PlatformOK(o)'
  BY <1>1, <1>7 DEF PlatformOK
<1>12. FillsInv'
  BY <1>8, <1>9, <1>10, <1>11, FillsTouch
<1>. QED
  BY <1>6, <1>12 DEF BooksInv

\* ... and records it or forgets it.
LEMMA RoutedOrder ==
    ASSUME BooksInv, NEW o \in Orders, o \in routing \union direct
    PROVE  /\ ByContract(o) /\ ~Accepted(o) /\ platformFilled[o] = 0
           /\ order[o].type = "MARKET" /\ o # NoOrder
           /\ status[o] \in {"PENDING", "FILLED"} /\ (status[o] = "FILLED" <=> o \in direct)
           /\ \A t \in ToSet(trades) : t.maker # o /\ t.taker # o
<1>1. StatusOK(o) /\ PlatformOK(o)
  BY DEF BooksInv, FillsInv
<1>2. ByContract(o)
  BY <1>1 DEF StatusOK
<1>3. ~Accepted(o)
  BY <1>2 DEF Accepted
<1>. QED
  BY <1>1, <1>2, <1>3, TradersAccepted, NoOrderAssumption
     DEF StatusOK, PlatformOK, ByContract, GoesToContract

\* The contract's fill is recorded ...
LEMMA BooksRecord ==
    ASSUME BooksInv, NEW o \in Orders, DirectRecord(o)
    PROVE  BooksInv'
<1>0. TypeOK /\ o # NoOrder
  BY NoOrderAssumption DEF BooksInv, ShelfInv
<1>1. /\ taker = NoOrder /\ o \in routing /\ order[o].qty >= 0
      /\ routing' = routing \ {o} /\ direct' = direct \union {o}
      /\ status' = [status EXCEPT ![o] = "FILLED"]
      /\ order' = order /\ rem' = rem /\ createdAt' = createdAt /\ clock' = clock
      /\ levels' = levels /\ prices' = prices
      /\ taker' = taker /\ trades' = trades /\ platformFilled' = platformFilled
  BY DEF DirectRecord
<1>2. /\ ByContract(o) /\ ~Accepted(o) /\ platformFilled[o] = 0
      /\ status[o] \in {"PENDING", "FILLED"}
      /\ \A t \in ToSet(trades) : t.maker # o /\ t.taker # o
  BY <1>1, RoutedOrder
<1>3. /\ status'[o] = "FILLED" /\ \A x \in Orders \ {o} : status'[x] = status[x]
      /\ status' \in [Orders -> Status]
  BY <1>0, <1>1 DEF TypeOK, Status, TerminalStatus
<1>4. TypeOK'
  BY <1>0, <1>1, <1>3 DEF TypeOK
<1>5. ShelfInv'
  <2>1. \A x \in Orders : status[x] \in RestingStatus => x # o
    BY <1>2 DEF RestingStatus
  <2>2. clock \in Nat
    BY <1>0 DEF TypeOK
  <2>3. clock <= clock'
    BY <1>1, <2>2
  <2>4. ShelfInv
    BY DEF BooksInv
  <2>. QED
    BY <1>1, <1>3, <1>4, <2>1, <2>3, <2>4, ShelfUntouched
<1>6. Touches(o)
  BY <1>1, <1>2, <1>3 DEF Touches
<1>7. ByContract(o)' /\ ~Accepted(o)'
  BY <1>1, <1>2 DEF ByContract, Accepted
<1>8. StatusOK(o)'
  BY <1>1, <1>3, <1>7 DEF StatusOK, RestingStatus
<1>9. PlatformOK(o)'
  BY <1>1, <1>2 DEF PlatformOK
<1>10. FillsInv'
  BY <1>6, <1>7, <1>8, <1>9, FillsTouch
<1>. QED
  BY <1>5, <1>10 DEF BooksInv

\* The book and the orders stay as they are; routes may end.
LEMMA BooksStay ==
    ASSUME BooksInv, UNCHANGED <<order, rem, status, createdAt, clock, taker, trades, platformFilled, direct>>,
           routing' \subseteq routing, ShelfInv'
    PROVE  BooksInv'
<1>1. \A o : (Accepted(o)' <=> Accepted(o)) /\ (ByContract(o)' <=> ByContract(o))
  BY DEF Accepted, ByContract
<1>2. \A o \in Orders : StatusOK(o)' /\ PlatformOK(o)'
  BY <1>1 DEF BooksInv, FillsInv, StatusOK, PlatformOK
<1>3. \A i \in DOMAIN trades : TradeOK(trades[i])'
  BY <1>1 DEF BooksInv, FillsInv, TradeOK
<1>4. TakerTradesLast' /\ IsFiniteSet(Recorded')
  <2>1. Recorded' = Recorded
    BY DEF Recorded
  <2>. QED
    BY <2>1 DEF BooksInv, FillsInv, TakerTradesLast
<1>5. \A o \in Orders : Accepted(o)' => QtySum(TradesWith(o))' = order'[o].qty - rem'[o]
  <2>1. \A o : TradesWith(o)' = TradesWith(o)
    BY DEF TradesWith
  <2>2. \A o \in Orders : Accepted(o) => QtySum(TradesWith(o)) = order[o].qty - rem[o]
    BY DEF BooksInv, FillsInv
  <2>. QED
    BY <1>1, <2>1, <2>2
<1>6. FillsInv'
  BY <1>2, <1>3, <1>4, <1>5 DEF FillsInv
<1>. QED
  BY <1>6 DEF BooksInv

\* ... or its failure.
LEMMA BooksFail ==
    ASSUME BooksInv, NEW o, DirectFails(o)
    PROVE  BooksInv'
<1>1. UNCHANGED bookVars /\ UNCHANGED <<platformFilled, direct>> /\ routing' \subseteq routing
  BY DEF DirectFails
<1>2. TypeOK' /\ LevelsHoldTheirOrders' /\ LevelsAreFifo' /\ BookArrivedBefore'
  BY <1>1 DEF BooksInv, ShelfInv, bookVars, TypeOK, LevelsHoldTheirOrders, LevelsAreFifo, BookArrivedBefore
<1>3. ShelfInv'
  BY <1>1, <1>2 DEF BooksInv, ShelfInv, bookVars, ByContract
<1>. QED
  BY <1>1, <1>3, BooksStay DEF bookVars

\* A restart empties the book.
LEMMA BooksRestart ==
    ASSUME BooksInv, Restart, taker = NoOrder
    PROVE  BooksInv'
<1>1. /\ levels' = [s \in Side |-> [p \in Prices |-> << >>]]
      /\ prices' = [s \in Side |-> << >>]
      /\ UNCHANGED <<order, rem, status, createdAt, clock, taker, trades, platformFilled, direct>>
      /\ routing' \subseteq routing
  BY DEF Restart
<1>2. TypeOK'
  <2>1. << >> \in Seq(Orders) /\ << >> \in Seq(Prices)
    OBVIOUS
  <2>2. levels' \in [Side -> [Prices -> Seq(Orders)]] /\ prices' \in [Side -> Seq(Prices)]
    BY <1>1, <2>1
  <2>. QED
    BY <1>1, <2>2 DEF BooksInv, ShelfInv, TypeOK
<1>3. \A s \in Side, p \in Prices : DOMAIN levels'[s][p] = {}
  BY <1>1
<1>4. LevelsHoldTheirOrders' /\ LevelsAreFifo' /\ BookArrivedBefore'
  BY <1>3 DEF LevelsHoldTheirOrders, LevelsAreFifo, BookArrivedBefore
<1>5. ShelfInv'
  BY <1>1, <1>2, <1>4 DEF ShelfInv
<1>. QED
  BY <1>1, <1>5, BooksStay

\* The worker does not touch the book.
LEMMA BooksSame ==
    ASSUME BooksInv, UNCHANGED engineVars
    PROVE  BooksInv'
<1>1. UNCHANGED bookVars /\ UNCHANGED <<platformFilled, direct>> /\ routing' = routing
  BY DEF engineVars, routeVars
<1>2. TypeOK' /\ LevelsHoldTheirOrders' /\ LevelsAreFifo' /\ BookArrivedBefore'
  BY <1>1 DEF BooksInv, ShelfInv, bookVars, TypeOK, LevelsHoldTheirOrders, LevelsAreFifo, BookArrivedBefore
<1>3. ShelfInv'
  BY <1>1, <1>2 DEF BooksInv, ShelfInv, bookVars, ByContract
<1>. QED
  BY <1>1, <1>3, BooksStay DEF bookVars

\* At first nothing has been ordered.
LEMMA BooksInit == Init => BooksInv
<1>. SUFFICES ASSUME Init PROVE BooksInv
  OBVIOUS
<1>1. BookInv
  BY InitInv DEF Init, FillInit
<1>2. /\ status = [o \in Orders |-> "NEW"] /\ order = [o \in Orders |-> NoInput]
      /\ taker = NoOrder /\ trades = << >> /\ platformFilled = [o \in Orders |-> 0]
      /\ routing = {} /\ direct = {}
  BY DEF Init, FillInit, BookInit
<1>3. ShelfInv
  BY <1>1, <1>2 DEF BookInv, BookWellFormed, ShelfInv
<1>4. \A o \in Orders : StatusOK(o) /\ PlatformOK(o) /\ ~Accepted(o)
  BY <1>2 DEF StatusOK, PlatformOK, Accepted, ByContract, GoesToContract, NoInput, RestingStatus
<1>5. Recorded = {}
  BY <1>2 DEF Recorded
<1>6. IsFiniteSet(Recorded)
  BY <1>5, FS_EmptySet, Zenon
<1>7. TakerTradesLast /\ \A i \in DOMAIN trades : TradeOK(trades[i])
  BY <1>2 DEF TakerTradesLast
<1>. QED
  BY <1>3, <1>4, <1>6, <1>7 DEF BooksInv, FillsInv

----------------------------------------------------------------------------
(* The list of trades, and the jobs made of it. *)

\* A round of the loop adds a trade that no other one equals, next to the taker's.
LEMMA ListMatch ==
    ASSUME BooksInv, ListInv, EngineMatch
    PROVE  ListInv'
<1>. USE DEF BooksInv
<1>0. MatchOne
  BY DEF EngineMatch
<1>1. PICK s, p, m, q, tr : Heads(s, p, m) /\ Meets(s, p, m, q, tr)
  BY <1>0, RoundMeets
<1>2. taker \in Orders /\ taker # NoOrder /\ m \in Orders /\ rem[taker] > 0 /\ rem[m] > 0
  BY <1>0, <1>1, HeadRests DEF MatchOne
<1>3. /\ tr \in Trade /\ tr.maker = m /\ tr.taker = taker
      /\ trades' = Append(trades, tr)
  BY <1>1 DEF Meets
<1>4. TypeOK /\ trades \in Seq(Trade)
  BY DEF ShelfInv, TypeOK
<1>5. PICK n \in Nat : n = Len(trades)
  BY <1>4
<1>6. /\ DOMAIN trades = 1..n
      /\ DOMAIN trades' = 1..(n + 1)
      /\ \A i \in 1..n : trades'[i] = trades[i]
      /\ trades'[n + 1] = tr
      /\ \A i \in 1..(n + 1) : i \in 1..n \/ i = n + 1
  BY <1>3, <1>4, <1>5
<1>7. \A i \in 1..n : trades[i] # tr
  <2>1. SUFFICES ASSUME NEW i \in 1..n, trades[i] = tr PROVE FALSE
    OBVIOUS
  <2>2. TradeOK(tr)
    BY <1>6, <2>1 DEF FillsInv
  <2>. QED
    BY <1>2, <1>3, <2>2 DEF TradeOK
<1>8. ASSUME NEW i \in 1..(n + 1), NEW j \in 1..(n + 1), trades'[i] = trades'[j] PROVE i = j
  <2>1. i \in 1..n /\ j \in 1..n => i = j
    BY <1>6, <1>8 DEF ListInv
  <2>. QED
    BY <1>6, <1>7, <1>8, <2>1
<1>9. ASSUME NEW i \in 1..(n + 1), NEW j \in 1..(n + 1), NEW k \in 1..(n + 1),
             i < j, j < k, trades'[i].taker = trades'[k].taker
      PROVE  trades'[j].taker = trades'[k].taker
  <2>1. i \in 1..n /\ j \in 1..n
    BY <1>6, <1>9
  <2>2. CASE k \in 1..n
    BY <1>6, <1>9, <2>1, <2>2 DEF ListInv
  <2>3. CASE k = n + 1
    <3>1. trades[i].taker = taker
      BY <1>3, <1>6, <1>9, <2>1, <2>3
    <3>2. trades[j].taker = taker
      BY <1>2, <1>5, <1>9, <2>1, <3>1 DEF FillsInv, TakerTradesLast
    <3>. QED
      BY <1>3, <1>6, <2>1, <2>3, <3>2
  <2>. QED
    BY <1>6, <2>2, <2>3
<1>. QED
  BY <1>6, <1>8, <1>9 DEF ListInv

\* The trades of a taker, as the engine returns them.
LEMMA OwnTrades ==
    ASSUME TypeOK, ListInv, NEW o
    PROVE  /\ BookTrades(o) \in Seq(Trade)
           /\ IsInjective(BookTrades(o))
           /\ ToSet(BookTrades(o)) = {t \in ToSet(trades) : t.taker = o}
<1>1. trades \in Seq(Trade) /\ DOMAIN trades = 1..Len(trades) /\ Len(trades) \in Nat
  BY DEF TypeOK
<1>2. BookTrades(o) \in Seq(Trade)
  BY BookTradesType
<1>3. CASE Own(o) = {}
  <2>1. BookTrades(o) = << >>
    BY <1>3 DEF BookTrades, Own
  <2>2. IsInjective(<< >>) /\ ToSet(<< >>) = {}
    BY DEF IsInjective, ToSet
  <2>3. {t \in ToSet(trades) : t.taker = o} = {}
    BY <1>3 DEF Own, ToSet
  <2>. QED
    BY <1>2, <2>1, <2>2, <2>3
<1>4. CASE Own(o) # {}
  <2>. DEFINE a == Min(Own(o))
              b == Max(Own(o))
  <2>1. Own(o) \in SUBSET (1..Len(trades))
    BY <1>1 DEF Own
  <2>2. a \in Own(o) /\ b \in Own(o)
    BY <1>1, <1>4, <2>1, MinIs, MaxIs
  <2>3. \A m \in Own(o) : a <= m /\ m <= b
    <3>1. Own(o) \in SUBSET Nat
      BY <2>1
    <3>2. PICK x \in Own(o) : \A y \in Own(o) : x <= y
      BY <1>4, <3>1, Least, Zenon
    <3>3. a = x
      BY <1>1, <1>4, <2>1, <3>2, MinIs, Zenon
    <3>4. PICK z \in Own(o) : \A y \in Own(o) : z >= y
      <4>. DEFINE T == {Len(trades) - y : y \in Own(o)}
      <4>1. T \in SUBSET Nat /\ T # {}
        <5>1. PICK n \in Nat : n = Len(trades)
          BY <1>1
        <5>2. \A y \in 1..n : n - y \in Nat
          OBVIOUS
        <5>3. \A y \in Own(o) : n - y \in Nat
          BY <2>1, <5>1, <5>2, Zenon
        <5>4. T = {n - y : y \in Own(o)}
          BY <5>1
        <5>. HIDE DEF T
        <5>5. T # {}
          BY <1>4, <5>4
        <5>6. T \in SUBSET Nat
          BY <5>3, <5>4
        <5>. QED
          BY <5>5, <5>6
      <4>2. PICK t \in T : \A y \in T : t <= y
        BY <4>1, Least
      <4>3. PICK z \in Own(o) : t = Len(trades) - z
        OBVIOUS
      <4>4. ASSUME NEW y \in Own(o) PROVE z >= y
        <5>1. Len(trades) - z <= Len(trades) - y
          BY <4>2, <4>3
        <5>2. Len(trades) \in Nat /\ z \in 1..Len(trades) /\ y \in 1..Len(trades)
          BY <1>1, <2>1
        <5>. QED
          BY <5>1, <5>2
      <4>. QED
        BY <4>4
    <3>5. b = z
      BY <1>1, <1>4, <2>1, <3>4, MaxIs, Zenon
    <3>6. \A y \in Own(o) : y <= z
      BY <3>1, <3>4
    <3>. QED
      BY <3>2, <3>3, <3>5, <3>6
  <2>4. BookTrades(o) = SubSeq(trades, a, b)
    BY <1>4 DEF BookTrades, Own
  <2>. HIDE DEF a, b
  <2>5. a \in 1..Len(trades) /\ b \in 1..Len(trades) /\ a <= b
    BY <2>1, <2>2, <2>3
  <2>6. \A i \in a..b : i \in Own(o)
    <3>1. ASSUME NEW i \in a..b PROVE i \in Own(o)
      <4>1. i \in 1..Len(trades)
        BY <1>1, <2>5, <3>1
      <4>2. trades[a].taker = o /\ trades[b].taker = o
        BY <2>2 DEF Own
      <4>3. i = a \/ i = b \/ (a < i /\ i < b)
        BY <2>5, <3>1
      <4>. QED
        BY <1>1, <2>5, <4>1, <4>2, <4>3 DEF ListInv, Own
    <3>. QED
      BY <3>1
  <2>7. \A i \in a..b : trades[i] \in Trade
    BY <1>1, <2>5
  <2>8. PICK z : z = BookTrades(o)
    OBVIOUS
  <2>9. /\ z \in Seq(Trade) /\ DOMAIN z = 1..((b - a) + 1)
        /\ \A i \in 1..((b - a) + 1) : z[i] = trades[(a + i) - 1] /\ (a + i) - 1 \in a..b
    <3>1. /\ SubSeq(trades, a, b) \in Seq(Trade)
          /\ Len(SubSeq(trades, a, b)) = IF a <= b THEN (b - a) + 1 ELSE 0
          /\ \A i \in 1..((b - a) + 1) : SubSeq(trades, a, b)[i] = trades[(a + i) - 1]
      BY <2>5, <2>7, SubSeqProperties
    <3>2. Len(z) = (b - a) + 1 /\ z \in Seq(Trade)
      BY <2>4, <2>5, <2>8, <3>1
    <3>3. \A i \in 1..((b - a) + 1) : (a + i) - 1 \in a..b
      BY <2>5
    <3>. QED
      BY <2>4, <2>8, <3>1, <3>2, <3>3
  <2>10. IsInjective(z)
    <3>1. ASSUME NEW i \in DOMAIN z, NEW j \in DOMAIN z, z[i] = z[j] PROVE i = j
      <4>1. (a + i) - 1 = (a + j) - 1
        <5>1. (a + i) - 1 \in DOMAIN trades /\ (a + j) - 1 \in DOMAIN trades
          BY <1>1, <2>5, <2>9
        <5>. QED
          BY <2>9, <3>1, <5>1 DEF ListInv
      <4>. QED
        BY <2>5, <2>9, <4>1
    <3>. QED
      BY <3>1 DEF IsInjective
  <2>11. ToSet(z) = {t \in ToSet(trades) : t.taker = o}
    <3>1. ASSUME NEW i \in DOMAIN z PROVE z[i] \in ToSet(trades) /\ z[i].taker = o
      <4>1. (a + i) - 1 \in Own(o) /\ z[i] = trades[(a + i) - 1]
        BY <2>6, <2>9
      <4>. QED
        BY <4>1 DEF Own, ToSet
    <3>2. ASSUME NEW t \in ToSet(trades), t.taker = o PROVE t \in ToSet(z)
      <4>1. PICK i \in DOMAIN trades : t = trades[i]
        BY DEF ToSet
      <4>2. i \in Own(o)
        BY <3>2, <4>1 DEF Own
      <4>3. i \in 1..Len(trades) /\ a <= i /\ i <= b
        BY <2>1, <2>3, <4>2
      <4>4. (i - a) + 1 \in 1..((b - a) + 1) /\ (a + ((i - a) + 1)) - 1 = i
        BY <2>5, <4>3
      <4>. QED
        BY <2>9, <4>1, <4>4 DEF ToSet
    <3>. QED
      BY <3>1, <3>2 DEF ToSet
  <2>. QED
    BY <1>2, <2>8, <2>10, <2>11
<1>. QED
  BY <1>3, <1>4

\* What the platform sold to an order, as a set of trades.
FromPlatform(o) == IF platformFilled[o] > 0 THEN {PlatformTrade(o, platformFilled[o])} ELSE {}

\* A trade of the book is a job's trade.
LEMMA BookTradeType == Trade \in SUBSET JobTrade
<1>1. Prices \in SUBSET Nat
  BY DEF Prices
<1>. QED
  BY <1>1 DEF Trade, JobTrade

\* The trades of a result, in the order of the job and as a set.
LEMMA ResultTradesAre ==
    ASSUME BooksInv, ListInv, NEW o \in Orders
    PROVE  /\ ResultTrades(o, platformFilled[o]) \in Seq(JobTrade)
           /\ IsInjective(ResultTrades(o, platformFilled[o]))
           /\ ToSet(ResultTrades(o, platformFilled[o])) =
                  {t \in ToSet(trades) : t.taker = o} \union FromPlatform(o)
           /\ FromPlatform(o) \in SUBSET JobTrade
<1>0. TypeOK /\ PlatformOK(o)
  BY DEF BooksInv, ShelfInv, FillsInv
<1>1. PICK b : b = BookTrades(o)
  OBVIOUS
<1>2. PICK f : f = platformFilled[o]
  OBVIOUS
<1>3. /\ b \in Seq(Trade) /\ IsInjective(b)
      /\ ToSet(b) = {t \in ToSet(trades) : t.taker = o}
  BY <1>0, <1>1, OwnTrades
<1>4. b \in Seq(JobTrade) /\ Trade \in SUBSET JobTrade
  BY <1>3, BookTradeType
<1>5. \A t \in ToSet(b) : t.maker # Platform
  <2>1. ToSet(b) \in SUBSET Trade
    BY <1>3, SeqIsFinite
  <2>. QED
    BY <2>1, PlatformAssumption DEF Trade
<1>6. f \in Nat
  BY <1>0, <1>2 DEF PlatformOK
<1>7. CASE f = 0
  <2>1. ResultTrades(o, f) = b \o << >>
    BY <1>1, <1>7 DEF ResultTrades
  <2>2. ResultTrades(o, f) = b
    BY <1>3, <2>1, ConcatEmptySeq
  <2>3. FromPlatform(o) = {}
    BY <1>2, <1>7 DEF FromPlatform
  <2>. QED
    BY <1>2, <1>3, <1>4, <2>2, <2>3
<1>8. CASE f > 0
  <2>1. PICK p : p = PlatformTrade(o, f)
    OBVIOUS
  <2>2. PlatformPrice(o) \in Nat
    <3>1. CASE b = << >>
      BY <1>1, <3>1, DefaultPriceAssumption DEF PlatformPrice
    <3>2. CASE b # << >>
      <4>1. PlatformPrice(o) = Last(b).price
        BY <1>1, <3>2 DEF PlatformPrice
      <4>2. Last(b) = b[Len(b)] /\ Len(b) \in 1..Len(b)
        BY <1>3, <3>2, EmptySeq DEF Last
      <4>3. b[Len(b)] \in JobTrade
        BY <1>4, <4>2
      <4>. QED
        BY <4>1, <4>2, <4>3 DEF JobTrade
    <3>. QED
      BY <3>1, <3>2
  <2>3. p \in JobTrade /\ p.maker = Platform
    BY <1>6, <2>1, <2>2 DEF PlatformTrade, JobTrade
  <2>4. ResultTrades(o, f) = b \o <<p>>
    BY <1>1, <1>8, <2>1 DEF ResultTrades
  <2>5. FromPlatform(o) = {p}
    BY <1>2, <1>8, <2>1 DEF FromPlatform
  <2>6. PICK r : r = b \o <<p>>
    OBVIOUS
  <2>7. /\ r \in Seq(JobTrade) /\ DOMAIN r = 1..(Len(b) + 1) /\ Len(b) \in Nat
        /\ \A i \in 1..Len(b) : r[i] = b[i] /\ b[i] \in ToSet(b)
        /\ r[Len(b) + 1] = p
    <3>1. \A i \in 1..Len(b) : b[i] \in ToSet(b)
      BY <1>3 DEF ToSet
    <3>. QED
      BY <1>4, <2>3, <2>6, <3>1
  <2>8. p \notin ToSet(b)
    BY <1>5, <2>3
  <2>9. IsInjective(r)
    <3>1. ASSUME NEW i \in DOMAIN r, NEW j \in DOMAIN r, r[i] = r[j] PROVE i = j
      <4>1. CASE i \in 1..Len(b) /\ j \in 1..Len(b)
        <5>1. b[i] = b[j] /\ i \in DOMAIN b /\ j \in DOMAIN b
          BY <1>3, <2>7, <3>1, <4>1
        <5>. QED
          BY <1>3, <5>1 DEF IsInjective
      <4>2. CASE i \notin 1..Len(b) \/ j \notin 1..Len(b)
        <5>1. r[i] = p /\ r[j] = p
          BY <2>7, <3>1, <4>2
        <5>2. i \notin 1..Len(b) /\ j \notin 1..Len(b)
          BY <2>7, <2>8, <5>1
        <5>. QED
          BY <2>7, <5>2
      <4>. QED
        BY <4>1, <4>2
    <3>. QED
      BY <3>1 DEF IsInjective
  <2>10. ToSet(r) = ToSet(b) \union {p}
    <3>1. \A i \in DOMAIN r : r[i] \in ToSet(b) \union {p}
      BY <2>7
    <3>2. ASSUME NEW t \in ToSet(b) PROVE t \in ToSet(r)
      <4>1. PICK i \in DOMAIN b : t = b[i]
        BY DEF ToSet
      <4>2. i \in 1..Len(b) /\ i \in DOMAIN r
        BY <1>3, <2>7
      <4>. QED
        BY <2>7, <4>1, <4>2 DEF ToSet
    <3>3. p \in ToSet(r)
      BY <2>7 DEF ToSet
    <3>. QED
      BY <3>1, <3>2, <3>3 DEF ToSet
  <2>. QED
    BY <1>2, <1>3, <2>3, <2>4, <2>5, <2>6, <2>7, <2>9, <2>10
<1>. QED
  BY <1>6, <1>7, <1>8

\* The trades of an order, and where they come from.
LEMMA TradesOfIs ==
    ASSUME BooksInv, ListInv, NEW o \in Recorded
    PROVE  /\ TradesOf(o) \in SUBSET JobTrade /\ IsFiniteSet(TradesOf(o))
           /\ TradesOf(o) = IF o \in direct THEN {ContractTrade(o)}
                            ELSE {t \in ToSet(trades) : t.taker = o} \union FromPlatform(o)
           /\ o \in direct => order[o].qty \in Nat /\ ContractTrade(o) \in JobTrade
<1>0. TypeOK /\ o \in Orders /\ StatusOK(o)
  BY DEF BooksInv, ShelfInv, FillsInv, Recorded
<1>1. CASE o \in direct
  <2>1. order[o].qty \in Nat
    <3>1. order[o].qty \in Int /\ order[o].qty >= 0
      BY <1>0, <1>1 DEF TypeOK, OrderInput, StatusOK
    <3>. QED
      BY <3>1
  <2>2. ContractTrade(o) \in JobTrade
    BY <1>0, <2>1, NumbersAssumption DEF ContractTrade, JobTrade
  <2>3. TradesOf(o) = {ContractTrade(o)}
    BY <1>1 DEF TradesOf
  <2>4. IsFiniteSet({ContractTrade(o)})
    BY FS_Singleton
  <2>. QED
    BY <1>1, <2>1, <2>2, <2>3, <2>4
<1>2. CASE o \notin direct
  <2>1. PICK r : r = ResultTrades(o, platformFilled[o])
    OBVIOUS
  <2>2. r \in Seq(JobTrade) /\ ToSet(r) = {t \in ToSet(trades) : t.taker = o} \union FromPlatform(o)
    BY <1>0, <2>1, ResultTradesAre
  <2>3. TradesOf(o) = ToSet(r)
    BY <1>2, <2>1 DEF TradesOf
  <2>4. IsFiniteSet(ToSet(r)) /\ ToSet(r) \in SUBSET JobTrade
    BY <2>2, SeqIsFinite
  <2>. QED
    BY <1>2, <2>2, <2>3, <2>4
<1>. QED
  BY <1>1, <1>2

\* A trade of an order is of that order, with another.
LEMMA TradesOfAre ==
    ASSUME BooksInv, ListInv, NEW o \in Recorded, NEW t \in TradesOf(o)
    PROVE  /\ t \in JobTrade /\ t.taker = o /\ t.maker # o
           /\ t.maker \in Orders => t \in ToSet(trades) /\ t.maker \in Recorded /\ t.qty > 0
           /\ o \in direct => t.maker = Contract
           /\ t.maker \in {Platform, Contract} => t.maker \notin Orders
<1>0. TypeOK /\ o \in Orders /\ Platform \notin Orders /\ Contract \notin Orders
  BY PlatformAssumption, ContractAssumption DEF BooksInv, ShelfInv, Recorded
<1>1. t \in JobTrade
  BY TradesOfIs
<1>2. CASE o \in direct
  <2>1. t = ContractTrade(o)
    BY <1>2, TradesOfIs
  <2>2. t.taker = o /\ t.maker = Contract
    BY <2>1 DEF ContractTrade
  <2>. QED
    BY <1>0, <1>1, <2>2
<1>3. CASE o \notin direct /\ t \in ToSet(trades) /\ t.taker = o
  <2>1. TradeOK(t) /\ t.maker \in Orders
    BY <1>0, <1>3, BookTrade DEF BooksInv, FillsInv
  <2>2. t.maker \in Recorded /\ t.qty > 0 /\ t.maker # o
    BY <1>3, <2>1 DEF TradeOK, Recorded
  <2>. QED
    BY <1>0, <1>1, <1>3, <2>1, <2>2
<1>4. CASE o \notin direct /\ t \in FromPlatform(o)
  <2>1. t = PlatformTrade(o, platformFilled[o])
    BY <1>4 DEF FromPlatform
  <2>2. t.taker = o /\ t.maker = Platform
    BY <2>1 DEF PlatformTrade
  <2>. QED
    BY <1>0, <1>1, <1>4, <2>2
<1>. QED
  BY <1>2, <1>3, <1>4, TradesOfIs

\* All the trades of the orders that have been processed.
LEMMA AllTradesAre ==
    ASSUME BooksInv, ListInv
    PROVE  /\ IsFiniteSet(AllTrades) /\ AllTrades \in SUBSET JobTrade
           /\ \A t \in AllTrades : /\ t.taker \in Recorded /\ t \in TradesOf(t.taker)
                                   /\ t.maker # t.taker
                                   /\ t.maker \in Orders => t \in ToSet(trades) /\ t.maker \in Recorded
                                                                /\ t.qty > 0
                                   /\ t.maker \in Orders => t.taker \notin direct
           /\ \A o \in Recorded : TradesOf(o) \in SUBSET AllTrades
           /\ taker = NoOrder => ToSet(trades) \in SUBSET AllTrades
<1>0. TypeOK /\ Contract \notin Orders
  BY ContractAssumption DEF BooksInv, ShelfInv
<1>1. \A t \in AllTrades : \E o \in Recorded : t \in TradesOf(o)
  BY DEF AllTrades
<1>2. ASSUME NEW t \in AllTrades
      PROVE  /\ t \in JobTrade /\ t.taker \in Recorded /\ t \in TradesOf(t.taker) /\ t.maker # t.taker
             /\ t.maker \in Orders => t \in ToSet(trades) /\ t.maker \in Recorded /\ t.qty > 0
             /\ t.maker \in Orders => t.taker \notin direct
  <2>1. PICK o \in Recorded : t \in TradesOf(o)
    BY <1>1
  <2>. QED
    BY <1>0, <2>1, TradesOfAre
<1>3. IsFiniteSet(AllTrades)
  <2>. DEFINE f == [o \in Recorded |-> TradesOf(o)]
  <2>1. IsFiniteSet(Recorded)
    BY DEF BooksInv, FillsInv
  <2>2. PICK R : R = {TradesOf(o) : o \in Recorded}
    OBVIOUS
  <2>3. f \in Surjection(Recorded, R)
    BY <2>2 DEF Surjection
  <2>4. IsFiniteSet(R)
    BY <2>1, <2>3, FS_Surjection, Zenon
  <2>5. \A s \in R : IsFiniteSet(s)
    BY <2>2, TradesOfIs
  <2>6. AllTrades = UNION R
    BY <2>2 DEF AllTrades
  <2>. QED
    BY <2>4, <2>5, <2>6, FS_UNION, Zenon
<1>4. \A o \in Recorded : TradesOf(o) \in SUBSET AllTrades
  BY DEF AllTrades
<1>5. ASSUME taker = NoOrder, NEW t \in ToSet(trades) PROVE t \in AllTrades
  <2>1. TradeOK(t) /\ t.taker \in Orders /\ t.taker # NoOrder
    BY <1>0, BookTrade, NoOrderAssumption DEF BooksInv, FillsInv
  <2>2. StatusOK(t.taker) /\ Accepted(t.taker)
    BY <2>1 DEF BooksInv, FillsInv, TradeOK
  <2>3. t.taker \in Recorded /\ t.taker \notin direct
    BY <1>5, <2>1, <2>2 DEF StatusOK, Accepted, Recorded
  <2>4. t \in TradesOf(t.taker)
    BY <2>3, TradesOfIs
  <2>. QED
    BY <1>4, <2>3, <2>4
<1>. QED
  BY <1>2, <1>3, <1>4, <1>5

\* A result that no later taker has touched is the order's job.
LEMMA JobsFit ==
    BooksInv /\ ListInv =>
        \A o \in Recorded \ direct : Made(o) = {} => JobOK(Job(o))
<1>. SUFFICES ASSUME BooksInv, ListInv, NEW o \in Recorded \ direct, Made(o) = {}
              PROVE  JobOK(Job(o))
  OBVIOUS
<1>1. TypeOK /\ o \in Orders /\ PlatformOK(o)
  BY DEF BooksInv, ShelfInv, FillsInv, Recorded
<1>2. PICK r : r = ResultTrades(o, platformFilled[o])
  OBVIOUS
<1>3. r \in Seq(JobTrade) /\ IsInjective(r)
  BY <1>1, <1>2, ResultTradesAre
<1>4. TradesOf(o) = ToSet(r)
  BY <1>2 DEF TradesOf
<1>5. Result(o) \in Status
  BY <1>1 DEF Result, ResultStatus, TypeOK, Status, RestingStatus, TerminalStatus
<1>6. PICK j : j = Job(o)
  OBVIOUS
<1>7. j.order = o /\ j.status = Result(o) /\ j.trades = r
  BY <1>2, <1>6 DEF Job, Result
<1>8. j \in JobType
  BY <1>1, <1>2, <1>3, <1>5, <1>6 DEF Job, JobType, Result
<1>. QED
  BY <1>3, <1>4, <1>6, <1>7, <1>8 DEF JobOK

----------------------------------------------------------------------------
(* What a step of the engine or the route does to the rest of the system. *)

\* What a step of the engine or the route may do to an order that has been processed.
Kept(x) ==
    /\ order'[x] = order[x]
    /\ x \in Recorded'
    /\ TradesOf(x)' = TradesOf(x)
    /\ Made(x) \subseteq Made(x)'
    /\ Made(x)' = {} => Result(x)' = Result(x)
    /\ Made(x) = {} /\ Made(x)' # {} => Result(x) \in RestingStatus
    /\ Result(x) = "FILLED" => Result(x)' = "FILLED"

\* The step has processed o, and added its job.
Processed(o, j) ==
    /\ o \in Orders \ Recorded
    /\ Recorded' = Recorded \union {o}
    /\ jobs' = Append(jobs, j)
    /\ j.order = o /\ JobOK(j)'

\* What such a step does to the rest of the system.
EngineEffect ==
    /\ BooksInv' /\ ListInv'
    /\ \A x \in Recorded : Kept(x)
    /\ \A x \in Orders : status[x] # "NEW" => order'[x] = order[x] /\ status'[x] # "NEW"
    /\ UNCHANGED <<work, dbStatus, dbTrades, positions, volume, faultVars>>
    /\ sent' \in [Orders -> Nat]
    /\ \A x \in Orders : status[x] # "NEW" \/ status'[x] = "NEW" => sent'[x] = sent[x]
    /\ \A x \in Orders : status[x] = "NEW" /\ status'[x] # "NEW" => sent'[x] = sent[x] + ByRoute(x)'
    /\ platformFilled' \in [Orders -> Nat]
    /\ routing' \union direct' \subseteq Orders /\ routing' \intersect direct' = {}
    /\ \/ jobs' = jobs /\ Recorded' = Recorded
       \/ \E o, j : Processed(o, j)

\* An order none of whose variables changes keeps its result.
LEMMA KeptSame ==
    ASSUME NEW x \in Recorded, trades' = trades,
           order'[x] = order[x], rem'[x] = rem[x], status'[x] = status[x],
           platformFilled'[x] = platformFilled[x], x \in direct' <=> x \in direct
    PROVE  Kept(x)
<1>1. x \in Recorded'
  BY DEF Recorded
<1>2. BookTrades(x)' = BookTrades(x)
  BY DEF BookTrades
<1>3. ResultTrades(x, platformFilled[x])' = ResultTrades(x, platformFilled[x])
  BY <1>2 DEF ResultTrades, PlatformTrade, PlatformPrice
<1>4. TradesOf(x)' = TradesOf(x)
  BY <1>3 DEF TradesOf, ContractTrade
<1>5. Made(x)' = Made(x) /\ Result(x)' = Result(x)
  BY DEF Made, Result, ResultStatus
<1>. QED
  BY <1>1, <1>4, <1>5 DEF Kept

\* The list of the book's trades, when there is no new one.
LEMMA ListSame == ListInv /\ trades' = trades => ListInv'
BY DEF ListInv

\* The job of a processed order, for a step that has processed it.
FitJobs ==
    \A o, j : (o \in Recorded \ direct /\ Made(o) = {} /\ j = Job(o)) => JobOK(j) /\ j.order = o

\* They fit the queue.
LEMMA JobFits == BooksInv /\ ListInv => FitJobs
<1>. SUFFICES ASSUME BooksInv, ListInv, NEW o \in Recorded \ direct, NEW j, j = Job(o), Made(o) = {}
              PROVE  JobOK(j) /\ j.order = o
  BY DEF FitJobs
<1>1. j.order = o
  BY DEF Job
<1>. QED
  BY <1>1, JobsFit

\* An order is placed.
LEMMA PlaceEffect ==
    ASSUME BooksInv, ListInv, TablesInv, NEW o \in Orders, NEW in \in Inputs, Place(o, in)
    PROVE  EngineEffect
<1>0. /\ TypeOK /\ in \in OrderInput /\ o \notin Recorded /\ o \notin direct
      /\ status[o] = "NEW" /\ Made(o) = {}
  <2>1. status[o] = "NEW"
    BY DEF Place, Accept, Refuse, Arrive
  <2>2. Made(o) = {}
    BY <2>1, NewOrder DEF Made
  <2>. QED
    BY <2>1, <2>2, NewOrder, InputsAssumption DEF BooksInv, ShelfInv
<1>1. /\ \A x \in Orders \ {o} : order'[x] = order[x] /\ rem'[x] = rem[x] /\ status'[x] = status[x]
      /\ status'[o] = IF Refused(in) THEN "REJECTED" ELSE "PENDING"
  <2>1. CASE Refused(in)
    <3>1. Refuse(o, in)
      BY <2>1 DEF Place, Accept
    <3>. QED
      BY <1>0, <2>1, <3>1 DEF Refuse, Arrive, TypeOK
  <2>2. CASE ~Refused(in)
    <3>1. Accept(o, in)
      BY <2>2 DEF Place, Refuse
    <3>. QED
      BY <1>0, <2>2, <3>1 DEF Accept, Arrive, TypeOK
  <2>. QED
    BY <2>1, <2>2
<1>2. /\ trades' = trades /\ platformFilled' = platformFilled /\ direct' = direct /\ routing' = routing
      /\ UNCHANGED <<work, dbStatus, dbTrades, positions, volume, sent, faultVars>>
  BY DEF Place, Accept, Refuse, Arrive, routeVars, dbVars
<1>3. BooksInv' /\ ListInv'
  BY <1>2, BooksPlace, ListSame
<1>4. \A x \in Recorded : Kept(x)
  BY <1>0, <1>1, <1>2, KeptSame DEF Recorded
<1>5. \A x \in Orders : status[x] # "NEW" => order'[x] = order[x] /\ status'[x] # "NEW"
  BY <1>0, <1>1
<1>6. sent' = sent /\ sent \in [Orders -> Nat]
  BY <1>2 DEF TablesInv
<1>8. \A x \in Orders : status[x] = "NEW" /\ status'[x] # "NEW" => sent'[x] = sent[x] + ByRoute(x)'
  <2>1. PICK price : Arrive(o, in, price)
    BY DEF Place, Accept, Refuse
  <2>2. order'[o].type = in.type /\ order'[o].who = in.who
    BY <1>0, <2>1 DEF Arrive, TypeOK, OrderInput
  <2>3. ~ByContract(o)'
    BY <2>2 DEF Place, ByContract, GoesToContract
  <2>4. ByRoute(o)' = 0
    BY <2>3, Zenon DEF ByRoute
  <2>5. sent'[o] = sent[o] + ByRoute(o)'
    BY <1>6, <2>4
  <2>. QED
    BY <1>1, <2>5
<1>7. (jobs' = jobs /\ Recorded' = Recorded) \/ \E p, j : Processed(p, j)
  <2>1. CASE Refused(in)
    <3>1. jobs' = Append(jobs, Job(o)')
      BY <2>1 DEF Place, Accept
    <3>2. PICK j : j = Job(o)'
      OBVIOUS
    <3>3. Recorded' = Recorded \union {o}
      BY <1>0, <1>1, <2>1 DEF Recorded
    <3>4. Made(o)' = {}
      BY <1>0, <1>2 DEF Made
    <3>5. FitJobs'
      BY <1>3, JobFits, PTL
    <3>6. JobOK(j)' /\ j.order = o
      BY <1>0, <1>2, <3>2, <3>3, <3>4, <3>5 DEF FitJobs
    <3>7. Processed(o, j)
      BY <1>0, <3>1, <3>2, <3>3, <3>6 DEF Processed
    <3>. QED
      BY <3>7
  <2>2. CASE ~Refused(in)
    <3>1. jobs' = jobs
      BY <2>2 DEF Place, Refuse
    <3>2. Recorded' = Recorded
      BY <1>0, <1>1, <2>2 DEF Recorded
    <3>. QED
      BY <3>1, <3>2
  <2>. QED
    BY <2>1, <2>2
<1>. QED
  BY <1>2, <1>3, <1>4, <1>5, <1>6, <1>7, <1>8 DEF EngineEffect, TablesInv

\* The engine returns.
LEMMA ReturnEffect ==
    ASSUME BooksInv, ListInv, TablesInv, EngineReturn
    PROVE  EngineEffect
<1>0. TypeOK /\ positions \in Seq(RowType) /\ DOMAIN platformFilled = Orders
  BY DEF BooksInv, ShelfInv, TablesInv
<1>1. PICK o \in Orders : Returns(o) /\ jobs' = Append(jobs, Job(o)')
  BY <1>0, EngineReturns
<1>2. /\ status[o] = "PENDING" /\ ~ByContract(o)
      /\ order' = order /\ rem' = rem /\ trades' = trades
      /\ routing' = routing /\ direct' = direct
      /\ \A x \in Orders \ {o} : status'[x] = status[x] /\ platformFilled'[x] = platformFilled[x]
      /\ status'[o] \in RestingStatus \union TerminalStatus
      /\ platformFilled'[o] \in Nat
  BY <1>1 DEF Returns
<1>3. o \notin Recorded /\ o \notin direct /\ Made(o) = {}
  <2>1. o \notin direct
    BY <1>2, RoutedOrder
  <2>. QED
    BY <1>2, <2>1, TakerMadeNone DEF Recorded, Made
<1>4. UNCHANGED <<work, dbStatus, dbTrades, positions, volume, sent, faultVars>>
  BY DEF EngineReturn, dbVars
<1>5. BooksInv' /\ ListInv'
  BY <1>1, <1>2, BooksReturn, ListSame
<1>6. \A x \in Recorded : Kept(x)
  BY <1>2, <1>3, KeptSame DEF Recorded
<1>7. \A x \in Orders : status[x] # "NEW" => order'[x] = order[x] /\ status'[x] # "NEW"
  BY <1>2 DEF RestingStatus, TerminalStatus
<1>8. sent' = sent /\ sent \in [Orders -> Nat]
  BY <1>4 DEF TablesInv
<1>12. \A x \in Orders : ~(status[x] = "NEW" /\ status'[x] # "NEW")
  BY <1>2
<1>9. platformFilled' \in [Orders -> Nat]
  <2>1. \A x \in Orders : platformFilled'[x] \in Nat
    BY <1>2 DEF TablesInv
  <2>2. platformFilled' = [x \in Orders |-> platformFilled'[x]]
    BY DEF EngineReturn, TablesInv
  <2>. QED
    BY <2>1, <2>2
<1>10. PICK j : j = Job(o)'
  OBVIOUS
<1>11. Processed(o, j)
  <2>1. Recorded' = Recorded \union {o}
    BY <1>2, <1>3 DEF Recorded, RestingStatus, TerminalStatus
  <2>2. FitJobs'
    BY <1>5, JobFits, PTL
  <2>3. Made(o)' = {}
    BY <1>2, <1>3 DEF Made
  <2>4. JobOK(j)' /\ j.order = o
    BY <1>2, <1>3, <1>10, <2>1, <2>2, <2>3 DEF FitJobs
  <2>. QED
    BY <1>1, <1>3, <1>10, <2>1, <2>4 DEF Processed
<1>. QED
  BY <1>2, <1>4, <1>5, <1>6, <1>7, <1>8, <1>9, <1>11, <1>12 DEF EngineEffect, TablesInv

\* An order is sent to the contract.
LEMMA SendEffect ==
    ASSUME BooksInv, ListInv, TablesInv, NEW o \in Orders, NEW in \in Inputs, DirectSend(o, in)
    PROVE  EngineEffect
<1>0. TypeOK /\ in \in OrderInput /\ QuotePrice \in Nat
  BY InputsAssumption, NumbersAssumption DEF BooksInv, ShelfInv
<1>1. /\ status[o] = "NEW" /\ GoesToContract(in)
      /\ order' = [order EXCEPT ![o] = [in EXCEPT !.price = QuotePrice]]
      /\ status' = [status EXCEPT ![o] = "PENDING"]
      /\ routing' = routing \union {o}
      /\ sent' = [sent EXCEPT ![o] = @ + 1]
      /\ rem' = rem /\ trades' = trades /\ platformFilled' = platformFilled /\ direct' = direct
      /\ jobs' = jobs
      /\ UNCHANGED <<work, dbStatus, dbTrades, positions, volume, faultVars>>
  BY DEF DirectSend
<1>2. o \notin Recorded /\ o \notin direct
  BY <1>1, NewOrder
<1>3. /\ status'[o] = "PENDING"
      /\ \A x \in Orders \ {o} : order'[x] = order[x] /\ status'[x] = status[x]
  BY <1>0, <1>1 DEF TypeOK
<1>4. BooksInv' /\ ListInv'
  BY <1>1, BooksSend, ListSame
<1>5. \A x \in Recorded : Kept(x)
  BY <1>1, <1>2, <1>3, KeptSame DEF Recorded
<1>6. \A x \in Orders : status[x] # "NEW" => order'[x] = order[x] /\ status'[x] # "NEW"
  BY <1>1, <1>3
<1>7. sent' \in [Orders -> Nat] /\ \A x \in Orders \ {o} : sent'[x] = sent[x]
  BY <1>1 DEF TablesInv
<1>8. ByContract(o)'
  <2>1. PICK r : r = [in EXCEPT !.price = QuotePrice]
    OBVIOUS
  <2>2. GoesToContract(r)
    BY <1>0, <1>1, <2>1, SameKind
  <2>3. order'[o] = r
    BY <1>0, <1>1, <2>1 DEF TypeOK
  <2>. QED
    BY <2>2, <2>3 DEF ByContract
<1>9. /\ \A x \in Orders : status[x] # "NEW" \/ status'[x] = "NEW" => sent'[x] = sent[x]
      /\ \A x \in Orders : status[x] = "NEW" /\ status'[x] # "NEW" => sent'[x] = sent[x] + ByRoute(x)'
  <2>1. ByRoute(o)' = 1
    BY <1>8, Zenon DEF ByRoute
  <2>2. sent'[o] = sent[o] + ByRoute(o)'
    BY <1>1, <2>1 DEF TablesInv
  <2>. QED
    BY <1>1, <1>3, <1>7, <2>2
<1>10. Recorded' = Recorded
  BY <1>1, <1>3 DEF Recorded
<1>11. /\ platformFilled' \in [Orders -> Nat]
       /\ routing' \union direct' \subseteq Orders /\ routing' \intersect direct' = {}
  BY <1>1, <1>2 DEF TablesInv
<1>. QED
  BY <1>1, <1>4, <1>5, <1>6, <1>7, <1>9, <1>10, <1>11 DEF EngineEffect

\* The contract's trade is recorded.
LEMMA RecordEffect ==
    ASSUME BooksInv, ListInv, TablesInv, NEW o \in Orders, DirectRecord(o)
    PROVE  EngineEffect
<1>0. TypeOK
  BY DEF BooksInv, ShelfInv
<1>1. /\ o \in routing /\ order[o].qty >= 0
      /\ routing' = routing \ {o} /\ direct' = direct \union {o}
      /\ status' = [status EXCEPT ![o] = "FILLED"]
      /\ jobs' = Append(jobs, [order |-> o, status |-> "FILLED", trades |-> <<ContractTrade(o)>>])
      /\ order' = order /\ rem' = rem /\ trades' = trades /\ platformFilled' = platformFilled
      /\ UNCHANGED <<work, dbStatus, dbTrades, positions, volume, sent, faultVars>>
  BY DEF DirectRecord, dbVars
<1>2. o \notin direct
  BY <1>1 DEF TablesInv
<1>3. status[o] = "PENDING" /\ ByContract(o) /\ platformFilled[o] = 0 /\ Made(o) = {}
  BY <1>1, <1>2, RoutedOrder DEF Made
<1>4. /\ status'[o] = "FILLED"
      /\ \A x \in Orders \ {o} : status'[x] = status[x]
  BY <1>0, <1>1 DEF TypeOK
<1>5. BooksInv' /\ ListInv'
  BY <1>1, BooksRecord, ListSame
<1>6. \A x \in Recorded : Kept(x)
  BY <1>1, <1>3, <1>4, KeptSame DEF Recorded
<1>7. \A x \in Orders : status[x] # "NEW" => order'[x] = order[x] /\ status'[x] # "NEW"
  BY <1>1, <1>4
<1>8. PICK j : j = [order |-> o, status |-> "FILLED", trades |-> <<ContractTrade(o)>>]
  OBVIOUS
<1>9. o \notin Recorded /\ Recorded' = Recorded \union {o}
  BY <1>3, <1>4 DEF Recorded
<1>10. JobOK(j)'
  <2>1. PICK t : t = ContractTrade(o)
    OBVIOUS
  <2>2. order[o].qty \in Nat
    <3>1. order[o].qty \in Int
      BY <1>0 DEF TypeOK, OrderInput
    <3>. QED
      BY <1>1, <3>1
  <2>3. t \in JobTrade
    BY <2>1, <2>2, NumbersAssumption DEF ContractTrade, JobTrade
  <2>4. j.order = o /\ j.status = "FILLED" /\ j.trades = <<t>>
    BY <1>8, <2>1
  <2>5. j \in JobType
    BY <1>8, <2>1, <2>3 DEF JobType, Status, TerminalStatus
  <2>6. ToSet(<<t>>) = {t} /\ IsInjective(<<t>>)
    BY DEF ToSet, IsInjective
  <2>7. TradesOf(o)' = {t}
    BY <1>1, <2>1 DEF TradesOf, ContractTrade
  <2>8. Made(o)' = {} /\ Result(o)' = "FILLED"
    BY <1>1, <1>3, <1>4 DEF Made, Result, ResultStatus
  <2>. QED
    BY <1>9, <2>4, <2>5, <2>6, <2>7, <2>8 DEF JobOK
<1>11. Processed(o, j)
  BY <1>1, <1>8, <1>9, <1>10 DEF Processed
<1>13. \A x \in Orders : ~(status[x] = "NEW" /\ status'[x] # "NEW")
  BY <1>3, <1>4
<1>12. /\ platformFilled' \in [Orders -> Nat] /\ sent' = sent /\ sent \in [Orders -> Nat]
       /\ routing' \union direct' \subseteq Orders /\ routing' \intersect direct' = {}
  BY <1>1 DEF TablesInv
<1>. QED
  BY <1>1, <1>5, <1>6, <1>7, <1>11, <1>12, <1>13 DEF EngineEffect

\* The order is forgotten.
LEMMA FailEffect ==
    ASSUME BooksInv, ListInv, TablesInv, NEW o, DirectFails(o)
    PROVE  EngineEffect
<1>1. /\ routing' = routing \ {o} /\ direct' = direct /\ jobs' = jobs
      /\ order' = order /\ rem' = rem /\ status' = status /\ trades' = trades
      /\ platformFilled' = platformFilled
      /\ UNCHANGED <<work, dbStatus, dbTrades, positions, volume, sent, faultVars>>
  BY DEF DirectFails, bookVars, dbVars
<1>2. BooksInv' /\ ListInv'
  BY <1>1, BooksFail, ListSame
<1>3. \A x \in Recorded : Kept(x)
  BY <1>1, KeptSame
<1>4. Recorded' = Recorded
  BY <1>1 DEF Recorded
<1>. QED
  BY <1>1, <1>2, <1>3, <1>4 DEF EngineEffect, TablesInv

\* A round of the loop.
LEMMA RoundEffect ==
    ASSUME BooksInv, ListInv, TablesInv, EngineMatch
    PROVE  EngineEffect
<1>0. /\ MatchOne /\ TypeOK /\ platformFilled' = platformFilled
      /\ routing' = routing /\ direct' = direct /\ jobs' = jobs
      /\ UNCHANGED <<work, dbStatus, dbTrades, positions, volume, sent, faultVars>>
  BY DEF EngineMatch, routeVars, dbVars, BooksInv, ShelfInv
<1>1. PICK s, p, m, q, tr : Heads(s, p, m) /\ Meets(s, p, m, q, tr)
  BY <1>0, RoundMeets DEF BooksInv
<1>2. /\ taker \in Orders /\ status[taker] = "PENDING" /\ rem[taker] > 0
      /\ m \in Orders \ {taker}
      /\ order[m].type = "LIMIT" /\ status[m] \in RestingStatus
  BY <1>0, <1>1, HeadRests DEF MatchOne, BooksInv
<1>3. /\ \A x \in Orders \ {m, taker} : rem'[x] = rem[x]
      /\ status'[m] \in {"FILLED", "PARTIALLY_FILLED"}
      /\ \A x \in Orders \ {m} : status'[x] = status[x]
      /\ order' = order
  BY <1>0, <1>1, MeetsRem DEF BooksInv, MatchOne
<1>4. /\ tr \in Trade /\ tr.maker = m /\ tr.taker = taker
      /\ trades' = Append(trades, tr) /\ trades \in Seq(Trade)
  BY <1>0, <1>1 DEF Meets, TypeOK
<1>5. ToSet(trades') = ToSet(trades) \union {tr}
  <2>1. DOMAIN trades = 1..Len(trades) /\ DOMAIN trades' = 1..(Len(trades) + 1) /\ Len(trades) \in Nat
        /\ (\A i \in 1..Len(trades) : trades'[i] = trades[i]) /\ trades'[Len(trades) + 1] = tr
    BY <1>4
  <2>2. 1..(Len(trades) + 1) = 1..Len(trades) \union {Len(trades) + 1}
    BY <2>1
  <2>. QED
    BY <2>1, <2>2 DEF ToSet
<1>6. BooksInv' /\ ListInv'
  BY BooksMatch, ListMatch
<1>7. Recorded' = Recorded
  BY <1>2, <1>3 DEF Recorded, RestingStatus
<1>8. ASSUME NEW x \in Recorded PROVE Kept(x)
  <2>1. x \in Orders /\ x # taker
    BY <1>2, <1>8 DEF Recorded
  <2>2. BookTrades(x)' = BookTrades(x)
    BY <1>0, <1>4, <2>1, BookTradesKept
  <2>3. TradesOf(x)' = TradesOf(x)
    <3>1. ResultTrades(x, platformFilled[x])' = ResultTrades(x, platformFilled[x])
      BY <1>0, <1>3, <2>2 DEF ResultTrades, PlatformTrade, PlatformPrice
    <3>. QED
      BY <1>0, <1>3, <3>1 DEF TradesOf, ContractTrade
  <2>4. CASE x = m
    <3>1. PlatformOK(m)
      BY <2>1, <2>4 DEF BooksInv, FillsInv
    <3>2. Result(x) \in RestingStatus /\ Result(x) # "FILLED"
      BY <1>2, <2>4, <3>1 DEF PlatformOK, Result, ResultStatus, RestingStatus
    <3>3. Made(x)' # {} /\ Made(x) \subseteq Made(x)'
      BY <1>4, <1>5, <2>4 DEF Made
    <3>. QED
      BY <1>3, <1>7, <2>3, <3>2, <3>3 DEF Kept
  <2>5. CASE x # m
    <3>1. Made(x)' = Made(x)
      BY <1>4, <1>5, <2>5 DEF Made
    <3>2. Result(x)' = Result(x)
      BY <1>0, <1>3, <2>1, <2>5 DEF Result, ResultStatus
    <3>. QED
      BY <1>3, <1>7, <2>3, <3>1, <3>2 DEF Kept
  <2>. QED
    BY <2>4, <2>5
<1>9. \A x \in Orders : status[x] # "NEW" => order'[x] = order[x] /\ status'[x] # "NEW"
  BY <1>3
<1>10. \A x \in Orders : ~(status[x] = "NEW" /\ status'[x] # "NEW")
  BY <1>2, <1>3 DEF RestingStatus
<1>. QED
  BY <1>0, <1>6, <1>7, <1>8, <1>9, <1>10 DEF EngineEffect, TablesInv

----------------------------------------------------------------------------
(* The jobs, the workers and the tables under such a step. *)

\* A job stays true of its order.
LEMMA JobKept ==
    ASSUME NEW j, JobOK(j), \A x \in Recorded : Kept(x)
    PROVE  JobOK(j)'
<1>1. PICK o : o = j.order
  OBVIOUS
<1>2. /\ j \in JobType /\ o \in Recorded /\ ToSet(j.trades) = TradesOf(o) /\ IsInjective(j.trades)
      /\ IF Made(o) = {} THEN j.status = Result(o) ELSE j.status \in RestingStatus
  BY <1>1 DEF JobOK
<1>3. Kept(o)
  BY <1>2
<1>4. o \in Recorded' /\ ToSet(j.trades) = TradesOf(o)'
  BY <1>2, <1>3 DEF Kept
<1>5. IF Made(o)' = {} THEN j.status = Result(o)' ELSE j.status \in RestingStatus
  BY <1>2, <1>3 DEF Kept
<1>. QED
  BY <1>1, <1>2, <1>4, <1>5 DEF JobOK

\* A queue of one job more.
LEMMA JobAdded ==
    ASSUME NEW T, NEW s \in Seq(T), NEW j \in T
    PROVE  /\ Append(s, j) \in Seq(T) /\ Len(s) \in Nat
           /\ DOMAIN s = 1..Len(s) /\ DOMAIN Append(s, j) = 1..(Len(s) + 1)
           /\ \A k \in DOMAIN s : k \in DOMAIN Append(s, j) /\ Append(s, j)[k] = s[k]
           /\ Len(s) + 1 \in DOMAIN Append(s, j) /\ Append(s, j)[Len(s) + 1] = j
           /\ \A k \in DOMAIN Append(s, j) : k \in DOMAIN s \/ k = Len(s) + 1
<1>0. PICK r : r = Append(s, j)
  OBVIOUS
<1>1. /\ r \in Seq(T) /\ Len(s) \in Nat
      /\ DOMAIN s = 1..Len(s) /\ DOMAIN r = 1..(Len(s) + 1)
      /\ \A k \in DOMAIN s : k \in DOMAIN r /\ r[k] = s[k]
      /\ Len(s) + 1 \in DOMAIN r /\ r[Len(s) + 1] = j
      /\ \A k \in DOMAIN r : k \in DOMAIN s \/ k = Len(s) + 1
  BY <1>0
<1>. QED
  BY <1>0, <1>1, Zenon

\* A list with one element more.
LEMMA SetAdded ==
    ASSUME NEW T, NEW s \in Seq(T), NEW j \in T
    PROVE  ToSet(Append(s, j)) = ToSet(s) \union {j}
<1>0. PICK r : r = Append(s, j)
  OBVIOUS
<1>1. /\ Len(s) \in Nat /\ DOMAIN s = 1..Len(s) /\ DOMAIN r = 1..(Len(s) + 1)
      /\ \A k \in DOMAIN s : k \in DOMAIN r /\ r[k] = s[k]
      /\ Len(s) + 1 \in DOMAIN r /\ r[Len(s) + 1] = j
      /\ \A k \in DOMAIN r : k \in DOMAIN s \/ k = Len(s) + 1
  BY <1>0
<1>2. ToSet(r) \subseteq ToSet(s) \union {j}
  BY <1>1 DEF ToSet
<1>3. ToSet(s) \union {j} \subseteq ToSet(r)
  BY <1>1 DEF ToSet
<1>. QED
  BY <1>0, <1>2, <1>3

\* Jobs under a step of the engine or the route.
LEMMA JobsUnderEngine ==
    ASSUME JobsInv, EngineEffect
    PROVE  JobsInv'
<1>1. \A j \in ToSet(jobs) : JobOK(j)'
  BY JobKept DEF JobsInv, EngineEffect
<1>2. CASE jobs' = jobs
  BY <1>1, <1>2 DEF JobsInv
<1>3. ASSUME NEW o, NEW j, Processed(o, j) PROVE JobsInv'
  <2>1. j \in JobType
    BY <1>3 DEF Processed, JobOK
  <2>3. jobs \in Seq(JobType) /\ jobs' = Append(jobs, j)
    BY <1>3 DEF Processed, JobsInv
  <2>2. jobs' \in Seq(JobType) /\ ToSet(jobs') = ToSet(jobs) \union {j}
    <3>1. jobs' \in Seq(JobType)
      BY <2>1, <2>3
    <3>2. ToSet(Append(jobs, j)) = ToSet(jobs) \union {j}
      BY <2>1, <2>3, SetAdded
    <3>. QED
      BY <2>3, <3>1, <3>2
  <2>. QED
    BY <1>1, <1>3, <2>2 DEF JobsInv, Processed
<1>. QED
  BY <1>2, <1>3 DEF EngineEffect

\* So do the workers'.
LEMMA WorkUnderEngine ==
    ASSUME WorkInv, EngineEffect
    PROVE  WorkInv'
<1>1. work' = work /\ dbTrades' = dbTrades /\ positions' = positions /\ \A x \in Recorded : Kept(x)
  BY DEF EngineEffect
<1>2. ASSUME NEW x \in {work[w] : w \in Workers} PROVE WorkOK(x)'
  <2>1. WorkOK(x)
    BY <1>2 DEF WorkInv
  <2>2. PICK j : j = x.job
    OBVIOUS
  <2>3. JobOK(j) => JobOK(j)'
    BY <1>1, JobKept
  <2>. QED
    BY <1>1, <2>1, <2>2, <2>3 DEF WorkOK
<1>. QED
  BY <1>1, <1>2 DEF WorkInv

\* The tables are not the engine's.
LEMMA TablesUnderEngine ==
    ASSUME TablesInv, EngineEffect
    PROVE  TablesInv'
<1>1. \A x \in Recorded : x \in Recorded' /\ (Result(x) = "FILLED" => Result(x)' = "FILLED")
  BY DEF EngineEffect, Kept
<1>2. AllTrades \subseteq AllTrades'
  BY DEF EngineEffect, Kept, AllTrades
<1>3. /\ dbStatus' = dbStatus /\ dbTrades' = dbTrades /\ positions' = positions /\ volume' = volume
      /\ dropped' = dropped /\ faults' = faults /\ sent' \in [Orders -> Nat]
      /\ platformFilled' \in [Orders -> Nat]
      /\ routing' \union direct' \subseteq Orders /\ routing' \intersect direct' = {}
  BY DEF EngineEffect, faultVars
<1>4. \A o \in Orders : dbStatus[o] = "FILLED" => Result(o)' = "FILLED"
  BY <1>1 DEF TablesInv
<1>. QED
  BY <1>1, <1>2, <1>3, <1>4 DEF TablesInv

\* A processed order's job goes to the queue.
LEMMA CoverUnderEngine ==
    ASSUME JobsInv, CoverInv, EngineEffect
    PROVE  CoverInv'
<1>1. /\ dropped' = dropped /\ dbTrades' = dbTrades /\ work' = work /\ Busy' = Busy
      /\ \A x \in Recorded : TradesOf(x)' = TradesOf(x)
  BY DEF EngineEffect, faultVars, Kept, Busy
<1>2. CASE jobs' = jobs /\ Recorded' = Recorded
  BY <1>1, <1>2 DEF CoverInv
<1>3. ASSUME NEW o, NEW j, Processed(o, j) PROVE CoverInv'
  <2>1. j \in JobType /\ j.order = o /\ Recorded' = Recorded \union {o} /\ jobs' = Append(jobs, j)
    BY <1>3 DEF Processed, JobOK
  <2>2. /\ \A k \in DOMAIN jobs : k \in DOMAIN jobs' /\ jobs'[k] = jobs[k]
        /\ \E k \in DOMAIN jobs' : jobs'[k] = j
    BY <2>1, JobAdded DEF JobsInv
  <2>3. \E k \in DOMAIN jobs' : jobs'[k].order = o
    BY <2>1, <2>2
  <2>4. ASSUME NEW x \in Recorded \ dropped
        PROVE  \/ TradesOf(x)' \subseteq dbTrades'
               \/ \E k \in DOMAIN jobs' : jobs'[k].order = x
               \/ \E w \in Busy' : work'[w].job.order = x
    BY <1>1, <2>2 DEF CoverInv
  <2>. QED
    BY <1>1, <2>1, <2>3, <2>4 DEF CoverInv
<1>. QED
  BY <1>2, <1>3 DEF EngineEffect

\* A new order has been sent nothing.
LEMMA NewUnderEngine ==
    ASSUME NewInv, EngineEffect
    PROVE  NewInv'
BY DEF NewInv, EngineEffect

\* A trade of orders that have been processed, or that are not the book's.
Known(t) ==
    /\ t \in JobTrade
    /\ t.taker \in Recorded
    /\ t.maker \in Recorded \union {Platform, Contract}
    /\ t.maker # t.taker

\* So are the rows and the trades of the jobs.
LEMMA KnownTrades ==
    ASSUME BooksInv, ListInv, TablesInv
    PROVE  /\ \A t \in AllTrades : Known(t)
           /\ \A t \in dbTrades : Known(t)
           /\ \A j : JobOK(j) => \A t \in ToSet(j.trades) : Known(t) /\ t.taker = j.order /\ t \in AllTrades
           /\ IsFiniteSet(dbTrades) /\ dbTrades \subseteq AllTrades
<1>1. \A t \in AllTrades : Known(t)
  <2>1. SUFFICES ASSUME NEW t \in AllTrades PROVE Known(t)
    OBVIOUS
  <2>2. t \in JobTrade /\ t.taker \in Recorded /\ t.maker # t.taker /\ (t.maker \in Orders => t.maker \in Recorded)
    BY AllTradesAre
  <2>. QED
    BY <2>2 DEF Known, JobTrade
<1>2. ASSUME NEW j, JobOK(j), NEW t \in ToSet(j.trades)
      PROVE  Known(t) /\ t.taker = j.order /\ t \in AllTrades
  <2>1. PICK o \in Recorded : o = j.order /\ t \in TradesOf(o)
    BY <1>2 DEF JobOK
  <2>2. t.taker = o /\ t \in AllTrades
    BY <2>1, AllTradesAre, TradesOfAre
  <2>. QED
    BY <1>1, <2>1, <2>2
<1>3. dbTrades \subseteq AllTrades
  BY DEF TablesInv
<1>4. IsFiniteSet(dbTrades)
  BY <1>3, AllTradesAre, FS_Subset
<1>. QED
  BY <1>1, <1>2, <1>3, <1>4

\* The parties of a known trade stay who they are.
LEMMA AcctKept ==
    ASSUME NEW t, Known(t), \A o \in Recorded : order'[o] = order[o]
    PROVE  BuyerAcct(t)' = BuyerAcct(t) /\ SellerAcct(t)' = SellerAcct(t)
<1>1. t.taker \in Recorded /\ order'[t.taker] = order[t.taker]
  BY DEF Known
<1>2. Acct(t.taker)' = Acct(t.taker)
  BY <1>1 DEF Acct
<1>3. Acct(t.maker)' = Acct(t.maker)
  BY DEF Known, Acct
<1>4. CASE order[t.taker].side = "BID"
  BY <1>1, <1>2, <1>3, <1>4 DEF BuyerAcct, SellerAcct, Buyer, Seller
<1>5. CASE order[t.taker].side # "BID"
  BY <1>1, <1>2, <1>3, <1>5 DEF BuyerAcct, SellerAcct, Buyer, Seller
<1>. QED
  BY <1>4, <1>5

\* The record of the worker that has a job.
LEMMA CurIs ==
    ASSUME WorkInv
    PROVE  /\ Cur \in WorkType /\ WorkOK(Cur)
           /\ Busy = {} => Cur = Idle
           /\ Busy # {} => \E w \in Busy : Cur = work[w] /\ Cur.at # "idle"
           /\ \A w \in Workers : w \in Busy <=> work[w].at # "idle"
<1>1. \A w \in Workers : work[w] \in WorkType /\ WorkOK(work[w])
  BY DEF WorkInv
<1>2. ASSUME NEW w \in Workers PROVE w \in Busy <=> work[w].at # "idle"
  <2>1. PICK x : x = work[w]
    OBVIOUS
  <2>2. x.at = "idle" => x = Idle
    BY <1>1, <2>1 DEF WorkOK
  <2>3. x = Idle => x.at = "idle"
    BY DEF Idle
  <2>. QED
    BY <2>1, <2>2, <2>3 DEF Busy
<1>3. CASE Busy = {}
  <2>1. Cur = Idle
    BY <1>3 DEF Cur
  <2>2. PICK x : x = Idle
    OBVIOUS
  <2>3. x \in WorkType
    BY <2>2 DEF Idle, WorkType, NoRow
  <2>4. WorkOK(x)
    BY <2>2 DEF WorkOK, Idle, Looping, Written, NoRow
  <2>. QED
    BY <1>2, <1>3, <2>1, <2>2, <2>3, <2>4
<1>4. CASE Busy # {}
  <2>1. PICK w \in Busy : Cur = work[w]
    BY <1>4 DEF Cur
  <2>2. w \in Workers
    BY DEF Busy
  <2>. QED
    BY <1>1, <1>2, <1>4, <2>1, <2>2
<1>. QED
  BY <1>3, <1>4

\* The trade a worker is at.
LEMMA AtTrade ==
    ASSUME NEW x, WorkOK(x), x \in WorkType, x.at \in Looping
    PROVE  x.job \in JobType /\ JobOK(x.job) /\ x.job.trades[x.i] \in ToSet(x.job.trades)
<1>1. x.at # "idle" /\ x.at \in Written
  BY DEF Looping, Written
<1>2. JobOK(x.job) /\ x.i \in 1..Len(x.job.trades)
  BY <1>1 DEF WorkOK
<1>3. x.job \in JobType
  BY <1>2 DEF JobOK
<1>4. x.job.trades \in Seq(JobTrade)
  BY <1>3 DEF JobType
<1>. QED
  BY <1>2, <1>3, <1>4 DEF ToSet

\* The orders of the queue, with a job added.
LEMMA QueuedAdded ==
    ASSUME JobsInv, NEW o, NEW j, Processed(o, j)
    PROVE  /\ Queued' = Queued \union {o} /\ Queued \subseteq Recorded /\ o \notin Recorded /\ o \in Orders
           /\ j \in JobType
<1>1. j \in JobType /\ j.order = o /\ jobs' = Append(jobs, j) /\ o \in Orders \ Recorded
  BY DEF Processed, JobOK
<1>2. /\ \A k \in DOMAIN jobs : k \in DOMAIN jobs' /\ jobs'[k] = jobs[k]
      /\ Len(jobs) + 1 \in DOMAIN jobs' /\ jobs'[Len(jobs) + 1] = j
      /\ \A k \in DOMAIN jobs' : k \in DOMAIN jobs \/ k = Len(jobs) + 1
  BY <1>1, JobAdded DEF JobsInv
<1>3. Queued' = Queued \union {o}
  BY <1>1, <1>2 DEF Queued
<1>4. \A k \in DOMAIN jobs : jobs[k] \in ToSet(jobs)
  BY DEF ToSet
<1>5. Queued \subseteq Recorded
  BY <1>4 DEF Queued, JobsInv, JobOK
<1>. QED
  BY <1>1, <1>3, <1>5

TakersMeetOthers == \A r \in Recorded : \A t \in TradesOf(r) : t.taker = r /\ t.maker # r

\* That is so of every order processed.
LEMMA TradesHaveTakers == BooksInv /\ ListInv => TakersMeetOthers
BY TradesOfAre DEF TakersMeetOthers

\* The order of the jobs.
LEMMA LineUnderEngine ==
    ASSUME BooksInv, ListInv, JobsInv, TablesInv, EngineEffect,
           NEW x, LineInv(x), DoneInv(x), WorkOK(x)
    PROVE  LineInv(x)' /\ DoneInv(x)'
<1>1. work' = work /\ dbTrades' = dbTrades /\ Busy' = Busy
  BY DEF EngineEffect, Busy
<1>2. CASE jobs' = jobs
  <2>1. Queued' = Queued
    BY <1>2 DEF Queued
  <2>. QED
    BY <1>1, <1>2, <2>1 DEF LineInv, DoneInv
<1>3. ASSUME NEW o, NEW j, Processed(o, j) PROVE LineInv(x)' /\ DoneInv(x)'
  <2>1. /\ Queued' = Queued \union {o} /\ Queued \subseteq Recorded /\ o \notin Recorded
        /\ j \in JobType /\ j.order = o /\ jobs' = Append(jobs, j) /\ o \in Orders /\ JobOK(j)'
    BY <1>3, QueuedAdded DEF Processed
  <2>2. /\ \A k \in DOMAIN jobs : k \in DOMAIN jobs' /\ jobs'[k] = jobs[k] /\ k \in Nat
        /\ jobs'[Len(jobs) + 1] = j
        /\ \A k \in DOMAIN jobs' : k \in DOMAIN jobs \/ k = Len(jobs) + 1
        /\ Len(jobs) \in Nat /\ DOMAIN jobs = 1..Len(jobs)
    BY <2>1, JobAdded DEF JobsInv
  <2>3. \A t : Known(t) => t.maker # o /\ t.taker # o
    BY <2>1, PlatformAssumption, ContractAssumption DEF Known
  <2>4. \A t \in dbTrades : t.maker # o /\ t.taker # o
    BY <2>3, KnownTrades
  <2>5. \A k \in DOMAIN jobs : \A t \in ToSet(jobs[k].trades) : t.maker # o
    <3>1. \A k \in DOMAIN jobs : JobOK(jobs[k])
      BY DEF JobsInv, ToSet
    <3>. QED
      BY <2>3, <3>1, KnownTrades
  <2>6. (\A t \in ToSet(x.job.trades) : t.maker # o) /\ x.job.order # o
    <3>1. CASE x.at = "idle"
      <4>1. x.job.trades = << >> /\ x.job.order = NoOrder
        BY <3>1 DEF WorkOK, Idle, NoJob
      <4>. QED
        BY <2>1, <4>1, NoOrderAssumption DEF ToSet
    <3>2. CASE x.at # "idle"
      <4>1. JobOK(x.job)
        BY <3>2 DEF WorkOK
      <4>2. x.job.order # o
        BY <2>1, <4>1 DEF JobOK
      <4>. QED
        BY <2>3, <4>1, <4>2, KnownTrades
    <3>. QED
      BY <3>1, <3>2
  <2>7. \A t \in ToSet(j.trades) : t.maker # o
    <3>1. BooksInv' /\ ListInv'
      BY DEF EngineEffect
    <3>2. TradesOf(o)' = ToSet(j.trades) /\ o \in Recorded'
      BY <2>1 DEF JobOK
    <3>3. TakersMeetOthers'
      BY <3>1, TradesHaveTakers, PTL
    <3>. QED
      BY <3>2, <3>3 DEF TakersMeetOthers
  <2>8. \A k \in DOMAIN jobs : jobs[k].order # o
    BY <2>1 DEF Queued
  <2>9. DoneInv(x)'
    BY <1>1, <2>1, <2>4 DEF DoneInv
  <2>10. /\ \A v, w \in Busy' : v = w
         /\ Busy' # {} => x.job.order \notin Queued'
    BY <1>1, <2>1, <2>6 DEF LineInv
  <2>11. \A k, l \in DOMAIN jobs' : jobs'[k].order = jobs'[l].order => k = l
    BY <2>1, <2>2, <2>8 DEF LineInv
  <2>12. ASSUME NEW k \in DOMAIN jobs', NEW l \in DOMAIN jobs', k <= l, NEW t \in ToSet(jobs'[k].trades)
         PROVE  t.maker # jobs'[l].order
    <3>1. CASE l \in DOMAIN jobs
      <4>1. k \in DOMAIN jobs
        BY <2>2, <2>12, <3>1
      <4>. QED
        BY <2>2, <2>12, <3>1, <4>1 DEF LineInv
    <3>2. CASE l = Len(jobs) + 1
      BY <2>1, <2>2, <2>5, <2>7, <2>12, <3>2
    <3>. QED
      BY <2>2, <3>1, <3>2
  <2>13. \A t \in dbTrades' \union ToSet(x.job.trades) : t.maker \notin Queued'
    BY <1>1, <2>1, <2>4, <2>6 DEF LineInv
  <2>14. x.at = "order" => \A t \in dbTrades' : t.maker # x.job.order
    BY <1>1 DEF LineInv
  <2>. QED
    BY <2>9, <2>10, <2>11, <2>12, <2>13, <2>14 DEF LineInv
<1>. QED
  BY <1>2, <1>3 DEF EngineEffect

----------------------------------------------------------------------------
(* What the rows of an account add up to, as FoldLeft computes it. *)

\* One row more.
NetStep(sum, r, a) ==
    IF r.acct # a \/ ~r.open THEN sum
    ELSE IF r.side = "LONG" THEN sum + r.amt ELSE sum - r.amt

IsNets(g, a, ps, n) ==
    g = [s \in SUBSET (1..n) |-> IF s = {} THEN 0 ELSE NetStep(g[s \ {Max(s)}], ps[Max(s)], a)]

NetOf(ps, a) == (CHOOSE g : IsNets(g, a, ps, Len(ps)))[1..Len(ps)]

\* The table of the first n rows, with one more.
LEMMA NetsExtend ==
    ASSUME NEW n \in Nat, NEW a, NEW ps, NEW g, IsNets(g, a, ps, n)
    PROVE  \E h : IsNets(h, a, ps, n + 1)
<1>. DEFINE h == [s \in SUBSET (1..(n + 1)) |->
                    IF (n + 1) \in s THEN NetStep(g[s \ {n + 1}], ps[n + 1], a) ELSE g[s]]
<1>1. ASSUME NEW s \in SUBSET (1..(n + 1))
      PROVE h[s] = IF s = {} THEN 0 ELSE NetStep(h[s \ {Max(s)}], ps[Max(s)], a)
  <2>1. CASE (n + 1) \in s
    <3>1. Max(s) = n + 1
      <4>1. \A y \in s : n + 1 >= y
        OBVIOUS
      <4>2. n + 1 \in Nat
        OBVIOUS
      <4>. QED
        BY <2>1, <4>1, <4>2, MaxIs, Zenon
    <3>2. s \ {n + 1} \in SUBSET (1..(n + 1)) /\ (n + 1) \notin s \ {n + 1}
      OBVIOUS
    <3>3. h[s \ {n + 1}] = g[s \ {n + 1}]
      BY <3>2
    <3>4. h[s] = NetStep(g[s \ {n + 1}], ps[n + 1], a)
      BY <2>1
    <3>. QED
      BY <2>1, <3>1, <3>3, <3>4, Zenon
  <2>2. CASE (n + 1) \notin s
    <3>1. s \in SUBSET (1..n) /\ h[s] = g[s]
      BY <2>2
    <3>3. CASE s # {}
      <4>1. Max(s) \in s
        BY <3>1, <3>3, MaxIs
      <4>2. s \ {Max(s)} \in SUBSET (1..(n + 1)) /\ (n + 1) \notin s \ {Max(s)}
        BY <2>2
      <4>3. h[s \ {Max(s)}] = g[s \ {Max(s)}]
        BY <4>2
      <4>5. g[s] = NetStep(g[s \ {Max(s)}], ps[Max(s)], a)
        BY <3>1, <3>3, Zenon DEF IsNets
      <4>. QED
        BY <3>1, <3>3, <4>3, <4>5, Zenon
    <3>4. CASE s = {}
      <4>1. g[s] = 0
        BY <3>1, <3>4, Zenon DEF IsNets
      <4>. QED
        BY <3>1, <3>4, <4>1, Zenon
    <3>. QED
      BY <3>3, <3>4
  <2>. QED
    BY <2>1, <2>2
<1>2. h = [s \in SUBSET (1..(n + 1)) |-> h[s]]
  OBVIOUS
<1>. HIDE DEF h
<1>3. h = [s \in SUBSET (1..(n + 1)) |-> IF s = {} THEN 0 ELSE NetStep(h[s \ {Max(s)}], ps[Max(s)], a)]
  BY <1>1, <1>2, Zenon
<1>. QED
  BY <1>3, Zenon DEF IsNets

\* There is one for every n.
LEMMA NetsExist ==
    ASSUME NEW n \in Nat, NEW a, NEW ps
    PROVE  \E g : IsNets(g, a, ps, n)
<1>. DEFINE S == {k \in Nat : \E g : IsNets(g, a, ps, k)}
<1>1. 0 \in S
  <2>. DEFINE g == [s \in SUBSET (1..0) |-> 0]
  <2>1. \A s \in SUBSET (1..0) : s = {}
    OBVIOUS
  <2>2. g = [s \in SUBSET (1..0) |-> IF s = {} THEN 0 ELSE NetStep(g[s \ {Max(s)}], ps[Max(s)], a)]
    BY <2>1, Zenon
  <2>3. IsNets(g, a, ps, 0)
    BY <2>2, Zenon DEF IsNets
  <2>. QED
    BY <2>3
<1>2. \A k \in S : k + 1 \in S
  BY NetsExtend
<1>3. S = Nat
  <2>. HIDE DEF S
  <2>1. S \in SUBSET Nat
    BY DEF S
  <2>. QED
    BY <1>1, <1>2, <2>1, Induct, Zenon
<1>. QED
  BY <1>3

\* The net of the first k rows.
LEMMA NetsOfPrefix ==
    ASSUME NEW n \in Nat, NEW a, NEW ps, NEW g, IsNets(g, a, ps, n)
    PROVE  /\ g[1..0] = 0
           /\ \A k \in 0..(n - 1) : g[1..(k + 1)] = NetStep(g[1..k], ps[k + 1], a)
<1>1. g[1..0] = 0
  <2>1. 1..0 \in SUBSET (1..n) /\ 1..0 = {}
    OBVIOUS
  <2>. QED
    BY <2>1, Zenon DEF IsNets
<1>2. ASSUME NEW k \in 0..(n - 1) PROVE g[1..(k + 1)] = NetStep(g[1..k], ps[k + 1], a)
  <2>1. 1..(k + 1) \in SUBSET (1..n) /\ 1..(k + 1) # {} /\ k + 1 \in 1..(k + 1)
    OBVIOUS
  <2>2. \A y \in 1..(k + 1) : k + 1 >= y
    OBVIOUS
  <2>3. Max(1..(k + 1)) = k + 1
    BY <2>1, <2>2, MaxIs, Zenon
  <2>4. 1..(k + 1) \ {k + 1} = 1..k
    OBVIOUS
  <2>5. g[1..(k + 1)] = NetStep(g[1..(k + 1) \ {Max(1..(k + 1))}], ps[Max(1..(k + 1))], a)
    BY <2>1, Zenon DEF IsNets
  <2>. QED
    BY <2>3, <2>4, <2>5, Zenon
<1>. QED
  BY <1>1, <1>2

\* A row adds its value, whatever came before it.
LEMMA NetStepIs ==
    ASSUME NEW r \in RowType, NEW sum \in Int, NEW a
    PROVE  /\ NetStep(0, r, a) \in Int
           /\ NetStep(sum, r, a) = sum + NetStep(0, r, a)
           /\ NetStep(0, r, a) = IF r.acct = a /\ r.open
                                 THEN (IF r.side = "LONG" THEN r.amt ELSE 0 - r.amt) ELSE 0
BY DEF NetStep, RowType

\* Two lists of rows that begin alike but for the i-th row.
LEMMA NetsDiffer ==
    ASSUME NEW n \in Nat, NEW p \in Nat, n <= p, NEW a, NEW ps, NEW rs, NEW g, NEW h, NEW i \in Nat,
           IsNets(g, a, ps, n), IsNets(h, a, rs, p),
           \A j \in 1..n : ps[j] \in RowType /\ rs[j] \in RowType /\ (j # i => rs[j] = ps[j])
    PROVE  /\ g[1..n] \in Int
           /\ h[1..n] = g[1..n] + (IF i \in 1..n THEN NetStep(0, rs[i], a) - NetStep(0, ps[i], a) ELSE 0)
<1>. DEFINE Diff(k) == IF i \in 1..k THEN NetStep(0, rs[i], a) - NetStep(0, ps[i], a) ELSE 0
            S == {k \in Nat : k <= n => g[1..k] \in Int /\ h[1..k] = g[1..k] + Diff(k)}
<1>1. 0 \in S
  <2>1. g[1..0] = 0 /\ h[1..0] = 0
    BY NetsOfPrefix, Zenon
  <2>2. Diff(0) = 0
    OBVIOUS
  <2>. HIDE DEF Diff
  <2>. QED
    BY <2>1, <2>2
<1>2. ASSUME NEW k \in S PROVE k + 1 \in S
  <2>1. SUFFICES ASSUME k + 1 <= n
                 PROVE  g[1..(k + 1)] \in Int /\ h[1..(k + 1)] = g[1..(k + 1)] + Diff(k + 1)
    BY <1>2
  <2>2. k \in 0..(n - 1) /\ k \in 0..(p - 1) /\ k + 1 \in 1..n /\ k \in Nat
    BY <1>2, <2>1
  <2>3. PICK u, v : u = NetStep(0, ps[k + 1], a) /\ v = NetStep(0, rs[k + 1], a)
    OBVIOUS
  <2>4. g[1..k] \in Int /\ h[1..k] = g[1..k] + Diff(k)
    BY <1>2, <2>1, <2>2
  <2>5. Diff(k) \in Int
    <3>1. CASE i \in 1..k
      <4>1. i \in 1..n
        BY <2>2, <3>1
      <4>2. NetStep(0, rs[i], a) \in Int /\ NetStep(0, ps[i], a) \in Int
        BY <4>1, NetStepIs
      <4>. QED
        BY <3>1, <4>2
    <3>2. CASE i \notin 1..k
      BY <3>2
    <3>. QED
      BY <3>1, <3>2
  <2>6. u \in Int /\ v \in Int /\ (k + 1 # i => u = v)
    <3>1. ps[k + 1] \in RowType /\ rs[k + 1] \in RowType /\ (k + 1 # i => rs[k + 1] = ps[k + 1])
      BY <2>2
    <3>. QED
      BY <2>3, <3>1, NetStepIs
  <2>7. g[1..(k + 1)] = g[1..k] + u
    <3>1. g[1..(k + 1)] = NetStep(g[1..k], ps[k + 1], a)
      BY <2>2, NetsOfPrefix
    <3>. QED
      BY <2>2, <2>3, <2>4, <3>1, NetStepIs
  <2>8. h[1..(k + 1)] = h[1..k] + v
    <3>1. h[1..(k + 1)] = NetStep(h[1..k], rs[k + 1], a)
      BY <2>2, NetsOfPrefix
    <3>2. PICK d \in Int : d = Diff(k)
      BY <2>5
    <3>3. h[1..k] \in Int
      BY <2>4, <3>2
    <3>. QED
      BY <2>2, <2>3, <3>1, <3>3, NetStepIs
  <2>9. Diff(k + 1) = Diff(k) + (v - u)
    <3>1. CASE i = k + 1
      <4>1. Diff(k) = 0 /\ Diff(k + 1) = v - u
        <5>1. i \notin 1..k /\ i \in 1..(k + 1)
          BY <2>2, <3>1
        <5>. QED
          BY <2>3, <3>1, <5>1
      <4>. HIDE DEF Diff
      <4>. QED
        BY <2>6, <4>1
    <3>2. CASE i # k + 1
      <4>1. i \in 1..k <=> i \in 1..(k + 1)
        BY <2>2, <3>2
      <4>2. Diff(k + 1) = Diff(k)
        BY <4>1
      <4>. HIDE DEF Diff
      <4>. QED
        BY <2>5, <2>6, <3>2, <4>2
    <3>. QED
      BY <3>1, <3>2
  <2>. HIDE DEF Diff
  <2>. QED
    BY <2>4, <2>5, <2>6, <2>7, <2>8, <2>9
<1>3. S = Nat
  <2>. HIDE DEF S
  <2>1. S \in SUBSET Nat
    BY DEF S
  <2>. QED
    BY <1>1, <1>2, <2>1, Induct, Zenon
<1>. QED
  BY <1>3

\* What NetOf computes exists.
LEMMA NetOfIs ==
    ASSUME NEW ps \in Seq(RowType), NEW a
    PROVE  \E g : IsNets(g, a, ps, Len(ps)) /\ NetOf(ps, a) = g[1..Len(ps)]
<1>1. PICK g : g = CHOOSE f : IsNets(f, a, ps, Len(ps))
  OBVIOUS
<1>2. Len(ps) \in Nat
  OBVIOUS
<1>3. IsNets(g, a, ps, Len(ps))
  BY <1>1, <1>2, NetsExist, Zenon
<1>. QED
  BY <1>1, <1>3, Zenon DEF NetOf

\* The net of one row more.
LEMMA NetOfAppend ==
    ASSUME NEW ps \in Seq(RowType), NEW a, NEW r \in RowType
    PROVE  NetOf(Append(ps, r), a) = NetOf(ps, a) + NetStep(0, r, a) /\ NetOf(ps, a) \in Int
<1>1. PICK n \in Nat : n = Len(ps)
  OBVIOUS
<1>2. PICK rs : rs = Append(ps, r)
  OBVIOUS
<1>3. /\ rs \in Seq(RowType) /\ Len(rs) = n + 1 /\ rs[n + 1] = r
      /\ \A j \in 1..n : ps[j] \in RowType /\ rs[j] \in RowType /\ rs[j] = ps[j]
  BY <1>1, <1>2
<1>4. PICK g : IsNets(g, a, ps, n) /\ NetOf(ps, a) = g[1..n]
  BY <1>1, NetOfIs
<1>5. PICK h : IsNets(h, a, rs, n + 1) /\ NetOf(rs, a) = h[1..(n + 1)]
  BY <1>3, NetOfIs
<1>6. g[1..n] \in Int /\ h[1..n] = g[1..n]
  <2>1. 0 \in Nat /\ n + 1 \in Nat /\ n <= n + 1 /\ 0 \notin 1..n
    OBVIOUS
  <2>2. /\ g[1..n] \in Int
        /\ h[1..n] = g[1..n] + (IF 0 \in 1..n THEN NetStep(0, rs[0], a) - NetStep(0, ps[0], a) ELSE 0)
    BY <1>3, <1>4, <1>5, <2>1, NetsDiffer
  <2>. QED
    BY <2>1, <2>2
<1>7. h[1..(n + 1)] = NetStep(h[1..n], r, a)
  <2>1. n \in 0..((n + 1) - 1)
    OBVIOUS
  <2>2. h[1..(n + 1)] = NetStep(h[1..n], rs[n + 1], a)
    BY <1>5, <2>1, NetsOfPrefix
  <2>. QED
    BY <1>3, <2>2
<1>8. NetStep(h[1..n], r, a) = h[1..n] + NetStep(0, r, a)
  BY <1>6, NetStepIs
<1>. QED
  BY <1>2, <1>4, <1>5, <1>6, <1>7, <1>8

\* The net when one row is changed.
LEMMA NetOfUpdate ==
    ASSUME NEW ps \in Seq(RowType), NEW a, NEW i \in DOMAIN ps, NEW r \in RowType
    PROVE  /\ NetOf([ps EXCEPT ![i] = r], a) = NetOf(ps, a) + (NetStep(0, r, a) - NetStep(0, ps[i], a))
           /\ NetOf(ps, a) \in Int
<1>1. PICK n \in Nat : n = Len(ps)
  OBVIOUS
<1>2. PICK rs : rs = [ps EXCEPT ![i] = r]
  OBVIOUS
<1>3. /\ rs \in Seq(RowType) /\ Len(rs) = n /\ rs[i] = r /\ i \in 1..n /\ i \in Nat
      /\ \A j \in 1..n : ps[j] \in RowType /\ rs[j] \in RowType /\ (j # i => rs[j] = ps[j])
  BY <1>1, <1>2
<1>4. PICK g : IsNets(g, a, ps, n) /\ NetOf(ps, a) = g[1..n]
  BY <1>1, NetOfIs
<1>5. PICK h : IsNets(h, a, rs, n) /\ NetOf(rs, a) = h[1..n]
  BY <1>3, NetOfIs
<1>6. /\ g[1..n] \in Int
      /\ h[1..n] = g[1..n] + (IF i \in 1..n THEN NetStep(0, rs[i], a) - NetStep(0, ps[i], a) ELSE 0)
  BY <1>3, <1>4, <1>5, NetsDiffer
<1>. QED
  BY <1>2, <1>3, <1>4, <1>5, <1>6

\* The net of a single row.
LEMMA NetOfOne ==
    ASSUME NEW a, NEW r \in RowType
    PROVE  NetOf(<<r>>, a) = NetStep(0, r, a)
<1>1. PICK e : e = << >>
  OBVIOUS
<1>2. e \in Seq(RowType) /\ Len(e) = 0 /\ Append(e, r) = <<r>>
  BY <1>1
<1>3. NetOf(e, a) = 0
  <2>1. PICK g : IsNets(g, a, e, 0) /\ NetOf(e, a) = g[1..0]
    BY <1>2, NetOfIs
  <2>2. g[1..0] = 0
    BY <2>1, NetsOfPrefix
  <2>. QED
    BY <2>1, <2>2
<1>4. NetOf(Append(e, r), a) = NetOf(e, a) + NetStep(0, r, a) /\ NetStep(0, r, a) \in Int
  BY <1>2, NetOfAppend, NetStepIs
<1>. QED
  BY <1>2, <1>3, <1>4

\* This is what Net computes.
NetsAre == \A a : Net(a) = NetOf(positions, a)

\* It is the net position of the model, which FoldLeft computes.
LEMMA NetIs == positions \in Seq(RowType) => NetsAre
<1>. SUFFICES ASSUME positions \in Seq(RowType), NEW a PROVE Net(a) = NetOf(positions, a)
  BY DEF NetsAre
<1>1. DOMAIN positions = 1..Len(positions)
  OBVIOUS
<1>2. Net(a) = (CHOOSE g : g = [s \in SUBSET DOMAIN positions |-> IF s = {} THEN 0
                   ELSE NetStep(g[s \ {Max(s)}], positions[Max(s)], a)])[DOMAIN positions]
  BY Zenon DEF Net, FoldLeft, MapThenFoldSet, NetStep
<1>. QED
  BY <1>1, <1>2, Zenon DEF NetOf, IsNets

----------------------------------------------------------------------------
(* What is exact under such a step. *)

\* The rows of the orders.
LEMMA RowsUnderEngine ==
    ASSUME JobsInv, EngineEffect, NEW x, RowsInv(x)
    PROVE  RowsInv(x)'
<1>1. dbStatus' = dbStatus /\ dbTrades' = dbTrades /\ \A o \in Recorded : Kept(o)
  BY DEF EngineEffect
<1>2. Recorded' \ Queued' \subseteq Recorded \ Queued
  <2>1. CASE jobs' = jobs /\ Recorded' = Recorded
    BY <2>1 DEF Queued
  <2>2. ASSUME NEW o, NEW j, Processed(o, j) PROVE Recorded' \ Queued' \subseteq Recorded \ Queued
    BY <2>2, QueuedAdded DEF Processed
  <2>. QED
    BY <2>1, <2>2 DEF EngineEffect
<1>3. ASSUME NEW o \in Recorded, RowOK(x, o) PROVE RowOK(x, o)'
  <2>1. PICK S : S = Seen(x, o)
    OBVIOUS
  <2>2. Seen(x, o)' = S
    BY <1>1, <2>1 DEF Seen
  <2>3. Kept(o)
    BY <1>1
  <2>4. CASE S # {}
    BY <1>1, <1>3, <2>1, <2>2, <2>3, <2>4 DEF RowOK, Kept
  <2>5. CASE S = {} /\ Made(o)' = {}
    BY <1>1, <1>3, <2>1, <2>2, <2>3, <2>5 DEF RowOK, Kept
  <2>6. CASE S = {} /\ Made(o)' # {}
    BY <1>1, <1>3, <2>1, <2>2, <2>3, <2>6 DEF RowOK, Kept
  <2>. QED
    BY <2>4, <2>5, <2>6
<1>. QED
  BY <1>1, <1>2, <1>3 DEF RowsInv

\* The positions.
LEMMA LongUnderEngine ==
    ASSUME BooksInv, ListInv, TablesInv, EngineEffect, NEW x, x \in WorkType, WorkOK(x), LongInv(x)
    PROVE  LongInv(x)'
<1>1. positions' = positions /\ \A o \in Recorded : order'[o] = order[o]
  BY DEF EngineEffect, Kept
<1>2. CASE x.at \notin Looping
  BY <1>1, <1>2 DEF LongInv, OneLong, Looping
<1>3. CASE x.at \in Looping
  <2>1. PICK t : t = x.job.trades[x.i]
    OBVIOUS
  <2>2. JobOK(x.job) /\ t \in ToSet(x.job.trades)
    BY <1>3, <2>1, AtTrade
  <2>3. BuyerAcct(t)' = BuyerAcct(t) /\ SellerAcct(t)' = SellerAcct(t)
    BY <1>1, <2>2, KnownTrades, AcctKept
  <2>4. ChainOf(x.job)' = ChainOf(x.job)
    BY <1>1, <2>2 DEF ChainOf, JobOK
  <2>5. \A a : ReadOK(x, a)' <=> ReadOK(x, a)
    BY <1>1, <2>4 DEF ReadOK, LongRows
  <2>. QED
    BY <1>1, <2>1, <2>3, <2>5 DEF LongInv, OneLong
<1>. QED
  BY <1>2, <1>3

\* The engine does not trade for anyone's rows.
LEMMA NetUnderEngine ==
    ASSUME BooksInv, ListInv, TablesInv, EngineEffect, NEW x, x \in WorkType, WorkOK(x), NetInv(x)
    PROVE  NetInv(x)'
<1>1. /\ positions' = positions /\ dbTrades' = dbTrades /\ \A o \in Recorded : order'[o] = order[o]
  BY DEF EngineEffect, Kept
<1>2. \A t \in dbTrades : BuyerAcct(t)' = BuyerAcct(t) /\ SellerAcct(t)' = SellerAcct(t)
  BY <1>1, KnownTrades, AcctKept
<1>3. ASSUME NEW a
      PROVE  Buys(x, a)' = Buys(x, a) /\ Sales(x, a)' = Sales(x, a)
  BY <1>1, <1>2 DEF Buys, Sales
<1>4. ASSUME NEW a PROVE HalfSold(x, a)' = HalfSold(x, a)
  <2>1. CASE x.at # "short"
    BY <2>1 DEF HalfSold
  <2>2. CASE x.at = "short"
    <3>1. PICK t : t = x.job.trades[x.i]
      OBVIOUS
    <3>2. JobOK(x.job) /\ t \in ToSet(x.job.trades)
      BY <2>2, <3>1, AtTrade DEF Looping
    <3>3. SellerAcct(t)' = SellerAcct(t)
      BY <1>1, <3>2, KnownTrades, AcctKept
    <3>. QED
      BY <3>1, <3>3 DEF HalfSold
  <2>. QED
    BY <2>1, <2>2
<1>5. \A a : Net(a)' = Net(a)
  <2>1. positions \in Seq(RowType)
    BY DEF TablesInv
  <2>2. (positions \in Seq(RowType))'
    BY <1>1, <2>1
  <2>3. NetsAre
    BY <2>1, NetIs
  <2>4. NetsAre'
    BY <2>2, NetIs, PTL
  <2>. QED
    BY <1>1, <2>3, <2>4 DEF NetsAre
<1>6. ASSUME NEW a \in Accounts
      PROVE  Net(a)' = QtySum(Buys(x, a)') - QtySum(Sales(x, a)') + Supply(a) - HalfSold(x, a)'
  <2>1. Net(a) = QtySum(Buys(x, a)) - QtySum(Sales(x, a)) + Supply(a) - HalfSold(x, a)
    BY DEF NetInv
  <2>2. QtySum(Buys(x, a)') = QtySum(Buys(x, a)) /\ QtySum(Sales(x, a)') = QtySum(Sales(x, a))
    BY <1>3
  <2>. QED
    BY <1>4, <1>5, <2>1, <2>2
<1>. QED
  BY <1>6, Zenon DEF NetInv

\* Nor does it send anything.
LEMMA SentUnderEngine ==
    ASSUME BooksInv, ListInv, TablesInv, NewInv, EngineEffect, NEW x, SentInv(x)
    PROVE  SentInv(x)'
<1>1. dbTrades' = dbTrades
  BY DEF EngineEffect
<1>2. \A o : Sent(x, o)' = Sent(x, o)
  BY <1>1 DEF Sent
<1>3. ASSUME NEW o \in Orders, order'[o].who.kind = "agent", HasSignature(o)'
      PROVE  sent'[o] = Cardinality(Sent(x, o)') + ByRoute(o)'
  <2>1. CASE status[o] = "NEW"
    <3>1. \A t : Known(t) => t.maker # o /\ t.taker # o
      BY <2>1, PlatformAssumption, ContractAssumption DEF Known, Recorded
    <3>2. Sent(x, o) = {}
      BY <3>1, KnownTrades DEF Sent
    <3>3. Cardinality(Sent(x, o)') = 0 /\ sent[o] = 0
      BY <1>2, <2>1, <3>2, FS_EmptySet DEF NewInv
    <3>4. CASE status'[o] = "NEW"
      <4>1. sent'[o] = sent[o]
        BY <3>4 DEF EngineEffect
      <4>2. StatusOK(o)'
        BY DEF EngineEffect, BooksInv, FillsInv
      <4>3. ~ByContract(o)'
        BY <3>4, <4>2 DEF StatusOK
      <4>4. ByRoute(o)' = 0
        BY <4>3, Zenon DEF ByRoute
      <4>. QED
        BY <3>3, <4>1, <4>4
    <3>5. CASE status'[o] # "NEW"
      <4>1. sent'[o] = sent[o] + ByRoute(o)'
        BY <2>1, <3>5 DEF EngineEffect
      <4>. QED
        BY <3>3, <4>1
    <3>. QED
      BY <3>4, <3>5
  <2>2. CASE status[o] # "NEW"
    <3>1. order'[o] = order[o] /\ sent'[o] = sent[o]
      BY <2>2 DEF EngineEffect
    <3>2. order[o].who.kind = "agent" /\ HasSignature(o)
      BY <1>3, <3>1 DEF HasSignature
    <3>3. ByRoute(o)' = ByRoute(o)
      BY <3>1 DEF ByRoute, ByContract
    <3>4. sent[o] = Cardinality(Sent(x, o)) + ByRoute(o)
      BY <3>2 DEF SentInv
    <3>. QED
      BY <1>2, <3>1, <3>3, <3>4
  <2>. QED
    BY <2>1, <2>2
<1>. QED
  BY <1>3, Zenon DEF SentInv

\* What is known as long as nothing has failed, under a step of the engine or the route.
LEMMA ExactUnderEngine ==
    ASSUME BooksInv, ListInv, JobsInv, WorkInv, TablesInv, NewInv, ExactInv, EngineEffect
    PROVE  ExactInv'
<1>1. /\ work' = work /\ faults' = faults /\ dropped' = dropped
      /\ volume' = volume /\ dbTrades' = dbTrades /\ Busy' = Busy /\ Cur' = Cur
  BY DEF EngineEffect, faultVars, Busy, Cur
<1>2. SUFFICES ASSUME faults = 0, NEW x, x = Cur PROVE Exact(x)'
  BY <1>1 DEF ExactInv
<1>3. x \in WorkType /\ WorkOK(x) /\ Exact(x)
  BY <1>2, CurIs DEF ExactInv
<1>4. LineInv(x)' /\ DoneInv(x)'
  BY <1>3, LineUnderEngine DEF Exact
<1>5. RowsInv(x)' /\ LongInv(x)' /\ NetInv(x)' /\ SentInv(x)'
  BY <1>3, RowsUnderEngine, LongUnderEngine, NetUnderEngine, SentUnderEngine DEF Exact
<1>6. VolumeInv(x)'
  BY <1>1, <1>3 DEF Exact, VolumeInv
<1>. QED
  BY <1>4, <1>5, <1>6 DEF Exact
============================================================================

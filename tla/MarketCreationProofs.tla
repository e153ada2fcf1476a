------------------------ MODULE MarketCreationProofs ------------------------
(***************************************************************************)
(* Proofs about MarketCreation for any number of markets, runs of the      *)
(* cron, overlapping polls and requests.                                   *)
(*                                                                         *)
(* First the sequences (what a filter keeps, what is made of a set), then  *)
(* the inductive invariant: what is known of every question that was sent, *)
(* of every row, and of every poll and request between two of its awaits.  *)
(***************************************************************************)
EXTENDS MarketCreation, FiniteSetTheorems, WellFoundedInduction, NaturalsInduction, TLAPS

----------------------------------------------------------------------------
(* The sequences of questions. *)

\* Only's parts, one for each prefix.
IsKept(g, items, S) ==
    g = [n \in 0..Len(items) |->
            IF n = 0 THEN << >>
            ELSE IF items[n] \in S THEN Append(g[n - 1], items[n]) ELSE g[n - 1]]

\* Induction over the naturals: what fails for some number fails for a least one.
LEMMA Least ==
    ASSUME NEW T \in SUBSET Nat, T # {}
    PROVE  \E n \in T : \A m \in T : n <= m
<1>1. IsWellFoundedOn(OpToRel(<, Nat), Nat)
  BY NatLessThanWellFounded
<1>2. PICK x \in T : \A y \in T : ~ (<<y, x>> \in OpToRel(<, Nat))
  BY <1>1, WFMin
<1>3. \A y \in Nat : y < x => <<y, x>> \in OpToRel(<, Nat)
  BY DEF OpToRel
<1>4. \A y \in T : ~(y < x)
  BY <1>2, <1>3
<1>5. \A y \in T : x <= y
  BY <1>4
<1>. QED
  BY <1>5

\* Induction over the naturals, for the set of the numbers that have the property.
LEMMA Induct ==
    ASSUME NEW S \in SUBSET Nat, 0 \in S, \A k \in S : k + 1 \in S
    PROVE  S = Nat
<1>1. SUFFICES ASSUME Nat \ S # {} PROVE FALSE
  OBVIOUS
<1>2. PICK k \in Nat \ S : \A m \in Nat \ S : k <= m
  BY <1>1, Least, Zenon
<1>3. k - 1 \in Nat /\ (k - 1) + 1 = k
  BY <1>2
<1>4. k - 1 \in S
  BY <1>2, <1>3
<1>. QED
  BY <1>2, <1>3, <1>4

\* The parts exist.
LEMMA KeptExists ==
    ASSUME NEW X, NEW items \in Seq(X), NEW S
    PROVE  \E g : IsKept(g, items, S)
<1>. DEFINE Part(g, k) == g = [n \in 0..k |->
                  IF n = 0 THEN << >>
                  ELSE IF items[n] \in S THEN Append(g[n - 1], items[n]) ELSE g[n - 1]]
            T == {k \in Nat : \E g : Part(g, k)}
<1>1. 0 \in T
  <2>. DEFINE g == [n \in 0..0 |-> << >>]
  <2>1. Part(g, 0)
    OBVIOUS
  <2>. QED
    BY <2>1
<1>2. ASSUME NEW k \in T PROVE k + 1 \in T
  <2>1. PICK g : Part(g, k)
    OBVIOUS
  <2>. DEFINE last == IF items[k + 1] \in S THEN Append(g[k], items[k + 1]) ELSE g[k]
              h == [n \in 0..(k + 1) |-> IF n = k + 1 THEN last ELSE g[n]]
  <2>2. ASSUME NEW n \in 0..(k + 1)
        PROVE  h[n] = IF n = 0 THEN << >>
                      ELSE IF items[n] \in S THEN Append(h[n - 1], items[n]) ELSE h[n - 1]
    <3>1. CASE n = k + 1
      <4>1. h[n - 1] = g[k] /\ n # 0
        BY <3>1
      <4>. QED
        BY <3>1, <4>1
    <3>2. CASE n # k + 1
      <4>1. n \in 0..k /\ h[n] = g[n]
        BY <3>2
      <4>2. n # 0 => h[n - 1] = g[n - 1]
        BY <4>1
      <4>. HIDE DEF h
      <4>. QED
        BY <2>1, <4>1, <4>2
    <3>. QED
      BY <3>1, <3>2
  <2>3. h = [n \in 0..(k + 1) |-> h[n]]
    OBVIOUS
  <2>4. Part(h, k + 1)
    <3>. HIDE DEF h
    <3>. QED
      BY <2>2, <2>3, Zenon
  <2>5. k + 1 \in Nat
    BY <1>2
  <2>. HIDE DEF h
  <2>. QED
    BY <2>4, <2>5, Zenon
<1>3. T = Nat
  <2>. HIDE DEF T
  <2>1. T \in SUBSET Nat
    BY DEF T
  <2>. QED
    BY <1>1, <1>2, <2>1, Induct, Zenon
<1>4. Len(items) \in T
  BY <1>3
<1>. QED
  BY <1>4 DEF IsKept

\* What Only keeps: the items that are in the set, each as often as before.
LEMMA OnlyKeeps ==
    ASSUME NEW X, NEW items \in Seq(X), NEW S
    PROVE  /\ Only(items, S) \in Seq(X)
           /\ ToSet(Only(items, S)) = {q \in ToSet(items) : q \in S}
           /\ IsInjective(items) => IsInjective(Only(items, S))
<1>. DEFINE g == CHOOSE g : IsKept(g, items, S)
            L == Len(items)
            Begun(k) == {items[i] : i \in 1..k}
            Good(k) == /\ g[k] \in Seq(X)
                       /\ \A i \in DOMAIN g[k] : g[k][i] \in Begun(k) /\ g[k][i] \in S
                       /\ \A i \in 1..k : items[i] \in S => \E j \in DOMAIN g[k] : g[k][j] = items[i]
                       /\ IsInjective(items) => IsInjective(g[k])
            T == {k \in Nat : k <= L => Good(k)}
<1>1. IsKept(g, items, S)
  BY KeptExists, Zenon
<1>2. Only(items, S) = g[L]
  BY Zenon DEF Only, IsKept
<1>. HIDE DEF g
<1>3. 0 \in T
  <2>1. PICK z : z = g[0]
    OBVIOUS
  <2>2. z = << >>
    <3>1. L \in Nat
      OBVIOUS
    <3>. QED
      BY <1>1, <2>1, <3>1 DEF IsKept
  <2>3. z \in Seq(X) /\ DOMAIN z = {}
    BY <2>2
  <2>4. IsInjective(z)
    BY <2>3, Zenon DEF IsInjective
  <2>5. Good(0)
    BY <2>1, <2>3, <2>4
  <2>. QED
    BY <2>5
<1>4. ASSUME NEW k \in T PROVE k + 1 \in T
  <2>1. SUFFICES ASSUME k + 1 <= L PROVE Good(k + 1)
    BY <1>4
  <2>2. k \in Nat /\ Good(k) /\ k + 1 \in 1..L /\ k + 1 \in 0..L
    BY <1>4, <2>1
  <2>3. g[k + 1] = IF items[k + 1] \in S THEN Append(g[k], items[k + 1]) ELSE g[k]
    <3>1. PICK n : n = k + 1
      OBVIOUS
    <3>2. n \in 0..L /\ n # 0 /\ n - 1 = k
      BY <2>2, <3>1
    <3>3. g[n] = IF n = 0 THEN << >>
                 ELSE IF items[n] \in S THEN Append(g[n - 1], items[n]) ELSE g[n - 1]
      BY <1>1, <3>2, Zenon DEF IsKept
    <3>. QED
      BY <3>1, <3>2, <3>3
  <2>4. CASE items[k + 1] \notin S
    BY <2>2, <2>3, <2>4
  <2>5. CASE items[k + 1] \in S
    <3>0. PICK s, e : s = g[k] /\ e = items[k + 1]
      OBVIOUS
    <3>1. g[k + 1] = Append(s, e) /\ e \in X /\ s \in Seq(X)
      BY <2>2, <2>3, <2>5, <3>0
    <3>2. PICK z : z = Append(s, e)
      OBVIOUS
    <3>3. /\ z \in Seq(X) /\ Len(z) = Len(s) + 1 /\ z[Len(s) + 1] = e
          /\ \A i \in 1..Len(s) : z[i] = s[i]
      BY <3>1, <3>2
    <3>4. DOMAIN z = 1..(Len(s) + 1) /\ DOMAIN s = 1..Len(s) /\ Len(s) \in Nat
      BY <3>1, <3>3
    <3>5. \A i \in DOMAIN z : z[i] \in Begun(k + 1) /\ z[i] \in S
      <4>1. \A i \in DOMAIN s : s[i] \in Begun(k) /\ s[i] \in S
        BY <2>2, <3>0
      <4>2. Begun(k) \subseteq Begun(k + 1) /\ e \in Begun(k + 1)
        BY <2>2, <3>0
      <4>. QED
        BY <2>5, <3>0, <3>3, <3>4, <4>1, <4>2
    <3>6. \A i \in 1..(k + 1) : items[i] \in S => \E j \in DOMAIN z : z[j] = items[i]
      <4>1. \A i \in 1..k : items[i] \in S => \E j \in DOMAIN s : s[j] = items[i]
        BY <2>2, <3>0
      <4>2. ASSUME NEW i \in 1..(k + 1), items[i] \in S PROVE \E j \in DOMAIN z : z[j] = items[i]
        <5>1. CASE i = k + 1
          BY <3>0, <3>3, <3>4, <5>1
        <5>2. CASE i # k + 1
          <6>1. i \in 1..k
            BY <2>2, <5>2
          <6>2. PICK j \in DOMAIN s : s[j] = items[i]
            BY <4>1, <4>2, <6>1
          <6>. QED
            BY <3>3, <3>4, <6>2
        <5>. QED
          BY <5>1, <5>2
      <4>. QED
        BY <4>2
    <3>7. ASSUME IsInjective(items) PROVE IsInjective(z)
      <4>1. \A i \in DOMAIN s : s[i] # e
        <5>1. \A i \in DOMAIN s : s[i] \in Begun(k)
          BY <2>2, <3>0
        <5>2. \A i \in 1..k : items[i] # e
          BY <2>2, <3>0, <3>7 DEF IsInjective
        <5>. QED
          BY <5>1, <5>2
      <4>2. IsInjective(s)
        BY <2>2, <3>0, <3>7
      <4>. QED
        BY <3>3, <3>4, <4>1, <4>2 DEF IsInjective
    <3>8. g[k + 1] = z
      BY <3>1, <3>2
    <3>. QED
      BY <3>3, <3>5, <3>6, <3>7, <3>8
  <2>. QED
    BY <2>4, <2>5
<1>5. T = Nat
  <2>. HIDE DEF T
  <2>1. T \in SUBSET Nat
    BY DEF T
  <2>. QED
    BY <1>3, <1>4, <2>1, Induct, Zenon
<1>6. Good(L) /\ L \in Nat
  BY <1>5
<1>7. ToSet(items) = Begun(L)
  BY DEF ToSet
<1>8. ToSet(g[L]) = {q \in ToSet(items) : q \in S}
  <2>1. PICK z : z = g[L]
    OBVIOUS
  <2>2. ToSet(z) = {z[i] : i \in DOMAIN z}
    BY DEF ToSet
  <2>3. \A i \in DOMAIN z : z[i] \in Begun(L) /\ z[i] \in S
    BY <1>6, <2>1
  <2>4. \A i \in 1..L : items[i] \in S => \E j \in DOMAIN z : z[j] = items[i]
    BY <1>6, <2>1
  <2>5. ToSet(z) \subseteq {q \in Begun(L) : q \in S}
    BY <2>2, <2>3
  <2>6. {q \in Begun(L) : q \in S} \subseteq ToSet(z)
    BY <2>2, <2>4
  <2>. QED
    BY <1>7, <2>1, <2>5, <2>6
<1>. QED
  BY <1>2, <1>6, <1>8

\* A finite set as a sequence.
LEMMA SetToSeqIs ==
    ASSUME NEW S, IsFiniteSet(S)
    PROVE  /\ SetToSeq(S) \in Seq(S)
           /\ ToSet(SetToSeq(S)) = S
           /\ IsInjective(SetToSeq(S))
           /\ Len(SetToSeq(S)) = Cardinality(S)
<1>. DEFINE n == Cardinality(S)  f == SetToSeq(S)
<1>1. n \in Nat /\ ExistsBijection(1..n, S)
  BY FS_CardinalityType
<1>2. \E g \in [1..n -> S] : IsInjective(g)
  BY <1>1, Zenon DEF ExistsBijection, Bijection, Injection
<1>3. f \in [1..n -> S] /\ IsInjective(f)
  BY <1>2, Zenon DEF SetToSeq
<1>. HIDE DEF n, f
<1>4. f \in Surjection(1..n, S)
  <2>1. f \in Injection(1..n, S) /\ IsFiniteSet(1..n) /\ Cardinality(1..n) = n
    BY <1>1, <1>3, FS_Interval DEF Injection
  <2>. QED
    BY <2>1, FS_Injection, Zenon DEF n
<1>5. f \in Seq(S) /\ Len(f) = n /\ DOMAIN f = 1..n
  BY <1>1, <1>3
<1>6. ToSet(f) = S
  BY <1>3, <1>4, <1>5 DEF ToSet, Surjection
<1>. QED
  BY <1>3, <1>5, <1>6 DEF n, f

----------------------------------------------------------------------------
(* The inductive invariant. *)

\* The questions a draft was sent under, and ids that are in use or were.
Sent(m) == {q \in received : DraftOf(q) = m}
Born(m) == rows[m] # Null \/ m \in gone

TriggerType == [at : {"new", "agents", "drafting", "writing", "reread", "asked", "done"},
                todo : Seq(Names), made : Nat, batch : SUBSET Question]

\* A run that is to draft markets has no more of them than its job; what it asked CRE
\* for is a set of questions under its own suffix.
TriggerOK(t, x) ==
    /\ x.made + Len(x.todo) <= PerJob
    /\ x.at \in {"new", "agents"} => x.made = 0
    /\ x.at = "writing" => x.todo # << >>
    /\ x.batch \subseteq received
    /\ \A q \in x.batch : q[1] = t

\* The waiting list has questions that were sent by runs that are over.
CronInv ==
    /\ trigger \in [Triggers -> TriggerType]
    /\ \A t \in Triggers : TriggerOK(t, trigger[t])
    /\ pending \in Seq(received)
    /\ IsInjective(pending)
    /\ \A q \in ToSet(pending) : q[1] \in Triggers /\ trigger[q[1]].at = "done"

\* A draft that was sent has no other questionId than one it was sent under.
SentInv ==
    /\ received \subseteq Question /\ onChain \subseteq received /\ seeds \subseteq received
    /\ \A q \in received : DraftOf(q) # NoMarket => Born(DraftOf(q))
    /\ \A m \in Rows : Sent(m) # {} => rows[m].qid \in Sent(m) \union {Null}

\* A row with a conditionId of CRE's was a draft that was sent, or was made for a
\* question of no draft and keeps it; a seeded one has its seeding.
RowOK(m) ==
    /\ rows[m].cond \in Question =>
          /\ rows[m].cond \in onChain /\ rows[m].qid # Null
          /\ DraftOf(rows[m].cond) = m \/ (Sent(m) = {} /\ rows[m].qid = rows[m].cond)
    /\ rows[m].seeded => \E q \in seeds : rows[m].qid = q \/ DraftOf(q) = m

BaseInv ==
    /\ rows \in [Markets -> RowType \union {Null}]
    /\ SentInv
    /\ \A m \in Rows : RowOK(m)

Places == {"idle", "next", "chain", "draft", "mark", "fill", "existing", "create", "positions",
           "seed", "flag", "created"}
WorkType == [at : Places, path : {"none", "fill", "create", "user"},
             q : Question \union {Null}, m : Markets \union {NoMarket},
             chain : BOOLEAN, seeded : BOOLEAN, todo : Seq(Question)]

\* Work on a draft, before and after it has its questionId, and on a row it created.
Filling(x) == x.path = "fill" /\ x.m \in Markets /\ x.m = DraftOf(x.q) /\ x.q \in received
Filled(x) == Filling(x) /\ (rows[x.m] # Null => rows[x.m].qid # Null)
Created(x) ==
    /\ x.path = "create" /\ x.q \in received
    /\ x.m \in Markets /\ Born(x.m) /\ Sent(x.m) = {}
    /\ rows[x.m] # Null => rows[x.m].qid = x.q

\* What is known where.
WorkOK(w, x) ==
    /\ x.at \in {"idle", "next", "created"} => x.q = Null
    /\ x.at = "next" => x.todo # << >>
    /\ x.at \in {"chain", "draft"} => x.q \in received
    /\ x.chain => x.q \in onChain
    /\ x.at \in {"fill", "existing", "create"} => x.q \in onChain
    /\ x.at \in {"mark", "fill"} => Filling(x)
    /\ x.at = "create" => x.path = "create" /\ (w \in Handlers /\ x.seeded => x.q \in seeds)
    /\ x.at = "positions" => \/ Filled(x) \/ Created(x)
                             \/ x.path = "user" /\ w \in Handlers /\ x.q = Null /\ x.m \in Markets
    /\ x.at = "seed" => \/ Filled(x)
                        \/ w \in Pollers /\ Created(x)
                        \/ w \in Handlers /\ x.path = "create" /\ x.q \in onChain
    /\ x.at = "flag" => /\ Filled(x) \/ (w \in Pollers /\ Created(x))
                        /\ x.seeded => x.q \in seeds

WorkInv ==
    /\ work \in [Workers -> WorkType]
    /\ \A w \in Workers : WorkOK(w, work[w])

\* A row with a conditionId has its positions, or somebody is about to create them.
PositionsInv ==
    /\ positions \subseteq Rows
    /\ \A m \in Rows : rows[m].cond # Null =>
          \/ m \in positions \/ failed
          \/ \E w \in Workers : work[w].at = "positions" /\ work[w].m = m

RestInv ==
    /\ age \in [Triggers -> ToSet(Ages)]
    /\ failed \in BOOLEAN /\ rare \in 0..MaxRare

Inv == CronInv /\ BaseInv /\ WorkInv /\ PositionsInv /\ RestInv

----------------------------------------------------------------------------
(* What can happen to the rows and to what is outside, and that it leaves  *)
(* alone what somebody at work relies on.                                  *)

\* The parts of a question.
LEMMA QuestionIs ==
    ASSUME NEW q \in Question
    PROVE  /\ DraftOf(q) \in Markets \union {NoMarket} /\ NameOf(q) \in Names
           /\ DraftOf(q) # NoMarket => q[1] \in Triggers
BY DEF Question, DraftOf, NameOf

\* What somebody at work relies on.
Grows ==
    /\ received \subseteq received' /\ onChain \subseteq onChain' /\ seeds \subseteq seeds'
    /\ \A m \in Markets : Born(m) =>
          /\ Born(m)'
          /\ rows'[m] # Null => rows[m] # Null
          /\ rows[m] # Null /\ rows[m].qid # Null /\ rows'[m] # Null => rows'[m].qid # Null
          /\ Sent(m) = {} /\ (rows[m] # Null => rows[m].qid # Null) =>
                /\ Sent(m)' = {}
                /\ rows'[m] # Null => rows'[m].qid = rows[m].qid

\* They can go on.
LEMMA WorkSurvives ==
    ASSUME BaseInv, BaseInv', Grows, NEW w \in Workers, NEW x \in WorkType, WorkOK(w, x)
    PROVE  WorkOK(w, x)'
<1>4. received \subseteq received' /\ onChain \subseteq onChain' /\ seeds \subseteq seeds'
  BY DEF Grows
<1>1. Filling(x) => Filling(x)'
  BY <1>4 DEF Filling
<1>2. Filled(x) => Filled(x)'
  <2>1. SUFFICES ASSUME Filled(x) PROVE Filled(x)'
    OBVIOUS
  <2>2. Born(x.m) /\ x.m \in Markets
    <3>1. x.m \in Markets /\ x.m = DraftOf(x.q) /\ x.q \in received
      BY <2>1 DEF Filled, Filling
    <3>. QED
      BY <3>1, MarketsAssumption DEF BaseInv, SentInv
  <2>3. rows[x.m] # Null => rows[x.m].qid # Null
    BY <2>1 DEF Filled
  <2>4. Filling(x)'
    BY <1>1, <2>1 DEF Filled
  <2>. QED
    BY <2>2, <2>3, <2>4 DEF Grows, Filled
<1>3. Created(x) => Created(x)'
  <2>1. SUFFICES ASSUME Created(x) PROVE Created(x)'
    OBVIOUS
  <2>2. /\ x.path = "create" /\ x.q \in received
        /\ x.m \in Markets /\ Born(x.m) /\ Sent(x.m) = {}
        /\ rows[x.m] # Null => rows[x.m].qid = x.q
    BY <2>1 DEF Created
  <2>3. x.q # Null
    BY <2>2, NullAssumption DEF BaseInv, SentInv
  <2>4. /\ Born(x.m)' /\ Sent(x.m)' = {}
        /\ rows'[x.m] # Null => rows[x.m] # Null
        /\ rows'[x.m] # Null => rows'[x.m].qid = rows[x.m].qid
    BY <2>2, <2>3 DEF Grows
  <2>. QED
    BY <1>4, <2>2, <2>4 DEF Created
<1>. QED
  BY <1>1, <1>2, <1>3, <1>4 DEF WorkOK

\* More is asked for, is on the chain, or is seeded.
LEMMA MoreOutside ==
    ASSUME BaseInv, UNCHANGED <<rows, gone>>,
           received \subseteq received', received' \subseteq Question,
           onChain \subseteq onChain', onChain' \subseteq received',
           seeds \subseteq seeds', seeds' \subseteq received',
           \A m \in Markets : ~(m \in Rows /\ rows[m].qid = Null) => Sent(m)' = Sent(m),
           \A q \in received' : DraftOf(q) # NoMarket => Born(DraftOf(q))
    PROVE  BaseInv' /\ Grows
<1>1. Rows' = Rows /\ Rows \subseteq Markets
  BY DEF Rows
<1>2. \A m \in Markets : Born(m)' = Born(m)
  BY DEF Born
<1>3. \A m \in Rows : Sent(m)' # {} => rows'[m].qid \in Sent(m)' \union {Null}
  <2>1. SUFFICES ASSUME NEW m \in Rows, Sent(m)' # {}, rows[m].qid # Null
                 PROVE  rows[m].qid \in Sent(m)'
    OBVIOUS
  <2>2. Sent(m)' = Sent(m)
    BY <1>1, <2>1
  <2>. QED
    BY <2>1, <2>2 DEF BaseInv, SentInv
<1>4. SentInv'
  <2>1. \A q \in received' : DraftOf(q) # NoMarket => Born(DraftOf(q))'
    <3>1. SUFFICES ASSUME NEW q \in received', DraftOf(q) # NoMarket PROVE Born(DraftOf(q))'
      OBVIOUS
    <3>2. DraftOf(q) \in Markets
      BY <3>1, QuestionIs
    <3>. QED
      BY <1>2, <3>1, <3>2
  <2>. QED
    BY <1>1, <1>3, <2>1 DEF SentInv
<1>5. ASSUME NEW m \in Rows PROVE RowOK(m)'
  <2>1. RowOK(m) /\ m \in Markets
    BY <1>1 DEF BaseInv
  <2>2. rows[m].cond \in Question /\ Sent(m) = {} => Sent(m)' = {}
    BY <2>1 DEF RowOK
  <2>. QED
    BY <2>1, <2>2 DEF RowOK
<1>6. BaseInv'
  BY <1>1, <1>4, <1>5 DEF BaseInv
<1>7. \A m \in Markets : Born(m) /\ Sent(m) = {} /\ (rows[m] # Null => rows[m].qid # Null) => Sent(m)' = {}
  BY DEF Rows
<1>8. Grows
  BY <1>2, <1>7 DEF Grows
<1>. QED
  BY <1>6, <1>8

\* Nothing of that happens.
LEMMA SameOutside ==
    ASSUME BaseInv, UNCHANGED <<rows, received, onChain, seeds, gone>>
    PROVE  BaseInv' /\ Grows
<1>1. \A m \in Markets : Sent(m)' = Sent(m)
  BY DEF Sent
<1>. QED
  BY <1>1, MoreOutside DEF BaseInv, SentInv

\* The drafts are sent.
LEMMA DraftsAreSent ==
    ASSUME BaseInv, NEW t \in Triggers, UNCHANGED <<rows, onChain, seeds, gone>>,
           NEW batch, batch = {<<t, m, rows[m].name>> : m \in Drafts},
           received' = received \union batch
    PROVE  BaseInv' /\ Grows /\ batch \subseteq Question /\ \A q \in batch : q[1] = t
<1>1. ASSUME NEW q \in batch
      PROVE  /\ q \in Question /\ q[1] = t
             /\ DraftOf(q) \in Rows /\ rows[DraftOf(q)].qid = Null
  <2>1. PICK m \in Drafts : q = <<t, m, rows[m].name>>
    OBVIOUS
  <2>2. m \in Markets /\ m \in Rows /\ rows[m] \in RowType /\ rows[m].qid = Null
    BY DEF Drafts, Rows, BaseInv
  <2>3. rows[m].name \in Names
    BY <2>2 DEF RowType
  <2>. QED
    BY <2>1, <2>2, <2>3 DEF Question, DraftOf
<1>2. \A m \in Markets : ~(m \in Rows /\ rows[m].qid = Null) => Sent(m)' = Sent(m)
  BY <1>1 DEF Sent
<1>3. \A q \in received' : DraftOf(q) # NoMarket => Born(DraftOf(q))
  BY <1>1 DEF BaseInv, SentInv, Born, Rows
<1>4. BaseInv' /\ Grows
  BY <1>1, <1>2, <1>3, MoreOutside DEF BaseInv, SentInv
<1>. QED
  BY <1>1, <1>4

\* A row is created: nothing was sent for it.
LEMMA RowIsCreated ==
    ASSUME BaseInv, NEW m \in Unborn, NEW row \in RowType,
           rows' = [rows EXCEPT ![m] = row], UNCHANGED <<received, onChain, seeds, gone>>,
           row.cond \in Question => row.cond \in onChain /\ row.qid = row.cond,
           row.seeded => \E q \in seeds : row.qid = q
    PROVE  /\ BaseInv' /\ Grows /\ m \in Markets /\ m \notin Rows /\ Rows' = Rows \union {m}
           /\ rows'[m] = row /\ Sent(m) = {} /\ Sent(m)' = {} /\ Born(m)'
<1>1. m \in Markets /\ rows[m] = Null /\ m \notin gone /\ ~Born(m) /\ row # Null
  BY NullAssumption DEF Unborn, Born
<1>2. rows \in [Markets -> RowType \union {Null}]
  BY DEF BaseInv
<1>3. rows'[m] = row /\ \A k \in Markets \ {m} : rows'[k] = rows[k]
  BY <1>1, <1>2
<1>4. Rows' = Rows \union {m} /\ m \notin Rows /\ Rows \subseteq Markets
  BY <1>1, <1>3 DEF Rows
<1>5. Sent(m) = {}
  BY <1>1, MarketsAssumption DEF Sent, BaseInv, SentInv
<1>6. \A k \in Markets : Sent(k)' = Sent(k)
  BY DEF Sent
<1>7. Born(m)' /\ \A k \in Markets : Born(k) => Born(k)' /\ k # m
  BY <1>1, <1>3 DEF Born
<1>8. SentInv'
  <2>1. \A q \in received : DraftOf(q) # NoMarket => Born(DraftOf(q))'
    <3>1. SUFFICES ASSUME NEW q \in received, DraftOf(q) # NoMarket PROVE Born(DraftOf(q))'
      OBVIOUS
    <3>2. DraftOf(q) \in Markets /\ Born(DraftOf(q))
      BY <3>1, QuestionIs DEF BaseInv, SentInv
    <3>. QED
      BY <1>7, <3>2
  <2>2. ASSUME NEW k \in Rows', Sent(k)' # {} PROVE rows'[k].qid \in Sent(k)' \union {Null}
    <3>1. k # m /\ k \in Rows /\ k \in Markets
      BY <1>1, <1>4, <1>5, <1>6, <2>2
    <3>2. rows'[k] = rows[k] /\ Sent(k)' = Sent(k) /\ Sent(k) # {}
      BY <1>3, <1>6, <2>2, <3>1
    <3>. QED
      BY <3>1, <3>2 DEF BaseInv, SentInv
  <2>. QED
    BY <2>1, <2>2 DEF BaseInv, SentInv
<1>9. ASSUME NEW k \in Rows' PROVE RowOK(k)'
  <2>1. CASE k = m
    BY <1>1, <1>3, <1>5, <1>6, <2>1, NullAssumption DEF RowOK
  <2>2. CASE k # m
    <3>1. k \in Rows /\ RowOK(k) /\ rows'[k] = rows[k] /\ Sent(k)' = Sent(k)
      BY <1>3, <1>4, <1>6, <2>2 DEF BaseInv
    <3>. QED
      BY <3>1 DEF RowOK
  <2>. QED
    BY <2>1, <2>2
<1>10. rows' \in [Markets -> RowType \union {Null}]
  BY <1>2
<1>11. Grows
  BY <1>3, <1>6, <1>7 DEF Grows
<1>. QED
  BY <1>1, <1>3, <1>4, <1>5, <1>6, <1>7, <1>8, <1>9, <1>10, <1>11 DEF BaseInv

\* A draft gets its questionId, and perhaps its conditionId.
LEMMA RowIsIdentified ==
    ASSUME BaseInv, NEW m \in Rows, NEW q \in received, DraftOf(q) = m, NEW row \in RowType,
           rows' = [rows EXCEPT ![m] = row], UNCHANGED <<received, onChain, seeds, gone>>,
           row.qid = q, row.seeded = rows[m].seeded,
           row.cond = rows[m].cond \/ (row.cond = q /\ q \in onChain)
    PROVE  BaseInv' /\ Grows /\ Rows' = Rows /\ rows'[m] = row
<1>1. m \in Markets /\ rows[m] # Null /\ row # Null /\ Rows \subseteq Markets
  BY NullAssumption DEF Rows
<1>2. rows \in [Markets -> RowType \union {Null}]
  BY DEF BaseInv
<1>3. rows'[m] = row /\ \A k \in Markets \ {m} : rows'[k] = rows[k]
  BY <1>1, <1>2
<1>4. Rows' = Rows
  BY <1>1, <1>3 DEF Rows
<1>5. q \in Sent(m) /\ q # Null /\ q \in Question
  BY NullAssumption DEF Sent, BaseInv, SentInv
<1>6. \A k \in Markets : Sent(k)' = Sent(k)
  BY DEF Sent
<1>7. \A k \in Markets : Born(k)' = Born(k)
  BY <1>1, <1>3 DEF Born
<1>8. SentInv'
  <2>1. \A p \in received : DraftOf(p) # NoMarket => Born(DraftOf(p))'
    <3>1. SUFFICES ASSUME NEW p \in received, DraftOf(p) # NoMarket PROVE Born(DraftOf(p))'
      OBVIOUS
    <3>2. DraftOf(p) \in Markets /\ Born(DraftOf(p))
      BY <3>1, QuestionIs DEF BaseInv, SentInv
    <3>. QED
      BY <1>7, <3>2
  <2>2. ASSUME NEW k \in Rows', Sent(k)' # {} PROVE rows'[k].qid \in Sent(k)' \union {Null}
    <3>1. CASE k = m
      BY <1>3, <1>5, <1>1, <1>6, <3>1
    <3>2. CASE k # m
      BY <1>1, <1>3, <1>4, <1>6, <2>2, <3>2 DEF BaseInv, SentInv
    <3>. QED
      BY <3>1, <3>2
  <2>. QED
    BY <2>1, <2>2 DEF BaseInv, SentInv
<1>9. ASSUME NEW k \in Rows' PROVE RowOK(k)'
  <2>1. CASE k = m
    <3>1. RowOK(m) /\ (rows[m].qid \in Sent(m) \union {Null})
      BY <1>5 DEF BaseInv, SentInv
    <3>2. row.cond \in Question => row.cond \in onChain /\ row.qid # Null /\ DraftOf(row.cond) = m
      BY <1>5, <3>1 DEF RowOK
    <3>3. row.seeded => \E p \in seeds : DraftOf(p) = m
      <4>1. SUFFICES ASSUME row.seeded PROVE \E p \in seeds : DraftOf(p) = m
        OBVIOUS
      <4>2. PICK p \in seeds : rows[m].qid = p \/ DraftOf(p) = m
        BY <3>1, <4>1 DEF RowOK
      <4>3. p # Null
        BY NullAssumption DEF BaseInv, SentInv
      <4>. QED
        BY <3>1, <4>2, <4>3 DEF Sent
    <3>. QED
      BY <1>3, <2>1, <3>2, <3>3 DEF RowOK
  <2>2. CASE k # m
    <3>1. k \in Rows /\ RowOK(k) /\ rows'[k] = rows[k] /\ Sent(k)' = Sent(k)
      BY <1>1, <1>3, <1>4, <1>6, <2>2 DEF BaseInv
    <3>. QED
      BY <3>1 DEF RowOK
  <2>. QED
    BY <2>1, <2>2
<1>10. rows' \in [Markets -> RowType \union {Null}]
  BY <1>2
<1>11. Grows
  <2>1. \A k \in Markets : rows'[k] # Null <=> rows[k] # Null
    BY <1>1, <1>3
  <2>2. \A k \in Markets : rows[k] # Null /\ rows[k].qid # Null => rows'[k].qid # Null
    BY <1>3, <1>5
  <2>3. \A k \in Markets : Sent(k) = {} => rows'[k] = rows[k]
    BY <1>3, <1>5
  <2>. QED
    BY <1>6, <1>7, <2>1, <2>2, <2>3 DEF Grows
<1>. QED
  BY <1>3, <1>4, <1>8, <1>9, <1>10, <1>11 DEF BaseInv

\* A row is flagged.
LEMMA RowIsFlagged ==
    ASSUME BaseInv, NEW m \in Rows, NEW row \in RowType,
           rows' = [rows EXCEPT ![m] = row], UNCHANGED <<received, onChain, seeds, gone>>,
           row.qid = rows[m].qid, row.cond = rows[m].cond,
           row.seeded => \E q \in seeds : row.qid = q \/ DraftOf(q) = m
    PROVE  BaseInv' /\ Grows /\ Rows' = Rows /\ rows'[m] = row
<1>1. m \in Markets /\ rows[m] # Null /\ row # Null /\ Rows \subseteq Markets
  BY NullAssumption DEF Rows
<1>2. rows \in [Markets -> RowType \union {Null}]
  BY DEF BaseInv
<1>3. rows'[m] = row /\ \A k \in Markets \ {m} : rows'[k] = rows[k]
  BY <1>1, <1>2
<1>4. Rows' = Rows
  BY <1>1, <1>3 DEF Rows
<1>5. \A k \in Markets : rows[k] # Null => rows'[k].qid = rows[k].qid
  BY <1>3
<1>6. \A k \in Markets : Sent(k)' = Sent(k)
  BY DEF Sent
<1>7. \A k \in Markets : (Born(k)' <=> Born(k)) /\ (rows'[k] # Null <=> rows[k] # Null)
  BY <1>1, <1>3 DEF Born
<1>8. SentInv'
  <2>1. \A p \in received : DraftOf(p) # NoMarket => Born(DraftOf(p))'
    <3>1. SUFFICES ASSUME NEW p \in received, DraftOf(p) # NoMarket PROVE Born(DraftOf(p))'
      OBVIOUS
    <3>2. DraftOf(p) \in Markets /\ Born(DraftOf(p))
      BY <3>1, QuestionIs DEF BaseInv, SentInv
    <3>. QED
      BY <1>7, <3>2
  <2>2. ASSUME NEW k \in Rows', Sent(k)' # {} PROVE rows'[k].qid \in Sent(k)' \union {Null}
    BY <1>1, <1>4, <1>5, <1>6, <2>2 DEF BaseInv, SentInv, Rows
  <2>. QED
    BY <2>1, <2>2 DEF BaseInv, SentInv
<1>9. ASSUME NEW k \in Rows' PROVE RowOK(k)'
  <2>1. CASE k = m
    BY <1>1, <1>3, <1>6, <2>1 DEF RowOK, BaseInv
  <2>2. CASE k # m
    <3>1. k \in Rows /\ RowOK(k) /\ rows'[k] = rows[k] /\ Sent(k)' = Sent(k)
      BY <1>1, <1>3, <1>4, <1>6, <2>2 DEF BaseInv
    <3>. QED
      BY <3>1 DEF RowOK
  <2>. QED
    BY <2>1, <2>2
<1>10. rows' \in [Markets -> RowType \union {Null}]
  BY <1>2
<1>11. Grows
  BY <1>5, <1>6, <1>7 DEF Grows
<1>. QED
  BY <1>3, <1>4, <1>8, <1>9, <1>10, <1>11 DEF BaseInv

\* A row is deleted.
LEMMA RowIsDeleted ==
    ASSUME BaseInv, NEW m \in Rows, rows' = [rows EXCEPT ![m] = Null],
           UNCHANGED <<received, onChain, seeds>>, m \in gone', gone \subseteq gone'
    PROVE  BaseInv' /\ Grows /\ Rows' = Rows \ {m}
<1>1. m \in Markets /\ rows[m] # Null /\ Rows \subseteq Markets
  BY DEF Rows
<1>2. rows \in [Markets -> RowType \union {Null}]
  BY DEF BaseInv
<1>3. rows'[m] = Null /\ \A k \in Markets \ {m} : rows'[k] = rows[k]
  BY <1>1, <1>2
<1>4. Rows' = Rows \ {m}
  BY <1>1, <1>3 DEF Rows
<1>6. \A k \in Markets : Sent(k)' = Sent(k)
  BY DEF Sent
<1>7. \A k \in Markets : Born(k) => Born(k)'
  BY <1>1, <1>3 DEF Born
<1>8. SentInv'
  <2>1. \A p \in received : DraftOf(p) # NoMarket => Born(DraftOf(p))'
    <3>1. SUFFICES ASSUME NEW p \in received, DraftOf(p) # NoMarket PROVE Born(DraftOf(p))'
      OBVIOUS
    <3>2. DraftOf(p) \in Markets /\ Born(DraftOf(p))
      BY <3>1, QuestionIs DEF BaseInv, SentInv
    <3>. QED
      BY <1>7, <3>2
  <2>2. ASSUME NEW k \in Rows', Sent(k)' # {} PROVE rows'[k].qid \in Sent(k)' \union {Null}
    BY <1>1, <1>3, <1>4, <1>6, <2>2 DEF BaseInv, SentInv
  <2>. QED
    BY <2>1, <2>2 DEF BaseInv, SentInv
<1>9. ASSUME NEW k \in Rows' PROVE RowOK(k)'
  <2>1. k \in Rows /\ RowOK(k) /\ rows'[k] = rows[k] /\ Sent(k)' = Sent(k)
    BY <1>1, <1>3, <1>4, <1>6 DEF BaseInv
  <2>. QED
    BY <2>1 DEF RowOK
<1>10. rows' \in [Markets -> RowType \union {Null}]
  BY <1>2
<1>11. Grows
  BY <1>3, <1>6, <1>7 DEF Grows
<1>. QED
  BY <1>4, <1>8, <1>9, <1>10, <1>11 DEF BaseInv

----------------------------------------------------------------------------
(* How work ends, and what it leaves of the waiting list.                  *)

\* The waiting list only loses questions.
Shrunk == pending' \in Seq(ToSet(pending)) /\ IsInjective(pending')

\* Nothing is held here.
Resting(y) ==
    /\ y.at \in {"idle", "next", "created"} /\ y.q = Null /\ y.chain = FALSE
    /\ y.at = "next" => y.todo # << >>

\* A waiting list consists of its questions.
LEMMA PendingIs ==
    ASSUME CronInv
    PROVE  pending \in Seq(ToSet(pending)) /\ ToSet(pending) \subseteq received
BY DEF CronInv, ToSet

\* What is dropped when a question is removed, and with age.
LEMMA WithoutKeeps ==
    ASSUME CronInv, NEW q
    PROVE  /\ Without(q) \in Seq(ToSet(pending)) /\ IsInjective(Without(q))
           /\ ToSet(Without(q)) = ToSet(pending) \ {q}
<1>1. pending \in Seq(ToSet(pending)) /\ IsInjective(pending)
  BY PendingIs DEF CronInv
<1>2. Without(q) = Only(pending, ToSet(pending) \ {q})
  BY DEF Without
<1>. QED
  BY <1>1, <1>2, OnlyKeeps

LEMMA UnexpiredKeeps ==
    ASSUME NEW X, NEW items \in Seq(X), IsInjective(items)
    PROVE  /\ Unexpired(items) \in Seq(X) /\ IsInjective(Unexpired(items))
           /\ ToSet(Unexpired(items)) = {q \in ToSet(items) : AgeOf(q) # "old"}
<1>1. Unexpired(items) = Only(items, {q \in ToSet(items) : AgeOf(q) # "old"})
  BY DEF Unexpired
<1>. QED
  BY <1>1, OnlyKeeps

\* At rest.
LEMMA IdleIs == Idle \in WorkType /\ Resting(Idle) /\ Idle.at = "idle"
BY DEF Idle, WorkType, Resting, Places

\* A worker leaves what it was at.
LEMMA Leaves ==
    ASSUME CronInv, WorkInv, NEW w \in Workers, NEW items \in Seq(ToSet(pending)),
           IsInjective(items), Leave(w, items)
    PROVE  /\ Shrunk
           /\ \A q \in ToSet(items) : AgeOf(q) # "old" => q \in ToSet(pending')
           /\ \E y \in WorkType : work' = [work EXCEPT ![w] = y] /\ Resting(y) /\ y.at # "created"
<1>1. Shrunk /\ \A q \in ToSet(items) : AgeOf(q) # "old" => q \in ToSet(pending')
  <2>1. pending' = items \/ pending' = Unexpired(items)
    BY DEF Leave
  <2>2. CASE pending' = items
    BY <2>2 DEF Shrunk
  <2>3. CASE pending' = Unexpired(items)
    BY <2>3, UnexpiredKeeps DEF Shrunk
  <2>. QED
    BY <2>1, <2>2, <2>3
<1>2. \E y \in WorkType : work' = [work EXCEPT ![w] = y] /\ Resting(y) /\ y.at # "created"
  <2>1. work[w].todo \in Seq(Question)
    BY DEF WorkInv, WorkType
  <2>2. Idle \in WorkType /\ Resting(Idle) /\ Idle.at # "created"
    BY IdleIs
  <2>3. CASE w \in Handlers \/ work[w].todo = << >>
    BY <2>2, <2>3 DEF Leave
  <2>4. CASE ~(w \in Handlers \/ work[w].todo = << >>)
    <3>1. PICK y : y = [Idle EXCEPT !.at = "next", !.todo = work[w].todo]
      OBVIOUS
    <3>2. y \in WorkType /\ Resting(y) /\ y.at # "created"
      BY <2>1, <2>4, <3>1 DEF Idle, WorkType, Resting, Places
    <3>. QED
      BY <2>4, <3>1, <3>2 DEF Leave
  <2>. QED
    BY <2>3, <2>4
<1>. QED
  BY <1>1, <1>2

\* It gives up.
LEMMA GivesUp ==
    ASSUME CronInv, WorkInv, NEW w \in Workers, GiveUp(w)
    PROVE  /\ Shrunk
           /\ \A q \in ToSet(pending) : AgeOf(q) # "old" => q \in ToSet(pending')
           /\ \E y \in WorkType : work' = [work EXCEPT ![w] = y] /\ Resting(y) /\ y.at # "created"
<1>1. PICK items : items = pending
  OBVIOUS
<1>2. items \in Seq(ToSet(pending)) /\ IsInjective(items)
  BY <1>1, PendingIs DEF CronInv
<1>3. Leave(w, items)
  BY <1>1 DEF GiveUp, Leave
<1>. QED
  BY <1>1, <1>2, <1>3, Leaves

\* It has succeeded.
LEMMA Succeeds ==
    ASSUME CronInv, WorkInv, NEW w \in Workers, Succeed(w)
    PROVE  /\ Shrunk
           /\ \A q \in ToSet(pending) : AgeOf(q) # "old" /\ q # work[w].q => q \in ToSet(pending')
           /\ \E y \in WorkType : work' = [work EXCEPT ![w] = y] /\ Resting(y)
<1>1. CASE w \in Pollers
  <2>1. PICK items : items = Without(work[w].q)
    OBVIOUS
  <2>2. /\ items \in Seq(ToSet(pending)) /\ IsInjective(items)
        /\ ToSet(items) = ToSet(pending) \ {work[w].q}
    BY <2>1, WithoutKeeps
  <2>3. Leave(w, items)
    BY <1>1, <2>1 DEF Succeed, Leave
  <2>. QED
    BY <2>2, <2>3, Leaves
<1>2. CASE w \notin Pollers
  <2>1. PICK y : y = [Idle EXCEPT !.at = "created"]
    OBVIOUS
  <2>2. y \in WorkType /\ Resting(y)
    <3>1. PICK x \in WorkType : x = Idle
      BY IdleIs
    <3>2. x.q = Null /\ x.chain = FALSE
      BY <3>1, IdleIs DEF Resting
    <3>3. y = [x EXCEPT !.at = "created"]
      BY <2>1, <3>1
    <3>. QED
      BY <3>2, <3>3 DEF WorkType, Places, Resting
  <2>3. pending' = pending /\ work' = [work EXCEPT ![w] = y]
    BY <1>2, <2>1 DEF Succeed
  <2>4. Shrunk
    BY <2>3, PendingIs DEF Shrunk, CronInv
  <2>. QED
    BY <2>2, <2>3, <2>4
<1>. QED
  BY <1>1, <1>2

----------------------------------------------------------------------------
(* Each part of the invariant, under what does not concern it.             *)

\* The cron's part, when no run of it takes a step.
LEMMA CronKept ==
    ASSUME CronInv, UNCHANGED trigger, received \subseteq received', Shrunk
    PROVE  CronInv'
<1>1. ToSet(pending) \subseteq received
  BY PendingIs
<1>2. pending' \in Seq(received') /\ IsInjective(pending')
  <2>1. ToSet(pending) \subseteq received'
    BY <1>1
  <2>2. pending' \in Seq(ToSet(pending))
    BY DEF Shrunk
  <2>. QED
    BY <2>1, <2>2 DEF Shrunk
<1>3. \A q \in ToSet(pending') : q[1] \in Triggers /\ trigger'[q[1]].at = "done"
  <2>1. pending' \in Seq(ToSet(pending))
    BY DEF Shrunk
  <2>2. ToSet(pending') \subseteq ToSet(pending)
    BY <2>1 DEF ToSet
  <2>. QED
    BY <2>2 DEF CronInv
<1>4. \A t \in Triggers : TriggerOK(t, trigger[t])'
  BY DEF CronInv, TriggerOK
<1>. QED
  BY <1>2, <1>3, <1>4 DEF CronInv

\* One worker moves, to where its work is in order.
LEMMA WorkMoves ==
    ASSUME BaseInv, BaseInv', Grows, WorkInv, NEW w \in Workers, NEW y \in WorkType,
           work' = [work EXCEPT ![w] = y], WorkOK(w, y)'
    PROVE  WorkInv' /\ work'[w] = y /\ \A v \in Workers \ {w} : work'[v] = work[v]
<1>1. work \in [Workers -> WorkType]
  BY DEF WorkInv
<1>2. work'[w] = y /\ \A v \in Workers \ {w} : work'[v] = work[v]
  BY <1>1
<1>3. ASSUME NEW v \in Workers PROVE WorkOK(v, work[v])'
  <2>1. CASE v = w
    BY <1>2, <2>1 DEF WorkOK, Filling, Filled, Created
  <2>2. CASE v # w
    <3>1. PICK x \in WorkType : x = work[v]
      BY <1>1
    <3>2. WorkOK(v, x)
      BY <3>1 DEF WorkInv
    <3>3. WorkOK(v, x)'
      BY <3>2, WorkSurvives
    <3>4. work'[v] = x
      BY <1>2, <2>2, <3>1
    <3>. QED
      BY <3>3, <3>4 DEF WorkOK, Filling, Filled, Created
  <2>. QED
    BY <2>1, <2>2
<1>4. work' \in [Workers -> WorkType]
  BY <1>1
<1>. QED
  BY <1>2, <1>3, <1>4 DEF WorkInv

\* Nobody moves.
LEMMA WorkWaits ==
    ASSUME BaseInv, BaseInv', Grows, WorkInv, UNCHANGED work
    PROVE  WorkInv'
<1>1. ASSUME NEW v \in Workers PROVE WorkOK(v, work[v])'
  <2>1. PICK x \in WorkType : x = work[v]
    BY DEF WorkInv
  <2>2. WorkOK(v, x)
    BY <2>1 DEF WorkInv
  <2>3. WorkOK(v, x)'
    BY <2>2, WorkSurvives
  <2>. QED
    BY <2>1, <2>3 DEF WorkOK, Filling, Filled, Created
<1>. QED
  BY <1>1 DEF WorkInv

\* Rest holds nothing, so it relies on nothing.
LEMMA RestIsOK ==
    ASSUME NEW w, NEW y, Resting(y)
    PROVE  WorkOK(w, y)'
BY DEF Resting, WorkOK

\* Whoever gives a row its conditionId goes to create its positions.
LEMMA PositionsKept ==
    ASSUME PositionsInv, failed' = failed, positions \subseteq positions', positions' \subseteq Rows',
           \A v \in Workers : work[v].at = "positions" /\ rows'[work[v].m] # Null =>
               \/ work'[v].at = "positions" /\ work'[v].m = work[v].m
               \/ work[v].m \in positions',
           \A m \in Rows' : rows'[m].cond # Null =>
               \/ m \in Rows /\ rows[m].cond # Null
               \/ \E v \in Workers : work'[v].at = "positions" /\ work'[v].m = m
    PROVE  PositionsInv'
<1>1. SUFFICES ASSUME NEW m \in Rows', rows'[m].cond # Null, m \notin positions', ~failed'
               PROVE  \E v \in Workers : work'[v].at = "positions" /\ work'[v].m = m
  BY DEF PositionsInv
<1>2. CASE m \in Rows /\ rows[m].cond # Null
  <2>1. PICK v \in Workers : work[v].at = "positions" /\ work[v].m = m
    BY <1>1, <1>2 DEF PositionsInv
  <2>2. rows'[m] # Null
    BY <1>1 DEF Rows
  <2>. QED
    BY <1>1, <2>1, <2>2
<1>. QED
  BY <1>1, <1>2

----------------------------------------------------------------------------
(* What polls and callbacks share, action by action.                       *)

\* What a step of a worker preserves.
StepOK == BaseInv' /\ Grows /\ Shrunk /\ WorkInv' /\ PositionsInv'

\* The waiting list as it was.
LEMMA PendingWaits ==
    ASSUME CronInv, UNCHANGED pending
    PROVE  Shrunk
BY PendingIs DEF Shrunk, CronInv

\* A worker that is not about to create positions moves and changes no row.
LEMMA QuietStep ==
    ASSUME BaseInv, WorkInv, PositionsInv, NEW w \in Workers, NEW y \in WorkType,
           work' = [work EXCEPT ![w] = y], WorkOK(w, y), work[w].at # "positions",
           UNCHANGED <<rows, received, onChain, seeds, gone, positions, failed>>
    PROVE  BaseInv' /\ Grows /\ WorkInv' /\ PositionsInv'
<1>1. BaseInv' /\ Grows
  BY SameOutside
<1>2. WorkOK(w, y)'
  BY <1>1, WorkSurvives
<1>3. WorkInv' /\ work'[w] = y /\ \A v \in Workers \ {w} : work'[v] = work[v]
  BY <1>1, <1>2, WorkMoves
<1>4. PositionsInv'
  <2>1. positions' \subseteq Rows'
    BY DEF PositionsInv, Rows
  <2>2. \A m \in Rows' : m \in Rows
    BY DEF Rows
  <2>. QED
    BY <1>3, <2>1, <2>2, PositionsKept
<1>. QED
  BY <1>1, <1>3, <1>4

\* It comes to rest, and perhaps a row has changed or a seeding is confirmed.
LEMMA RestStep ==
    ASSUME BaseInv', Grows, BaseInv, WorkInv, PositionsInv, NEW w \in Workers, NEW y \in WorkType,
           work' = [work EXCEPT ![w] = y], Resting(y),
           UNCHANGED <<positions, failed>>, Rows' = Rows,
           \A m \in Rows : rows'[m].cond # Null => rows[m].cond # Null,
           work[w].at = "positions" => work[w].m \notin Rows \/ work[w].m \in positions
    PROVE  WorkInv' /\ PositionsInv'
<1>1. WorkOK(w, y)'
  BY RestIsOK
<1>2. WorkInv' /\ work'[w] = y /\ \A v \in Workers \ {w} : work'[v] = work[v]
  BY <1>1, WorkMoves
<1>3. PositionsInv'
  <2>1. positions' \subseteq Rows'
    BY DEF PositionsInv
  <2>2. \A v \in Workers : work[v].at = "positions" /\ rows'[work[v].m] # Null =>
               \/ work'[v].at = "positions" /\ work'[v].m = work[v].m
               \/ work[v].m \in positions'
    <3>1. SUFFICES ASSUME work[w].at = "positions", rows'[work[w].m] # Null
                   PROVE  work[w].m \in positions'
      BY <1>2
    <3>2. CASE work[w].m \in positions
      BY <3>2
    <3>3. CASE work[w].m \notin Rows
      <4>1. work[w].m \in Markets
        BY <3>1 DEF WorkInv, WorkOK, Filled, Filling, Created
      <4>. QED
        BY <3>1, <3>3, <4>1 DEF Rows
    <3>. QED
      BY <3>1, <3>2, <3>3
  <2>. QED
    BY <2>1, <2>2, PositionsKept
<1>. QED
  BY <1>2, <1>3

LEMMA ReadDraftStep ==
    ASSUME Inv, NEW w \in Workers, ReadDraft(w), UNCHANGED <<received, onChain, gone, failed>>
    PROVE  StepOK
<1>1. PICK x \in WorkType : x = work[w]
  BY DEF Inv, WorkInv
<1>2. WorkOK(w, x) /\ x.at = "draft" /\ x.q \in received /\ x.q \in Question
  BY <1>1 DEF Inv, WorkInv, ReadDraft, WorkOK, BaseInv, SentInv
<1>3. PICK m : m = DraftOf(x.q)
  OBVIOUS
<1>4. PICK y : y = IF Exists(m) /\ NeedsChainData(w, m)
                   THEN [x EXCEPT !.at = IF x.chain THEN "fill" ELSE "mark", !.m = m,
                                  !.path = "fill", !.seeded = rows[m].seeded]
                   ELSE IF x.chain THEN [x EXCEPT !.at = "existing"] ELSE Idle
  OBVIOUS
<1>5. work' = [work EXCEPT ![w] = y]
  BY <1>1, <1>3, <1>4 DEF ReadDraft
<1>6. y \in WorkType /\ WorkOK(w, y)
  <2>1. CASE Exists(m) /\ NeedsChainData(w, m)
    <3>1. m \in Markets /\ m \in Rows
      BY <1>2, <1>3, <2>1, QuestionIs DEF Exists, Rows
    <3>2. rows[m].seeded \in BOOLEAN
      BY <3>1 DEF Inv, BaseInv, Rows, RowType
    <3>3. PICK seeded : seeded = rows[m].seeded
      OBVIOUS
    <3>4. CASE x.chain
      <4>1. y = [x EXCEPT !.at = "fill", !.m = m, !.path = "fill", !.seeded = seeded]
        BY <1>4, <2>1, <3>3, <3>4
      <4>2. y \in WorkType
        BY <3>1, <3>2, <3>3, <4>1 DEF WorkType, Places
      <4>3. y.at = "fill" /\ y.m = m /\ y.path = "fill" /\ y.q = x.q /\ y.chain = x.chain
        BY <4>1 DEF WorkType
      <4>. QED
        BY <1>2, <1>3, <3>1, <3>4, <4>2, <4>3 DEF WorkOK, Filling
    <3>5. CASE ~x.chain
      <4>1. y = [x EXCEPT !.at = "mark", !.m = m, !.path = "fill", !.seeded = seeded]
        BY <1>4, <2>1, <3>3, <3>5
      <4>2. y \in WorkType
        BY <3>1, <3>2, <3>3, <4>1 DEF WorkType, Places
      <4>3. y.at = "mark" /\ y.m = m /\ y.path = "fill" /\ y.q = x.q /\ y.chain = x.chain
        BY <4>1 DEF WorkType
      <4>. QED
        BY <1>2, <1>3, <3>1, <3>5, <4>2, <4>3 DEF WorkOK, Filling
    <3>. QED
      BY <3>4, <3>5
  <2>2. CASE ~(Exists(m) /\ NeedsChainData(w, m)) /\ x.chain
    <3>1. y = [x EXCEPT !.at = "existing"]
      BY <1>4, <2>2
    <3>2. y \in WorkType /\ y.at = "existing" /\ y.q = x.q /\ y.chain = x.chain
      BY <3>1 DEF WorkType, Places
    <3>. QED
      BY <1>2, <2>2, <3>2 DEF WorkOK
  <2>3. CASE ~(Exists(m) /\ NeedsChainData(w, m)) /\ ~x.chain
    BY <1>4, <2>3, IdleIs DEF WorkOK, Resting
  <2>. QED
    BY <2>1, <2>2, <2>3
<1>7. UNCHANGED <<rows, positions, pending, seeds>> /\ work[w].at # "positions"
  BY <1>1, <1>2 DEF ReadDraft, dbVars
<1>8. Shrunk
  BY <1>7, PendingWaits DEF Inv
<1>. QED
  BY <1>5, <1>6, <1>7, <1>8, QuietStep DEF Inv, StepOK

LEMMA FillDraftStep ==
    ASSUME Inv, NEW w \in Workers, FillDraft(w), UNCHANGED <<received, onChain, gone, failed>>
    PROVE  StepOK
<1>1. PICK x \in WorkType : x = work[w]
  BY DEF Inv, WorkInv
<1>2. WorkOK(w, x) /\ x.at = "fill" /\ x.q \in onChain /\ Filling(x)
  BY <1>1 DEF Inv, WorkInv, FillDraft, WorkOK
<1>3. x.q \in Question /\ x.q # Null
  BY <1>2, NullAssumption DEF Filling, Inv, BaseInv, SentInv
<1>4. PICK m, q : m = x.m /\ q = x.q
  OBVIOUS
<1>5. CASE Exists(m) /\ Unused(q, m)
  <2>1. PICK row : row = [rows[m] EXCEPT !.qid = q, !.cond = q]
    OBVIOUS
  <2>2. rows' = [rows EXCEPT ![m] = row]
    BY <1>1, <1>4, <1>5, <2>1 DEF FillDraft
  <2>3. m \in Rows /\ m \in Markets /\ DraftOf(q) = m /\ q \in received /\ q \in onChain
    BY <1>2, <1>4, <1>5 DEF Filling, Exists, Rows
  <2>4. rows[m] \in RowType
    BY <2>3 DEF Inv, BaseInv, Rows
  <2>5. row \in RowType /\ row.qid = q /\ row.cond = q /\ row.seeded = rows[m].seeded
    BY <1>3, <1>4, <2>1, <2>4 DEF RowType
  <2>6. BaseInv' /\ Grows /\ Rows' = Rows /\ rows'[m] = row
    <3>1. UNCHANGED <<received, onChain, seeds, gone>>
      BY DEF FillDraft
    <3>. QED
      BY <2>2, <2>3, <2>5, <3>1, RowIsIdentified DEF Inv
  <2>7. PICK y : y = [x EXCEPT !.at = "positions"]
    OBVIOUS
  <2>8. /\ y \in WorkType /\ y.at = "positions" /\ y.q = x.q /\ y.m = x.m /\ y.path = x.path
        /\ y.chain = x.chain
    BY <2>7 DEF WorkType, Places
  <2>9. work' = [work EXCEPT ![w] = y] /\ pending' = pending
    BY <1>1, <1>4, <1>5, <2>7 DEF FillDraft
  <2>10. WorkOK(w, y)'
    <3>1. Filled(y)'
      BY <1>2, <1>3, <1>4, <2>5, <2>6, <2>8 DEF Filled, Filling, Grows
    <3>2. x.chain => x.q \in onChain'
      BY <1>2 DEF WorkOK
    <3>. QED
      BY <2>8, <3>1, <3>2 DEF WorkOK
  <2>11. WorkInv' /\ work'[w] = y /\ \A v \in Workers \ {w} : work'[v] = work[v]
    BY <2>6, <2>8, <2>9, <2>10, WorkMoves DEF Inv
  <2>12. PositionsInv'
    <3>1. \A k \in Rows : k # m => rows'[k] = rows[k]
      BY <2>2 DEF Inv, BaseInv, Rows
    <3>2. positions' = positions /\ positions' \subseteq Rows'
      BY <2>6 DEF FillDraft, Inv, PositionsInv
    <3>3. work[w].at # "positions"
      BY <1>1, <1>2
    <3>. QED
      BY <1>4, <2>6, <2>8, <2>11, <3>1, <3>2, <3>3, PositionsKept DEF Inv
  <2>13. Shrunk
    BY <2>9, PendingWaits DEF Inv
  <2>. QED
    BY <2>6, <2>11, <2>12, <2>13 DEF StepOK
<1>6. CASE ~(Exists(m) /\ Unused(q, m))
  <2>1. GiveUp(w) /\ UNCHANGED <<rows, positions, seeds>>
    BY <1>1, <1>4, <1>6 DEF FillDraft
  <2>2. PICK y \in WorkType : work' = [work EXCEPT ![w] = y] /\ Resting(y)
    BY <2>1, GivesUp DEF Inv
  <2>3. Shrunk
    BY <2>1, GivesUp DEF Inv
  <2>4. BaseInv' /\ Grows
    BY <2>1, SameOutside DEF Inv
  <2>5. Rows' = Rows /\ work[w].at # "positions"
    BY <1>1, <1>2, <2>1 DEF Rows
  <2>. QED
    BY <2>1, <2>2, <2>3, <2>4, <2>5, RestStep DEF Inv, StepOK
<1>. QED
  BY <1>5, <1>6

LEMMA FindExistingStep ==
    ASSUME Inv, NEW w \in Workers, FindExisting(w), UNCHANGED <<received, onChain, gone, failed>>
    PROVE  StepOK
<1>1. PICK x \in WorkType : x = work[w]
  BY DEF Inv, WorkInv
<1>2. WorkOK(w, x) /\ x.at = "existing" /\ x.q \in onChain
  BY <1>1 DEF Inv, WorkInv, FindExisting, WorkOK
<1>3. UNCHANGED <<rows, positions, seeds>> /\ work[w].at # "positions"
  BY <1>1, <1>2 DEF FindExisting, dbVars
<1>4. CASE Existing(x.q) # {}
  <2>1. Succeed(w)
    BY <1>1, <1>4 DEF FindExisting
  <2>2. PICK y \in WorkType : work' = [work EXCEPT ![w] = y] /\ Resting(y)
    BY <2>1, Succeeds DEF Inv
  <2>3. Shrunk
    BY <2>1, Succeeds DEF Inv
  <2>4. BaseInv' /\ Grows
    BY <1>3, SameOutside DEF Inv
  <2>5. Rows' = Rows
    BY <1>3 DEF Rows
  <2>. QED
    BY <1>3, <2>2, <2>3, <2>4, <2>5, RestStep DEF Inv, StepOK
<1>5. CASE Existing(x.q) = {}
  <2>1. PICK y : y = [x EXCEPT !.path = "create", !.at = IF w \in Pollers THEN "create" ELSE "seed"]
    OBVIOUS
  <2>2. work' = [work EXCEPT ![w] = y] /\ pending' = pending
    BY <1>1, <1>5, <2>1 DEF FindExisting
  <2>3. /\ y \in WorkType /\ y.q = x.q /\ y.path = "create" /\ y.chain = x.chain
        /\ y.at = IF w \in Pollers THEN "create" ELSE "seed"
    BY <2>1 DEF WorkType, Places
  <2>4. WorkOK(w, y)
    BY <1>2, <2>3, WorkersAssumption DEF WorkOK, Workers
  <2>5. Shrunk
    BY <2>2, PendingWaits DEF Inv
  <2>. QED
    BY <1>3, <2>2, <2>3, <2>4, <2>5, QuietStep DEF Inv, StepOK
<1>. QED
  BY <1>4, <1>5

\* A row is created by a worker that goes on to its positions.
LEMMA CreationStep ==
    ASSUME Inv, NEW w \in Workers, NEW m \in Unborn, NEW row \in RowType,
           rows' = [rows EXCEPT ![m] = row], UNCHANGED <<positions, received, onChain, seeds, gone, failed>>,
           row.cond \in Question => row.cond \in onChain /\ row.qid = row.cond,
           row.seeded => \E q \in seeds : row.qid = q,
           NEW y \in WorkType, work' = [work EXCEPT ![w] = y], work[w].at # "positions",
           y.at = "positions" /\ y.m = m /\ (y.chain => y.q \in onChain),
           \/ y.path = "create" /\ y.q \in received /\ row.qid = y.q
           \/ y.path = "user" /\ w \in Handlers /\ y.q = Null
    PROVE  BaseInv' /\ Grows /\ WorkInv' /\ PositionsInv'
<1>1. /\ BaseInv' /\ Grows /\ m \in Markets /\ m \notin Rows /\ Rows' = Rows \union {m}
      /\ rows'[m] = row /\ Sent(m) = {} /\ Sent(m)' = {} /\ Born(m)'
  BY RowIsCreated DEF Inv
<1>2. WorkOK(w, y)'
  BY <1>1 DEF WorkOK, Created
<1>3. WorkInv' /\ work'[w] = y /\ \A v \in Workers \ {w} : work'[v] = work[v]
  BY <1>1, <1>2, WorkMoves DEF Inv
<1>4. PositionsInv'
  <2>1. \A k \in Rows : k # m => rows'[k] = rows[k]
    BY DEF Inv, BaseInv, Rows
  <2>2. positions' \subseteq Rows'
    BY <1>1 DEF Inv, PositionsInv
  <2>. QED
    BY <1>1, <1>3, <2>1, <2>2, PositionsKept DEF Inv
<1>. QED
  BY <1>1, <1>3, <1>4

LEMMA FreshIdIs ==
    ASSUME RoomForRow
    PROVE  FreshId \in Unborn
BY Zenon DEF RoomForRow, FreshId

LEMMA CreateRowStep ==
    ASSUME Inv, NEW w \in Workers, CreateRow(w), UNCHANGED <<received, onChain, gone, failed>>
    PROVE  StepOK
<1>1. PICK x \in WorkType : x = work[w]
  BY DEF Inv, WorkInv
<1>2. /\ WorkOK(w, x) /\ x.at = "create" /\ x.q \in onChain /\ x.path = "create"
      /\ w \in Handlers /\ x.seeded => x.q \in seeds
  BY <1>1 DEF Inv, WorkInv, CreateRow, WorkOK
<1>3. x.q \in Question /\ x.q # Null /\ x.q \in received
  BY <1>2, NullAssumption DEF Inv, BaseInv, SentInv
<1>4. PICK q, m : q = x.q /\ m = FreshId
  OBVIOUS
<1>5. UNCHANGED <<positions, seeds>> /\ work[w].at # "positions"
  BY <1>1, <1>2 DEF CreateRow
<1>6. CASE Unused(q, NoMarket)
  <2>1. PICK row : row = Row(NameOf(q), q, q, w \in Handlers /\ x.seeded)
    OBVIOUS
  <2>2. rows' = [rows EXCEPT ![m] = row]
    BY <1>1, <1>4, <1>6, <2>1 DEF CreateRow
  <2>3. m \in Unborn
    BY <1>4, FreshIdIs DEF CreateRow
  <2>4. NameOf(q) \in Names /\ (w \in Handlers /\ x.seeded) \in BOOLEAN
    BY <1>3, <1>4, QuestionIs
  <2>5. /\ row \in RowType /\ row.qid = q /\ row.cond = q
        /\ row.seeded => w \in Handlers /\ x.seeded
    BY <1>3, <1>4, <2>1, <2>4 DEF Row, RowType
  <2>6. PICK y : y = [x EXCEPT !.at = "positions", !.m = m]
    OBVIOUS
  <2>7. work' = [work EXCEPT ![w] = y] /\ pending' = pending
    BY <1>1, <1>4, <1>6, <2>6 DEF CreateRow
  <2>8. m \in Markets
    BY <2>3 DEF Unborn
  <2>9. /\ y \in WorkType /\ y.at = "positions" /\ y.q = x.q /\ y.m = m /\ y.path = "create"
        /\ y.chain = x.chain
    BY <1>2, <2>6, <2>8 DEF WorkType, Places
  <2>10. BaseInv' /\ Grows /\ WorkInv' /\ PositionsInv'
    <3>1. row.seeded => \E p \in seeds : row.qid = p
      BY <1>2, <1>4, <2>5
    <3>2. row.cond \in Question => row.cond \in onChain /\ row.qid = row.cond
      BY <1>2, <1>4, <2>5
    <3>3. y.at = "positions" /\ y.m = m /\ (y.chain => y.q \in onChain)
      BY <1>2, <2>9
    <3>4. y.path = "create" /\ y.q \in received /\ row.qid = y.q
      BY <1>3, <1>4, <2>5, <2>9
    <3>5. UNCHANGED <<positions, received, onChain, seeds, gone, failed>>
      BY <1>5
    <3>. QED
      BY <1>5, <2>2, <2>3, <2>5, <2>7, <2>9, <3>1, <3>2, <3>3, <3>4, <3>5, CreationStep
  <2>11. Shrunk
    BY <2>7, PendingWaits DEF Inv
  <2>. QED
    BY <2>10, <2>11 DEF StepOK
<1>7. CASE ~Unused(q, NoMarket)
  <2>1. GiveUp(w) /\ UNCHANGED rows
    BY <1>1, <1>4, <1>7 DEF CreateRow
  <2>2. PICK y \in WorkType : work' = [work EXCEPT ![w] = y] /\ Resting(y)
    BY <2>1, GivesUp DEF Inv
  <2>3. Shrunk
    BY <2>1, GivesUp DEF Inv
  <2>4. BaseInv' /\ Grows
    BY <1>5, <2>1, SameOutside DEF Inv
  <2>5. Rows' = Rows
    BY <2>1 DEF Rows
  <2>. QED
    BY <1>5, <2>1, <2>2, <2>3, <2>4, <2>5, RestStep DEF Inv, StepOK
<1>. QED
  BY <1>6, <1>7

LEMMA AddPositionsStep ==
    ASSUME Inv, NEW w \in Workers, AddPositions(w), UNCHANGED <<received, onChain, gone, failed>>
    PROVE  StepOK
<1>1. PICK x \in WorkType : x = work[w]
  BY DEF Inv, WorkInv
<1>2. WorkOK(w, x) /\ x.at = "positions" /\ x.m \in Markets
  BY <1>1 DEF Inv, WorkInv, AddPositions, WorkOK, Filled, Filling, Created
<1>3. UNCHANGED <<rows, seeds>> /\ Rows' = Rows
  BY DEF AddPositions, Rows
<1>4. BaseInv' /\ Grows
  BY <1>3, SameOutside DEF Inv
<1>5. CASE ~Exists(x.m)
  <2>1. GiveUp(w) /\ UNCHANGED positions
    BY <1>1, <1>5 DEF AddPositions
  <2>2. PICK y \in WorkType : work' = [work EXCEPT ![w] = y] /\ Resting(y)
    BY <2>1, GivesUp DEF Inv
  <2>3. Shrunk
    BY <2>1, GivesUp DEF Inv
  <2>4. x.m \notin Rows
    BY <1>2, <1>5, MarketsAssumption DEF Exists, Rows
  <2>5. WorkInv' /\ PositionsInv'
    BY <1>1, <1>3, <1>4, <2>1, <2>2, <2>4, RestStep DEF Inv
  <2>. QED
    BY <1>4, <2>3, <2>5 DEF StepOK
<1>6. CASE Exists(x.m)
  <2>1. positions' = positions \union {x.m}
    BY <1>1, <1>6 DEF AddPositions, MarketPositions
  <2>2. x.m \in Rows
    BY <1>2, <1>6 DEF Exists, Rows
  <2>3. ASSUME WorkInv', \A v \in Workers \ {w} : work'[v] = work[v] PROVE PositionsInv'
    <3>1. positions' \subseteq Rows'
      BY <1>3, <2>1, <2>2 DEF Inv, PositionsInv
    <3>2. work[w].m \in positions'
      BY <1>1, <2>1
    <3>. QED
      BY <1>3, <2>1, <2>3, <3>1, <3>2, PositionsKept DEF Inv
  <2>4. CASE AfterPositions(w) = "end"
    <3>1. Succeed(w)
      BY <1>1, <1>6, <2>4 DEF AddPositions
    <3>2. PICK y \in WorkType : work' = [work EXCEPT ![w] = y] /\ Resting(y)
      BY <3>1, Succeeds DEF Inv
    <3>3. Shrunk
      BY <3>1, Succeeds DEF Inv
    <3>4. WorkOK(w, y)'
      BY <3>2, RestIsOK
    <3>5. WorkInv' /\ \A v \in Workers \ {w} : work'[v] = work[v]
      BY <1>4, <3>2, <3>4, WorkMoves DEF Inv
    <3>. QED
      BY <1>4, <2>3, <3>3, <3>5 DEF StepOK
  <2>5. CASE AfterPositions(w) # "end"
    <3>1. PICK next : next = AfterPositions(w)
      OBVIOUS
    <3>2. PICK y : y = [x EXCEPT !.at = next, !.seeded = @ /\ next # "flag"]
      OBVIOUS
    <3>3. work' = [work EXCEPT ![w] = y] /\ pending' = pending
      <4>1. work' = [work EXCEPT ![w].at = next, ![w].seeded = @ /\ next # "flag"] /\ pending' = pending
        BY <1>1, <1>6, <2>5, <3>1 DEF AddPositions
      <4>2. work \in [Workers -> WorkType]
        BY DEF Inv, WorkInv
      <4>. QED
        BY <1>1, <3>2, <4>1, <4>2 DEF WorkType
    <3>4. /\ next \in {"seed", "flag"}
          /\ w \in Handlers => next = "seed" /\ x.path = "fill"
          /\ next = "flag" => x.path = "fill" /\ w \in Pollers
      BY <1>1, <2>5, <3>1 DEF AfterPositions, Workers
    <3>5. PICK seeded \in BOOLEAN : seeded = (x.seeded /\ next # "flag")
      OBVIOUS
    <3>6. y = [x EXCEPT !.at = next, !.seeded = seeded]
      BY <3>2, <3>5 DEF WorkType
    <3>7. /\ y \in WorkType /\ y.at = next /\ y.q = x.q /\ y.m = x.m /\ y.path = x.path
          /\ y.chain = x.chain /\ y.seeded = seeded
      BY <3>4, <3>6 DEF WorkType, Places
    <3>8. Filled(x) \/ (w \in Pollers /\ Created(x))
      BY <1>2, <3>4, WorkersAssumption DEF WorkOK, Created, Workers, Filled, Filling
    <3>9. Filled(y) \/ (w \in Pollers /\ Created(y))
      BY <3>7, <3>8 DEF Filled, Filling, Created
    <3>10. WorkOK(w, y)
      BY <1>2, <3>4, <3>5, <3>7, <3>9 DEF WorkOK
    <3>11. WorkOK(w, y)'
      BY <1>4, <3>7, <3>10, WorkSurvives DEF Inv
    <3>12. WorkInv' /\ \A v \in Workers \ {w} : work'[v] = work[v]
      BY <1>4, <3>3, <3>7, <3>11, WorkMoves DEF Inv
    <3>13. Shrunk
      BY <3>3, PendingWaits DEF Inv
    <3>. QED
      BY <1>4, <2>3, <3>12, <3>13 DEF StepOK
  <2>. QED
    BY <2>4, <2>5
<1>. QED
  BY <1>5, <1>6

LEMMA SeedOnChainStep ==
    ASSUME Inv, NEW w \in Workers, SeedOnChain(w), UNCHANGED <<received, onChain, gone, failed>>
    PROVE  StepOK
<1>1. PICK x \in WorkType : x = work[w]
  BY DEF Inv, WorkInv
<1>2. WorkOK(w, x) /\ x.at = "seed"
  BY <1>1 DEF Inv, WorkInv, SeedOnChain
<1>3. \/ Filled(x)
      \/ w \in Pollers /\ Created(x)
      \/ w \in Handlers /\ x.path = "create" /\ x.q \in onChain
  BY <1>2 DEF WorkOK
<1>4. x.q \in received /\ x.q \in Question
  BY <1>3 DEF Filled, Filling, Created, Inv, BaseInv, SentInv
<1>5. PICK ok \in BOOLEAN :
          /\ seeds' = IF ok THEN seeds \union {x.q} ELSE seeds
          /\ work' = [work EXCEPT ![w] = [x EXCEPT !.seeded = ok,
                          !.at = IF w \in Handlers /\ x.path = "create" THEN "create" ELSE "flag"]]
  BY <1>1 DEF SeedOnChain
<1>6. UNCHANGED <<rows, positions, pending>> /\ Rows' = Rows
  BY DEF SeedOnChain, dbVars, Rows
<1>7. BaseInv' /\ Grows
  <2>1. \A m \in Markets : Sent(m)' = Sent(m)
    BY DEF Sent
  <2>2. seeds \subseteq seeds' /\ seeds' \subseteq received'
    BY <1>4, <1>5 DEF Inv, BaseInv, SentInv
  <2>. QED
    BY <1>6, <2>1, <2>2, MoreOutside DEF Inv, BaseInv, SentInv
<1>8. PICK y : y = [x EXCEPT !.seeded = ok,
                      !.at = IF w \in Handlers /\ x.path = "create" THEN "create" ELSE "flag"]
  OBVIOUS
<1>9. /\ y \in WorkType /\ y.q = x.q /\ y.m = x.m /\ y.path = x.path /\ y.chain = x.chain /\ y.seeded = ok
      /\ y.at = IF w \in Handlers /\ x.path = "create" THEN "create" ELSE "flag"
  BY <1>8 DEF WorkType, Places
<1>10. y.seeded => y.q \in seeds'
  BY <1>5, <1>9
<1>11. y.chain => y.q \in onChain'
  BY <1>2, <1>9 DEF WorkOK
<1>12. WorkOK(w, y)'
  <2>1. CASE w \in Handlers /\ x.path = "create"
    <3>1. y.at = "create" /\ y.path = "create" /\ y.q \in onChain'
      BY <1>3, <1>9, <2>1, WorkersAssumption DEF Filled, Filling
    <3>. QED
      BY <1>10, <1>11, <3>1 DEF WorkOK
  <2>2. CASE ~(w \in Handlers /\ x.path = "create")
    <3>1. y.at = "flag" /\ (Filled(x) \/ (w \in Pollers /\ Created(x)))
      BY <1>3, <1>9, <2>2
    <3>2. Filled(y) \/ (w \in Pollers /\ Created(y))
      BY <1>9, <3>1 DEF Filled, Filling, Created
    <3>3. Filled(y)' \/ (w \in Pollers /\ Created(y)')
      BY <1>6, <3>2 DEF Filled, Filling, Created, Born, Sent
    <3>. QED
      BY <1>10, <1>11, <3>1, <3>3 DEF WorkOK
  <2>. QED
    BY <2>1, <2>2
<1>13. WorkInv' /\ work'[w] = y /\ \A v \in Workers \ {w} : work'[v] = work[v]
  BY <1>5, <1>7, <1>8, <1>9, <1>12, WorkMoves DEF Inv
<1>14. PositionsInv'
  BY <1>1, <1>2, <1>6, <1>13, PositionsKept DEF Inv, PositionsInv
<1>15. Shrunk
  BY <1>6, PendingWaits DEF Inv
<1>. QED
  BY <1>7, <1>13, <1>14, <1>15 DEF StepOK

LEMMA WriteFlagStep ==
    ASSUME Inv, NEW w \in Workers, WriteFlag(w), UNCHANGED <<received, onChain, gone, failed>>
    PROVE  StepOK
<1>1. PICK x \in WorkType : x = work[w]
  BY DEF Inv, WorkInv
<1>2. /\ WorkOK(w, x) /\ x.at = "flag" /\ (Filled(x) \/ (w \in Pollers /\ Created(x)))
      /\ x.seeded => x.q \in seeds
  BY <1>1 DEF Inv, WorkInv, WriteFlag, WorkOK
<1>3. UNCHANGED <<positions, seeds>> /\ work[w].at # "positions" /\ x.m \in Markets
  BY <1>1, <1>2 DEF WriteFlag, Filled, Filling, Created
<1>4. PICK m : m = x.m
  OBVIOUS
<1>5. CASE Exists(m)
  <2>1. PICK row : row = [rows[m] EXCEPT !.seeded = x.seeded]
    OBVIOUS
  <2>2. m \in Rows /\ rows[m] \in RowType
    BY <1>3, <1>4, <1>5 DEF Exists, Rows, Inv, BaseInv
  <2>3. rows' = [rows EXCEPT ![m] = row] /\ Succeed(w)
    <3>1. rows' = [rows EXCEPT ![m].seeded = x.seeded] /\ Succeed(w)
      BY <1>1, <1>4, <1>5 DEF WriteFlag, SeededFlag
    <3>. QED
      BY <2>1, <3>1
  <2>4. /\ row \in RowType /\ row.qid = rows[m].qid /\ row.cond = rows[m].cond
        /\ row.seeded = x.seeded
    BY <2>1, <2>2 DEF RowType, WorkType
  <2>5. row.seeded => \E q \in seeds : row.qid = q \/ DraftOf(q) = m
    <3>1. rows[m] # Null
      BY <2>2 DEF Rows
    <3>2. rows[m].qid = x.q \/ DraftOf(x.q) = m
      BY <1>2, <1>4, <3>1 DEF Filled, Filling, Created
    <3>. QED
      BY <1>2, <2>4, <3>2
  <2>6. BaseInv' /\ Grows /\ Rows' = Rows /\ rows'[m] = row
    BY <1>3, <2>2, <2>3, <2>4, <2>5, RowIsFlagged DEF Inv
  <2>7. \A k \in Rows : rows'[k].cond # Null => rows[k].cond # Null
    BY <2>2, <2>3, <2>4 DEF Inv, BaseInv, Rows
  <2>8. PICK y \in WorkType : work' = [work EXCEPT ![w] = y] /\ Resting(y)
    BY <2>3, Succeeds DEF Inv
  <2>9. Shrunk
    BY <2>3, Succeeds DEF Inv
  <2>. QED
    BY <1>3, <2>6, <2>7, <2>8, <2>9, RestStep DEF Inv, StepOK
<1>6. CASE ~Exists(m)
  <2>1. GiveUp(w) /\ UNCHANGED rows
    BY <1>1, <1>4, <1>6 DEF WriteFlag
  <2>2. PICK y \in WorkType : work' = [work EXCEPT ![w] = y] /\ Resting(y)
    BY <2>1, GivesUp DEF Inv
  <2>3. Shrunk
    BY <2>1, GivesUp DEF Inv
  <2>4. BaseInv' /\ Grows
    BY <1>3, <2>1, SameOutside DEF Inv
  <2>5. Rows' = Rows
    BY <2>1 DEF Rows
  <2>. QED
    BY <1>3, <2>1, <2>2, <2>3, <2>4, <2>5, RestStep DEF Inv, StepOK
<1>. QED
  BY <1>5, <1>6

----------------------------------------------------------------------------
(* The poll's own steps, requests and faults.                              *)

\* The items of a run are questions that were sent.
LEMMA PollStartStep ==
    ASSUME Inv, NEW p \in Pollers, PollStart(p), UNCHANGED <<received, onChain, gone, failed>>
    PROVE  StepOK
<1>1. PICK due : due = Only(pending, {q \in ToSet(pending) : AgeOf(q) = "due"})
  OBVIOUS
<1>2. UNCHANGED <<rows, positions, seeds>> /\ p \in Workers /\ work[p].at # "positions"
  BY DEF PollStart, dbVars, Workers
<1>3. CASE due = << >>
  <2>1. pending' = Unexpired(pending) /\ work' = work
    BY <1>1, <1>3 DEF PollStart
  <2>2. Shrunk
    <3>1. pending \in Seq(ToSet(pending)) /\ IsInjective(pending)
      BY PendingIs DEF Inv, CronInv
    <3>. QED
      BY <2>1, <3>1, UnexpiredKeeps DEF Shrunk
  <2>3. BaseInv' /\ Grows
    BY <1>2, SameOutside DEF Inv
  <2>4. WorkInv'
    BY <2>1, <2>3, WorkWaits DEF Inv
  <2>5. PositionsInv'
    BY <1>2, <2>1 DEF Inv, PositionsInv, Rows
  <2>. QED
    BY <2>2, <2>3, <2>4, <2>5 DEF StepOK
<1>4. CASE due # << >>
  <2>1. PICK y : y = [Idle EXCEPT !.at = "next", !.todo = due]
    OBVIOUS
  <2>2. work' = [work EXCEPT ![p] = y] /\ pending' = pending
    BY <1>1, <1>4, <2>1 DEF PollStart
  <2>3. due \in Seq(Question)
    <3>1. pending \in Seq(Question)
      BY PendingIs DEF Inv, CronInv, BaseInv, SentInv
    <3>. QED
      BY <1>1, <3>1, OnlyKeeps
  <2>4. y \in WorkType /\ Resting(y)
    BY <1>4, <2>1, <2>3 DEF Idle, WorkType, Resting, Places
  <2>5. WorkOK(p, y)
    BY <2>4 DEF Resting, WorkOK
  <2>6. Shrunk
    BY <2>2, PendingWaits DEF Inv
  <2>. QED
    BY <1>2, <2>2, <2>4, <2>5, <2>6, QuietStep DEF Inv, StepOK
<1>. QED
  BY <1>3, <1>4

LEMMA PollFindsStep ==
    ASSUME Inv, NEW p \in Pollers, PollFinds(p), UNCHANGED <<received, onChain, gone, failed>>
    PROVE  StepOK
<1>1. PICK x \in WorkType : x = work[p]
  BY DEF Inv, WorkInv, Workers
<1>2. WorkOK(p, x) /\ x.at = "next" /\ x.todo # << >> /\ x.todo \in Seq(Question)
  BY <1>1 DEF Inv, WorkInv, PollFinds, WorkOK, WorkType, Workers
<1>3. PICK q, rest : q = Head(x.todo) /\ rest = Tail(x.todo)
  OBVIOUS
<1>4. q \in Question /\ rest \in Seq(Question)
  BY <1>2, <1>3
<1>5. q \in onChain /\ q \in received
  BY <1>1, <1>3 DEF PollFinds, ChainHas, Inv, BaseInv, SentInv
<1>6. PICK y : y = [x EXCEPT !.at = "draft", !.q = q, !.chain = TRUE, !.todo = rest]
  OBVIOUS
<1>7. work' = [work EXCEPT ![p] = y]
  <2>1. work' = [work EXCEPT ![p].at = "draft", ![p].q = q, ![p].chain = TRUE, ![p].todo = Tail(@)]
    BY <1>1, <1>3 DEF PollFinds
  <2>2. work \in [Workers -> WorkType]
    BY DEF Inv, WorkInv
  <2>. QED
    BY <1>1, <1>3, <1>6, <2>1, <2>2 DEF WorkType
<1>8. y \in WorkType /\ y.at = "draft" /\ y.q = q
  BY <1>4, <1>6 DEF WorkType, Places
<1>9. WorkOK(p, y)
  BY <1>5, <1>8 DEF WorkOK
<1>10. UNCHANGED <<rows, positions, pending, seeds>> /\ work[p].at # "positions" /\ p \in Workers
  BY <1>1, <1>2 DEF PollFinds, dbVars, Workers
<1>11. Shrunk
  BY <1>10, PendingWaits DEF Inv
<1>. QED
  BY <1>7, <1>8, <1>9, <1>10, <1>11, QuietStep DEF Inv, StepOK

LEMMA PollMissesStep ==
    ASSUME Inv, NEW p \in Pollers, PollMisses(p), UNCHANGED <<received, onChain, gone, failed>>
    PROVE  StepOK
<1>1. PICK x \in WorkType : x = work[p]
  BY DEF Inv, WorkInv, Workers
<1>2. WorkOK(p, x) /\ x.at = "next" /\ x.todo # << >> /\ x.todo \in Seq(Question)
  BY <1>1 DEF Inv, WorkInv, PollMisses, WorkOK, WorkType, Workers
<1>3. UNCHANGED <<rows, positions, seeds>> /\ work[p].at # "positions" /\ p \in Workers
  BY <1>1, <1>2 DEF PollMisses, dbVars, Workers
<1>4. CASE Tail(x.todo) = << >>
  <2>1. work' = [work EXCEPT ![p] = Idle] /\ pending' = Unexpired(pending)
    BY <1>1, <1>4 DEF PollMisses
  <2>2. pending \in Seq(ToSet(pending)) /\ IsInjective(pending)
    BY PendingIs DEF Inv, CronInv
  <2>3. Shrunk
    BY <2>1, <2>2, UnexpiredKeeps DEF Shrunk
  <2>4. WorkOK(p, Idle)
    BY IdleIs DEF Resting, WorkOK
  <2>. QED
    BY <1>3, <2>1, <2>3, <2>4, IdleIs, QuietStep DEF Inv, StepOK
<1>5. CASE Tail(x.todo) # << >>
  <2>1. PICK rest : rest = Tail(x.todo)
    OBVIOUS
  <2>2. PICK y : y = [x EXCEPT !.todo = rest]
    OBVIOUS
  <2>3. work' = [work EXCEPT ![p] = y] /\ pending' = pending
    BY <1>1, <1>5, <2>1, <2>2 DEF PollMisses
  <2>4. rest \in Seq(Question) /\ rest # << >>
    BY <1>2, <1>5, <2>1
  <2>5. y \in WorkType /\ y.at = "next" /\ y.todo # << >> /\ y.q = x.q /\ y.chain = x.chain
    BY <1>2, <2>2, <2>4 DEF WorkType
  <2>6. WorkOK(p, y)
    BY <1>2, <2>5 DEF WorkOK
  <2>7. Shrunk
    BY <2>3, PendingWaits DEF Inv
  <2>. QED
    BY <1>3, <2>3, <2>5, <2>6, <2>7, QuietStep DEF Inv, StepOK
<1>. QED
  BY <1>4, <1>5

LEMMA ReportStep ==
    ASSUME Inv, NEW h \in Handlers, NEW q, Report(h, q), UNCHANGED <<received, onChain, gone, failed>>
    PROVE  StepOK
<1>1. PICK y : y = [Idle EXCEPT !.at = "chain", !.q = q]
  OBVIOUS
<1>2. q \in received /\ q \in Question
  BY DEF Report, Inv, BaseInv, SentInv
<1>3. y \in WorkType /\ y.at = "chain" /\ y.q = q /\ y.chain = FALSE
  <2>1. PICK x \in WorkType : x = Idle
    BY IdleIs
  <2>2. x.chain = FALSE
    BY <2>1 DEF Idle
  <2>. QED
    BY <1>1, <1>2, <2>1, <2>2 DEF WorkType, Places
<1>4. WorkOK(h, y)
  BY <1>2, <1>3 DEF WorkOK
<1>5. /\ UNCHANGED <<rows, positions, pending, seeds>> /\ work[h].at # "positions" /\ h \in Workers
      /\ work' = [work EXCEPT ![h] = y]
  BY <1>1 DEF Report, Free, dbVars, Workers
<1>6. Shrunk
  BY <1>5, PendingWaits DEF Inv
<1>. QED
  BY <1>3, <1>4, <1>5, <1>6, QuietStep DEF Inv, StepOK

LEMMA AskChainStep ==
    ASSUME Inv, NEW h \in Handlers, AskChain(h), UNCHANGED <<received, onChain, gone, failed>>
    PROVE  StepOK
<1>1. PICK x \in WorkType : x = work[h]
  BY DEF Inv, WorkInv, Workers
<1>2. WorkOK(h, x) /\ x.at = "chain" /\ x.q \in received
  BY <1>1 DEF Inv, WorkInv, AskChain, WorkOK, Workers
<1>3. PICK next \in {"draft", "existing"} : next = IF DraftOf(x.q) # NoMarket THEN "draft" ELSE "existing"
  OBVIOUS
<1>4. \E y \in WorkType : work' = [work EXCEPT ![h] = y] /\ WorkOK(h, y)
  <2>1. CASE ChainHas(x.q) /\ work' = [work EXCEPT ![h] = [x EXCEPT !.chain = TRUE, !.at = next]]
    <3>1. PICK y : y = [x EXCEPT !.chain = TRUE, !.at = next]
      OBVIOUS
    <3>2. y \in WorkType /\ y.at = next /\ y.q = x.q
      BY <3>1 DEF WorkType, Places
    <3>3. WorkOK(h, y)
      BY <1>2, <2>1, <3>2 DEF WorkOK, ChainHas
    <3>. QED
      BY <2>1, <3>1, <3>2, <3>3
  <2>2. CASE work' = [work EXCEPT ![h] = [x EXCEPT !.at = "draft"]]
    <3>1. PICK y : y = [x EXCEPT !.at = "draft"]
      OBVIOUS
    <3>2. y \in WorkType /\ y.at = "draft" /\ y.q = x.q /\ y.chain = x.chain
      BY <3>1 DEF WorkType, Places
    <3>3. WorkOK(h, y)
      BY <1>2, <3>2 DEF WorkOK
    <3>. QED
      BY <2>2, <3>1, <3>2, <3>3
  <2>3. CASE work' = [work EXCEPT ![h] = Idle]
    <3>1. WorkOK(h, Idle)
      BY IdleIs DEF Resting, WorkOK
    <3>. QED
      BY <2>3, <3>1, IdleIs
  <2>. QED
    BY <1>1, <1>3, <2>1, <2>2, <2>3 DEF AskChain
<1>5. UNCHANGED <<rows, positions, pending, seeds>> /\ work[h].at # "positions" /\ h \in Workers
  BY <1>1, <1>2 DEF AskChain, dbVars, Workers
<1>6. Shrunk
  BY <1>5, PendingWaits DEF Inv
<1>. QED
  BY <1>4, <1>5, <1>6, QuietStep DEF Inv, StepOK

LEMMA MarkDraftStep ==
    ASSUME Inv, NEW w \in Workers, MarkDraft(w), UNCHANGED <<received, onChain, gone, failed>>
    PROVE  StepOK
<1>1. PICK x \in WorkType : x = work[w]
  BY DEF Inv, WorkInv
<1>2. WorkOK(w, x) /\ x.at = "mark" /\ Filling(x)
  BY <1>1 DEF Inv, WorkInv, MarkDraft, WorkOK
<1>3. x.q \in Question
  BY <1>2 DEF Filling, Inv, BaseInv, SentInv
<1>4. PICK m, q : m = x.m /\ q = x.q
  OBVIOUS
<1>5. UNCHANGED <<positions, seeds>> /\ work[w].at # "positions"
  BY <1>1, <1>2 DEF MarkDraft
<1>6. CASE Exists(m) /\ Unused(q, m)
  <2>1. PICK row : row = [rows[m] EXCEPT !.qid = q]
    OBVIOUS
  <2>2. rows' = [rows EXCEPT ![m] = row] /\ Succeed(w)
    <3>1. rows' = [rows EXCEPT ![m].qid = q] /\ Succeed(w)
      BY <1>1, <1>4, <1>6 DEF MarkDraft
    <3>. QED
      BY <2>1, <3>1
  <2>3. m \in Rows /\ DraftOf(q) = m /\ q \in received
    BY <1>2, <1>4, <1>6 DEF Filling, Exists, Rows
  <2>4. rows[m] \in RowType
    BY <2>3 DEF Inv, BaseInv, Rows
  <2>5. row \in RowType /\ row.qid = q /\ row.cond = rows[m].cond /\ row.seeded = rows[m].seeded
    BY <1>3, <1>4, <2>1, <2>4 DEF RowType
  <2>6. BaseInv' /\ Grows /\ Rows' = Rows /\ rows'[m] = row
    BY <1>5, <2>2, <2>3, <2>5, RowIsIdentified DEF Inv
  <2>7. \A k \in Rows : rows'[k].cond # Null => rows[k].cond # Null
    BY <2>2, <2>3, <2>5 DEF Inv, BaseInv, Rows
  <2>8. PICK y \in WorkType : work' = [work EXCEPT ![w] = y] /\ Resting(y)
    BY <2>2, Succeeds DEF Inv
  <2>9. Shrunk
    BY <2>2, Succeeds DEF Inv
  <2>. QED
    BY <1>5, <2>6, <2>7, <2>8, <2>9, RestStep DEF Inv, StepOK
<1>7. CASE ~(Exists(m) /\ Unused(q, m))
  <2>1. GiveUp(w) /\ UNCHANGED rows
    BY <1>1, <1>4, <1>7 DEF MarkDraft
  <2>2. PICK y \in WorkType : work' = [work EXCEPT ![w] = y] /\ Resting(y)
    BY <2>1, GivesUp DEF Inv
  <2>3. Shrunk
    BY <2>1, GivesUp DEF Inv
  <2>4. BaseInv' /\ Grows
    BY <1>5, <2>1, SameOutside DEF Inv
  <2>5. Rows' = Rows
    BY <2>1 DEF Rows
  <2>. QED
    BY <1>5, <2>1, <2>2, <2>3, <2>4, <2>5, RestStep DEF Inv, StepOK
<1>. QED
  BY <1>6, <1>7

LEMMA UserCreatesStep ==
    ASSUME Inv, NEW h \in Handlers, NEW n \in Names, UserCreates(h, n),
           UNCHANGED <<received, onChain, gone, failed>>
    PROVE  StepOK
<1>1. PICK m \in Unborn : m = FreshId
  BY FreshIdIs DEF UserCreates
<1>2. PICK row : row = Row(n, Null, UserCondition, FALSE)
  OBVIOUS
<1>3. row \in RowType /\ row.cond \notin Question /\ row.seeded = FALSE
  BY <1>2, NullAssumption DEF Row, RowType
<1>4. PICK y : y = [Idle EXCEPT !.at = "positions", !.path = "user", !.m = m]
  OBVIOUS
<1>5. /\ y \in WorkType /\ y.at = "positions" /\ y.path = "user" /\ y.m = m /\ y.q = Null
      /\ y.chain = FALSE
  <2>1. PICK x \in WorkType : x = Idle
    BY IdleIs
  <2>2. x.chain = FALSE /\ x.q = Null
    BY <2>1 DEF Idle
  <2>3. m \in Markets
    BY DEF Unborn
  <2>. QED
    BY <1>4, <2>1, <2>2, <2>3 DEF WorkType, Places
<1>6. /\ rows' = [rows EXCEPT ![m] = row] /\ work' = [work EXCEPT ![h] = y]
      /\ UNCHANGED <<positions, pending, seeds>> /\ work[h].at # "positions" /\ h \in Workers
  BY <1>1, <1>2, <1>4 DEF UserCreates, Free, Workers
<1>7. BaseInv' /\ Grows /\ WorkInv' /\ PositionsInv'
  <2>1. row.cond \in Question => row.cond \in onChain /\ row.qid = row.cond
    BY <1>3
  <2>2. row.seeded => \E q \in seeds : row.qid = q
    BY <1>3
  <2>3. y.at = "positions" /\ y.m = m /\ (y.chain => y.q \in onChain)
    BY <1>5
  <2>4. y.path = "user" /\ h \in Handlers /\ y.q = Null
    BY <1>5
  <2>5. UNCHANGED <<positions, received, onChain, seeds, gone, failed>>
    BY <1>6
  <2>. QED
    BY <1>3, <1>5, <1>6, <2>1, <2>2, <2>3, <2>4, <2>5, CreationStep
<1>8. Shrunk
  BY <1>6, PendingWaits DEF Inv
<1>. QED
  BY <1>7, <1>8 DEF StepOK

LEMMA SharedStep ==
    ASSUME Inv, NEW w \in Workers, Shared(w), UNCHANGED <<received, onChain, gone, failed>>
    PROVE  StepOK
BY ReadDraftStep, FillDraftStep, FindExistingStep, CreateRowStep, AddPositionsStep,
   SeedOnChainStep, WriteFlagStep, Zenon DEF Shared

\* What the worker's step leaves alone is in order as well.
LEMMA StepKeeps ==
    ASSUME Inv, StepOK, UNCHANGED <<age, trigger, failed>>, rare' \in 0..MaxRare
    PROVE  Inv'
<1>1. CronInv'
  BY CronKept DEF Inv, StepOK, Grows
<1>. QED
  BY <1>1 DEF Inv, StepOK, RestInv

LEMMA PollKeeps ==
    ASSUME Inv, NEW p \in Pollers, Poll(p)
    PROVE  Inv'
<1>1. UNCHANGED <<age, trigger, received, onChain, gone, failed, rare>> /\ p \in Workers
  BY DEF Poll, Workers
<1>2. StepOK
  BY <1>1, SharedStep, PollStartStep, PollFindsStep, PollMissesStep DEF Poll
<1>. QED
  BY <1>1, <1>2, StepKeeps DEF Inv, RestInv

LEMMA HandleKeeps ==
    ASSUME Inv, NEW h \in Handlers, Handle(h)
    PROVE  Inv'
<1>1. UNCHANGED <<age, trigger, received, onChain, gone, failed, rare>> /\ h \in Workers
  BY DEF Handle, Workers
<1>2. StepOK
  BY <1>1, SharedStep, AskChainStep, MarkDraftStep DEF Handle
<1>. QED
  BY <1>1, <1>2, StepKeeps DEF Inv, RestInv

\* A rare event is counted.
LEMMA RareIs ==
    ASSUME RestInv, Rare
    PROVE  rare' \in 0..MaxRare
BY BoundsAssumption DEF RestInv, Rare

LEMMA RequestKeeps ==
    ASSUME Inv, NEW h \in Handlers, Request(h)
    PROVE  Inv'
<1>1. UNCHANGED <<age, trigger, received, onChain, gone, failed>>
  BY DEF Request
<1>2. rare' \in 0..MaxRare
  <2>1. rare' = rare \/ Rare
    BY DEF Request
  <2>. QED
    BY <2>1, RareIs DEF Inv, RestInv
<1>3. StepOK
  BY <1>1, ReportStep, UserCreatesStep DEF Request
<1>. QED
  BY <1>1, <1>2, <1>3, StepKeeps

\* Nobody in the cron, the waiting list and the work is concerned.
LEMMA DeleteKeeps ==
    ASSUME Inv, NEW m \in Markets, Delete(m)
    PROVE  Inv'
<1>1. m \in Rows /\ rows' = [rows EXCEPT ![m] = Null] /\ positions' = positions \ {m}
  BY DEF Delete, Exists, Rows, OtherPositions
<1>2. m \in gone' /\ gone \subseteq gone'
  BY NullAssumption DEF Delete
<1>3. UNCHANGED <<pending, age, trigger, received, onChain, seeds, work, failed>>
  BY DEF Delete, externalVars
<1>4. BaseInv' /\ Grows /\ Rows' = Rows \ {m}
  BY <1>1, <1>2, <1>3, RowIsDeleted DEF Inv
<1>5. WorkInv'
  BY <1>3, <1>4, WorkWaits DEF Inv
<1>6. PositionsInv'
  <2>1. \A k \in Rows : k # m => rows'[k] = rows[k]
    BY <1>1 DEF Inv, BaseInv, Rows
  <2>2. positions' \subseteq Rows'
    BY <1>1, <1>4 DEF Inv, PositionsInv
  <2>3. SUFFICES ASSUME NEW k \in Rows', rows'[k].cond # Null
                 PROVE  \/ k \in positions' \/ failed'
                        \/ \E w \in Workers : work'[w].at = "positions" /\ work'[w].m = k
    BY <2>2 DEF PositionsInv
  <2>4. k \in Rows /\ k # m /\ rows[k].cond # Null
    BY <1>4, <2>1, <2>3
  <2>. QED
    BY <1>1, <1>3, <2>4 DEF Inv, PositionsInv
<1>7. Shrunk
  BY <1>3, PendingWaits DEF Inv
<1>8. CronInv'
  BY <1>3, <1>4, <1>7, CronKept DEF Inv, Grows
<1>9. RestInv'
  BY <1>3, RareIs DEF Inv, RestInv, Delete
<1>. QED
  BY <1>4, <1>5, <1>6, <1>8, <1>9 DEF Inv

LEMMA AgesAre == ToSet(Ages) = {"fresh", "due", "old"}
<1>1. DOMAIN Ages = 1..3 /\ Ages[1] = "fresh" /\ Ages[2] = "due" /\ Ages[3] = "old"
  BY DEF Ages
<1>. QED
  BY <1>1 DEF ToSet

\* The chain, CRE and time.
LEMMA WorldKeeps ==
    ASSUME Inv, World
    PROVE  Inv'
<1>1. /\ UNCHANGED <<rows, positions, pending, trigger, seeds, work, gone, failed>>
      /\ Rows' = Rows
  BY DEF World, dbVars, Rows
<1>2. BaseInv' /\ Grows /\ RestInv'
  <2>1. CASE \E n \in Names : CreFetches(n) /\ UNCHANGED age
    <3>1. PICK n \in Names : CreFetches(n) /\ UNCHANGED age
      BY <2>1
    <3>2. Fetched(n) \in Question /\ DraftOf(Fetched(n)) = NoMarket
      BY DEF Fetched, Question, DraftOf
    <3>3. received' = received \union {Fetched(n)} /\ onChain' = onChain
      BY <3>1 DEF CreFetches
    <3>4. \A m \in Markets : Sent(m)' = Sent(m)
      BY <3>2, <3>3, MarketsAssumption DEF Sent
    <3>5. BaseInv' /\ Grows
      BY <1>1, <3>2, <3>3, <3>4, MoreOutside DEF Inv, BaseInv, SentInv
    <3>6. RestInv'
      BY <1>1, <3>1, RareIs DEF Inv, RestInv, CreFetches
    <3>. QED
      BY <3>5, <3>6
  <2>2. CASE \E q \in Question : CreCreates(q) /\ UNCHANGED age
    <3>1. PICK q \in Question : CreCreates(q) /\ UNCHANGED age
      BY <2>2
    <3>2. onChain' = onChain \union {q} /\ q \in received /\ UNCHANGED <<received, rare>>
      BY <3>1 DEF CreCreates
    <3>3. \A m \in Markets : Sent(m)' = Sent(m)
      BY <3>2 DEF Sent
    <3>4. BaseInv' /\ Grows
      BY <1>1, <3>2, <3>3, MoreOutside DEF Inv, BaseInv, SentInv
    <3>5. RestInv'
      BY <1>1, <3>1, <3>2 DEF Inv, RestInv
    <3>. QED
      BY <3>4, <3>5
  <2>3. CASE \E t \in Triggers : Age(t) /\ UNCHANGED <<received, onChain, rare>>
    <3>1. PICK t \in Triggers : Age(t) /\ UNCHANGED <<received, onChain, rare>>
      BY <2>3
    <3>2. PICK older : older = IF age[t] = "fresh" THEN "due" ELSE "old"
      OBVIOUS
    <3>3. age' = [age EXCEPT ![t] = older]
      BY <3>1, <3>2 DEF Age
    <3>4. RestInv'
      BY <1>1, <3>1, <3>2, <3>3, AgesAre DEF Inv, RestInv
    <3>. QED
      BY <1>1, <3>1, <3>4, SameOutside DEF Inv
  <2>. QED
    BY <2>1, <2>2, <2>3 DEF World
<1>3. WorkInv'
  BY <1>1, <1>2, WorkWaits DEF Inv
<1>4. PositionsInv'
  BY <1>1 DEF Inv, PositionsInv
<1>5. Shrunk
  BY <1>1, PendingWaits DEF Inv
<1>6. CronInv'
  BY <1>1, <1>2, <1>5, CronKept DEF Inv, Grows
<1>. QED
  BY <1>2, <1>3, <1>4, <1>6 DEF Inv

\* A statement rejects.
LEMMA RejectKeeps ==
    ASSUME Inv, NEW w \in Workers, Reject(w)
    PROVE  Inv'
<1>1. /\ UNCHANGED <<rows, positions, age, trigger, received, onChain, seeds, gone>>
      /\ failed' = TRUE /\ Rare /\ Rows' = Rows
  BY DEF Reject, Fault, dbVars, externalVars, Rows
<1>2. GiveUp(w) \/ Succeed(w)
  BY DEF Reject
<1>3. Shrunk
  BY <1>2, GivesUp, Succeeds DEF Inv
<1>4. PICK y \in WorkType : work' = [work EXCEPT ![w] = y] /\ Resting(y)
  BY <1>2, GivesUp, Succeeds DEF Inv
<1>5. BaseInv' /\ Grows
  BY <1>1, SameOutside DEF Inv
<1>6. WorkInv'
  <2>1. WorkOK(w, y)'
    BY <1>4, RestIsOK
  <2>. QED
    BY <1>4, <1>5, <2>1, WorkMoves DEF Inv
<1>7. PositionsInv'
  BY <1>1 DEF Inv, PositionsInv
<1>8. CronInv'
  BY <1>1, <1>3, CronKept DEF Inv
<1>9. RestInv'
  BY <1>1, RareIs DEF Inv, RestInv
<1>. QED
  BY <1>5, <1>6, <1>7, <1>8, <1>9 DEF Inv

\* What a run of the cron starts and ends with.
LEMMA TriggersRest ==
    /\ NotStarted \in TriggerType /\ Over \in TriggerType
    /\ NotStarted.at = "new" /\ Over.at = "done"
    /\ \A t : TriggerOK(t, NotStarted) /\ TriggerOK(t, Over)
<1>1. PICK x : x = NotStarted
  OBVIOUS
<1>2. PICK y : y = Over
  OBVIOUS
<1>3. /\ x = [at |-> "new", todo |-> << >>, made |-> 0, batch |-> {}]
      /\ y = [at |-> "done", todo |-> << >>, made |-> 0, batch |-> {}]
  BY <1>1, <1>2 DEF NotStarted, Over
<1>4. x \in TriggerType /\ y \in TriggerType
  BY <1>3 DEF TriggerType
<1>5. \A t : TriggerOK(t, x) /\ TriggerOK(t, y)
  BY <1>3, AgentsAssumption DEF TriggerOK
<1>. QED
  BY <1>1, <1>2, <1>3, <1>4, <1>5

\* The process starts again.
LEMMA RestartKeeps ==
    ASSUME Inv, Restart
    PROVE  Inv'
<1>1. /\ UNCHANGED <<rows, positions, age, received, onChain, seeds, gone>>
      /\ failed' = TRUE /\ Rare /\ Rows' = Rows
      /\ pending' = << >> /\ work' = [w \in Workers |-> Idle]
  BY DEF Restart, Fault, dbVars, externalVars, Rows
<1>2. trigger' = [t \in Triggers |-> IF trigger[t].at = "new" THEN NotStarted ELSE Over]
  BY DEF Restart
<1>3. BaseInv' /\ Grows
  BY <1>1, SameOutside DEF Inv
<1>4. WorkInv'
  <2>1. \A w \in Workers : WorkOK(w, Idle)'
    BY IdleIs, RestIsOK
  <2>2. \A w \in Workers : work'[w] = Idle
    BY <1>1
  <2>3. \A w \in Workers : WorkOK(w, work[w])'
    BY <2>1, <2>2 DEF WorkOK, Filled, Filling, Created
  <2>. QED
    BY <1>1, <2>3, IdleIs DEF WorkInv
<1>5. PositionsInv'
  BY <1>1 DEF Inv, PositionsInv
<1>6. CronInv'
  <2>1. trigger' \in [Triggers -> TriggerType]
    BY <1>2, TriggersRest
  <2>2. ASSUME NEW t \in Triggers PROVE TriggerOK(t, trigger[t])'
    <3>1. PICK x : x = trigger'[t]
      OBVIOUS
    <3>2. x = NotStarted \/ x = Over
      BY <1>2, <3>1
    <3>3. TriggerOK(t, x)
      BY <3>2, TriggersRest
    <3>. QED
      BY <1>1, <3>1, <3>3 DEF TriggerOK
  <2>3. pending' \in Seq(received') /\ IsInjective(pending') /\ ToSet(pending') = {}
    BY <1>1 DEF IsInjective, ToSet
  <2>. QED
    BY <2>1, <2>2, <2>3 DEF CronInv
<1>7. RestInv'
  BY <1>1, RareIs DEF Inv, RestInv
<1>. QED
  BY <1>3, <1>4, <1>5, <1>6, <1>7 DEF Inv

----------------------------------------------------------------------------
(* The cron.                                                               *)

\* One run moves and adds nothing to the waiting list.
LEMMA TriggerMoves ==
    ASSUME CronInv, NEW t \in Triggers, NEW x \in TriggerType, trigger' = [trigger EXCEPT ![t] = x],
           TriggerOK(t, x)', UNCHANGED pending, received \subseteq received',
           trigger[t].at = "done" => x.at = "done"
    PROVE  CronInv'
<1>1. trigger' \in [Triggers -> TriggerType]
  BY DEF CronInv
<1>2. trigger'[t] = x /\ \A s \in Triggers : s # t => trigger'[s] = trigger[s]
  BY DEF CronInv
<1>3. ASSUME NEW s \in Triggers PROVE TriggerOK(s, trigger[s])'
  <2>1. CASE s = t
    BY <1>2, <2>1 DEF TriggerOK
  <2>2. CASE s # t
    BY <1>2, <2>2 DEF TriggerOK, CronInv
  <2>. QED
    BY <2>1, <2>2
<1>4. \A q \in ToSet(pending) : q[1] \in Triggers /\ trigger'[q[1]].at = "done"
  BY <1>2 DEF CronInv
<1>5. pending \in Seq(received')
  BY DEF CronInv
<1>. QED
  BY <1>1, <1>3, <1>4, <1>5 DEF CronInv

\* The shares of the agents are together no more than the job.
LEMMA SharesFit ==
    /\ Shares(PerJob)[1] \in Nat /\ Shares(PerJob)[2] \in Nat /\ Shares(PerJob)[3] \in Nat
    /\ Shares(PerJob)[1] + Shares(PerJob)[2] + Shares(PerJob)[3] <= PerJob
<1>1. PICK n \in Nat : n = PerJob
  BY AgentsAssumption
<1>2. n \in 1..50 /\ OpenWebUi \in BOOLEAN
  BY <1>1, AgentsAssumption
<1>. SUFFICES /\ Shares(n)[1] \in Nat /\ Shares(n)[2] \in Nat /\ Shares(n)[3] \in Nat
              /\ Shares(n)[1] + Shares(n)[2] + Shares(n)[3] <= n
  BY <1>1
<1>3. CASE n > 3 /\ OpenWebUi
  <2>1. PICK each, rest : each = n \div 3 /\ rest = n % 3
    OBVIOUS
  <2>2. each \in Nat /\ rest \in 0..2 /\ n = 3 * each + rest
    BY <1>1, <2>1
  <2>3. Shares(n) = <<each + (IF rest > 0 THEN 1 ELSE 0), each + (IF rest > 1 THEN 1 ELSE 0), each>>
    BY <1>3, <2>1 DEF Shares
  <2>4. PICK a \in {0, 1} : a = IF rest > 0 THEN 1 ELSE 0
    OBVIOUS
  <2>5. PICK b \in {0, 1} : b = IF rest > 1 THEN 1 ELSE 0
    OBVIOUS
  <2>6. a + b <= rest
    BY <2>2, <2>4, <2>5
  <2>7. Shares(n) = <<each + a, each + b, each>>
    BY <2>3, <2>4, <2>5
  <2>. QED
    BY <2>2, <2>4, <2>5, <2>6, <2>7
<1>4. CASE n > 3 /\ ~OpenWebUi
  <2>1. PICK each, rest : each = n \div 2 /\ rest = n % 2
    OBVIOUS
  <2>2. each \in Nat /\ rest \in 0..1 /\ n = 2 * each + rest
    BY <1>1, <2>1
  <2>3. Shares(n) = <<each + (IF rest > 0 THEN 1 ELSE 0), each + (IF rest > 1 THEN 1 ELSE 0), 0>>
    BY <1>4, <2>1 DEF Shares
  <2>4. PICK a \in {0, 1} : a = IF rest > 0 THEN 1 ELSE 0
    OBVIOUS
  <2>6. a <= rest /\ ~(rest > 1)
    BY <2>2, <2>4
  <2>7. Shares(n) = <<each + a, each, 0>>
    BY <2>2, <2>3, <2>4, <2>6
  <2>. QED
    BY <2>2, <2>4, <2>6, <2>7
<1>5. CASE ~(n > 3)
  BY <1>2, <1>5 DEF Shares
<1>. QED
  BY <1>3, <1>4, <1>5

\* Three numbers have a least one.
LEMMA LeastOfThree ==
    ASSUME NEW a \in Nat, NEW b \in Nat, NEW c \in Nat
    PROVE  \E k \in {a, b, c} : \A other \in {a, b, c} : k <= other
OBVIOUS

\* Whatever the agents suggest, or the demo in their stead.
LEMMA SuggestionsFit ==
    ASSUME NEW s \in Suggestions
    PROVE  s \in Seq(Names) /\ Len(s) <= PerJob
<1>1. PICK share : share = Shares(PerJob)
  OBVIOUS
<1>2. CASE s = Demo
  <2>1. Cardinality(Names) \in Nat /\ IsFiniteSet(Names)
    BY MarketsAssumption, FS_CardinalityType
  <2>2. PICK count : count = CHOOSE k \in {3, PerJob, Cardinality(Names)} :
                     \A other \in {3, PerJob, Cardinality(Names)} : k <= other
    OBVIOUS
  <2>3. /\ count \in {3, PerJob, Cardinality(Names)}
        /\ \A other \in {3, PerJob, Cardinality(Names)} : count <= other
    BY <2>1, <2>2, LeastOfThree, AgentsAssumption
  <2>4. PICK all : all = SetToSeq(Names)
    OBVIOUS
  <2>5. all \in Seq(Names) /\ Len(all) = Cardinality(Names)
    BY <2>1, <2>4, SetToSeqIs
  <2>6. s = SubSeq(all, 1, count)
    BY <1>2, <2>2, <2>4 DEF Demo
  <2>7. count \in Nat /\ count <= Len(all) /\ count <= PerJob
    BY <2>1, <2>3, <2>5, AgentsAssumption
  <2>8. \A i \in 1..count : all[i] \in Names
    BY <2>5, <2>7
  <2>9. s = [i \in 1..count |-> all[i]]
    BY <2>5, <2>6, <2>7
  <2>. QED
    BY <2>7, <2>8, <2>9
<1>3. CASE \E a \in Kept(share[1]), b \in Kept(share[2]), c \in Kept(share[3]) : s = a \o b \o c
  <2>1. PICK a \in Kept(share[1]), b \in Kept(share[2]), c \in Kept(share[3]) : s = a \o b \o c
    BY <1>3
  <2>2. \A z \in AgentAnswers : z \in Seq(Names)
    BY AgentsAssumption DEF AgentAnswers, BoundedSeq, SeqOf
  <2>3. /\ a \in Seq(Names) /\ b \in Seq(Names) /\ c \in Seq(Names)
        /\ Len(a) <= share[1] /\ Len(b) <= share[2] /\ Len(c) <= share[3]
    BY <2>2 DEF Kept
  <2>4. /\ share[1] \in Nat /\ share[2] \in Nat /\ share[3] \in Nat
        /\ share[1] + share[2] + share[3] <= PerJob /\ PerJob \in Nat
    BY <1>1, SharesFit, AgentsAssumption
  <2>5. s \in Seq(Names) /\ Len(s) = Len(a) + Len(b) + Len(c)
    BY <2>1, <2>3
  <2>. QED
    BY <2>3, <2>4, <2>5
<1>. QED
  BY <1>1, <1>2, <1>3 DEF Suggestions

\* The cron's step is the rest of the proof, where rows stay as they are.
LEMMA CronRest ==
    ASSUME Inv, CronInv', BaseInv', Grows, UNCHANGED <<rows, positions, age, work, failed, rare>>
    PROVE  Inv'
<1>1. WorkInv'
  BY WorkWaits DEF Inv
<1>2. PositionsInv'
  BY DEF Inv, PositionsInv, Rows
<1>3. RestInv'
  BY DEF Inv, RestInv
<1>. QED
  BY <1>1, <1>2, <1>3 DEF Inv

\* A run moves and nothing else does.
LEMMA RunMoves ==
    ASSUME Inv, NEW t \in Triggers, NEW x \in TriggerType, trigger' = [trigger EXCEPT ![t] = x],
           TriggerOK(t, x), trigger[t].at # "done",
           UNCHANGED <<rows, positions, pending, received, onChain, seeds, age, work, gone, failed, rare>>
    PROVE  Inv'
<1>1. BaseInv' /\ Grows
  BY SameOutside DEF Inv
<1>2. TriggerOK(t, x)'
  BY DEF TriggerOK
<1>3. CronInv'
  BY <1>2, TriggerMoves DEF Inv
<1>. QED
  BY <1>1, <1>3, CronRest

LEMMA TriggerReadsKeeps ==
    ASSUME Inv, NEW t \in Triggers, TriggerReads(t), UNCHANGED <<age, work, gone, failed, rare>>
    PROVE  Inv'
<1>1. PICK x \in TriggerType : x = trigger[t]
  BY DEF Inv, CronInv
<1>2. TriggerOK(t, x) /\ x.at \in {"reread", "new"}
  BY <1>1 DEF Inv, CronInv, TriggerReads
<1>3. UNCHANGED <<rows, positions, pending, onChain, seeds>>
  BY DEF TriggerReads, dbVars
<1>4. CASE Drafts # {}
  <2>1. PICK batch : batch = {<<t, m, rows[m].name>> : m \in Drafts}
    OBVIOUS
  <2>2. /\ trigger' = [trigger EXCEPT ![t].at = "asked", ![t].batch = batch]
        /\ received' = received \union batch
    BY <1>4, <2>1 DEF TriggerReads, Send
  <2>3. BaseInv' /\ Grows /\ batch \subseteq Question /\ \A q \in batch : q[1] = t
    BY <1>3, <2>1, <2>2, DraftsAreSent DEF Inv
  <2>4. PICK y : y = [x EXCEPT !.at = "asked", !.batch = batch]
    OBVIOUS
  <2>5. trigger' = [trigger EXCEPT ![t] = y]
    BY <1>1, <2>2, <2>4 DEF Inv, CronInv, TriggerType
  <2>6. /\ y \in TriggerType /\ y.at = "asked" /\ y.batch = batch /\ y.made = x.made
        /\ y.todo = x.todo
    BY <2>3, <2>4 DEF TriggerType
  <2>7. TriggerOK(t, y)'
    BY <1>2, <2>2, <2>3, <2>6 DEF TriggerOK
  <2>8. CronInv'
    BY <1>1, <1>2, <1>3, <2>2, <2>5, <2>6, <2>7, TriggerMoves DEF Inv
  <2>. QED
    BY <1>3, <2>3, <2>8, CronRest
<1>5. CASE Drafts = {}
  <2>1. PICK y : y = IF x.at = "new" THEN [x EXCEPT !.at = "agents"] ELSE Over
    OBVIOUS
  <2>2. trigger' = [trigger EXCEPT ![t] = y] /\ received' = received
    BY <1>1, <1>5, <2>1 DEF TriggerReads
  <2>3. y \in TriggerType /\ TriggerOK(t, y)
    <3>1. CASE x.at = "new"
      <4>1. y = [x EXCEPT !.at = "agents"]
        BY <2>1, <3>1
      <4>2. /\ y \in TriggerType /\ y.at = "agents" /\ y.batch = x.batch /\ y.made = x.made
            /\ y.todo = x.todo
        BY <4>1 DEF TriggerType
      <4>. QED
        BY <1>2, <3>1, <4>2 DEF TriggerOK
    <3>2. CASE x.at # "new"
      BY <2>1, <3>2, TriggersRest
    <3>. QED
      BY <3>1, <3>2
  <2>. QED
    BY <1>1, <1>2, <1>3, <2>2, <2>3, RunMoves
<1>. QED
  BY <1>4, <1>5

LEMMA GenerateKeeps ==
    ASSUME Inv, NEW t \in Triggers, Generate(t), UNCHANGED <<age, work, gone, failed, rare>>
    PROVE  Inv'
<1>1. PICK x \in TriggerType : x = trigger[t]
  BY DEF Inv, CronInv
<1>2. TriggerOK(t, x) /\ x.at = "agents" /\ x.made = 0
  BY <1>1 DEF Inv, CronInv, Generate, TriggerOK
<1>3. PICK s \in Suggestions : trigger' = [trigger EXCEPT ![t].at = "drafting", ![t].todo = s]
  BY DEF Generate
<1>4. s \in Seq(Names) /\ Len(s) <= PerJob
  BY SuggestionsFit
<1>5. PICK y : y = [x EXCEPT !.at = "drafting", !.todo = s]
  OBVIOUS
<1>6. trigger' = [trigger EXCEPT ![t] = y]
  BY <1>1, <1>3, <1>5 DEF Inv, CronInv, TriggerType
<1>7. y \in TriggerType /\ y.at = "drafting" /\ y.todo = s /\ y.made = 0 /\ y.batch = x.batch
  BY <1>2, <1>4, <1>5 DEF TriggerType
<1>8. TriggerOK(t, y)
  <2>1. Len(s) \in Nat
    BY <1>4
  <2>. QED
    BY <1>2, <1>4, <1>7, <2>1 DEF TriggerOK
<1>9. UNCHANGED <<rows, positions, pending, received, onChain, seeds>>
  BY DEF Generate, dbVars, externalVars
<1>. QED
  BY <1>1, <1>2, <1>6, <1>7, <1>8, <1>9, RunMoves

LEMMA SuggestKeeps ==
    ASSUME Inv, NEW t \in Triggers, Suggest(t), UNCHANGED <<age, work, gone, failed, rare>>
    PROVE  Inv'
<1>1. PICK x \in TriggerType : x = trigger[t]
  BY DEF Inv, CronInv
<1>2. TriggerOK(t, x) /\ x.at = "drafting" /\ x.todo # << >> /\ x.todo \in Seq(Names)
  BY <1>1 DEF Inv, CronInv, Suggest, TriggerType
<1>3. PICK rest : rest = Tail(x.todo)
  OBVIOUS
<1>4. rest \in Seq(Names) /\ Len(rest) = Len(x.todo) - 1 /\ Len(x.todo) \in Nat /\ Len(rest) \in Nat
  BY <1>2, <1>3
<1>5. \/ trigger' = [trigger EXCEPT ![t] = [x EXCEPT !.todo = rest]]
      \/ trigger' = [trigger EXCEPT ![t] = [x EXCEPT !.at = "writing"]]
  <2>1. PICK known \in BOOLEAN : known = \E m \in Rows :
             rows[m].qid = Fetched(Head(trigger[t].todo))
                \/ (rows[m].qid = Null /\ rows[m].name = Head(trigger[t].todo))
    OBVIOUS
  <2>2. PICK z : z = IF known THEN [x EXCEPT !.todo = Tail(x.todo)] ELSE [x EXCEPT !.at = "writing"]
    OBVIOUS
  <2>3. trigger' = [trigger EXCEPT ![t] = z]
    BY <1>1, <2>1, <2>2, Zenon DEF Suggest
  <2>4. z = [x EXCEPT !.todo = rest] \/ z = [x EXCEPT !.at = "writing"]
    BY <1>3, <2>2
  <2>. QED
    BY <2>3, <2>4
<1>6. UNCHANGED <<rows, positions, pending, received, onChain, seeds>>
  BY DEF Suggest, dbVars, externalVars
<1>7. PICK y : /\ trigger' = [trigger EXCEPT ![t] = y]
               /\ y = [x EXCEPT !.todo = rest] \/ y = [x EXCEPT !.at = "writing"]
  BY <1>5
<1>8. /\ y \in TriggerType /\ y.made = x.made /\ y.batch = x.batch
      /\ y.at \in {"drafting", "writing"} /\ y.todo \in {x.todo, rest}
      /\ y.at = "writing" => y.todo = x.todo
  BY <1>2, <1>4, <1>7 DEF TriggerType
<1>9. TriggerOK(t, y)
  <2>1. x.made \in Nat /\ PerJob \in Nat
    BY AgentsAssumption DEF TriggerType
  <2>2. y.made + Len(y.todo) <= PerJob
    BY <1>2, <1>4, <1>8, <2>1 DEF TriggerOK
  <2>. QED
    BY <1>2, <1>8, <2>2 DEF TriggerOK
<1>. QED
  BY <1>1, <1>2, <1>6, <1>7, <1>8, <1>9, RunMoves

LEMMA WriteDraftKeeps ==
    ASSUME Inv, NEW t \in Triggers, WriteDraft(t), UNCHANGED <<age, work, gone, failed, rare>>
    PROVE  Inv'
<1>1. PICK x \in TriggerType : x = trigger[t]
  BY DEF Inv, CronInv
<1>2. TriggerOK(t, x) /\ x.at = "writing" /\ x.todo # << >> /\ x.todo \in Seq(Names)
  BY <1>1 DEF Inv, CronInv, WriteDraft, TriggerType, TriggerOK
<1>3. PICK rest, n, m : rest = Tail(x.todo) /\ n = Head(x.todo) /\ m = FreshId
  OBVIOUS
<1>4. /\ rest \in Seq(Names) /\ Len(rest) = Len(x.todo) - 1 /\ Len(x.todo) \in Nat /\ Len(rest) \in Nat
      /\ n \in Names
  BY <1>2, <1>3
<1>5. m \in Unborn
  BY <1>3, FreshIdIs DEF WriteDraft
<1>6. PICK row : row = Row(n, Null, Null, FALSE)
  OBVIOUS
<1>7. row \in RowType /\ row.cond = Null /\ row.seeded = FALSE
  BY <1>4, <1>6 DEF Row, RowType
<1>8. /\ rows' = [rows EXCEPT ![m] = row]
      /\ UNCHANGED <<positions, pending, received, onChain, seeds>>
  BY <1>1, <1>3, <1>6 DEF WriteDraft, externalVars
<1>9. /\ BaseInv' /\ Grows /\ m \in Markets /\ m \notin Rows /\ Rows' = Rows \union {m} /\ rows'[m] = row
  BY <1>5, <1>7, <1>8, RowIsCreated, NullAssumption DEF Inv
<1>10. x.made \in Nat /\ PerJob \in Nat
  BY AgentsAssumption DEF TriggerType
<1>11. PICK k \in Nat : k = x.made + 1
  BY <1>10
<1>12. PICK y : y = [x EXCEPT !.at = "drafting", !.todo = rest, !.made = k]
  OBVIOUS
<1>13. trigger' = [trigger EXCEPT ![t] = y]
  <2>1. trigger' = [trigger EXCEPT ![t].at = "drafting", ![t].todo = rest, ![t].made = k]
    BY <1>1, <1>3, <1>11 DEF WriteDraft
  <2>. QED
    BY <1>1, <1>12, <2>1 DEF Inv, CronInv, TriggerType
<1>14. /\ y \in TriggerType /\ y.made = x.made + 1 /\ y.batch = x.batch /\ y.at = "drafting"
       /\ y.todo = rest
  <2>1. y \in TriggerType /\ y.made = k /\ y.batch = x.batch /\ y.at = "drafting" /\ y.todo = rest
    BY <1>4, <1>12 DEF TriggerType
  <2>. QED
    BY <1>11, <2>1
<1>15. TriggerOK(t, y)
  BY <1>2, <1>4, <1>10, <1>14 DEF TriggerOK
<1>16. CronInv'
  <2>1. TriggerOK(t, y)'
    BY <1>8, <1>15 DEF TriggerOK
  <2>. QED
    BY <1>1, <1>2, <1>8, <1>13, <1>14, <2>1, TriggerMoves DEF Inv
<1>17. WorkInv'
  BY <1>9, WorkWaits DEF Inv
<1>18. PositionsInv'
  <2>1. \A r \in Rows : r # m => rows'[r] = rows[r]
    BY <1>8 DEF Inv, BaseInv, Rows
  <2>2. positions' \subseteq Rows'
    BY <1>8, <1>9 DEF Inv, PositionsInv
  <2>. QED
    BY <1>7, <1>8, <1>9, <2>1, <2>2 DEF Inv, PositionsInv
<1>19. RestInv'
  BY DEF Inv, RestInv
<1>. QED
  BY <1>9, <1>16, <1>17, <1>18, <1>19 DEF Inv

LEMMA EndDraftingKeeps ==
    ASSUME Inv, NEW t \in Triggers, EndDrafting(t), UNCHANGED <<age, work, gone, failed, rare>>
    PROVE  Inv'
<1>1. PICK x \in TriggerType : x = trigger[t]
  BY DEF Inv, CronInv
<1>2. TriggerOK(t, x) /\ x.at = "drafting"
  BY <1>1 DEF Inv, CronInv, EndDrafting
<1>3. PICK y : /\ trigger' = [trigger EXCEPT ![t] = y]
               /\ y = [x EXCEPT !.at = "reread"] \/ y = Over
  BY <1>1 DEF EndDrafting
<1>4. y \in TriggerType /\ TriggerOK(t, y)
  <2>1. CASE y = [x EXCEPT !.at = "reread"]
    <3>1. /\ y \in TriggerType /\ y.at = "reread" /\ y.made = x.made /\ y.todo = x.todo
          /\ y.batch = x.batch
      BY <2>1 DEF TriggerType
    <3>. QED
      BY <1>2, <3>1 DEF TriggerOK
  <2>2. CASE y = Over
    BY <2>2, TriggersRest
  <2>. QED
    BY <1>3, <2>1, <2>2
<1>5. UNCHANGED <<rows, positions, pending, received, onChain, seeds>>
  BY DEF EndDrafting, dbVars, externalVars
<1>. QED
  BY <1>1, <1>2, <1>3, <1>4, <1>5, RunMoves

LEMMA TriggerFailsKeeps ==
    ASSUME Inv, NEW t \in Triggers, TriggerFails(t), UNCHANGED <<age, work, gone, failed, rare>>
    PROVE  Inv'
<1>1. /\ trigger[t].at # "done" /\ trigger' = [trigger EXCEPT ![t] = Over]
      /\ UNCHANGED <<rows, positions, pending, received, onChain, seeds>>
  BY DEF TriggerFails, dbVars, externalVars
<1>. QED
  BY <1>1, TriggersRest, RunMoves

\* What is sent is finite.
LEMMA QuestionsAreFinite == IsFiniteSet(Question)
<1>1. IsFiniteSet(Triggers)
  <2>1. 1 \in Int /\ Runs \in Int
    BY BoundsAssumption
  <2>. QED
    BY <2>1, FS_Interval DEF Triggers
<1>2. IsFiniteSet({0}) /\ IsFiniteSet({NoMarket})
  BY FS_Singleton
<1>3. IsFiniteSet(Triggers \X Markets) /\ IsFiniteSet({0} \X {NoMarket})
  BY <1>1, <1>2, FS_Product, MarketsAssumption
<1>4. IsFiniteSet((Triggers \X Markets) \X Names) /\ IsFiniteSet(({0} \X {NoMarket}) \X Names)
  BY <1>3, FS_Product, MarketsAssumption
<1>5. PICK A : A = ((Triggers \X Markets) \X Names) \union (({0} \X {NoMarket}) \X Names)
  OBVIOUS
<1>6. IsFiniteSet(A)
  BY <1>4, <1>5, FS_Union
<1>. DEFINE f == [q \in Question |-> <<<<q[1], q[2]>>, q[3]>>]
<1>7. f \in [Question -> A]
  BY <1>5 DEF Question
<1>8. ASSUME NEW p \in Question, NEW q \in Question, f[p] = f[q] PROVE p = q
  <2>1. p = <<p[1], p[2], p[3]>> /\ q = <<q[1], q[2], q[3]>>
    BY DEF Question
  <2>2. <<<<p[1], p[2]>>, p[3]>> = <<<<q[1], q[2]>>, q[3]>>
    BY <1>8
  <2>. QED
    BY <2>1, <2>2
<1>9. f \in Injection(Question, A)
  <2>. HIDE DEF f
  <2>1. DOMAIN f = Question
    BY <1>7
  <2>. QED
    BY <1>7, <1>8, <2>1 DEF Injection, IsInjective
<1>. QED
  BY <1>6, <1>9, FS_Injection

\* The waiting list grows.
LEMMA TriggerOkKeeps ==
    ASSUME Inv, NEW t \in Triggers, TriggerOk(t), UNCHANGED <<age, work, gone, failed, rare>>
    PROVE  Inv'
<1>1. /\ trigger[t].at = "asked" /\ trigger' = [trigger EXCEPT ![t] = Over]
      /\ UNCHANGED <<rows, positions, received, onChain, seeds>>
  BY DEF TriggerOk, dbVars, externalVars
<1>2. PICK batch : batch = trigger[t].batch
  OBVIOUS
<1>3. batch \subseteq received /\ \A q \in batch : q[1] = t
  BY <1>2 DEF Inv, CronInv, TriggerOK
<1>4. IsFiniteSet(batch)
  BY <1>3, QuestionsAreFinite, FS_Subset DEF Inv, BaseInv, SentInv
<1>5. PICK s : s = SetToSeq(batch)
  OBVIOUS
<1>6. s \in Seq(batch) /\ ToSet(s) = batch /\ IsInjective(s)
  BY <1>4, <1>5, SetToSeqIs
<1>7. pending' = pending \o s
  BY <1>2, <1>5 DEF TriggerOk
<1>8. pending \in Seq(received) /\ IsInjective(pending) /\ s \in Seq(received)
  BY <1>3, <1>6 DEF Inv, CronInv
<1>9. PICK p : p = pending
  OBVIOUS
<1>10. PICK z : z = p \o s
  OBVIOUS
<1>11. /\ z \in Seq(received) /\ DOMAIN z = 1..(Len(p) + Len(s)) /\ Len(p) \in Nat /\ Len(s) \in Nat
       /\ DOMAIN p = 1..Len(p) /\ DOMAIN s = 1..Len(s)
       /\ \A i \in DOMAIN z : z[i] = IF i <= Len(p) THEN p[i] ELSE s[i - Len(p)]
  BY <1>8, <1>9, <1>10
<1>12. \A q \in ToSet(p) : q[1] \in Triggers /\ trigger[q[1]].at = "done"
  BY <1>9 DEF Inv, CronInv
<1>13. \A i \in DOMAIN p : p[i] \in ToSet(p)
  BY DEF ToSet
<1>14. \A i \in DOMAIN s : s[i] \in batch
  BY <1>6 DEF ToSet
<1>15. IsInjective(z)
  <2>1. SUFFICES ASSUME NEW i \in DOMAIN z, NEW j \in DOMAIN z, z[i] = z[j], i < j PROVE FALSE
    <3>1. \A i, j \in DOMAIN z : i = j \/ i < j \/ j < i
      BY <1>11
    <3>. QED
      BY <3>1 DEF IsInjective
  <2>2. CASE j <= Len(p)
    <3>1. i \in DOMAIN p /\ j \in DOMAIN p /\ z[i] = p[i] /\ z[j] = p[j] /\ i # j
      BY <1>11, <2>1, <2>2
    <3>. QED
      BY <1>8, <1>9, <2>1, <3>1, Zenon DEF IsInjective
  <2>3. CASE i > Len(p)
    <3>1. PICK k, l : k = i - Len(p) /\ l = j - Len(p)
      OBVIOUS
    <3>2. k \in DOMAIN s /\ l \in DOMAIN s /\ z[i] = s[k] /\ z[j] = s[l] /\ k # l
      BY <1>11, <2>1, <2>3, <3>1
    <3>. QED
      BY <1>6, <2>1, <3>2, Zenon DEF IsInjective
  <2>4. CASE i <= Len(p) /\ j > Len(p)
    <3>1. PICK l : l = j - Len(p)
      OBVIOUS
    <3>2. i \in DOMAIN p /\ l \in DOMAIN s /\ z[i] = p[i] /\ z[j] = s[l]
      BY <1>11, <2>1, <2>4, <3>1
    <3>3. trigger[z[i][1]].at = "done" /\ z[j][1] = t
      BY <1>3, <1>12, <1>13, <1>14, <3>2
    <3>. QED
      BY <1>1, <2>1, <3>3
  <2>. QED
    BY <1>11, <2>1, <2>2, <2>3, <2>4
<1>16. \A q \in ToSet(z) : q \in ToSet(p) \/ q \in batch
  BY <1>11, <1>13, <1>14 DEF ToSet
<1>17. CronInv'
  <2>1. trigger' \in [Triggers -> TriggerType]
    BY <1>1, TriggersRest DEF Inv, CronInv
  <2>2. trigger'[t] = Over /\ \A r \in Triggers : r # t => trigger'[r] = trigger[r]
    BY <1>1 DEF Inv, CronInv
  <2>3. ASSUME NEW r \in Triggers PROVE TriggerOK(r, trigger[r])'
    <3>1. PICK x : x = trigger'[r]
      OBVIOUS
    <3>2. TriggerOK(r, x)
      <4>1. CASE r = t
        BY <2>2, <3>1, <4>1, TriggersRest
      <4>2. CASE r # t
        BY <2>2, <3>1, <4>2 DEF Inv, CronInv
      <4>. QED
        BY <4>1, <4>2
    <3>. QED
      BY <1>1, <3>1, <3>2 DEF TriggerOK
  <2>4. \A q \in ToSet(z) : q[1] \in Triggers /\ trigger'[q[1]].at = "done"
    BY <1>3, <1>12, <1>16, <2>2, TriggersRest
  <2>5. pending' = z
    BY <1>7, <1>9, <1>10
  <2>. QED
    BY <1>1, <1>11, <1>15, <2>1, <2>3, <2>4, <2>5 DEF CronInv
<1>18. BaseInv' /\ Grows
  BY <1>1, SameOutside DEF Inv
<1>. QED
  BY <1>1, <1>17, <1>18, CronRest

LEMMA CronKeeps ==
    ASSUME Inv, NEW t \in Triggers, Cron(t)
    PROVE  Inv'
BY TriggerReadsKeeps, GenerateKeeps, SuggestKeeps, WriteDraftKeeps, EndDraftingKeeps, TriggerOkKeeps,
   TriggerFailsKeeps DEF Cron

\* Nothing has been sent, nobody is at work.
LEMMA InitKeeps ==
    ASSUME Init
    PROVE  Inv
<1>1. /\ rows = [m \in Markets |-> Null] /\ positions = {} /\ pending = << >>
      /\ age = [t \in Triggers |-> "fresh"] /\ trigger = [t \in Triggers |-> NotStarted]
      /\ received = {} /\ onChain = {} /\ seeds = {}
      /\ work = [w \in Workers |-> Idle] /\ gone = {} /\ failed = FALSE /\ rare = 0
  BY DEF Init
<1>2. CronInv
  <2>1. trigger \in [Triggers -> TriggerType] /\ \A t \in Triggers : TriggerOK(t, trigger[t])
    BY <1>1, TriggersRest
  <2>2. pending \in Seq(received) /\ IsInjective(pending) /\ ToSet(pending) = {}
    <3>1. DOMAIN pending = {} /\ pending \in Seq(received)
      BY <1>1
    <3>. QED
      BY <3>1, Zenon DEF IsInjective, ToSet
  <2>. QED
    BY <2>1, <2>2 DEF CronInv
<1>3. BaseInv
  BY <1>1 DEF BaseInv, SentInv, Rows, Sent
<1>4. WorkInv
  <2>1. ASSUME NEW w \in Workers PROVE WorkOK(w, Idle)
    BY IdleIs DEF WorkOK, Idle
  <2>. QED
    BY <1>1, <2>1, IdleIs DEF WorkInv
<1>5. PositionsInv
  BY <1>1 DEF PositionsInv, Rows
<1>6. RestInv
  <2>1. age \in [Triggers -> ToSet(Ages)]
    BY <1>1, AgesAre
  <2>2. rare \in 0..MaxRare
    BY <1>1, BoundsAssumption
  <2>. QED
    BY <1>1, <2>1, <2>2 DEF RestInv
<1>. QED
  BY <1>2, <1>3, <1>4, <1>5, <1>6 DEF Inv

\* Nothing moves.
LEMMA WaitKeeps ==
    ASSUME Inv, UNCHANGED vars
    PROVE  Inv'
<1>1. UNCHANGED <<rows, positions, pending, age, trigger, received, onChain, seeds, work, gone, failed, rare>>
  BY DEF vars, dbVars, externalVars
<1>2. BaseInv' /\ Grows
  BY <1>1, SameOutside DEF Inv
<1>3. CronInv'
  BY <1>1 DEF Inv, CronInv, TriggerOK
<1>. QED
  BY <1>1, <1>2, <1>3, CronRest

LEMMA NextKeeps ==
    ASSUME Inv, [Next]_vars
    PROVE  Inv'
BY CronKeeps, PollKeeps, HandleKeeps, RequestKeeps, DeleteKeeps, WorldKeeps, RestartKeeps, RejectKeeps,
   WaitKeeps DEF Next

\* What is known of every question, row, poll and request holds at all times,
\* whatever overlaps, fails, restarts or is deleted.
THEOREM CreationInvariant == Spec => []Inv
<1>1. Init => Inv
  BY InitKeeps
<1>2. Inv /\ [Next]_vars => Inv'
  BY NextKeeps
<1>. QED
  BY <1>1, <1>2, PTL DEF Spec

----------------------------------------------------------------------------
(* What follows. *)

\* The types, that no question is waited for twice and that no run drafts more
\* than it was to (cre-pending-markets.ts, agent-market-creation.service.ts).
THEOREM CreationTypesHold == Spec => []TypeOK
<1>1. ASSUME Inv PROVE TypeOK
  <2>1. \A m \in Rows : rows[m] \in RowType
    BY <1>1 DEF Inv, BaseInv, Rows
  <2>2. ToSet(pending) \subseteq received /\ IsInjective(pending)
    BY <1>1, PendingIs DEF Inv, CronInv
  <2>3. ASSUME NEW w \in Workers
        PROVE  /\ work[w].q \in Question \union {Null}
               /\ work[w].m \in Markets \union {NoMarket}
               /\ ToSet(work[w].todo) \subseteq Question
    <3>1. PICK x \in WorkType : x = work[w]
      BY <1>1 DEF Inv, WorkInv
    <3>2. x.todo \in Seq(Question)
      BY DEF WorkType
    <3>3. ToSet(x.todo) \subseteq Question
      BY <3>2 DEF ToSet
    <3>. QED
      BY <3>1, <3>3 DEF WorkType
  <2>4. ASSUME NEW t \in Triggers PROVE trigger[t].made \in 0..PerJob
    <3>1. PICK x \in TriggerType : x = trigger[t]
      BY <1>1 DEF Inv, CronInv
    <3>2. x.made + Len(x.todo) <= PerJob
      BY <1>1, <3>1 DEF Inv, CronInv, TriggerOK
    <3>3. x.made \in Nat /\ x.todo \in Seq(Names)
      BY DEF TriggerType
    <3>4. Len(x.todo) \in Nat /\ PerJob \in Nat
      BY <3>3, AgentsAssumption
    <3>. QED
      BY <3>1, <3>2, <3>3, <3>4
  <2>5. onChain \subseteq received /\ seeds \subseteq Question /\ positions \subseteq Rows
    BY <1>1 DEF Inv, BaseInv, SentInv, PositionsInv
  <2>. QED
    BY <1>1, <2>1, <2>2, <2>3, <2>4, <2>5 DEF TypeOK, Inv, RestInv
<1>. QED
  BY <1>1, CreationInvariant, PTL

\* Two questions of a draft are two, however many there are.
LEMMA TwoAreSeveral ==
    ASSUME NEW R \in SUBSET Question, NEW p \in R, NEW q \in R, p # q, NEW m,
           DraftOf(p) = m, DraftOf(q) = m
    PROVE  Cardinality({x \in R : DraftOf(x) = m}) > 1
<1>1. PICK S : S = {x \in R : DraftOf(x) = m}
  OBVIOUS
<1>2. IsFiniteSet(S) /\ {p, q} \subseteq S
  BY <1>1, QuestionsAreFinite, FS_Subset
<1>3. IsFiniteSet({p}) /\ Cardinality({p}) = 1
  BY FS_Singleton
<1>4. IsFiniteSet({p} \union {q}) /\ Cardinality({p} \union {q}) = 2
  <2>1. q \notin {p}
    OBVIOUS
  <2>2. PICK A : A = {p} /\ IsFiniteSet(A) /\ Cardinality(A) = 1 /\ q \notin A
    BY <1>3, <2>1
  <2>3. IsFiniteSet(A \union {q}) /\ Cardinality(A \union {q}) = Cardinality(A) + 1
    BY <2>2, FS_AddElement
  <2>. QED
    BY <2>2, <2>3
<1>5. Cardinality({p} \union {q}) <= Cardinality(S) /\ Cardinality(S) \in Nat
  BY <1>2, <1>4, FS_Subset, FS_CardinalityType
<1>. QED
  BY <1>1, <1>4, <1>5

\* A market never has a conditionId of CRE's that is not on the chain, and another
\* questionId than the condition's only when its draft was sent twice.
THEOREM ConditionsAreOnChain == Spec => []ConditionIsOnChain
<1>1. ASSUME Inv PROVE ConditionIsOnChain
  <2>1. SUFFICES ASSUME NEW m \in Rows, rows[m].cond \in Question
                 PROVE  /\ rows[m].cond \in onChain
                        /\ rows[m].qid = rows[m].cond \/ SentTwice(m)
    BY DEF ConditionIsOnChain
  <2>2. PICK c, q : c = rows[m].cond /\ q = rows[m].qid
    OBVIOUS
  <2>3. /\ c \in onChain /\ q # Null
        /\ DraftOf(c) = m \/ (Sent(m) = {} /\ q = c)
    BY <1>1, <2>1, <2>2 DEF Inv, BaseInv, RowOK
  <2>4. CASE DraftOf(c) = m /\ q # c
    <3>1. c \in Sent(m) /\ received \in SUBSET Question
      BY <1>1, <2>3, <2>4 DEF Inv, BaseInv, SentInv, Sent
    <3>2. q \in Sent(m)
      BY <1>1, <2>2, <2>3, <3>1 DEF Inv, BaseInv, SentInv
    <3>3. Cardinality({x \in received : DraftOf(x) = m}) > 1
      BY <2>4, <3>1, <3>2, TwoAreSeveral DEF Sent
    <3>4. m # NoMarket
      BY MarketsAssumption DEF Rows
    <3>. QED
      BY <2>2, <2>3, <3>3, <3>4 DEF SentTwice
  <2>. QED
    BY <2>2, <2>3, <2>4
<1>. QED
  BY <1>1, CreationInvariant, PTL

\* When everyone is done and no statement has failed, a market that can be traded
\* has its platform positions.
THEOREM MarketsHaveTheirPositions == Spec => []MarketHasItsPositions
<1>1. ASSUME Inv PROVE MarketHasItsPositions
  BY <1>1 DEF Inv, PositionsInv, MarketHasItsPositions, Quiet
<1>. QED
  BY <1>1, CreationInvariant, PTL

\* liquiditySeeded is true only of a market for which a seeding was confirmed.
THEOREM SeededIsTold == Spec => []SeededMeansSeeded
<1>1. ASSUME Inv PROVE SeededMeansSeeded
  BY <1>1 DEF Inv, BaseInv, RowOK, SeededMeansSeeded
<1>. QED
  BY <1>1, CreationInvariant, PTL

----------------------------------------------------------------------------
(* What a step that ends the work on a question leaves behind. *)

\* A row with the questionId, or with another one of its draft, records a question.
LEMMA RowRecords ==
    ASSUME BaseInv', NEW m \in Rows', NEW q \in received',
           rows'[m].qid = q \/ (DraftOf(q) = m /\ rows'[m].qid # Null)
    PROVE  Recorded(q)'
<1>1. CASE rows'[m].qid = q
  BY <1>1 DEF Recorded
<1>2. CASE DraftOf(q) = m /\ rows'[m].qid # Null /\ rows'[m].qid # q
  <2>1. PICK p, R : p = rows'[m].qid /\ R = received'
    OBVIOUS
  <2>2. R \in SUBSET Question /\ q \in Sent(m)'
    BY <1>2, <2>1 DEF BaseInv, SentInv, Sent
  <2>3. p \in Sent(m)'
    BY <1>2, <2>1, <2>2 DEF BaseInv, SentInv
  <2>4. p \in R /\ q \in R /\ DraftOf(p) = m
    BY <2>1, <2>3 DEF Sent
  <2>5. Cardinality({x \in R : DraftOf(x) = m}) > 1
    BY <1>2, <2>1, <2>2, <2>4, TwoAreSeveral
  <2>6. m # NoMarket
    BY MarketsAssumption DEF Rows
  <2>. QED
    BY <1>2, <2>1, <2>5, <2>6 DEF Recorded, SentTwice
<1>. QED
  BY <1>1, <1>2

\* A question younger than two minutes is still waited for.
Stays(q) == (q \in ToSet(pending) /\ AgeOf(q) # "old") => q \in ToSet(pending')

\* A worker moves alone, and drops or answers its question only when it is recorded.
Finishes(w) ==
    /\ \A v \in Workers \ {w} : work'[v] = work[v]
    /\ \A q : q # work[w].q => Stays(q)
    /\ \A q \in Question : work[w].q = q =>
          Recorded(q)' \/ (work'[w].at # "created" /\ Stays(q))

LEMMA GoesOn ==
    ASSUME NEW w \in Workers, \A v \in Workers \ {w} : work'[v] = work[v],
           work'[w].at # "created", UNCHANGED pending
    PROVE  Finishes(w)
BY DEF Finishes, Stays

LEMMA GivingUpFinishes ==
    ASSUME Inv, NEW w \in Workers, GiveUp(w)
    PROVE  Finishes(w)
<1>1. /\ \A q \in ToSet(pending) : AgeOf(q) # "old" => q \in ToSet(pending')
      /\ \E y \in WorkType : work' = [work EXCEPT ![w] = y] /\ Resting(y) /\ y.at # "created"
  BY GivesUp DEF Inv
<1>2. PICK y \in WorkType : work' = [work EXCEPT ![w] = y] /\ y.at # "created"
  BY <1>1
<1>3. (\A v \in Workers \ {w} : work'[v] = work[v]) /\ work'[w].at # "created"
  BY <1>2 DEF Inv, WorkInv
<1>. QED
  BY <1>1, <1>3 DEF Finishes, Stays

LEMMA SuccessFinishes ==
    ASSUME Inv, NEW w \in Workers, Succeed(w),
           \A q \in Question : work[w].q = q => Recorded(q)'
    PROVE  Finishes(w)
<1>1. /\ \A q \in ToSet(pending) : AgeOf(q) # "old" /\ q # work[w].q => q \in ToSet(pending')
      /\ \E y \in WorkType : work' = [work EXCEPT ![w] = y] /\ Resting(y)
  BY Succeeds DEF Inv
<1>2. \A v \in Workers \ {w} : work'[v] = work[v]
  BY <1>1 DEF Inv, WorkInv
<1>. QED
  BY <1>1, <1>2 DEF Finishes, Stays

\* What polls and callbacks share.
LEMMA FindExistingFinishes ==
    ASSUME Inv, Inv', NEW w \in Workers, FindExisting(w), UNCHANGED received
    PROVE  Finishes(w)
<1>1. UNCHANGED <<rows, positions, seeds>>
  BY DEF FindExisting, dbVars
<1>2. CASE Existing(work[w].q) # {}
  <2>1. Succeed(w)
    BY <1>2 DEF FindExisting
  <2>2. ASSUME NEW q \in Question, work[w].q = q PROVE Recorded(q)'
    <3>2. PICK m \in Rows : rows[m].cond = q
      BY <1>2, <2>2 DEF Existing
    <3>3. q \in onChain /\ rows[m].qid # Null /\ (DraftOf(q) = m \/ rows[m].qid = q)
      BY <2>2, <3>2 DEF Inv, BaseInv, RowOK
    <3>4. q \in received' /\ m \in Rows'
      BY <1>1, <3>2, <3>3 DEF Inv, BaseInv, SentInv, Rows
    <3>. QED
      BY <1>1, <3>3, <3>4, RowRecords DEF Inv
  <2>. QED
    BY <2>1, <2>2, SuccessFinishes
<1>3. CASE Existing(work[w].q) = {}
  <2>1. PICK y \in Places : y = IF w \in Pollers THEN "create" ELSE "seed"
    BY DEF Places
  <2>2. PICK z : z = [work[w] EXCEPT !.path = "create", !.at = y]
    OBVIOUS
  <2>3. work' = [work EXCEPT ![w] = z] /\ UNCHANGED pending
    BY <1>3, <2>1, <2>2 DEF FindExisting
  <2>4. z.at = y
    BY <2>2 DEF Inv, WorkInv, WorkType
  <2>5. (\A v \in Workers \ {w} : work'[v] = work[v]) /\ work'[w] = z
    BY <2>3 DEF Inv, WorkInv
  <2>. QED
    BY <2>1, <2>3, <2>4, <2>5, GoesOn
<1>. QED
  BY <1>2, <1>3

LEMMA AddPositionsFinishes ==
    ASSUME Inv, Inv', NEW w \in Workers, AddPositions(w), UNCHANGED received
    PROVE  Finishes(w)
<1>1. PICK x \in WorkType : x = work[w]
  BY DEF Inv, WorkInv
<1>2. UNCHANGED <<rows, seeds>> /\ x.at = "positions"
  BY <1>1 DEF AddPositions
<1>3. PICK next : next = AfterPositions(w)
  OBVIOUS
<1>4. CASE ~Exists(x.m)
  <2>1. GiveUp(w)
    BY <1>1, <1>4 DEF AddPositions
  <2>. QED
    BY <2>1, GivingUpFinishes
<1>5. CASE Exists(x.m) /\ next = "end"
  <2>1. Succeed(w)
    BY <1>1, <1>3, <1>5 DEF AddPositions
  <2>2. x.path # "fill"
    BY <1>1, <1>3, <1>5 DEF AfterPositions
  <2>3. WorkOK(w, x)
    BY <1>1 DEF Inv, WorkInv
  <2>4. Created(x) \/ x.q = Null
    BY <1>2, <2>2, <2>3 DEF WorkOK, Filled, Filling
  <2>5. ASSUME x.q \in Question PROVE Recorded(x.q)'
    <3>1. Created(x)
      BY <2>4, <2>5, NullAssumption
    <3>2. x.m \in Rows /\ rows[x.m].qid = x.q /\ x.q \in received
      BY <1>5, <3>1 DEF Created, Exists, Rows
    <3>3. x.m \in Rows' /\ rows'[x.m].qid = x.q /\ x.q \in received'
      BY <1>2, <3>2 DEF Rows
    <3>. QED
      BY <3>3, RowRecords DEF Inv
  <2>6. \A q \in Question : work[w].q = q => Recorded(q)'
    BY <1>1, <2>5
  <2>. QED
    BY <2>1, <2>6, SuccessFinishes
<1>6. CASE Exists(x.m) /\ next # "end"
  <2>1. next \in {"seed", "flag"}
    BY <1>3, <1>6 DEF AfterPositions
  <2>2. /\ work' = [work EXCEPT ![w].at = next, ![w].seeded = @ /\ next # "flag"]
        /\ UNCHANGED pending
    BY <1>1, <1>3, <1>6 DEF AddPositions
  <2>3. (\A v \in Workers \ {w} : work'[v] = work[v]) /\ work'[w].at = next
    <3>1. PICK b : b = (work[w].seeded /\ next # "flag")
      OBVIOUS
    <3>2. PICK z : z = [x EXCEPT !.at = next, !.seeded = b]
      OBVIOUS
    <3>3. work' = [work EXCEPT ![w] = z]
      BY <1>1, <2>2, <3>1, <3>2 DEF Inv, WorkInv, WorkType
    <3>4. z.at = next
      BY <3>2 DEF WorkType
    <3>. QED
      BY <3>3, <3>4 DEF Inv, WorkInv
  <2>. QED
    BY <2>1, <2>2, <2>3, GoesOn
<1>. QED
  BY <1>4, <1>5, <1>6

LEMMA WriteFlagFinishes ==
    ASSUME Inv, Inv', NEW w \in Workers, WriteFlag(w), UNCHANGED received
    PROVE  Finishes(w)
<1>1. PICK x \in WorkType : x = work[w]
  BY DEF Inv, WorkInv
<1>2. UNCHANGED <<positions, seeds>> /\ x.at = "flag"
  BY <1>1 DEF WriteFlag
<1>3. CASE ~Exists(x.m)
  <2>1. GiveUp(w)
    BY <1>1, <1>3 DEF WriteFlag
  <2>. QED
    BY <2>1, GivingUpFinishes
<1>4. CASE Exists(x.m)
  <2>1. Succeed(w) /\ rows' = [rows EXCEPT ![x.m].seeded = SeededFlag(w)]
    BY <1>1, <1>4 DEF WriteFlag
  <2>2. WorkOK(w, x)
    BY <1>1 DEF Inv, WorkInv
  <2>3. Filled(x) \/ Created(x)
    BY <1>2, <2>2 DEF WorkOK
  <2>4. x.m \in Rows /\ x.q \in received
    BY <1>4, <2>3 DEF Filled, Filling, Created, Exists, Rows
  <2>5. PICK row \in RowType : row = rows[x.m]
    BY <2>4 DEF Inv, BaseInv, Rows
  <2>6. PICK z : z = [row EXCEPT !.seeded = SeededFlag(w)]
    OBVIOUS
  <2>7. z.qid = row.qid /\ rows'[x.m] = z /\ x.m \in Markets
    BY <2>1, <2>4, <2>5, <2>6 DEF Inv, BaseInv, Rows, RowType
  <2>8. z # Null
    <3>1. SeededFlag(w) \in BOOLEAN
      BY <1>1 DEF SeededFlag, WorkType
    <3>2. z \in RowType
      BY <2>6, <3>1 DEF RowType
    <3>. QED
      BY <3>2, NullAssumption
  <2>9. x.m \in Rows' /\ x.q \in received'
    BY <2>4, <2>7, <2>8 DEF Rows
  <2>10. rows'[x.m].qid = x.q \/ (DraftOf(x.q) = x.m /\ rows'[x.m].qid # Null)
    BY <2>3, <2>4, <2>5, <2>7 DEF Filled, Filling, Created, Rows
  <2>11. Recorded(x.q)'
    BY <2>9, <2>10, RowRecords DEF Inv
  <2>12. \A q \in Question : work[w].q = q => Recorded(q)'
    BY <1>1, <2>11
  <2>. QED
    BY <2>1, <2>12, SuccessFinishes
<1>. QED
  BY <1>3, <1>4

\* A callback that stores the questionId of its draft.
LEMMA MarkDraftFinishes ==
    ASSUME Inv, Inv', NEW w \in Workers, MarkDraft(w), UNCHANGED received
    PROVE  Finishes(w)
<1>1. PICK x \in WorkType : x = work[w]
  BY DEF Inv, WorkInv
<1>2. UNCHANGED <<positions, seeds>> /\ x.at = "mark"
  BY <1>1 DEF MarkDraft
<1>3. CASE ~(Exists(x.m) /\ Unused(x.q, x.m))
  <2>1. GiveUp(w)
    BY <1>1, <1>3 DEF MarkDraft
  <2>. QED
    BY <2>1, GivingUpFinishes
<1>4. CASE Exists(x.m) /\ Unused(x.q, x.m)
  <2>1. Succeed(w) /\ rows' = [rows EXCEPT ![x.m].qid = x.q]
    BY <1>1, <1>4 DEF MarkDraft
  <2>2. Filling(x)
    BY <1>1, <1>2 DEF Inv, WorkInv, WorkOK
  <2>3. x.m \in Rows /\ x.q \in received /\ x.q \in Question
    BY <1>4, <2>2 DEF Filling, Exists, Rows, Inv, BaseInv, SentInv
  <2>4. PICK row \in RowType : row = rows[x.m]
    BY <2>3 DEF Inv, BaseInv, Rows
  <2>5. PICK z : z = [row EXCEPT !.qid = x.q]
    OBVIOUS
  <2>6. z.qid = x.q /\ rows'[x.m] = z /\ x.m \in Markets /\ z \in RowType
    BY <2>1, <2>3, <2>4, <2>5 DEF Inv, BaseInv, Rows, RowType
  <2>7. x.m \in Rows' /\ x.q \in received'
    BY <2>3, <2>6, NullAssumption DEF Rows
  <2>8. Recorded(x.q)'
    BY <2>6, <2>7, RowRecords DEF Inv
  <2>9. \A q \in Question : work[w].q = q => Recorded(q)'
    BY <1>1, <2>8
  <2>. QED
    BY <2>1, <2>9, SuccessFinishes
<1>. QED
  BY <1>3, <1>4

\* The steps after which the work goes on, or is given up.
LEMMA OthersFinish ==
    ASSUME Inv, NEW w \in Workers, ReadDraft(w) \/ FillDraft(w) \/ CreateRow(w) \/ SeedOnChain(w)
    PROVE  Finishes(w)
<1>1. PICK x \in WorkType : x = work[w]
  BY DEF Inv, WorkInv
<1>2. SUFFICES ASSUME NEW z, work' = [work EXCEPT ![w] = z], z.at # "created", UNCHANGED pending
               PROVE  Finishes(w)
  <2>1. SUFFICES \/ GiveUp(w)
                 \/ /\ UNCHANGED pending
                    /\ \E z : work' = [work EXCEPT ![w] = z] /\ z.at # "created"
    BY <1>2, GivingUpFinishes
  <2>2. CASE ReadDraft(w)
    <3>1. PICK m : m = DraftOf(x.q)
      OBVIOUS
    <3>2. PICK place \in Places : place = IF x.chain THEN "fill" ELSE "mark"
      BY DEF Places
    <3>3. PICK a : a = [x EXCEPT !.at = place, !.m = m, !.path = "fill", !.seeded = rows[m].seeded]
      OBVIOUS
    <3>4. PICK b : b = [x EXCEPT !.at = "existing"]
      OBVIOUS
    <3>5. a.at = place /\ b.at = "existing" /\ place # "created"
      BY <3>2, <3>3, <3>4 DEF WorkType
    <3>6. PICK z : z = IF Exists(m) /\ NeedsChainData(w, m) THEN a ELSE IF x.chain THEN b ELSE Idle
      OBVIOUS
    <3>7. work' = [work EXCEPT ![w] = z] /\ UNCHANGED pending
      BY <1>1, <2>2, <3>1, <3>2, <3>3, <3>4, <3>6 DEF ReadDraft
    <3>8. z.at # "created"
      BY <3>5, <3>6 DEF Idle
    <3>. QED
      BY <3>7, <3>8
  <2>3. CASE FillDraft(w)
    <3>1. CASE GiveUp(w)
      BY <3>1
    <3>2. CASE work' = [work EXCEPT ![w].at = "positions"] /\ UNCHANGED pending
      <4>1. PICK z : z = [x EXCEPT !.at = "positions"]
        OBVIOUS
      <4>2. work' = [work EXCEPT ![w] = z] /\ z.at = "positions"
        BY <1>1, <3>2, <4>1 DEF WorkType
      <4>. QED
        BY <3>2, <4>2
    <3>. QED
      BY <2>3, <3>1, <3>2 DEF FillDraft
  <2>4. CASE CreateRow(w)
    <3>1. CASE GiveUp(w)
      BY <3>1
    <3>2. CASE work' = [work EXCEPT ![w].at = "positions", ![w].m = FreshId] /\ UNCHANGED pending
      <4>1. PICK z : z = [x EXCEPT !.at = "positions", !.m = FreshId]
        OBVIOUS
      <4>2. work' = [work EXCEPT ![w] = z] /\ z.at = "positions"
        BY <1>1, <3>2, <4>1 DEF WorkType, Inv, WorkInv
      <4>. QED
        BY <3>2, <4>2
    <3>. QED
      BY <2>4, <3>1, <3>2 DEF CreateRow
  <2>5. CASE SeedOnChain(w)
    <3>1. PICK place \in Places : place = IF w \in Handlers /\ x.path = "create" THEN "create" ELSE "flag"
      BY DEF Places
    <3>2. place # "created"
      BY <3>1
    <3>3. PICK ok \in BOOLEAN : work' = [work EXCEPT ![w] = [x EXCEPT !.seeded = ok, !.at = place]]
      BY <1>1, <2>5, <3>1 DEF SeedOnChain
    <3>4. PICK z : z = [x EXCEPT !.seeded = ok, !.at = place]
      OBVIOUS
    <3>5. z.at = place /\ work' = [work EXCEPT ![w] = z] /\ UNCHANGED pending
      BY <2>5, <3>3, <3>4 DEF WorkType, SeedOnChain
    <3>. QED
      BY <3>2, <3>5
  <2>. QED
    BY <2>2, <2>3, <2>4, <2>5
<1>3. (\A v \in Workers \ {w} : work'[v] = work[v]) /\ work'[w] = z
  BY <1>2 DEF Inv, WorkInv
<1>. QED
  BY <1>2, <1>3, GoesOn

LEMMA SharedFinishes ==
    ASSUME Inv, Inv', NEW w \in Workers, Shared(w), UNCHANGED received
    PROVE  Finishes(w)
BY OthersFinish, FindExistingFinishes, AddPositionsFinishes, WriteFlagFinishes DEF Shared

\* A poll starts, goes on or ends.
LEMMA PollFinishes ==
    ASSUME Inv, Inv', NEW p \in Pollers, Poll(p)
    PROVE  Finishes(p)
<1>1. p \in Workers /\ UNCHANGED received
  BY DEF Workers, Poll
<1>2. pending \in Seq(ToSet(pending)) /\ IsInjective(pending)
  BY PendingIs DEF Inv, CronInv
<1>3. \A q \in ToSet(pending) : AgeOf(q) # "old" => q \in ToSet(Unexpired(pending))
  BY <1>2, UnexpiredKeeps
<1>4. SUFFICES ASSUME \/ UNCHANGED pending
                      \/ pending' = Unexpired(pending),
                      \A v \in Workers \ {p} : work'[v] = work[v], work'[p].at # "created"
               PROVE  Finishes(p)
  <2>1. CASE Shared(p)
    BY <1>1, <2>1, SharedFinishes
  <2>2. PICK x \in WorkType : x = work[p]
    BY <1>1 DEF Inv, WorkInv
  <2>3. CASE PollStart(p)
    <3>1. PICK due : due = Only(pending, {q \in ToSet(pending) : AgeOf(q) = "due"})
      OBVIOUS
    <3>2. CASE due = << >>
      <4>1. pending' = Unexpired(pending) /\ UNCHANGED work /\ x.at = "idle"
        BY <2>2, <2>3, <3>1, <3>2 DEF PollStart
      <4>. QED
        BY <1>4, <2>2, <4>1
    <3>3. CASE due # << >>
      <4>1. PICK y : y = [Idle EXCEPT !.at = "next", !.todo = due]
        OBVIOUS
      <4>2. y.at = "next"
        BY <4>1 DEF Idle
      <4>3. work' = [work EXCEPT ![p] = y] /\ UNCHANGED pending
        BY <2>3, <3>1, <3>3, <4>1 DEF PollStart
      <4>4. (\A v \in Workers \ {p} : work'[v] = work[v]) /\ work'[p] = y
        BY <1>1, <4>3 DEF Inv, WorkInv
      <4>. QED
        BY <1>4, <4>2, <4>3, <4>4
    <3>. QED
      BY <3>2, <3>3
  <2>4. CASE PollFinds(p)
    <3>1. PICK q : q = Head(x.todo)
      OBVIOUS
    <3>2. PICK y : y = [x EXCEPT !.at = "draft", !.q = q, !.chain = TRUE, !.todo = Tail(x.todo)]
      OBVIOUS
    <3>3. work' = [work EXCEPT ![p].at = "draft", ![p].q = q, ![p].chain = TRUE,
                               ![p].todo = Tail(x.todo)]
      BY <2>2, <2>4, <3>1 DEF PollFinds
    <3>4. work' = [work EXCEPT ![p] = y] /\ y.at = "draft"
      BY <1>1, <2>2, <3>2, <3>3 DEF Inv, WorkInv, WorkType
    <3>5. (\A v \in Workers \ {p} : work'[v] = work[v]) /\ work'[p] = y
      BY <1>1, <3>4 DEF Inv, WorkInv
    <3>. QED
      BY <1>4, <2>4, <3>4, <3>5 DEF PollFinds
  <2>5. CASE PollMisses(p)
    <3>1. CASE Tail(work[p].todo) = << >>
      <4>1. work' = [work EXCEPT ![p] = Idle] /\ pending' = Unexpired(pending)
        BY <2>5, <3>1 DEF PollMisses
      <4>2. (\A v \in Workers \ {p} : work'[v] = work[v]) /\ work'[p] = Idle
        BY <1>1, <4>1 DEF Inv, WorkInv
      <4>. QED
        BY <1>4, <4>1, <4>2, IdleIs
    <3>2. CASE Tail(work[p].todo) # << >>
      <4>1. PICK y : y = [x EXCEPT !.todo = Tail(x.todo)]
        OBVIOUS
      <4>2. work' = [work EXCEPT ![p].todo = Tail(x.todo)] /\ UNCHANGED pending /\ x.at = "next"
        BY <2>2, <2>5, <3>2 DEF PollMisses
      <4>3. work' = [work EXCEPT ![p] = y] /\ y.at = "next"
        BY <1>1, <2>2, <4>1, <4>2 DEF Inv, WorkInv, WorkType
      <4>4. (\A v \in Workers \ {p} : work'[v] = work[v]) /\ work'[p] = y
        BY <1>1, <4>3 DEF Inv, WorkInv
      <4>. QED
        BY <1>4, <4>2, <4>3, <4>4
    <3>. QED
      BY <3>1, <3>2
  <2>. QED
    BY <2>1, <2>3, <2>4, <2>5 DEF Poll
<1>. QED
  BY <1>3, <1>4 DEF Finishes, Stays

\* A request arrives, asks the chain, or ends.
LEMMA HandleFinishes ==
    ASSUME Inv, Inv', NEW h \in Handlers, Handle(h)
    PROVE  Finishes(h)
<1>1. h \in Workers /\ UNCHANGED received
  BY DEF Workers, Handle
<1>2. PICK x \in WorkType : x = work[h]
  BY <1>1 DEF Inv, WorkInv
<1>3. ASSUME AskChain(h) PROVE Finishes(h)
  <2>1. PICK next \in {"draft", "existing"} : next = IF DraftOf(work[h].q) # NoMarket THEN "draft" ELSE "existing"
    OBVIOUS
  <2>2. PICK a, b : a = [x EXCEPT !.chain = TRUE, !.at = next] /\ b = [x EXCEPT !.at = next]
    OBVIOUS
  <2>3. a.at = next /\ b.at = next /\ Idle.at = "idle"
    BY <2>2, IdleIs DEF WorkType
  <2>4. /\ \/ work' = [work EXCEPT ![h] = a]
           \/ work' = [work EXCEPT ![h] = IF next = "draft" THEN b ELSE Idle]
        /\ UNCHANGED pending
    BY <1>2, <1>3, <2>1, <2>2 DEF AskChain
  <2>5. PICK z : work' = [work EXCEPT ![h] = z] /\ z \in {a, b, Idle}
    BY <2>4
  <2>6. (\A v \in Workers \ {h} : work'[v] = work[v]) /\ work'[h] = z
    BY <1>1, <2>5 DEF Inv, WorkInv
  <2>7. z.at # "created"
    BY <2>1, <2>3, <2>5
  <2>. QED
    BY <1>1, <2>4, <2>6, <2>7, GoesOn
<1>. QED
  BY <1>1, <1>3, MarkDraftFinishes, SharedFinishes DEF Handle

LEMMA RequestFinishes ==
    ASSUME Inv, NEW h \in Handlers, Request(h)
    PROVE  Finishes(h)
<1>1. h \in Workers
  BY DEF Workers
<1>2. PICK z : work' = [work EXCEPT ![h] = z] /\ z.at \in {"chain", "positions"} /\ UNCHANGED pending
  <2>1. CASE \E q \in Question : Report(h, q)
    <3>1. PICK q \in Question : Report(h, q)
      BY <2>1
    <3>2. PICK z : z = [Idle EXCEPT !.at = "chain", !.q = q]
      OBVIOUS
    <3>3. work' = [work EXCEPT ![h] = z] /\ z.at = "chain" /\ UNCHANGED pending
      BY <3>1, <3>2 DEF Report, Idle
    <3>. QED
      BY <3>3
  <2>2. CASE \E n \in Names : UserCreates(h, n)
    <3>1. PICK n \in Names : UserCreates(h, n)
      BY <2>2
    <3>2. PICK z : z = [Idle EXCEPT !.at = "positions", !.path = "user", !.m = FreshId]
      OBVIOUS
    <3>3. work' = [work EXCEPT ![h] = z] /\ z.at = "positions" /\ UNCHANGED pending
      BY <3>1, <3>2 DEF UserCreates, Idle
    <3>. QED
      BY <3>3
  <2>. QED
    BY <2>1, <2>2 DEF Request
<1>3. (\A v \in Workers \ {h} : work'[v] = work[v]) /\ work'[h] = z
  BY <1>1, <1>2 DEF Inv, WorkInv
<1>. QED
  BY <1>1, <1>2, <1>3, GoesOn

\* The cron only adds to the waiting list.
LEMMA CronAdds ==
    ASSUME Inv, NEW t \in Triggers, Cron(t)
    PROVE  UNCHANGED work /\ \A q \in ToSet(pending) : q \in ToSet(pending')
<1>1. UNCHANGED work
  BY DEF Cron
<1>2. CASE TriggerOk(t)
  <2>1. PICK s, p, z : s = SetToSeq(trigger[t].batch) /\ p = pending /\ z = p \o s
    OBVIOUS
  <2>2. trigger[t].batch \subseteq Question
    BY DEF Inv, CronInv, TriggerOK, BaseInv, SentInv
  <2>3. s \in Seq(trigger[t].batch) /\ p \in Seq(received)
    BY <2>1, <2>2, SetToSeqIs, QuestionsAreFinite, FS_Subset DEF Inv, CronInv
  <2>4. Len(p) \in Nat /\ Len(s) \in Nat /\ DOMAIN p = 1..Len(p) /\ DOMAIN z = 1..(Len(p) + Len(s))
        /\ \A i \in DOMAIN p : z[i] = p[i]
    BY <2>1, <2>3
  <2>5. pending' = z
    BY <1>2, <2>1 DEF TriggerOk
  <2>6. \A i \in DOMAIN p : i \in DOMAIN z
    BY <2>4
  <2>. QED
    BY <1>1, <2>1, <2>4, <2>5, <2>6 DEF ToSet
<1>3. CASE UNCHANGED pending
  BY <1>1, <1>3
<1>. QED
  BY <1>2, <1>3 DEF Cron, TriggerReads, Generate, Suggest, WriteDraft, EndDrafting, TriggerFails

\* A step is one worker's, or ends no work and drops no question, or a fault.
LEMMA StepsFinish ==
    ASSUME Inv, Inv', Next
    PROVE  \/ \E w \in Workers : Finishes(w)
           \/ UNCHANGED work /\ \A q \in ToSet(pending) : q \in ToSet(pending')
           \/ /\ failed'
              /\ \A h \in Handlers : work'[h].at = "created" => work[h].at = "created"
<1>1. ASSUME NEW t \in Triggers, Cron(t)
      PROVE  UNCHANGED work /\ \A q \in ToSet(pending) : q \in ToSet(pending')
  BY <1>1, CronAdds
<1>2. ASSUME NEW p \in Pollers, Poll(p) PROVE p \in Workers /\ Finishes(p)
  BY <1>2, PollFinishes DEF Workers
<1>3. ASSUME NEW h \in Handlers, Handle(h) \/ Request(h) PROVE h \in Workers /\ Finishes(h)
  BY <1>3, HandleFinishes, RequestFinishes DEF Workers
<1>4. ASSUME (\E m \in Markets : Delete(m)) \/ World
      PROVE  UNCHANGED work /\ \A q \in ToSet(pending) : q \in ToSet(pending')
  BY <1>4 DEF Delete, World
<1>5. ASSUME Restart
      PROVE  failed' /\ \A h \in Handlers : work'[h].at # "created"
  <2>1. \A h \in Handlers : work'[h] = Idle
    BY <1>5 DEF Restart, Workers
  <2>. QED
    BY <1>5, <2>1, IdleIs DEF Restart, Fault
<1>6. ASSUME NEW w \in Workers, Reject(w)
      PROVE  failed' /\ \A h \in Handlers : work'[h].at = "created" => work[h].at = "created"
  <2>1. failed'
    BY <1>6 DEF Reject, Fault
  <2>2. ASSUME NEW h \in Handlers, work'[h].at = "created" PROVE work[h].at = "created"
    <3>1. CASE GiveUp(w)
      <4>1. PICK y : work' = [work EXCEPT ![w] = y] /\ y.at # "created"
        BY <3>1, GivesUp DEF Inv
      <4>. QED
        BY <2>2, <4>1 DEF Inv, WorkInv, Workers
    <3>2. CASE w \in Pollers /\ Succeed(w)
      <4>1. PICK y : work' = [work EXCEPT ![w] = y]
        BY <3>2, Succeeds DEF Inv
      <4>2. w # h
        BY <3>2, WorkersAssumption
      <4>. QED
        BY <2>2, <4>1, <4>2 DEF Inv, WorkInv, Workers
    <3>. QED
      BY <1>6, <3>1, <3>2 DEF Reject
  <2>. QED
    BY <2>1, <2>2
<1>. QED
  BY <1>1, <1>2, <1>3, <1>4, <1>5, <1>6 DEF Next

\* An answer 201 to a callback means a market in the database: the question has its
\* row, had one that was deleted, or lost its draft to another question.
THEOREM AnsweredCallbacksAreRecorded == Spec => AnsweredIsRecorded
<1>1. ASSUME Inv, Inv', [Next]_vars
      PROVE  \A h \in Handlers, q \in Question :
                (work[h].q = q /\ work'[h].at = "created") => Recorded(q)'
  <2>1. SUFFICES ASSUME NEW h \in Handlers, NEW q \in Question, work[h].q = q, work'[h].at = "created"
                 PROVE  Recorded(q)'
    OBVIOUS
  <2>2. h \in Workers
    BY DEF Workers
  <2>3. work[h].at # "created"
    <3>1. WorkOK(h, work[h])
      BY <1>1, <2>2 DEF Inv, WorkInv
    <3>. QED
      BY <2>1, <3>1, NullAssumption DEF WorkOK
  <2>4. Next
    BY <1>1, <2>1, <2>3 DEF vars
  <2>5. PICK w \in Workers : Finishes(w)
    BY <1>1, <2>1, <2>3, <2>4, StepsFinish
  <2>6. w = h
    BY <2>1, <2>2, <2>3, <2>5 DEF Finishes
  <2>. QED
    BY <2>1, <2>5, <2>6 DEF Finishes
<1>2. Inv /\ Inv' /\ [Next]_vars =>
        [\A h \in Handlers, q \in Question :
            (work[h].q = q /\ work'[h].at = "created") => Recorded(q)']_vars
  BY <1>1
<1>. QED
  BY <1>2, CreationInvariant, PTL DEF Spec, AnsweredIsRecorded

\* A question younger than two minutes leaves the waiting list only when it is
\* recorded (cre-pending-markets.ts:3), or after a fault.
THEOREM QuestionsLeaveRecorded == Spec => LeavesRecorded
<1>1. ASSUME Inv, Inv', [Next]_vars
      PROVE  \A q \in ToSet(pending) \ ToSet(pending') :
                AgeOf(q) # "old" => Recorded(q)' \/ failed'
  <2>1. SUFFICES ASSUME NEW q \in ToSet(pending) \ ToSet(pending'), AgeOf(q) # "old", ~failed'
                 PROVE  Recorded(q)'
    OBVIOUS
  <2>2. Next
    BY <1>1, <2>1 DEF vars
  <2>3. PICK w \in Workers : Finishes(w)
    BY <1>1, <2>1, <2>2, StepsFinish
  <2>4. ~Stays(q) /\ q \in Question
    BY <1>1, <2>1, PendingIs DEF Stays, Inv, BaseInv, SentInv
  <2>. QED
    BY <2>3, <2>4 DEF Finishes
<1>2. Inv /\ Inv' /\ [Next]_vars =>
        [\A q \in ToSet(pending) \ ToSet(pending') :
            AgeOf(q) # "old" => Recorded(q)' \/ failed']_vars
  BY <1>1
<1>. QED
  BY <1>2, CreationInvariant, PTL DEF Spec, LeavesRecorded
=============================================================================

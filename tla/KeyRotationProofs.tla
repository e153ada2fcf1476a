------------------------- MODULE KeyRotationProofs -------------------------
(* What the rotation does for any number of keys, and what it does not do.   *)
EXTENDS KeyRotation, Integers, TLAPS

\* Quotient and remainder.
LEMMA Division ==
    ASSUME NEW k \in Nat \ {0}, NEW i \in Nat
    PROVE  /\ i \div k \in Nat /\ i % k \in 0..(k - 1)
           /\ i = (k * (i \div k)) + (i % k)
  BY SMT

\* A product is at least its one factor.
LEMMA Product ==
    ASSUME NEW k \in Nat, NEW d \in Nat \ {0}
    PROVE  k * d >= k
  BY SMT

\* Quotient and remainder are the only ones.
LEMMA Unique ==
    ASSUME NEW k \in Nat \ {0}, NEW p \in Nat, NEW q \in Nat,
           NEW r \in 0..(k - 1), NEW s \in 0..(k - 1), (k * p) + r = (k * q) + s
    PROVE  r = s
<1>1. ASSUME NEW a \in Nat, NEW b \in Nat, NEW x \in 0..(k - 1), NEW y \in 0..(k - 1),
             (k * a) + x = (k * b) + y, a < b
      PROVE  FALSE
  <2>1. b - a \in Nat \ {0}
    BY <1>1
  <2>2. k * (b - a) = (k * b) - (k * a)
    BY <1>1, <2>1, SMT
  <2>3. k * (b - a) >= k
    BY <2>1, Product
  <2>4. k * a \in Int /\ k * b \in Int /\ k \in Int
    BY <1>1, SMT
  <2> QED
    BY <1>1, <2>2, <2>3, <2>4, SMT
<1>2. ~(p < q) /\ ~(q < p)
  BY <1>1
<1>3. p = q
  BY <1>2
<1> QED
  BY <1>3, SMT

\* One turn through the keys leads back to the same key.
LEMMA FullTurn ==
    ASSUME NEW k \in Nat \ {0}, NEW i \in Nat
    PROVE  (i + k) % k = i % k
<1>1. PICK q \in Nat, r \in 0..(k - 1) : i = (k * q) + r /\ r = i % k
  BY Division
<1>2. PICK p \in Nat, s \in 0..(k - 1) : i + k = (k * p) + s /\ s = (i + k) % k
  <2>1. i + k \in Nat
    BY SMT
  <2> QED
    BY <2>1, Division
<1>3. k * (q + 1) = (k * q) + k
  BY SMT
<1>4. q + 1 \in Nat /\ (k * (q + 1)) + r = (k * p) + s
  BY <1>1, <1>2, <1>3, SMT
<1>5. r = s
  BY <1>4, Unique
<1> QED
  BY <1>1, <1>2, <1>5

\* Less than a turn leads to another key.
LEMMA PartOfTurn ==
    ASSUME NEW k \in Nat \ {0}, NEW i \in Nat, NEW d \in 1..(k - 1)
    PROVE  (i + d) % k # i % k
<1> SUFFICES ASSUME (i + d) % k = i % k PROVE FALSE
  OBVIOUS
<1>1. PICK q \in Nat, r \in 0..(k - 1) : i = (k * q) + r /\ r = i % k
  BY Division
<1>2. PICK p \in Nat : i + d = (k * p) + r
  <2>1. i + d \in Nat
    BY SMT
  <2>2. (i + d) \div k \in Nat /\ i + d = (k * ((i + d) \div k)) + ((i + d) % k)
    BY <2>1, Division
  <2> QED
    BY <1>1, <2>2
<1>3. k * p \in Int /\ k * q \in Int /\ k * p = (k * q) + d
  BY <1>1, <1>2, SMT
<1>4. CASE p > q
  <2>1. p - q \in Nat \ {0} /\ k * (p - q) = (k * p) - (k * q)
    BY <1>4, SMT
  <2>2. k * (p - q) >= k
    BY <2>1, Product
  <2> QED
    BY <1>3, <2>1, <2>2, SMT
<1>5. CASE p = q
  BY <1>3, <1>5, SMT
<1>6. CASE p < q
  <2>1. q - p \in Nat \ {0} /\ k * (q - p) = (k * q) - (k * p)
    BY <1>6, SMT
  <2>2. k * (q - p) >= k
    BY <2>1, Product
  <2> QED
    BY <1>3, <2>1, <2>2, SMT
<1> QED
  BY <1>4, <1>5, <1>6

----------------------------------------------------------------------------

\* The variables keep their types: what is used is always one of the keys
\* (lib/llm-rotation.ts:20-25).
THEOREM TypeCorrect ==
    ASSUME Constants
    PROVE  Spec => []TypeOK
<1> USE DEF Constants
<1>1. Init => TypeOK
  BY DEF Init, TypeOK
<1>2. TypeOK /\ [Next]_vars => TypeOK'
  <2> SUFFICES ASSUME TypeOK, [Next]_vars PROVE TypeOK'
    OBVIOUS
  <2> USE DEF TypeOK
  <2>1. ASSUME NEW c \in Callers, Request(c) PROVE TypeOK'
    <3>1. index % Keys \in Key
      BY Division DEF Key
    <3>2. index' \in Nat
      BY <2>1 DEF Request
    <3> QED
      BY <2>1, <3>1, <3>2 DEF Request, NextKey
  <2>2. ASSUME NEW c \in Callers, Answered(c) PROVE TypeOK'
    BY <2>2 DEF Answered
  <2>3. ASSUME NEW c \in Callers, RateLimited(c) PROVE TypeOK'
    <3>1. index' \in Nat
      BY <2>3 DEF RateLimited
    <3> QED
      BY <2>3, <3>1 DEF RateLimited
  <2>4. CASE UNCHANGED vars
    BY <2>4 DEF vars
  <2> QED
    BY <2>1, <2>2, <2>3, <2>4 DEF Next
<1> QED
  BY <1>1, <1>2, PTL DEF Spec

\* Where the index is for a caller that is alone: one past the key in use, and
\* past a limited key by its own step and what the 429 has added.
Position(c) ==
    /\ using[c] # None => \E i \in Nat : index = i + 1 /\ using[c] = i % Keys
    /\ (limited # None /\ using[c] = None) =>
          \E i \in Nat : index = i + 1 + Records /\ limited = i % Keys
    /\ (limited # None /\ using[c] # None) =>
          \E i \in Nat : limited = i % Keys /\ using[c] = (i + 1 + Records) % Keys

LEMMA PositionKept ==
    ASSUME Constants, NEW c, Callers = {c}
    PROVE  Spec => []Position(c)
<1> USE DEF Constants, Position
<1>1. Init => Position(c)
  BY DEF Init
<1>2. TypeOK /\ Position(c) /\ [Next]_vars => Position(c)'
  <2> SUFFICES ASSUME TypeOK, Position(c), [Next]_vars PROVE Position(c)'
    OBVIOUS
  <2>0. using \in [{c} -> Key \union {None}] /\ index \in Nat
    BY DEF TypeOK
  <2>1. CASE Request(c)
    <3>1. /\ using[c] = None /\ limited' = limited /\ index' = index + 1
          /\ using'[c] = index % Keys
      BY <2>0, <2>1 DEF Request, NextKey
    <3>2. using'[c] # None
      <4>1. index % Keys \in 0..(Keys - 1)
        BY <2>0, Division
      <4> QED
        BY <3>1, <4>1, SMT
    <3> QED
      BY <2>0, <3>1, <3>2
  <2>2. CASE Answered(c)
    BY <2>0, <2>2 DEF Answered
  <2>3. CASE RateLimited(c)
    <3>1. /\ using[c] # None /\ limited' = using[c] /\ index' = index + Records
          /\ using'[c] = None
      BY <2>0, <2>3 DEF RateLimited
    <3>2. PICK i \in Nat : index = i + 1 /\ using[c] = i % Keys
      BY <3>1
    <3> QED
      BY <3>1, <3>2
  <2>4. CASE UNCHANGED vars
    BY <2>4 DEF vars
  <2> QED
    BY <2>1, <2>2, <2>3, <2>4 DEF Next
<1> QED
  BY <1>1, <1>2, TypeCorrect, PTL DEF Spec

\* A caller that is alone and is limited goes on with the same key, again and again,
\* if there are as many keys as steps of the index: with three keys where the 429 is
\* recorded by callGemini and by its catch (agent-market-creation.service.ts:129
\* and 414), with two where it is recorded once (agent-trading-analysis.service.ts:194).
THEOREM StuckOnOneKey ==
    ASSUME Constants, NEW c, Callers = {c}, Keys = Records + 1
    PROVE  Spec => []SameKeyAgain
<1> USE DEF Constants
<1>1. Position(c) => SameKeyAgain
  <2> SUFFICES ASSUME Position(c), limited # None, using[c] # None PROVE using[c] = limited
    BY DEF SameKeyAgain
  <2>1. PICK i \in Nat : limited = i % Keys /\ using[c] = (i + 1 + Records) % Keys
    BY DEF Position
  <2>2. i + 1 + Records = i + Keys
    BY SMT
  <2> QED
    BY <2>1, <2>2, FullTurn
<1> QED
  BY <1>1, PositionKept, PTL

\* With more keys than that a caller that is alone and is limited goes on with another
\* one, as the comment at recordRateLimit (lib/llm-rotation.ts:51) says of any number.
THEOREM MovesOn ==
    ASSUME Constants, NEW c, Callers = {c}, Keys > Records + 1
    PROVE  Spec => []AnotherKeyNext
<1> USE DEF Constants
<1>1. Position(c) => AnotherKeyNext
  <2> SUFFICES ASSUME Position(c), limited # None PROVE using[c] # limited
    BY DEF AnotherKeyNext
  <2>1. CASE using[c] # None
    <3>1. PICK i \in Nat : limited = i % Keys /\ using[c] = (i + 1 + Records) % Keys
      BY <2>1 DEF Position
    <3>2. Records + 1 \in 1..(Keys - 1) /\ i + 1 + Records = i + (Records + 1)
      BY SMT
    <3> QED
      BY <3>1, <3>2, PartOfTurn
  <2> QED
    BY <2>1
<1> QED
  BY <1>1, PositionKept, PTL
=============================================================================

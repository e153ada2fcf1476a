-------------------------- MODULE OrderQueueProofs --------------------------
(***************************************************************************)
(* Proofs about OrderQueue for every set of orders and inputs.             *)
(*                                                                         *)
(* The queue's steps are steps of the book or leave it alone, so BookInv   *)
(* and FillInv hold under it.  QueueInv adds what the book does not know:  *)
(* which stretch of the trades belongs to a taker (TakerInv), where each   *)
(* order is on its way through the queue (PlaceInv), what has been         *)
(* announced of it (AnnounceInv) and what its job says (JobInv).           *)
(***************************************************************************)
EXTENDS OrderQueue, OrderBookProofs

----------------------------------------------------------------------------
(* A taker's own trades. *)

\* Arrivals are numbered in order, every trade moves something, and what an
\* order took is no more than what it lacks.
TakerInv ==
    /\ TakerTradesLast
    /\ \A o \in Orders : createdAt[o] <= clock
    /\ \A i \in 1..Len(trades) : trades[i].qty > 0
    /\ \A o \in Orders : status[o] \notin {"NEW", "REJECTED"} => Sold(BookTrades(o)) <= order[o].qty - rem[o]

\* One trade more is its quantity more.
LEMMA SoldAppend ==
    ASSUME NEW S, NEW ts \in Seq(S), NEW e \in S, \A t \in S : t.qty \in Nat
    PROVE  /\ Sold(ts) \in Nat
           /\ Sold(Append(ts, e)) = Sold(ts) + e.qty
<1>. DEFINE n == Len(ts)
            qs == [k \in DOMAIN ts |-> ts[k].qty]
            rs == [k \in DOMAIN Append(ts, e) |-> Append(ts, e)[k].qty]
<1>1. /\ n \in Nat /\ DOMAIN ts = 1..n /\ \A k \in 1..n : ts[k] \in S
      /\ DOMAIN Append(ts, e) = 1..(n + 1)
      /\ \A k \in 1..n : Append(ts, e)[k] = ts[k]
      /\ Append(ts, e)[n + 1] = e
  OBVIOUS
<1>. HIDE DEF n
<1>2. qs \in Seq(Nat) /\ Len(qs) = n
  <2>1. qs = [k \in 1..n |-> ts[k].qty] /\ \A k \in 1..n : ts[k].qty \in Nat
    BY <1>1
  <2>. QED
    BY <1>1, <2>1
<1>3. rs = Append(qs, e.qty)
  <2>1. \A k \in 1..(n + 1) : k \in 1..n \/ k = n + 1
    BY <1>1
  <2>2. /\ DOMAIN rs = 1..(n + 1)
        /\ \A k \in 1..n : rs[k] = qs[k]
        /\ rs[n + 1] = e.qty
    BY <1>1, <2>1
  <2>. HIDE DEF qs
  <2>3. /\ Append(qs, e.qty) = [k \in 1..(n + 1) |-> Append(qs, e.qty)[k]]
        /\ \A k \in 1..n : Append(qs, e.qty)[k] = qs[k]
        /\ Append(qs, e.qty)[n + 1] = e.qty
    BY <1>2
  <2>4. rs = [k \in 1..(n + 1) |-> rs[k]]
    BY <2>2
  <2>. HIDE DEF rs
  <2>5. \A k \in 1..(n + 1) : rs[k] = Append(qs, e.qty)[k]
    BY <2>1, <2>2, <2>3, Zenon
  <2>. QED
    BY <2>3, <2>4, <2>5, Zenon
<1>4. e.qty \in Nat
  OBVIOUS
<1>. QED
  BY <1>2, <1>3, <1>4, TotalAppend, Zenon DEF Sold

\* No trades, nothing sold.
LEMMA SoldNothing == Sold(<< >>) = 0
<1>1. [k \in DOMAIN << >> |-> << >>[k].qty] = << >>
  OBVIOUS
<1>. QED
  BY <1>1, TotalEmpty, Zenon DEF Sold

\* What trades sell is a quantity.
LEMMA SoldIsNat ==
    ASSUME NEW S, NEW ts \in Seq(S), \A t \in S : t.qty \in Nat
    PROVE  Sold(ts) \in Nat
<1>1. CASE ts = << >>
  BY <1>1, SoldNothing
<1>2. CASE ts # << >>
  <2>1. Head(ts) \in S
    BY <1>2, HeadTailProperties
  <2>. QED
    BY <2>1, SoldAppend, Zenon
<1>. QED
  BY <1>1, <1>2

\* A trade has a quantity.
LEMMA TradeQty == \A t \in Trade : t.qty \in Nat
BY DEF Trade

\* An order that is in no trade has no list.
LEMMA NoBookTrades ==
    ASSUME TypeOK, NEW o, \A i \in 1..Len(trades) : trades[i].taker # o
    PROVE  BookTrades(o) = << >>
<1>1. {i \in DOMAIN trades : trades[i].taker = o} = {}
  BY DEF TypeOK
<1>. QED
  BY <1>1 DEF BookTrades

\* What matchOne does to the order's lists.
LEMMA MatchLists ==
    ASSUME BookInv, TakerInv, MatchOne, NEW o
    PROVE  IF o = taker
           THEN \E tr \in Trade : /\ BookTrades(o)' = Append(BookTrades(o), tr)
                                  /\ rem'[o] = rem[o] - tr.qty
           ELSE BookTrades(o)' = BookTrades(o)
<1>1. TypeOK /\ taker # NoOrder
  BY DEF BookInv, MatchOne
<1>2. PICK s, p, m : IsMaker(s, p, m)
  BY DEF IsMaker
<1>3. PICK q \in Nat \ {0}, tr \in Trade :
          /\ rem'[m] = rem[m] - q /\ rem'[taker] = rem[taker] - q
          /\ trades' = Append(trades, tr)
          /\ tr.maker = m /\ tr.taker = taker /\ tr.qty = q
  BY <1>2, MatchTrade
<1>4. CASE o = taker
  <2>1. BookTrades(o)' = Append(BookTrades(o), tr)
    BY <1>1, <1>3, <1>4, BookTradesGrow DEF TakerInv
  <2>. QED
    BY <1>3, <1>4, <2>1
<1>5. CASE o # taker
  <2>1. tr.taker # o
    BY <1>3, <1>5
  <2>2. BookTrades(o)' = BookTrades(o)
    BY <1>1, <1>3, <2>1, BookTradesKept
  <2>. QED
    BY <1>5, <2>2
<1>. QED
  BY <1>4, <1>5

\* Every step of the book keeps TakerInv.
LEMMA NextTakerInv ==
    ASSUME BookInv, FillInv, TakerInv, [BookNext]_bookVars
    PROVE  TakerInv'
<1>1. TypeOK /\ TypeOK' /\ NoOrder \notin Orders
  BY NextInv, NoOrderAssumption DEF BookInv
<1>2. /\ \A x \in Orders : rem[x] \in Nat /\ order[x].qty \in Int /\ createdAt[x] \in Nat
      /\ clock \in Nat
  BY <1>1 DEF TypeOK, OrderInput
<1>3. \A x : Sold(BookTrades(x)) \in Nat
  BY <1>1, BookTradesType, SoldIsNat, TradeQty, Zenon
<1>4. ASSUME NEW o \in Orders, NEW in \in Inputs, Refuse(o, in) \/ Accept(o, in)
      PROVE  TakerInv'
  <2>1. /\ status[o] = "NEW" /\ trades' = trades /\ taker = NoOrder
        /\ order' = [order EXCEPT ![o] = order'[o]]
        /\ rem' = [rem EXCEPT ![o] = rem'[o]]
        /\ status' = [status EXCEPT ![o] = status'[o]]
        /\ clock' = clock + 1 /\ createdAt' = [createdAt EXCEPT ![o] = clock + 1]
    BY <1>1, <1>4 DEF Refuse, Accept, Arrive, TypeOK
  <2>2. /\ \A x \in Orders \ {o} : order'[x] = order[x] /\ rem'[x] = rem[x] /\ status'[x] = status[x]
                                     /\ createdAt'[x] = createdAt[x]
        /\ createdAt'[o] = clock + 1
    BY <1>1, <2>1 DEF TypeOK
  <2>3. \A x : BookTrades(x)' = BookTrades(x)
    BY <2>1 DEF BookTrades
  <2>4. \A i \in 1..Len(trades) : trades[i].taker # o
    BY <1>1, <2>1, TradeParties DEF FillInv, TradedStatuses
  <2>5. \/ status'[o] = "REJECTED" /\ taker' = NoOrder
        \/ taker' = o /\ status'[o] = "PENDING" /\ rem'[o] = order'[o].qty /\ rem'[o] \in Int
    <3>1. CASE Refuse(o, in)
      BY <1>1, <3>1 DEF Refuse, Arrive, TypeOK
    <3>2. CASE Accept(o, in)
      <4>1. in \in OrderInput
        BY InputsAssumption
      <4>2. rem'[o] = in.qty /\ status'[o] = "PENDING" /\ order'[o].qty = in.qty /\ in.qty \in Int
            /\ taker' = o
        BY <1>1, <3>2, <4>1 DEF Accept, Arrive, TypeOK, OrderInput
      <4>. QED
        BY <4>2
    <3>. QED
      BY <1>4, <3>1, <3>2
  <2>6. BookTrades(o) = << >> /\ Sold(BookTrades(o)) = 0
    BY <1>1, <2>4, NoBookTrades, SoldNothing
  <2>7. TakerTradesLast'
    BY <2>1, <2>4, <2>5 DEF TakerTradesLast
  <2>8. (\A x \in Orders : createdAt[x] <= clock)'
    BY <1>2, <2>1, <2>2 DEF TakerInv
  <2>9. ASSUME NEW x \in Orders, status'[x] \notin {"NEW", "REJECTED"}
        PROVE  Sold(BookTrades(x)') <= order'[x].qty - rem'[x]
    <3>1. CASE x = o
      BY <2>3, <2>5, <2>6, <2>9, <3>1
    <3>2. CASE x # o
      BY <2>2, <2>3, <2>9, <3>2 DEF TakerInv
    <3>. QED
      BY <3>1, <3>2
  <2>. QED
    BY <2>1, <2>7, <2>8, <2>9 DEF TakerInv
<1>5. CASE MatchOne
  <2>1. PICK s, p, m : IsMaker(s, p, m)
    BY DEF IsMaker
  <2>2. /\ taker \in Orders /\ status[taker] = "PENDING"
        /\ m \in Orders \ {taker} /\ status[m] \in RestingStatus
    BY <1>5, <2>1, MakerIsResting DEF MatchOne
  <2>3. PICK q \in Nat \ {0}, tr \in Trade :
            /\ rem'[m] = rem[m] - q /\ rem'[taker] = rem[taker] - q
            /\ trades' = Append(trades, tr)
            /\ tr.maker = m /\ tr.taker = taker /\ tr.qty = q
    BY <1>5, <2>1, MatchTrade
  <2>4. /\ order' = order /\ createdAt' = createdAt /\ clock' = clock /\ taker' = taker
        /\ \A x \in Orders \ {m, taker} : rem'[x] = rem[x]
        /\ \A x \in Orders \ {m} : status'[x] = status[x]
    BY <1>5, <2>1, MatchEffect DEF MatchOne
  <2>5. /\ DOMAIN trades = 1..Len(trades) /\ Len(trades) \in Nat /\ Len(trades') = Len(trades) + 1
        /\ \A i \in 1..Len(trades) : trades'[i] = trades[i]
        /\ trades'[Len(trades) + 1] = tr
    BY <1>1, <2>3 DEF TypeOK
  <2>6. \A i \in 1..Len(trades') : i \in 1..Len(trades) \/ i = Len(trades) + 1
    BY <2>5
  <2>7. TakerTradesLast'
    BY <2>3, <2>4, <2>5, <2>6 DEF TakerTradesLast, TakerInv
  <2>8. \A i \in 1..Len(trades') : trades'[i].qty > 0
    BY <2>3, <2>5, <2>6 DEF TakerInv
  <2>9. ASSUME NEW x \in Orders, status'[x] \notin {"NEW", "REJECTED"}
        PROVE  Sold(BookTrades(x)') <= order'[x].qty - rem'[x]
    <3>1. Sold(BookTrades(x)) <= order[x].qty - rem[x]
      BY <2>2, <2>4, <2>9 DEF TakerInv, RestingStatus
    <3>2. CASE x = taker
      <4>1. PICK t \in Trade : BookTrades(x)' = Append(BookTrades(x), t) /\ rem'[x] = rem[x] - t.qty
        BY <1>5, <3>2, MatchLists
      <4>2. Sold(BookTrades(x)') = Sold(BookTrades(x)) + t.qty /\ t.qty \in Nat
        BY <1>1, <4>1, BookTradesType, SoldAppend, TradeQty
      <4>. QED
        BY <1>2, <1>3, <2>4, <3>1, <4>1, <4>2
    <3>3. CASE x # taker
      <4>1. BookTrades(x)' = BookTrades(x)
        BY <1>5, <3>3, MatchLists
      <4>2. rem'[x] <= rem[x]
        BY <1>2, <2>2, <2>3, <2>4, <3>3
      <4>. QED
        BY <1>1, <1>2, <1>3, <2>4, <3>1, <4>1, <4>2 DEF TypeOK
    <3>. QED
      BY <3>2, <3>3
  <2>. QED
    BY <2>4, <2>7, <2>8, <2>9 DEF TakerInv
<1>6. CASE Rest \/ CancelRemainder \/ Complete
  <2>1. /\ order' = order /\ rem' = rem /\ trades' = trades
        /\ createdAt' = createdAt /\ clock' = clock /\ taker' = NoOrder
        /\ taker \in Orders /\ status[taker] = "PENDING"
        /\ status' = [status EXCEPT ![taker] = status'[taker]]
    BY <1>1, <1>6 DEF Rest, CancelRemainder, Complete, LoopDone, Return, BookInv,
                      TypeOK, TakerIsPending
  <2>2. \A x : BookTrades(x)' = BookTrades(x)
    BY <2>1 DEF BookTrades
  <2>3. \A x \in Orders \ {taker} : status'[x] = status[x]
    BY <1>1, <2>1 DEF TypeOK
  <2>4. ASSUME NEW x \in Orders, status'[x] \notin {"NEW", "REJECTED"}
        PROVE  Sold(BookTrades(x)') <= order'[x].qty - rem'[x]
    <3>1. status[x] \notin {"NEW", "REJECTED"}
      BY <2>1, <2>3, <2>4
    <3>. QED
      BY <2>1, <2>2, <3>1 DEF TakerInv
  <2>. QED
    BY <2>1, <2>4 DEF TakerInv, TakerTradesLast
<1>7. CASE UNCHANGED bookVars
  <2>1. \A x : BookTrades(x)' = BookTrades(x)
    BY <1>7 DEF bookVars, BookTrades
  <2>. QED
    BY <1>7, <2>1 DEF bookVars, TakerInv, TakerTradesLast
<1>. QED
  BY <1>4, <1>5, <1>6, <1>7 DEF BookNext, Call, Run
----------------------------------------------------------------------------
(* The queue's invariant. *)

\* Where an order is: pending orders are new and waiting, the one drainQueue
\* has is the last taken up and is waiting too, and `phase' says how far it is.
PlaceInv ==
    /\ processing <=> current # NoOrder
    /\ processing <=> phase # "idle"
    /\ processing => taken # << >> /\ taken[Len(taken)] = current /\ reply[current] = "waiting"
    /\ IF phase = "engine" THEN taker = current ELSE taker = NoOrder
    /\ phase = "threw" => status[current] = "NEW"
    /\ phase \in {"engine", "platform", "publish"} =>
           status[current] # "NEW" /\ createdAt[current] = clock
    /\ phase = "platform" =>
           /\ status[current] \in {"CANCELLED", "REJECTED"}
           /\ 0 < rem[current] /\ rem[current] <= order[current].qty
    /\ \A i \in DOMAIN pending :
           /\ reply[pending[i].id] = "waiting"
           /\ status[pending[i].id] = "NEW"
           /\ pending[i].id # current
    /\ \A i, j \in DOMAIN pending : pending[i].id = pending[j].id => i = j
    /\ \A o \in Orders : reply[o] = "none" => status[o] = "NEW"
    /\ \A o \in Orders : reply[o] = "resolved" => status[o] # "NEW"

\* The messages sent about an order.
SentOf(o) == {i \in DOMAIN published : published[i].order = o}

\* Nothing has been said about the order yet: it has no answer, and is not the
\* one whose messages are going out.
Untold(o) == reply[o] \in {"none", "waiting"} /\ ~(phase = "publish" /\ o = current)

\* What is still to be published completes what has been, in order.
AnnounceInv ==
    /\ PublishedInOrder
    /\ \A i \in DOMAIN published : status[published[i].order] # "NEW"
    /\ phase # "publish" => toPublish = << >>
    /\ \A i \in DOMAIN toPublish :
           /\ toPublish[i].order = current
           /\ toPublish[i].kind = "BOOK" => i = 1 /\ SentOf(current) = {}
    /\ phase = "publish" =>
           Cardinality(SentOf(current)) + Len(toPublish)
               = 2 + Len(ResultTrades(current, platformFilled[current]))
    /\ \A o \in Orders : reply[o] = "resolved" =>
           Cardinality(SentOf(o)) = 2 + Len(ResultTrades(o, platformFilled[o]))
    /\ \A o \in Orders : Untold(o) => platformFilled[o] = 0 /\ SentOf(o) = {}

\* Only resolved orders have a job, on its way or queued, and one at most; what
\* a job says stays true of its order.
JobInv ==
    /\ \A i \in DOMAIN adding : reply[adding[i]] = "resolved"
    /\ \A i \in DOMAIN jobs : reply[jobs[i].order] = "resolved"
    /\ \A i, j \in DOMAIN adding : adding[i] = adding[j] => i = j
    /\ \A i, j \in DOMAIN jobs : jobs[i].order = jobs[j].order => i = j
    /\ \A i \in DOMAIN adding, j \in DOMAIN jobs : adding[i] # jobs[j].order
    /\ \A o \in Orders : platformFilled[o] > 0 =>
           /\ platformFilled[o] <= rem[o] /\ rem[o] <= order[o].qty
           /\ status[o] \in {"CANCELLED", "REJECTED"}
    /\ JobIsConsistent
    /\ \A i \in DOMAIN jobs :
           jobs[i].status = "FILLED" => status[jobs[i].order] \in TerminalStatus

QueueInv ==
    /\ QueueTypeOK
    /\ BookInv
    /\ FillInv
    /\ TakerInv
    /\ NoLostWakeup
    /\ PlaceInv
    /\ AnnounceInv
    /\ JobInv

----------------------------------------------------------------------------
(* The book under the queue. *)

\* Every step of the queue is one of the book or leaves it alone.
LEMMA QueueStepsTheBook ==
    ASSUME QueueTypeOK, [QueueNext]_vars
    PROVE  [BookNext]_bookVars
<1>1. CASE DrainNext
  <2>1. pending \in Seq([id : Orders, in : Inputs \union Malformed]) /\ pending # << >>
    BY <1>1 DEF QueueTypeOK, DrainNext, CanTake
  <2>2. Head(pending) \in [id : Orders, in : Inputs \union Malformed]
    BY <2>1, HeadTailProperties
  <2>3. Head(pending).id \in Orders
    BY <2>2
  <2>. QED
    BY <1>1, <2>3 DEF DrainNext, BookNext, Call
<1>2. CASE EngineMatch \/ EngineReturn
  BY <1>2 DEF EngineMatch, EngineReturn, BookNext, Run
<1>3. CASE UNCHANGED vars
  BY <1>3 DEF vars
<1>4. CASE \E o \in FreshIds, in \in Inputs \union Malformed : Submit(o, in)
  BY <1>4 DEF Submit
<1>5. CASE DrainNothing \/ PlatformSells \/ Publish \/ Finish \/ Fail \/ AddJob \/ AddFails
  BY <1>5 DEF DrainNothing, PlatformSells, Publish, Finish, Fail, Settle, AddJob, AddFails
<1>. QED
  BY <1>1, <1>2, <1>3, <1>4, <1>5 DEF QueueNext, Drain, ProcessOne

\* The book's invariants hold under the queue.
LEMMA NextBook ==
    ASSUME QueueInv, [QueueNext]_vars
    PROVE  BookInv' /\ FillInv' /\ TakerInv'
BY QueueStepsTheBook, NextInv, NextFillInv, NextTakerInv DEF QueueInv

\* What a step of the book does to an order that has been processed: as a maker
\* it may lose more of its quantity, unless it is over, and nothing else.
LEMMA Bystander ==
    ASSUME BookInv, TakerInv, [BookNext]_bookVars, NEW o \in Orders, o # taker, status[o] # "NEW"
    PROVE  /\ order'[o] = order[o] /\ createdAt'[o] = createdAt[o]
           /\ status'[o] # "NEW" /\ o # taker'
           /\ rem'[o] <= rem[o]
           /\ status[o] \in TerminalStatus => status'[o] = status[o] /\ rem'[o] = rem[o]
           /\ BookTrades(o)' = BookTrades(o)
<1>1. TypeOK /\ NoOrder \notin Orders /\ rem[o] \in Nat
  BY NoOrderAssumption DEF BookInv, TypeOK
<1>2. ASSUME NEW x \in Orders, NEW in \in Inputs, Refuse(x, in) \/ Accept(x, in)
      PROVE  /\ order'[o] = order[o] /\ createdAt'[o] = createdAt[o]
             /\ status'[o] = status[o] /\ rem'[o] = rem[o] /\ taker' # o /\ trades' = trades
  BY <1>1, <1>2 DEF Refuse, Accept, Arrive, TypeOK
<1>3. CASE MatchOne
  <2>1. PICK s, p, m : IsMaker(s, p, m)
    BY DEF IsMaker
  <2>2. m \in Orders \ {taker} /\ status[m] \in RestingStatus
    BY <1>3, <2>1, MakerIsResting DEF MatchOne
  <2>3. /\ rem'[m] < rem[m] /\ rem' \in [Orders -> Nat]
        /\ \A x \in Orders \ {m, taker} : rem'[x] = rem[x]
        /\ \A x \in Orders \ {m} : status'[x] = status[x]
        /\ status'[m] \in {"PARTIALLY_FILLED", "FILLED"}
    BY <1>3, <2>1, MatchEffect
  <2>4. BookTrades(o)' = BookTrades(o) /\ order' = order /\ createdAt' = createdAt /\ taker' = taker
    BY <1>3, MatchLists DEF MatchOne
  <2>5. RestingStatus \intersect TerminalStatus = {}
    BY DEF RestingStatus, TerminalStatus
  <2>. QED
    BY <1>1, <2>2, <2>3, <2>4, <2>5
<1>4. CASE Rest \/ CancelRemainder \/ Complete
  <2>1. /\ order' = order /\ rem' = rem /\ trades' = trades
        /\ createdAt' = createdAt /\ taker' = NoOrder
        /\ status' = [status EXCEPT ![taker] = status'[taker]]
    BY <1>1, <1>4 DEF Rest, CancelRemainder, Complete, Return, TypeOK
  <2>2. status'[o] = status[o]
    BY <1>1, <2>1 DEF TypeOK
  <2>3. BookTrades(o)' = BookTrades(o)
    BY <2>1 DEF BookTrades
  <2>. QED
    BY <1>1, <2>1, <2>2, <2>3
<1>5. CASE UNCHANGED bookVars
  BY <1>1, <1>5 DEF bookVars, BookTrades
<1>6. ASSUME NEW x \in Orders, NEW in \in Inputs, Refuse(x, in) \/ Accept(x, in)
      PROVE  BookTrades(o)' = BookTrades(o) /\ rem'[o] <= rem[o] /\ status'[o] # "NEW"
  <2>1. trades' = trades /\ rem'[o] = rem[o] /\ status'[o] = status[o]
    BY <1>2, <1>6
  <2>. QED
    BY <1>1, <2>1 DEF BookTrades
<1>. QED
  BY <1>2, <1>3, <1>4, <1>5, <1>6 DEF BookNext, Call, Run

\* Its result does not change either, as long as its platform fill does not.
LEMMA ResultKept ==
    ASSUME NEW o, BookTrades(o)' = BookTrades(o), platformFilled'[o] = platformFilled[o]
    PROVE  ResultTrades(o, platformFilled[o])' = ResultTrades(o, platformFilled[o])
BY DEF ResultTrades, PlatformTrade, PlatformPrice

\* What processOne returns is a list of trades that moved something.
LEMMA ResultType ==
    ASSUME TypeOK, TakerInv, NEW o \in Orders, NEW f \in Nat
    PROVE  /\ BookTrades(o) \in Seq(JobTrade)
           /\ ResultTrades(o, f) \in Seq(JobTrade)
           /\ ResultTrades(o, f) = IF f > 0 THEN Append(BookTrades(o), PlatformTrade(o, f))
                                   ELSE BookTrades(o)
           /\ PlatformTrade(o, f).qty = f
           /\ f > 0 => PlatformTrade(o, f) \in JobTrade
<1>1. trades \in Seq(Trade) /\ \A i \in 1..Len(trades) : trades[i] \in Trade /\ trades[i].qty > 0
  BY DEF TypeOK, TakerInv
<1>2. \A t \in Trade : t.qty > 0 => t \in JobTrade
  <2>. SUFFICES ASSUME NEW t \in Trade, t.qty > 0 PROVE t \in JobTrade
    OBVIOUS
  <2>1. t = [maker |-> t.maker, taker |-> t.taker, price |-> t.price, qty |-> t.qty]
    BY DEF Trade
  <2>2. t.maker \in Orders /\ t.taker \in Orders /\ t.price \in Prices /\ t.qty \in Nat
    BY DEF Trade
  <2>3. t.price \in Nat
    BY <2>2, PricesAreNat
  <2>4. t.qty \in Nat \ {0}
    BY <2>2
  <2>. QED
    BY <2>1, <2>2, <2>3, <2>4 DEF JobTrade
<1>3. BookTrades(o) \in Seq(JobTrade)
  <2>1. BookTrades(o) \in Seq(Trade)
    BY BookTradesType
  <2>2. \A k \in 1..Len(BookTrades(o)) : BookTrades(o)[k] \in JobTrade
    BY <1>1, <1>2, <2>1, BookTradesType
  <2>3. Len(BookTrades(o)) \in Nat /\ BookTrades(o) = [k \in 1..Len(BookTrades(o)) |-> BookTrades(o)[k]]
    BY <2>1
  <2>. QED
    BY <2>2, <2>3
<1>4. PlatformPrice(o) \in Nat
  <2>1. CASE BookTrades(o) = << >>
    BY <2>1, DefaultPriceAssumption DEF PlatformPrice
  <2>2. CASE BookTrades(o) # << >>
    <3>1. Len(BookTrades(o)) \in 1..Len(BookTrades(o))
      BY <1>3, <2>2
    <3>2. Last(BookTrades(o)) \in JobTrade
      BY <1>3, <3>1 DEF Last
    <3>. QED
      BY <2>2, <3>2 DEF PlatformPrice, JobTrade
  <2>. QED
    BY <2>1, <2>2
<1>5. PlatformTrade(o, f).qty = f /\ (f > 0 => PlatformTrade(o, f) \in JobTrade)
  BY <1>4 DEF PlatformTrade, JobTrade
<1>6. CASE f > 0
  <2>1. ResultTrades(o, f) = BookTrades(o) \o <<PlatformTrade(o, f)>>
    BY <1>6 DEF ResultTrades
  <2>. HIDE DEF PlatformTrade
  <2>2. Append(BookTrades(o), PlatformTrade(o, f)) = BookTrades(o) \o <<PlatformTrade(o, f)>>
    BY <1>3, <1>5, <1>6, AppendIsConcat
  <2>. QED
    BY <1>3, <1>5, <1>6, <2>1, <2>2, AppendProperties
<1>7. CASE ~(f > 0)
  <2>1. ResultTrades(o, f) = BookTrades(o) \o << >>
    BY <1>7 DEF ResultTrades
  <2>. QED
    BY <1>3, <1>5, <1>7, <2>1, ConcatEmptySeq
<1>. QED
  BY <1>6, <1>7

\* The messages of a result: all about the order, one of them for its book, first.
LEMMA MessagesOf ==
    ASSUME NEW o \in Orders, NEW ts \in Seq(JobTrade)
    PROVE  /\ Messages(o, ts) \in Seq(Message)
           /\ Len(Messages(o, ts)) = 2 + Len(ts)
           /\ \A i \in DOMAIN Messages(o, ts) :
                 /\ Messages(o, ts)[i].order = o
                 /\ Messages(o, ts)[i].kind = "BOOK" => i = 1
<1>. DEFINE a == <<[kind |-> "BOOK", order |-> o], [kind |-> "MARKET", order |-> o]>>
            b == [i \in DOMAIN ts |-> [kind |-> "TRADE", order |-> o]]
<1>1. a \in Seq(Message) /\ Len(a) = 2
  BY DEF Message
<1>2. a[1].order = o /\ a[2].order = o /\ a[2].kind = "MARKET"
  OBVIOUS
<1>3. b \in Seq(Message) /\ Len(b) = Len(ts) /\ Len(ts) \in Nat
  <2>1. DOMAIN ts = 1..Len(ts) /\ Len(ts) \in Nat
    OBVIOUS
  <2>2. [kind |-> "TRADE", order |-> o] \in Message
    BY DEF Message
  <2>. QED
    BY <2>1, <2>2
<1>4. \A i \in 1..Len(ts) : b[i].order = o /\ b[i].kind = "TRADE"
  OBVIOUS
<1>5. Messages(o, ts) = a \o b
  BY DEF Messages
<1>. HIDE DEF a, b
<1>6. /\ a \o b \in Seq(Message) /\ Len(a \o b) = 2 + Len(ts)
      /\ \A i \in 1..(2 + Len(ts)) : (a \o b)[i] = IF i <= 2 THEN a[i] ELSE b[i - 2]
  <2>1. /\ a \o b \in Seq(Message) /\ Len(a \o b) = Len(a) + Len(b)
        /\ \A i \in 1..(Len(a) + Len(b)) : (a \o b)[i] = IF i <= Len(a) THEN a[i] ELSE b[i - Len(a)]
    <3>1. a \in Seq(Message) /\ b \in Seq(Message)
      BY <1>1, <1>3
    <3>. QED
      BY <3>1, ConcatProperties, Zenon
  <2>. QED
    BY <1>1, <1>3, <2>1
<1>7. ASSUME NEW i \in 1..(2 + Len(ts))
      PROVE  (a \o b)[i].order = o /\ ((a \o b)[i].kind = "BOOK" => i = 1)
  <2>1. CASE i <= 2
    <3>1. (i = 1 \/ i = 2) /\ (a \o b)[i] = a[i]
      BY <1>3, <1>6, <2>1
    <3>. QED
      BY <1>2, <3>1
  <2>2. CASE ~(i <= 2)
    <3>1. i - 2 \in 1..Len(ts) /\ (a \o b)[i] = b[i - 2]
      BY <1>3, <1>6, <2>2
    <3>. QED
      BY <1>4, <3>1
  <2>. QED
    BY <2>1, <2>2
<1>. QED
  BY <1>5, <1>6, <1>7

----------------------------------------------------------------------------
(* Types. *)

\* Every step of the queue keeps the types.
LEMMA NextTypes ==
    ASSUME QueueInv, [QueueNext]_vars
    PROVE  QueueTypeOK'
<1>1. QueueTypeOK /\ TypeOK' /\ TypeOK /\ TakerInv /\ TakerInv' /\ PlaceInv
  BY NextBook DEF QueueInv, BookInv
<1>. USE DEF QueueTypeOK
<1>. DEFINE Entry == [id : Orders, in : Inputs \union Malformed]
            JobType == [order : Orders, status : Status, trades : Seq(JobTrade)]
<1>2. ASSUME NEW o \in FreshIds, NEW in \in Inputs \union Malformed, Submit(o, in)
      PROVE  QueueTypeOK'
  <2>1. o \in Orders
    BY DEF FreshIds
  <2>2. [id |-> o, in |-> in] \in Entry
    BY <2>1
  <2>. QED
    BY <1>1, <1>2, <2>1, <2>2 DEF Submit, Push, Reply
<1>3. CASE DrainNothing
  BY <1>1, <1>3 DEF DrainNothing
<1>4. CASE DrainNext
  <2>1. pending \in Seq(Entry) /\ pending # << >>
    BY <1>1, <1>4 DEF DrainNext, CanTake
  <2>2. Head(pending) \in Entry /\ Tail(pending) \in Seq(Entry)
    BY <2>1, HeadTailProperties
  <2>3. Head(pending).id \in Orders
    BY <2>2
  <2>4. << >> \in Seq(JobTrade)
    OBVIOUS
  <2>5. Messages(Head(pending).id, << >>) \in Seq(Message)
    BY <2>3, <2>4, MessagesOf, Zenon
  <2>6. toPublish' \in Seq(Message) /\ phase' \in Phase
    BY <1>1, <1>4, <2>5 DEF DrainNext, Phase
  <2>. QED
    BY <1>1, <1>4, <2>2, <2>3, <2>6 DEF DrainNext
<1>5. CASE EngineMatch
  BY <1>1, <1>5 DEF EngineMatch, queueVars
<1>6. CASE EngineReturn
  <2>1. current \in Orders /\ NoOrder \notin Orders
    BY <1>1, <1>6, NoOrderAssumption DEF EngineReturn, PlaceInv
  <2>2. BookTrades(current) \in Seq(JobTrade)
    BY <1>1, <2>1, ResultType
  <2>3. Messages(current, BookTrades(current)) \in Seq(Message)
    BY <2>1, <2>2, MessagesOf
  <2>4. toPublish' \in Seq(Message) /\ phase' \in Phase
    BY <1>1, <1>6, <2>3 DEF EngineReturn, Phase
  <2>. QED
    BY <1>1, <1>6, <2>4 DEF EngineReturn
<1>7. CASE PlatformSells
  <2>. DEFINE qty == PlatformQty(current, platformLong)
  <2>1. current \in Orders
    BY <1>1, <1>7, NoOrderAssumption DEF PlatformSells, PlaceInv
  <2>2. qty \in Nat
    BY <1>1, <2>1 DEF PlatformQty, TypeOK
  <2>3. ResultTrades(current, qty) \in Seq(JobTrade)
    BY <1>1, <2>1, <2>2, ResultType
  <2>4. Messages(current, ResultTrades(current, qty)) \in Seq(Message)
    BY <2>1, <2>3, MessagesOf
  <2>5. /\ platformFilled' = [platformFilled EXCEPT ![current] = qty]
        /\ toPublish' = Messages(current, ResultTrades(current, qty))
    BY <1>7 DEF PlatformSells
  <2>. HIDE DEF qty
  <2>6. toPublish' \in Seq(Message) /\ phase' \in Phase /\ platformFilled' \in [Orders -> Nat]
    BY <1>1, <1>7, <2>1, <2>2, <2>4, <2>5 DEF PlatformSells, Phase
  <2>. QED
    BY <1>1, <1>7, <2>6 DEF PlatformSells
<1>8. CASE Publish
  BY <1>1, <1>8 DEF Publish
<1>9. CASE Finish
  <2>1. current \in Orders
    BY <1>1, <1>9 DEF Finish, PlaceInv
  <2>2. adding' \in Seq(Orders) /\ reply' \in [Orders -> Reply] /\ drains' \in Nat
    BY <1>1, <1>9, <2>1 DEF Finish, Settle, DrainsAfter, Reply
  <2>. QED
    BY <1>1, <1>9, <2>2 DEF Finish, Settle, Phase
<1>10. CASE Fail
  <2>1. toPublish' = << >> /\ published' = published /\ adding' = adding /\ Settle("rejected")
    BY <1>10 DEF Fail
  <2>2. reply' = [reply EXCEPT ![current] = "rejected"] /\ drains' = drains + DrainsAfter
    BY <2>1 DEF Settle
  <2>3. reply' \in [Orders -> Reply] /\ drains' \in Nat
    <3>1. reply \in [Orders -> Reply] /\ drains \in Nat /\ "rejected" \in Reply
      BY <1>1 DEF Reply
    <3>2. reply' \in [Orders -> Reply]
      BY <2>2, <3>1
    <3>3. DrainsAfter \in Nat
      BY DEF DrainsAfter
    <3>. QED
      BY <2>2, <3>1, <3>2, <3>3
  <2>4. toPublish' \in Seq(Message)
    BY <2>1
  <2>. QED
    BY <1>1, <2>1, <2>3, <2>4 DEF Settle, Phase
<1>11. CASE AddJob
  <2>1. adding \in Seq(Orders) /\ adding # << >> /\ Head(adding) \in Orders
    BY <1>1, <1>11 DEF AddJob
  <2>. DEFINE o == Head(adding)
  <2>2. ResultTrades(o, platformFilled[o]) \in Seq(JobTrade)
    <3>1. platformFilled[o] \in Nat
      BY <1>1, <2>1
    <3>. QED
      BY <1>1, <2>1, <3>1, ResultType
  <2>3. ResultStatus(o, platformFilled[o]) \in Status
    BY <1>1, <2>1 DEF ResultStatus, Status, TerminalStatus, RestingStatus, TypeOK
  <2>4. Job(o) \in JobType
    BY <2>1, <2>2, <2>3 DEF Job
  <2>5. jobs' \in Seq(JobType) /\ adding' \in Seq(Orders)
    <3>. HIDE DEF JobType
    <3>1. jobs' = Append(jobs, Job(o)) /\ jobs \in Seq(JobType) /\ adding' = Tail(adding)
      BY <1>1, <1>11 DEF AddJob, JobType
    <3>. QED
      BY <2>1, <2>4, <3>1, AppendProperties, HeadTailProperties
  <2>. QED
    BY <1>1, <1>11, <2>5 DEF AddJob
<1>12. CASE AddFails
  BY <1>1, <1>12 DEF AddFails
<1>13. CASE UNCHANGED vars
  BY <1>1, <1>13 DEF vars, queueVars
<1>. QED
  BY <1>2, <1>3, <1>4, <1>5, <1>6, <1>7, <1>8, <1>9, <1>10, <1>11, <1>12, <1>13
     DEF QueueNext, Drain, ProcessOne

----------------------------------------------------------------------------
(* Where the orders are. *)

\* The head of the line and the rest of it.
LEMMA HeadOfLine ==
    ASSUME QueueTypeOK, pending # << >>
    PROVE  /\ Head(pending).id \in Orders /\ Head(pending).id = pending[1].id
           /\ 1 \in DOMAIN pending
           /\ \A i \in DOMAIN Tail(pending) : i + 1 \in DOMAIN pending /\ Tail(pending)[i] = pending[i + 1]
           /\ \A i \in DOMAIN Tail(pending) : i \in Nat \ {0}
<1>. DEFINE Entry == [id : Orders, in : Inputs \union Malformed]
<1>1. pending \in Seq(Entry)
  BY DEF QueueTypeOK
<1>2. Head(pending) \in Entry
  BY <1>1, HeadTailProperties
<1>3. Head(pending).id \in Orders
  BY <1>2
<1>4. /\ Tail(pending) \in Seq(Entry) /\ Len(Tail(pending)) = Len(pending) - 1
      /\ \A i \in 1..Len(Tail(pending)) : Tail(pending)[i] = pending[i + 1]
  BY <1>1, HeadTailProperties
<1>. HIDE DEF Entry
<1>5. /\ Head(pending) = pending[1] /\ 1 \in DOMAIN pending
      /\ DOMAIN Tail(pending) = 1..(Len(pending) - 1) /\ DOMAIN pending = 1..Len(pending)
      /\ Len(pending) \in Nat
  BY <1>1, <1>4
<1>. QED
  BY <1>3, <1>4, <1>5

\* Only the order that arrives, or one that has arrived, changes its status.
LEMMA NewStays ==
    ASSUME BookInv, MatchOne \/ Rest \/ CancelRemainder \/ Complete, NEW o \in Orders
    PROVE  status'[o] = "NEW" <=> status[o] = "NEW"
<1>1. TypeOK
  BY DEF BookInv
<1>2. CASE MatchOne
  <2>1. PICK s, p, m : IsMaker(s, p, m)
    BY DEF IsMaker
  <2>2. m \in Orders \ {taker} /\ status[m] \in RestingStatus
    BY <1>2, <2>1, MakerIsResting DEF MatchOne
  <2>3. /\ \A x \in Orders \ {m} : status'[x] = status[x]
        /\ status'[m] \in {"PARTIALLY_FILLED", "FILLED"}
    BY <1>2, <2>1, MatchEffect
  <2>. QED
    BY <2>2, <2>3 DEF RestingStatus
<1>3. CASE Rest \/ CancelRemainder \/ Complete
  <2>1. /\ taker \in Orders /\ status[taker] = "PENDING"
        /\ status' = [status EXCEPT ![taker] = status'[taker]]
        /\ status'[taker] \in {"LIVE", "PARTIALLY_FILLED", "CANCELLED", "REJECTED", "FILLED"}
    BY <1>1, <1>3 DEF Rest, CancelRemainder, Complete, LoopDone, Return, RestStatus, BookInv,
                      TypeOK, TakerIsPending
  <2>2. \A x \in Orders \ {taker} : status'[x] = status[x]
    BY <1>1, <2>1 DEF TypeOK
  <2>. QED
    BY <2>1, <2>2
<1>. QED
  BY <1>2, <1>3

\* Steps that leave the book and the line alone.
PlaceVars == <<status, createdAt, clock, rem, order, taker, pending, processing, taken, phase,
               current, reply>>

\* Every step keeps each order in its place.
LEMMA NextPlace ==
    ASSUME QueueInv, [QueueNext]_vars
    PROVE  PlaceInv'
<1>1. /\ QueueTypeOK /\ TypeOK /\ PlaceInv /\ BookInv /\ FillInv /\ NoOrder \notin Orders
      /\ QueueTypeOK' /\ TypeOK'
  BY NextTypes, NextBook, NoOrderAssumption DEF QueueInv, BookInv
<1>2. \A i \in DOMAIN pending : pending[i].id \in Orders
  <2>. DEFINE Entry == [id : Orders, in : Inputs \union Malformed]
  <2>1. pending \in Seq(Entry)
    BY <1>1 DEF QueueTypeOK
  <2>2. \A e \in Entry : e.id \in Orders
    OBVIOUS
  <2>. HIDE DEF Entry
  <2>3. \A i \in DOMAIN pending : pending[i] \in Entry
    BY <2>1
  <2>. QED
    BY <2>2, <2>3
<1>3. ASSUME NEW o \in FreshIds, NEW in \in Inputs \union Malformed, Submit(o, in)
      PROVE  PlaceInv'
  <2>1. o \in Orders /\ reply[o] = "none" /\ status[o] = "NEW" /\ o # current
    BY <1>1, <1>3 DEF FreshIds, Submit, PlaceInv
  <2>2. /\ UNCHANGED <<status, createdAt, clock, rem, order, taker, processing, taken, phase, current>>
        /\ reply' = [reply EXCEPT ![o] = "waiting"]
        /\ pending' = Append(pending, [id |-> o, in |-> in])
    BY <1>3 DEF Submit, Push, bookVars
  <2>3. /\ \A x \in Orders \ {o} : reply'[x] = reply[x]
        /\ reply'[o] = "waiting"
    BY <1>1, <2>1, <2>2 DEF QueueTypeOK
  <2>4. \A i \in DOMAIN pending' : IF i \in DOMAIN pending THEN pending'[i] = pending[i]
                                    ELSE i = Len(pending) + 1 /\ pending'[i].id = o
    <3>1. pending \in Seq([id : Orders, in : Inputs \union Malformed])
      BY <1>1 DEF QueueTypeOK
    <3>. QED
      BY <2>2, <3>1
  <2>5. \A i \in DOMAIN pending : reply[pending[i].id] = "waiting" /\ pending[i].id # o
    BY <2>1 , <1>1 DEF PlaceInv
  <2>6. /\ \A i \in DOMAIN pending' :
              /\ reply'[pending'[i].id] = "waiting"
              /\ status'[pending'[i].id] = "NEW"
              /\ pending'[i].id # current'
        /\ \A i, j \in DOMAIN pending' : pending'[i].id = pending'[j].id => i = j
    BY <1>1, <1>2, <2>1, <2>2, <2>3, <2>4, <2>5 DEF PlaceInv
  <2>. QED
    BY <1>1, <2>1, <2>2, <2>3, <2>6 DEF PlaceInv
<1>4. CASE DrainNext
  <2>. DEFINE h == Head(pending).id
  <2>1. pending # << >> /\ ~processing /\ taker = NoOrder
    BY <1>4 DEF DrainNext, CanTake, LoopIdle
  <2>2. /\ h \in Orders /\ h = pending[1].id /\ 1 \in DOMAIN pending
        /\ \A i \in DOMAIN Tail(pending) : i + 1 \in DOMAIN pending /\ Tail(pending)[i] = pending[i + 1]
        /\ \A i \in DOMAIN Tail(pending) : i \in Nat \ {0}
    BY <1>1, <2>1, HeadOfLine
  <2>. HIDE DEF h
  <2>3. reply[h] = "waiting" /\ status[h] = "NEW"
    BY <1>1, <2>2 DEF PlaceInv
  <2>4. /\ processing' = TRUE /\ pending' = Tail(pending) /\ current' = h
        /\ taken' = Append(taken, h) /\ reply' = reply
    BY <1>4 DEF DrainNext, h
  <2>5. taken' # << >> /\ taken'[Len(taken')] = h
    <3>1. taken \in Seq(Orders)
      BY <1>1 DEF QueueTypeOK
    <3>. QED
      BY <2>2, <2>4, <3>1, AppendProperties
  <2>6. \/ /\ phase' = "engine" /\ taker' = h /\ status'[h] # "NEW" /\ createdAt'[h] = clock'
           /\ status' = [status EXCEPT ![h] = status'[h]]
        \/ /\ phase' = "publish" /\ taker' = NoOrder /\ status'[h] # "NEW" /\ createdAt'[h] = clock'
           /\ status' = [status EXCEPT ![h] = status'[h]]
        \/ /\ phase' = "threw" /\ taker' = NoOrder /\ status' = status
    <3>1. \/ \E in : Accept(h, in) /\ phase' = "engine"
          \/ \E in : Refuse(h, in) /\ phase' = "publish"
          \/ phase' = "threw" /\ UNCHANGED bookVars
      BY <1>4 DEF DrainNext, h
    <3>2. CASE \E in : Accept(h, in) /\ phase' = "engine"
      <4>1. /\ status' = [status EXCEPT ![h] = "PENDING"] /\ taker' = h /\ phase' = "engine"
            /\ createdAt' = [createdAt EXCEPT ![h] = clock + 1] /\ clock' = clock + 1
        BY <3>2 DEF Accept, Arrive
      <4>2. status'[h] = "PENDING" /\ createdAt'[h] = clock'
        BY <1>1, <2>2, <4>1 DEF TypeOK
      <4>. QED
        BY <4>1, <4>2
    <3>3. CASE \E in : Refuse(h, in) /\ phase' = "publish"
      <4>1. /\ status' = [status EXCEPT ![h] = "REJECTED"] /\ taker' = taker /\ phase' = "publish"
            /\ createdAt' = [createdAt EXCEPT ![h] = clock + 1] /\ clock' = clock + 1
        BY <3>3 DEF Refuse, Arrive
      <4>2. status'[h] = "REJECTED" /\ createdAt'[h] = clock'
        BY <1>1, <2>2, <4>1 DEF TypeOK
      <4>. QED
        BY <2>1, <4>1, <4>2
    <3>4. CASE phase' = "threw" /\ UNCHANGED bookVars
      BY <2>1, <3>4 DEF bookVars
    <3>. QED
      BY <3>1, <3>2, <3>3, <3>4
  <2>7. \A x \in Orders \ {h} : status'[x] = status[x]
    BY <1>1, <2>6 DEF TypeOK
  <2>8. \A i \in DOMAIN pending' : pending'[i].id # h /\ pending'[i].id \in Orders
    BY <1>1, <1>2, <2>2, <2>4 DEF PlaceInv
  <2>9. /\ \A i \in DOMAIN pending' :
              /\ reply'[pending'[i].id] = "waiting"
              /\ status'[pending'[i].id] = "NEW"
              /\ pending'[i].id # current'
        /\ \A i, j \in DOMAIN pending' : pending'[i].id = pending'[j].id => i = j
    <3>1. ASSUME NEW i \in DOMAIN pending'
          PROVE  /\ reply'[pending'[i].id] = "waiting"
                 /\ status'[pending'[i].id] = "NEW"
                 /\ pending'[i].id # current'
      BY <1>1, <2>2, <2>4, <2>7, <2>8 DEF PlaceInv
    <3>2. ASSUME NEW i \in DOMAIN pending', NEW j \in DOMAIN pending', pending'[i].id = pending'[j].id
          PROVE  i = j
      <4>1. i + 1 = j + 1
        BY <1>1, <2>2, <2>4, <3>2 DEF PlaceInv
      <4>. QED
        BY <2>2, <2>4, <4>1
    <3>. QED
      BY <3>1, <3>2
  <2>10. /\ \A x \in Orders : reply'[x] = "none" => status'[x] = "NEW"
         /\ \A x \in Orders : reply'[x] = "resolved" => status'[x] # "NEW"
    BY <1>1, <2>3, <2>4, <2>7 DEF PlaceInv
  <2>. QED
    BY <1>1, <2>2, <2>3, <2>4, <2>5, <2>6, <2>9, <2>10 DEF PlaceInv
<1>5. CASE EngineMatch
  <2>1. /\ phase = "engine" /\ MatchOne /\ UNCHANGED <<createdAt, clock, taker, pending, processing,
                                                        taken, phase, current, reply>>
    BY <1>5 DEF EngineMatch, MatchOne, queueVars
  <2>2. \A x \in Orders : status'[x] = "NEW" <=> status[x] = "NEW"
    BY <1>1, <2>1, NewStays
  <2>3. current \in Orders
    BY <1>1, <2>1 DEF PlaceInv, QueueTypeOK
  <2>. QED
    BY <1>1, <1>2, <2>1, <2>2, <2>3 DEF PlaceInv
<1>6. CASE EngineReturn
  <2>1. /\ phase = "engine" /\ (Rest \/ CancelRemainder \/ Complete)
        /\ UNCHANGED <<pending, processing, taken, current, reply>>
        /\ \/ /\ order[current].type = "MARKET" /\ rem[current] > 0 /\ phase' = "platform"
           \/ phase' = "publish"
    BY <1>6 DEF EngineReturn
  <2>2. \A x \in Orders : status'[x] = "NEW" <=> status[x] = "NEW"
    BY <1>1, <2>1, NewStays
  <2>3. current \in Orders /\ taker = current /\ status[current] = "PENDING"
    BY <1>1, <2>1 DEF PlaceInv, QueueTypeOK, BookInv, TakerIsPending
  <2>4. UNCHANGED <<order, rem, createdAt, clock>> /\ taker' = NoOrder
    BY <2>1 DEF Rest, CancelRemainder, Complete, Return
  <2>5. phase' = "platform" =>
           /\ status'[current] \in {"CANCELLED", "REJECTED"}
           /\ 0 < rem[current] /\ rem[current] <= order[current].qty
    <3>. SUFFICES ASSUME phase' = "platform"
                  PROVE  /\ status'[current] \in {"CANCELLED", "REJECTED"}
                         /\ 0 < rem[current] /\ rem[current] <= order[current].qty
      OBVIOUS
    <3>1. order[current].type = "MARKET" /\ rem[current] > 0
      BY <2>1
    <3>2. CancelRemainder
      BY <1>1, <2>1, <2>3, <3>1 DEF Rest, Complete, TypeOK
    <3>3. rem[current] <= order[current].qty
      BY <1>1, <2>3 DEF FillInv, NeverMoreThanAsked
    <3>. QED
      BY <1>1, <2>3, <3>1, <3>2, <3>3 DEF CancelRemainder, Return, TypeOK
  <2>. QED
    BY <1>1, <1>2, <2>1, <2>2, <2>3, <2>4, <2>5 DEF PlaceInv
<1>7. CASE PlatformSells
  <2>1. /\ UNCHANGED <<status, createdAt, clock, rem, order, taker, pending, processing, taken, current,
                      reply>>
        /\ phase = "platform" /\ phase' = "publish"
    BY <1>7 DEF PlatformSells, bookVars
  <2>. QED
    BY <1>1, <2>1 DEF PlaceInv
<1>8. ASSUME NEW outcome \in {"resolved", "rejected"}, LoopIdle, Settle(outcome),
             phase \in {"threw", "platform", "publish"}, outcome = "resolved" => phase = "publish"
      PROVE  PlaceInv'
  <2>1. /\ UNCHANGED <<status, createdAt, clock, rem, order, taker, pending, taken>>
        /\ reply' = [reply EXCEPT ![current] = outcome]
        /\ processing' = FALSE /\ current' = NoOrder /\ phase' = "idle"
    BY <1>8 DEF Settle, bookVars
  <2>2. current \in Orders /\ taker = NoOrder
    BY <1>1, <1>8 DEF PlaceInv, QueueTypeOK, LoopIdle
  <2>3. /\ \A x \in Orders \ {current} : reply'[x] = reply[x]
        /\ reply'[current] = outcome
    BY <1>1, <2>1, <2>2 DEF QueueTypeOK
  <2>4. outcome = "resolved" => status[current] # "NEW"
    BY <1>1, <1>8 DEF PlaceInv
  <2>5. \A i \in DOMAIN pending : /\ reply'[pending[i].id] = "waiting" /\ status[pending[i].id] = "NEW"
                                   /\ pending[i].id # NoOrder
    BY <1>1, <1>2, <2>3 DEF PlaceInv
  <2>6. /\ \A x \in Orders : reply'[x] = "none" => status[x] = "NEW"
        /\ \A x \in Orders : reply'[x] = "resolved" => status[x] # "NEW"
    BY <1>1, <2>3, <2>4 DEF PlaceInv
  <2>. QED
    BY <1>1, <2>1, <2>2, <2>5, <2>6 DEF PlaceInv
<1>9. CASE Finish
  BY <1>8, <1>9 DEF Finish
<1>10. CASE Fail
  BY <1>8, <1>10 DEF Fail
<1>11. CASE DrainNothing \/ Publish \/ AddJob \/ AddFails \/ UNCHANGED vars
  <2>1. UNCHANGED PlaceVars
    BY <1>11 DEF DrainNothing, Publish, AddJob, AddFails, vars, queueVars, bookVars, PlaceVars
  <2>. QED
    BY <1>1, <2>1 DEF PlaceVars, PlaceInv
<1>. QED
  BY <1>3, <1>4, <1>5, <1>6, <1>7, <1>9, <1>10, <1>11 DEF QueueNext, Drain, ProcessOne

\* Every step keeps somebody coming for the orders that wait.
LEMMA NextWakeup ==
    ASSUME QueueInv, [QueueNext]_vars
    PROVE  NoLostWakeup'
<1>1. QueueTypeOK /\ NoLostWakeup /\ PlaceInv
  BY DEF QueueInv
<1>2. drains \in Nat
  BY <1>1 DEF QueueTypeOK
<1>3. CASE \E o \in FreshIds, in \in Inputs \union Malformed : Submit(o, in)
  BY <1>2, <1>3 DEF Submit, NoLostWakeup
<1>4. CASE Drain
  BY <1>1, <1>2, <1>4 DEF Drain, DrainNothing, DrainNext, CanTake, NoLostWakeup
<1>5. CASE Finish \/ Fail
  BY <1>1, <1>2, <1>5 DEF Finish, Fail, Settle, DrainsAfter, NoLostWakeup
<1>6. CASE EngineMatch \/ EngineReturn \/ PlatformSells \/ Publish \/ AddJob \/ AddFails \/ UNCHANGED vars
  <2>1. UNCHANGED <<pending, drains, processing>>
    BY <1>6 DEF EngineMatch, EngineReturn, PlatformSells, Publish, AddJob, AddFails, vars, queueVars
  <2>. QED
    BY <1>1, <2>1 DEF NoLostWakeup
<1>. QED
  BY <1>3, <1>4, <1>5, <1>6 DEF QueueNext, ProcessOne

----------------------------------------------------------------------------
(* What has been announced. *)

\* An order that has arrived keeps its place in the order of arrival.
LEMMA ArrivedStays ==
    ASSUME BookInv, TakerInv, [BookNext]_bookVars, NEW o \in Orders, status[o] # "NEW"
    PROVE  createdAt'[o] = createdAt[o] /\ status'[o] # "NEW"
<1>1. CASE o # taker
  BY <1>1, Bystander
<1>2. CASE o = taker
  <2>1. taker # NoOrder
    BY <1>2, NoOrderAssumption
  <2>2. Run \/ UNCHANGED bookVars
    BY <2>1 DEF BookNext, Call, Refuse, Accept, Arrive
  <2>3. CASE Run
    <3>1. createdAt' = createdAt
      BY <2>3 DEF Run, MatchOne, Rest, CancelRemainder, Complete, Return
    <3>. QED
      BY <2>3, <3>1, NewStays DEF Run
  <2>4. CASE UNCHANGED bookVars
    BY <2>4 DEF bookVars
  <2>. QED
    BY <2>2, <2>3, <2>4
<1>. QED
  BY <1>1, <1>2

\* An order whose caller was told it went through is past everything but a
\* further fill as a maker.
LEMMA ResolvedKept ==
    ASSUME QueueInv, [QueueNext]_vars, NEW o \in Orders, reply[o] = "resolved"
    PROVE  /\ reply'[o] = "resolved" /\ o # taker /\ o # current
           /\ order'[o] = order[o] /\ status'[o] # "NEW" /\ rem'[o] <= rem[o]
           /\ status[o] \in TerminalStatus => status'[o] = status[o] /\ rem'[o] = rem[o]
           /\ platformFilled'[o] = platformFilled[o]
           /\ ResultTrades(o, platformFilled[o])' = ResultTrades(o, platformFilled[o])
<1>1. QueueTypeOK /\ PlaceInv /\ BookInv /\ TakerInv /\ NoOrder \notin Orders
  BY NoOrderAssumption DEF QueueInv
<1>2. o # current /\ o # taker /\ status[o] # "NEW"
  BY <1>1 DEF PlaceInv
<1>3. reply'[o] = "resolved"
  <2>1. CASE \E x \in FreshIds, in \in Inputs \union Malformed : Submit(x, in)
    <3>1. PICK x \in FreshIds : reply[x] = "none" /\ reply' = [reply EXCEPT ![x] = "waiting"]
      BY <2>1 DEF Submit
    <3>. QED
      BY <1>1, <3>1 DEF QueueTypeOK
  <2>2. CASE Finish \/ Fail
    <3>1. PICK x : reply' = [reply EXCEPT ![current] = x]
      BY <2>2 DEF Finish, Fail, Settle
    <3>. QED
      BY <1>1, <1>2, <3>1 DEF QueueTypeOK
  <2>3. CASE Drain \/ EngineMatch \/ EngineReturn \/ PlatformSells \/ Publish \/ AddJob \/ AddFails
             \/ UNCHANGED vars
    BY <2>3 DEF Drain, DrainNothing, DrainNext, EngineMatch, EngineReturn, PlatformSells, Publish,
                AddJob, AddFails, vars, queueVars
  <2>. QED
    BY <2>1, <2>2, <2>3 DEF QueueNext, ProcessOne
<1>4. platformFilled'[o] = platformFilled[o]
  <2>1. CASE PlatformSells
    BY <1>1, <1>2, <2>1 DEF PlatformSells, QueueTypeOK
  <2>2. CASE ~PlatformSells
    BY <2>2 DEF QueueNext, Submit, Drain, DrainNothing, DrainNext, ProcessOne, EngineMatch, EngineReturn,
                Publish, Finish, Fail, Settle, AddJob, AddFails, vars
  <2>. QED
    BY <2>1, <2>2
<1>5. [BookNext]_bookVars
  BY <1>1, QueueStepsTheBook
<1>6. /\ order'[o] = order[o] /\ status'[o] # "NEW" /\ rem'[o] <= rem[o]
      /\ status[o] \in TerminalStatus => status'[o] = status[o] /\ rem'[o] = rem[o]
      /\ BookTrades(o)' = BookTrades(o)
  BY <1>1, <1>2, <1>5, Bystander
<1>7. ResultTrades(o, platformFilled[o])' = ResultTrades(o, platformFilled[o])
  BY <1>4, <1>6, ResultKept
<1>. QED
  BY <1>2, <1>3, <1>4, <1>6, <1>7

\* One message more.
LEMMA SentAppend ==
    ASSUME NEW m \in Message, published \in Seq(Message), published' = Append(published, m), NEW o
    PROVE  /\ m.order # o => SentOf(o)' = SentOf(o)
           /\ m.order = o => Cardinality(SentOf(o)') = Cardinality(SentOf(o)) + 1
           /\ Cardinality(SentOf(o)) \in Nat
<1>. DEFINE n == Len(published)
<1>1. /\ n \in Nat /\ DOMAIN published = 1..n /\ DOMAIN published' = 1..n \union {n + 1}
      /\ \A i \in 1..n : published'[i] = published[i]
      /\ published'[n + 1] = m
  OBVIOUS
<1>. HIDE DEF n
<1>2. IsFiniteSet(SentOf(o)) /\ n + 1 \notin SentOf(o)
  <2>1. SentOf(o) \in SUBSET (1..n) /\ n + 1 \notin 1..n
    BY <1>1 DEF SentOf
  <2>2. IsFiniteSet(1..n)
    BY <1>1, FS_Interval
  <2>. QED
    BY <2>1, <2>2, FS_Subset
<1>3. m.order # o => SentOf(o)' = SentOf(o)
  BY <1>1 DEF SentOf
<1>4. m.order = o => SentOf(o)' = SentOf(o) \union {n + 1}
  BY <1>1 DEF SentOf
<1>5. Cardinality(SentOf(o) \union {n + 1}) = Cardinality(SentOf(o)) + 1
  BY <1>2, FS_AddElement
<1>6. Cardinality(SentOf(o)) \in Nat
  BY <1>2, FS_CardinalityType
<1>. QED
  BY <1>3, <1>4, <1>5, <1>6

\* Every step keeps what has been announced, and what is to be, in order.
LEMMA NextAnnounce ==
    ASSUME QueueInv, [QueueNext]_vars
    PROVE  AnnounceInv'
<1>1. /\ QueueTypeOK /\ TypeOK /\ PlaceInv /\ BookInv /\ FillInv /\ TakerInv /\ AnnounceInv
      /\ QueueTypeOK' /\ TypeOK' /\ TakerInv' /\ NoOrder \notin Orders
      /\ [BookNext]_bookVars
  BY NextTypes, NextBook, QueueStepsTheBook, NoOrderAssumption DEF QueueInv, BookInv
<1>2. /\ published \in Seq(Message) /\ \A i \in DOMAIN published : published[i].order \in Orders
      /\ platformFilled \in [Orders -> Nat] /\ toPublish \in Seq(Message)
  <2>1. published \in Seq(Message) /\ platformFilled \in [Orders -> Nat] /\ toPublish \in Seq(Message)
    BY <1>1 DEF QueueTypeOK
  <2>2. \A m \in Message : m.order \in Orders
    BY DEF Message
  <2>3. \A i \in DOMAIN published : published[i] \in Message
    BY <2>1
  <2>. QED
    BY <2>1, <2>2, <2>3
<1>3. \A i \in DOMAIN published :
          /\ createdAt'[published[i].order] = createdAt[published[i].order]
          /\ status'[published[i].order] # "NEW"
  BY <1>1, <1>2, ArrivedStays DEF AnnounceInv
<1>4. \A o \in Orders : reply[o] = "resolved" =>
          Cardinality(SentOf(o)) = 2 + Len(ResultTrades(o, platformFilled[o])')
  BY <1>1, ResolvedKept DEF AnnounceInv
<1>5. ASSUME published' = published
      PROVE  /\ PublishedInOrder' /\ \A i \in DOMAIN published' : status'[published'[i].order] # "NEW"
             /\ \A o : SentOf(o)' = SentOf(o)
  BY <1>1, <1>3, <1>5 DEF AnnounceInv, PublishedInOrder, SentOf
\* processOne has a result and starts to publish it.
<1>6. ASSUME NEW h \in Orders, NEW ts \in Seq(JobTrade), SentOf(h) = {}, reply[h] = "waiting",
             ts = ResultTrades(h, platformFilled[h])', toPublish' = Messages(h, ts),
             current' = h, phase' = "publish", published' = published, reply' = reply,
             \A o \in Orders \ {h} : platformFilled'[o] = platformFilled[o],
             \A o \in Orders \ {h} : Untold(o)' => Untold(o)
      PROVE  AnnounceInv'
  <2>1. /\ Len(Messages(h, ts)) = 2 + Len(ts)
        /\ \A i \in DOMAIN Messages(h, ts) :
              /\ Messages(h, ts)[i].order = h
              /\ Messages(h, ts)[i].kind = "BOOK" => i = 1
    BY MessagesOf
  <2>2. /\ Cardinality(SentOf(h)) = 0
        /\ Len(ts) \in Nat
    BY <1>6, FS_EmptySet
  <2>3. \A o \in Orders : Untold(o)' => platformFilled'[o] = 0 /\ SentOf(o)' = {}
    <3>1. ~Untold(h)'
      BY <1>6 DEF Untold
    <3>. QED
      BY <1>1, <1>5, <1>6, <3>1 DEF AnnounceInv
  <2>4. \A o \in Orders : reply'[o] = "resolved" =>
            Cardinality(SentOf(o)') = 2 + Len(ResultTrades(o, platformFilled[o])')
    BY <1>4, <1>5, <1>6
  <2>5. Cardinality(SentOf(h)') + Len(toPublish') = 2 + Len(ResultTrades(h, platformFilled[h])')
    <3>1. SentOf(h)' = SentOf(h)
      BY <1>5, <1>6
    <3>2. Cardinality(SentOf(h)') = 0
      BY <2>2, <3>1
    <3>3. Len(toPublish') = 2 + Len(ts)
      BY <1>6, <2>1
    <3>4. Len(ResultTrades(h, platformFilled[h])') = Len(ts)
      BY <1>6
    <3>. QED
      BY <2>2, <3>2, <3>3, <3>4
  <2>6. \A i \in DOMAIN toPublish' :
           /\ toPublish'[i].order = h
           /\ toPublish'[i].kind = "BOOK" => i = 1 /\ SentOf(h)' = {}
    BY <1>5, <1>6, <2>1
  <2>. QED
    BY <1>5, <1>6, <2>3, <2>4, <2>5, <2>6 DEF AnnounceInv
\* processOne has nothing to publish, not yet or no longer.
<1>7. ASSUME published' = published, toPublish' = << >>, phase' # "publish",
             platformFilled' = platformFilled,
             \A o \in Orders : reply'[o] = "resolved" =>
                 \/ reply[o] = "resolved"
                 \/ o = current /\ phase = "publish" /\ toPublish = << >> /\ UNCHANGED bookVars,
             \A o \in Orders : Untold(o)' => Untold(o)
      PROVE  AnnounceInv'
  <2>1. \A o \in Orders : Untold(o)' => platformFilled'[o] = 0 /\ SentOf(o)' = {}
    BY <1>1, <1>5, <1>7 DEF AnnounceInv
  <2>2. ASSUME NEW o \in Orders, reply'[o] = "resolved"
        PROVE  Cardinality(SentOf(o)') = 2 + Len(ResultTrades(o, platformFilled[o])')
    <3>1. CASE reply[o] = "resolved"
      BY <1>4, <1>5, <1>7, <3>1
    <3>2. CASE o = current /\ phase = "publish" /\ toPublish = << >> /\ UNCHANGED bookVars
      <4>1. ResultTrades(o, platformFilled[o])' = ResultTrades(o, platformFilled[o])
        BY <1>7, <3>2, ResultKept DEF bookVars, BookTrades
      <4>2. Cardinality(SentOf(o)) + 0 = 2 + Len(ResultTrades(o, platformFilled[o]))
        BY <1>1, <3>2 DEF AnnounceInv
      <4>3. Cardinality(SentOf(o)) \in Nat
        <5>1. SentOf(o) \in SUBSET (1..Len(published)) /\ Len(published) \in Nat
          BY <1>2 DEF SentOf
        <5>2. IsFiniteSet(1..Len(published))
          BY <5>1, FS_Interval
        <5>. QED
          BY <5>1, <5>2, FS_Subset, FS_CardinalityType
      <4>. QED
        BY <1>5, <1>7, <4>1, <4>2, <4>3
    <3>. QED
      BY <1>7, <2>2, <3>1, <3>2
  <2>. QED
    BY <1>5, <1>7, <2>1, <2>2 DEF AnnounceInv
\* The submission, the timers and the job's way leave it alone.
<1>8. ASSUME UNCHANGED <<published, toPublish, phase, current, platformFilled>>, UNCHANGED bookVars,
             \A o \in Orders : reply'[o] = "resolved" => reply[o] = "resolved",
             \A o \in Orders : Untold(o)' => Untold(o)
      PROVE  AnnounceInv'
  <2>1. \A o : ResultTrades(o, platformFilled[o])' = ResultTrades(o, platformFilled[o])
    BY <1>8, ResultKept DEF bookVars, BookTrades
  <2>2. \A o \in Orders : Untold(o)' => platformFilled'[o] = 0 /\ SentOf(o)' = {}
    BY <1>1, <1>5, <1>8 DEF AnnounceInv
  <2>3. \A o \in Orders : reply'[o] = "resolved" =>
            Cardinality(SentOf(o)') = 2 + Len(ResultTrades(o, platformFilled[o])')
    BY <1>4, <1>5, <1>8
  <2>. QED
    BY <1>1, <1>5, <1>8, <2>1, <2>2, <2>3 DEF AnnounceInv
<1>9. ASSUME NEW o \in FreshIds, NEW in \in Inputs \union Malformed, Submit(o, in)
      PROVE  AnnounceInv'
  <2>1. /\ UNCHANGED <<published, toPublish, phase, current, platformFilled>> /\ UNCHANGED bookVars
        /\ reply[o] = "none" /\ reply' = [reply EXCEPT ![o] = "waiting"] /\ o \in Orders
    BY <1>9 DEF Submit, FreshIds
  <2>2. \A x \in Orders : reply'[x] = reply[x] \/ (reply[x] = "none" /\ reply'[x] = "waiting")
    <3>1. reply \in [Orders -> Reply]
      BY <1>1 DEF QueueTypeOK
    <3>2. reply' = [reply EXCEPT ![o] = "waiting"] /\ reply[o] = "none"
      BY <2>1
    <3>. QED
      BY <3>1, <3>2
  <2>3. \A x \in Orders : Untold(x)' => Untold(x)
    BY <2>1, <2>2 DEF Untold
  <2>. QED
    BY <1>8, <2>1, <2>2, <2>3
<1>10. CASE DrainNothing \/ AddJob \/ AddFails \/ UNCHANGED vars
  <2>1. UNCHANGED <<published, toPublish, phase, current, platformFilled, reply>> /\ UNCHANGED bookVars
    BY <1>10 DEF DrainNothing, AddJob, AddFails, vars, queueVars
  <2>2. \A x \in Orders : Untold(x)' => Untold(x)
    BY <2>1 DEF Untold
  <2>. QED
    BY <1>8, <2>1, <2>2
<1>11. CASE DrainNext
  <2>1. pending # << >> /\ ~processing
    BY <1>11 DEF DrainNext, CanTake
  <2>2. PICK h \in Orders : h = Head(pending).id /\ h = pending[1].id /\ 1 \in DOMAIN pending
    BY <1>1, <2>1, HeadOfLine
  <2>3. /\ reply[h] = "waiting" /\ status[h] = "NEW" /\ phase = "idle" /\ toPublish = << >>
    BY <1>1, <2>1, <2>2 DEF PlaceInv, AnnounceInv
  <2>4. Untold(h) /\ SentOf(h) = {} /\ platformFilled[h] = 0
    BY <1>1, <2>2, <2>3 DEF Untold, AnnounceInv
  <2>5. UNCHANGED <<reply, published, platformFilled>> /\ current' = h
    BY <1>11, <2>2 DEF DrainNext
  <2>6. \A o \in Orders : Untold(o)' => Untold(o)
    BY <2>3, <2>5 DEF Untold
  <2>7. \/ phase' \in {"engine", "threw"} /\ toPublish' = toPublish
        \/ phase' = "publish" /\ toPublish' = Messages(h, << >>) /\ Refuse(h, Head(pending).in)
    BY <1>11, <2>2 DEF DrainNext
  <2>8. CASE phase' \in {"engine", "threw"} /\ toPublish' = toPublish
    BY <1>7, <2>3, <2>5, <2>6, <2>8
  <2>9. CASE phase' = "publish" /\ toPublish' = Messages(h, << >>) /\ Refuse(h, Head(pending).in)
    <3>1. trades' = trades
      BY <2>9 DEF Refuse, Arrive
    <3>2. \A i \in 1..Len(trades') : trades'[i].taker # h
      BY <1>1, <2>3, <3>1, TradeParties DEF FillInv, TradedStatuses
    <3>3. {i \in DOMAIN trades' : trades'[i].taker = h} = {}
      <4>1. DOMAIN trades' = 1..Len(trades')
        BY <1>1, <3>1, TradeParties
      <4>. QED
        BY <3>2, <4>1
    <3>4. BookTrades(h)' = << >>
      BY <3>3 DEF BookTrades
    <3>5. platformFilled'[h] = 0
      BY <2>4, <2>5
    <3>6. ResultTrades(h, platformFilled[h])' = << >>
      BY <3>4, <3>5 DEF ResultTrades
    <3>7. << >> \in Seq(JobTrade)
      OBVIOUS
    <3>. QED
      BY <1>6, <2>2, <2>3, <2>4, <2>5, <2>6, <2>9, <3>6, <3>7
  <2>. QED
    BY <2>7, <2>8, <2>9
<1>12. CASE EngineMatch \/ EngineReturn
  <2>1. /\ phase = "engine" /\ UNCHANGED <<reply, published, platformFilled, current>>
    BY <1>12 DEF EngineMatch, EngineReturn, queueVars
  <2>2. current \in Orders /\ toPublish = << >> /\ reply[current] = "waiting"
    BY <1>1, <2>1 DEF PlaceInv, AnnounceInv, QueueTypeOK
  <2>3. Untold(current) /\ SentOf(current) = {} /\ platformFilled[current] = 0
    BY <1>1, <2>1, <2>2 DEF Untold, AnnounceInv
  <2>4. \A o \in Orders : Untold(o)' => Untold(o)
    BY <2>1 DEF Untold
  <2>5. \/ phase' \in {"engine", "platform"} /\ toPublish' = toPublish
        \/ phase' = "publish" /\ toPublish' = Messages(current, BookTrades(current)) /\ trades' = trades
    BY <1>12, <2>1 DEF EngineMatch, EngineReturn, queueVars, Rest, CancelRemainder, Complete, Return
  <2>6. CASE phase' \in {"engine", "platform"} /\ toPublish' = toPublish
    BY <1>7, <2>1, <2>2, <2>4, <2>6
  <2>7. CASE phase' = "publish" /\ toPublish' = Messages(current, BookTrades(current)) /\ trades' = trades
    <3>1. PICK h \in Orders, ts \in Seq(JobTrade) : h = current /\ ts = BookTrades(current)
      BY <1>1, <2>2, ResultType
    <3>2. BookTrades(h)' = ts
      BY <2>7, <3>1 DEF BookTrades
    <3>3. platformFilled'[h] = 0
      BY <2>1, <2>3, <3>1
    <3>4. ResultTrades(h, platformFilled[h])' = ts
      BY <3>1, <3>2, <3>3, ConcatProperties DEF ResultTrades
    <3>5. /\ SentOf(h) = {} /\ reply[h] = "waiting" /\ toPublish' = Messages(h, ts) /\ current' = h
      BY <2>1, <2>2, <2>3, <2>7, <3>1
    <3>. QED
      BY <1>6, <2>1, <2>4, <2>7, <3>1, <3>4, <3>5
  <2>. QED
    BY <2>5, <2>6, <2>7
<1>13. CASE PlatformSells
  <2>. DEFINE qty == PlatformQty(current, platformLong)
  <2>1. /\ phase = "platform" /\ phase' = "publish" /\ UNCHANGED <<reply, published, current>>
        /\ UNCHANGED bookVars
        /\ platformFilled' = [platformFilled EXCEPT ![current] = qty]
        /\ toPublish' = Messages(current, ResultTrades(current, qty))
    BY <1>13 DEF PlatformSells
  <2>2. current \in Orders /\ reply[current] = "waiting"
    BY <1>1, <2>1 DEF PlaceInv, QueueTypeOK
  <2>3. Untold(current) /\ SentOf(current) = {}
    BY <1>1, <2>1, <2>2 DEF Untold, AnnounceInv
  <2>4. \A o \in Orders : Untold(o)' => Untold(o)
    BY <2>1 DEF Untold
  <2>5. qty \in Nat
    BY <1>1, <2>2 DEF PlatformQty, QueueTypeOK, TypeOK
  <2>. HIDE DEF qty
  <2>6. ResultTrades(current, qty) \in Seq(JobTrade)
    BY <1>1, <2>2, <2>5, ResultType
  <2>7. platformFilled'[current] = qty /\ \A o \in Orders \ {current} : platformFilled'[o] = platformFilled[o]
    BY <1>2, <2>1, <2>2
  <2>8. ASSUME NEW h, h = current
        PROVE  ResultTrades(h, platformFilled[h])' = ResultTrades(h, qty)
    <3>1. BookTrades(h)' = BookTrades(h) /\ platformFilled'[h] = qty
      BY <2>1, <2>7, <2>8 DEF bookVars, BookTrades
    <3>. QED
      BY <3>1 DEF ResultTrades, PlatformTrade, PlatformPrice
  <2>. QED
    BY <1>6, <2>1, <2>2, <2>3, <2>4, <2>6, <2>7, <2>8
<1>14. CASE Publish
  <2>. DEFINE m == Head(toPublish)
  <2>1. /\ phase = "publish" /\ toPublish # << >> /\ UNCHANGED bookVars
        /\ UNCHANGED <<phase, current, reply, platformFilled>>
        /\ published' = Append(published, m) /\ toPublish' = Tail(toPublish)
    BY <1>14 DEF Publish
  <2>2. /\ m \in Message /\ m = toPublish[1] /\ 1 \in DOMAIN toPublish
        /\ toPublish' \in Seq(Message) /\ Len(toPublish') = Len(toPublish) - 1 /\ Len(toPublish) \in Nat
        /\ \A i \in DOMAIN toPublish' : toPublish'[i] = toPublish[i + 1] /\ i + 1 # 1
                                        /\ i + 1 \in DOMAIN toPublish
    BY <1>2, <2>1, HeadTailProperties
  <2>. HIDE DEF m
  <2>3. current \in Orders /\ m.order = current /\ (m.kind = "BOOK" => SentOf(current) = {})
    BY <1>1, <2>1, <2>2 DEF AnnounceInv, PlaceInv, QueueTypeOK
  <2>4. /\ \A o : o # current => SentOf(o)' = SentOf(o)
        /\ Cardinality(SentOf(current)') = Cardinality(SentOf(current)) + 1
        /\ Cardinality(SentOf(current)) \in Nat
    <3>1. \A o : o # current => SentOf(o)' = SentOf(o)
      BY <1>2, <2>1, <2>2, <2>3, SentAppend
    <3>2. ASSUME NEW o, o = current
          PROVE  Cardinality(SentOf(o)') = Cardinality(SentOf(o)) + 1 /\ Cardinality(SentOf(o)) \in Nat
      BY <1>2, <2>1, <2>2, <2>3, <3>2, SentAppend
    <3>3. SentOf(current)' = {i \in DOMAIN published' : published'[i].order = current}
      BY <2>1 DEF SentOf
    <3>. QED
      BY <2>1, <3>1, <3>2
  <2>5. /\ DOMAIN published' = DOMAIN published \union {Len(published) + 1}
        /\ \A i \in DOMAIN published : published'[i] = published[i] /\ i < Len(published) + 1
        /\ published'[Len(published) + 1] = m
    BY <1>2, <2>1, <2>2
  <2>6. \A i \in DOMAIN published : createdAt[published[i].order] <= createdAt[current]
    BY <1>1, <1>2, <2>1 DEF PlaceInv, TakerInv
  <2>7. PublishedInOrder'
    <3>1. ASSUME NEW i \in DOMAIN published', NEW j \in DOMAIN published', i < j
          PROVE  /\ createdAt[published'[i].order] <= createdAt[published'[j].order]
                 /\ published'[j].kind = "BOOK" => published'[i].order # published'[j].order
      <4>1. i \in DOMAIN published
        BY <1>2, <2>5, <3>1
      <4>2. CASE j \in DOMAIN published
        BY <1>1, <2>5, <3>1, <4>1, <4>2 DEF AnnounceInv, PublishedInOrder
      <4>3. CASE j = Len(published) + 1
        <5>1. published'[j] = m /\ published'[i] = published[i]
          BY <2>5, <4>1, <4>3
        <5>2. m.kind = "BOOK" => published[i].order # current
          BY <2>3, <4>1 DEF SentOf
        <5>. QED
          BY <2>3, <2>6, <4>1, <5>1, <5>2
      <4>. QED
        BY <2>5, <4>2, <4>3
    <3>. QED
      BY <2>1, <3>1 DEF PublishedInOrder, bookVars
  <2>8. \A i \in DOMAIN published' : status'[published'[i].order] # "NEW"
    BY <1>1, <1>3, <2>1, <2>3, <2>5 DEF PlaceInv, bookVars
  <2>9. \A o : ResultTrades(o, platformFilled[o])' = ResultTrades(o, platformFilled[o])
    BY <2>1, ResultKept DEF bookVars, BookTrades
  <2>10. \A o \in Orders : reply'[o] = "resolved" =>
            Cardinality(SentOf(o)') = 2 + Len(ResultTrades(o, platformFilled[o])')
    <3>1. reply[current] = "waiting"
      BY <1>1, <2>1 DEF PlaceInv
    <3>. QED
      BY <1>4, <2>1, <2>4, <3>1
  <2>11. \A o \in Orders : Untold(o)' => platformFilled'[o] = 0 /\ SentOf(o)' = {}
    BY <1>1, <2>1, <2>4 DEF AnnounceInv, Untold
  <2>12. \A i \in DOMAIN toPublish' : toPublish'[i].order = current /\ toPublish'[i].kind # "BOOK"
    BY <1>1, <2>2 DEF AnnounceInv
  <2>13. Cardinality(SentOf(current)') + Len(toPublish')
             = 2 + Len(ResultTrades(current, platformFilled[current]))
    BY <1>1, <2>1, <2>2, <2>4 DEF AnnounceInv
  <2>14. ASSUME NEW h, h = current
         PROVE  ResultTrades(h, platformFilled[h])' = ResultTrades(h, platformFilled[h])
    BY <2>9
  <2>. QED
    BY <2>1, <2>7, <2>8, <2>9, <2>10, <2>11, <2>12, <2>13, <2>14 DEF AnnounceInv
<1>15. CASE Finish \/ Fail
  <2>1. PICK outcome \in {"resolved", "rejected"} :
            /\ reply' = [reply EXCEPT ![current] = outcome]
            /\ outcome = "resolved" => phase = "publish" /\ toPublish = << >>
            /\ toPublish' = << >> /\ phase' = "idle" /\ current' = NoOrder
            /\ UNCHANGED bookVars /\ UNCHANGED <<published, platformFilled>>
            /\ phase \in {"threw", "platform", "publish"}
    BY <1>15 DEF Finish, Fail, Settle
  <2>2. current \in Orders
    BY <1>1, <2>1 DEF PlaceInv, QueueTypeOK
  <2>3. reply'[current] = outcome /\ \A x \in Orders \ {current} : reply'[x] = reply[x]
    BY <1>1, <2>1, <2>2 DEF QueueTypeOK
  <2>4. \A x \in Orders : Untold(x)' => Untold(x)
    BY <2>1, <2>3 DEF Untold
  <2>. QED
    BY <1>7, <2>1, <2>2, <2>3, <2>4
<1>. QED
  BY <1>9, <1>10, <1>11, <1>12, <1>13, <1>14, <1>15 DEF QueueNext, Drain, ProcessOne

----------------------------------------------------------------------------
(* What a job says. *)

\* What the platform gave an order is part of what the book left of it.
FillFits(o) == platformFilled[o] > 0 =>
                   /\ platformFilled[o] <= rem[o] /\ rem[o] <= order[o].qty
                   /\ status[o] \in {"CANCELLED", "REJECTED"}

\* The job of an order that has been processed is consistent.
LEMMA JobSaysWhatHappened ==
    ASSUME TypeOK, BookInv, FillInv, TakerInv, NEW o \in Orders, status[o] # "NEW", o # taker,
           platformFilled \in [Orders -> Nat], FillFits(o)
    PROVE  /\ Consistent(Job(o))
           /\ Job(o).status = "FILLED" => status[o] \in TerminalStatus
           /\ Job(o).order = o
           /\ Job(o).status \in Status
<1>. DEFINE f == platformFilled[o]
            b == Sold(BookTrades(o))
            ts == ResultTrades(o, f)
<1>1. f \in Nat /\ rem[o] \in Nat /\ order[o].qty \in Int /\ b \in Nat
  <2>1. \A t \in JobTrade : t.qty \in Nat
    BY DEF JobTrade
  <2>2. b \in Nat
    BY <2>1, ResultType, SoldIsNat, Zenon
  <2>. QED
    BY <2>2 DEF TypeOK, OrderInput
<1>2. status[o] \in RestingStatus \union TerminalStatus
  <2>1. status[o] # "PENDING"
    BY DEF BookInv, TakerIsPending
  <2>. QED
    BY <2>1 DEF TypeOK, Status
<1>3. Sold(ts) = b + f
  <2>1. \A t \in JobTrade : t.qty \in Nat
    BY DEF JobTrade
  <2>2. CASE f > 0
    <3>. DEFINE e == PlatformTrade(o, f)
    <3>1. ts = Append(BookTrades(o), e) /\ e.qty = f /\ e \in JobTrade /\ BookTrades(o) \in Seq(JobTrade)
      BY <1>1, <2>2, ResultType
    <3>. HIDE DEF e, ts
    <3>2. Sold(Append(BookTrades(o), e)) = Sold(BookTrades(o)) + e.qty
      BY <2>1, <3>1, SoldAppend, Zenon
    <3>. QED
      BY <3>1, <3>2
  <2>3. CASE ~(f > 0)
    <3>1. ts = BookTrades(o)
      BY <1>1, <2>3, ResultType
    <3>. QED
      BY <1>1, <2>3, <3>1
  <2>. QED
    BY <2>2, <2>3
<1>4. status[o] = "REJECTED" => b = 0
  <2>. SUFFICES ASSUME status[o] = "REJECTED" PROVE b = 0
    OBVIOUS
  <2>1. \A i \in 1..Len(trades) : trades[i].taker # o
    BY TradeParties DEF FillInv, StatusMeaning
  <2>2. BookTrades(o) = << >>
    BY <2>1, NoBookTrades
  <2>. QED
    BY <2>2, SoldNothing
<1>5. status[o] # "REJECTED" => b <= order[o].qty - rem[o]
  BY DEF TakerInv
<1>6. /\ status[o] = "LIVE" => rem[o] = order[o].qty
      /\ status[o] = "PARTIALLY_FILLED" => 0 < rem[o] /\ rem[o] < order[o].qty
      /\ status[o] = "FILLED" => rem[o] = 0
      /\ status[o] = "CANCELLED" => rem[o] > 0
  BY DEF FillInv, StatusMeaning
<1>7. /\ Job(o).trades = ts /\ Job(o).order = o
      /\ f = 0 => Job(o).status = status[o]
      /\ f > 0 => Job(o).status = IF rem[o] - f <= 0 THEN "FILLED" ELSE "PARTIALLY_FILLED"
  BY <1>1 DEF Job, ResultStatus
<1>8. f > 0 => f <= rem[o] /\ rem[o] <= order[o].qty /\ status[o] \in {"CANCELLED", "REJECTED"}
  BY DEF FillFits
<1>. HIDE DEF f, b, ts
<1>9. CASE f = 0
  <2>1. Job(o).status = status[o] /\ Sold(Job(o).trades) = b
    BY <1>1, <1>3, <1>7, <1>9
  <2>2. /\ b = order[o].qty /\ b > 0 => status[o] = "FILLED"
        /\ status[o] \in {"REJECTED", "LIVE"} => b = 0
        /\ status[o] = "PARTIALLY_FILLED" => b < order[o].qty
    BY <1>1, <1>2, <1>4, <1>5, <1>6 DEF RestingStatus, TerminalStatus
  <2>3. rem[o] - f = rem[o]
    BY <1>1, <1>9
  <2>. QED
    BY <1>1, <1>2, <1>6, <1>7, <2>1, <2>2, <2>3
       DEF Consistent, Status, TerminalStatus, RestingStatus, f
<1>10. CASE f > 0
  <2>1. Sold(Job(o).trades) = b + f
    BY <1>3, <1>7
  <2>2. /\ b + f = order[o].qty => rem[o] - f <= 0
        /\ rem[o] - f <= 0 => rem[o] - f = 0
        /\ ~(rem[o] - f <= 0) => b + f < order[o].qty /\ rem[o] - f < order[o].qty
    BY <1>1, <1>4, <1>5, <1>8, <1>10
  <2>3. \/ Job(o).status = "FILLED" /\ rem[o] - f = 0
        \/ Job(o).status = "PARTIALLY_FILLED" /\ b + f < order[o].qty /\ rem[o] - f < order[o].qty
    BY <1>7, <1>10, <2>2
  <2>4. b + f = order[o].qty => Job(o).status = "FILLED"
    BY <1>7, <1>10, <2>2
  <2>5. Consistent(Job(o))
    BY <1>7, <2>1, <2>3, <2>4 DEF Consistent, f
  <2>. QED
    BY <1>7, <1>8, <1>10, <2>3, <2>5 DEF Status, TerminalStatus, RestingStatus
<1>. QED
  BY <1>1, <1>9, <1>10

\* It stays so, since only a maker's fill can still change the order.
LEMMA JobStaysTrue ==
    ASSUME QueueInv, [QueueNext]_vars, NEW j, j.order \in Orders, reply[j.order] = "resolved",
           Consistent(j), j.status = "FILLED" => status[j.order] \in TerminalStatus
    PROVE  /\ Consistent(j)'
           /\ j.status = "FILLED" => status'[j.order] \in TerminalStatus
<1>. DEFINE o == j.order
<1>1. /\ order'[o] = order[o] /\ rem'[o] <= rem[o] /\ platformFilled'[o] = platformFilled[o]
      /\ status[o] \in TerminalStatus => status'[o] = status[o] /\ rem'[o] = rem[o]
  BY ResolvedKept
<1>2. TypeOK /\ TypeOK' /\ platformFilled \in [Orders -> Nat]
  BY NextBook DEF QueueInv, BookInv, QueueTypeOK
<1>3. rem[o] \in Nat /\ rem'[o] \in Nat /\ platformFilled[o] \in Nat /\ order[o].qty \in Int
  BY <1>2 DEF TypeOK, OrderInput
<1>. QED
  BY <1>1, <1>3 DEF Consistent

\* What the platform gave fits into what the book left, whatever comes after.
LEMMA NextFits ==
    ASSUME QueueInv, [QueueNext]_vars, NEW o \in Orders
    PROVE  FillFits(o)'
<1>1. /\ QueueTypeOK /\ TypeOK /\ PlaceInv /\ BookInv /\ FillInv /\ TakerInv /\ FillFits(o)
      /\ [BookNext]_bookVars
  BY QueueStepsTheBook DEF QueueInv, BookInv, JobInv, FillFits
<1>2. CASE PlatformSells /\ o = current
  <2>1. /\ phase = "platform" /\ UNCHANGED <<rem, order, status>>
        /\ platformFilled' = [platformFilled EXCEPT ![current] = PlatformQty(current, platformLong)]
    BY <1>2 DEF PlatformSells, bookVars
  <2>2. platformFilled \in [Orders -> Nat] /\ platformLong \in Nat /\ rem[o] \in Nat
    BY <1>1 DEF QueueTypeOK, TypeOK
  <2>3. platformFilled'[o] = PlatformQty(o, platformLong)
    BY <1>2, <2>1, <2>2
  <2>4. platformFilled'[o] <= rem[o]
    BY <2>2, <2>3 DEF PlatformQty
  <2>5. rem[o] <= order[o].qty /\ status[o] \in {"CANCELLED", "REJECTED"}
    BY <1>1, <1>2, <2>1 DEF PlaceInv
  <2>. QED
    BY <2>1, <2>4, <2>5 DEF FillFits
<1>3. CASE ~(PlatformSells /\ o = current)
  <2>1. platformFilled'[o] = platformFilled[o]
    <3>1. platformFilled \in [Orders -> Nat]
      BY <1>1 DEF QueueTypeOK
    <3>2. CASE PlatformSells
      BY <1>3, <3>1, <3>2 DEF PlatformSells
    <3>3. CASE ~PlatformSells
      BY <3>3 DEF QueueNext, Submit, Drain, DrainNothing, DrainNext, ProcessOne, EngineMatch, EngineReturn,
                  Publish, Finish, Fail, Settle, AddJob, AddFails, vars
    <3>. QED
      BY <3>2, <3>3
  <2>2. SUFFICES ASSUME platformFilled[o] > 0
                 PROVE  /\ platformFilled[o] <= rem'[o] /\ rem'[o] <= order'[o].qty
                        /\ status'[o] \in {"CANCELLED", "REJECTED"}
    BY <2>1 DEF FillFits
  <2>3. status[o] \in {"CANCELLED", "REJECTED"}
    BY <1>1, <2>2 DEF FillFits
  <2>4. o # taker /\ status[o] # "NEW" /\ status[o] \in TerminalStatus
    BY <1>1, <2>3 DEF BookInv, TakerIsPending, TerminalStatus
  <2>5. order'[o] = order[o] /\ status'[o] = status[o] /\ rem'[o] = rem[o]
    BY <1>1, <2>4, Bystander
  <2>. QED
    BY <1>1, <2>2, <2>5 DEF FillFits
<1>. QED
  BY <1>2, <1>3

\* Every step keeps one job for each resolved order at most, and what it says.
LEMMA NextJob ==
    ASSUME QueueInv, [QueueNext]_vars
    PROVE  JobInv'
<1>. DEFINE JobRecord == [order : Orders, status : Status, trades : Seq(JobTrade)]
<1>1. /\ QueueTypeOK /\ TypeOK /\ PlaceInv /\ BookInv /\ FillInv /\ TakerInv /\ JobInv
      /\ NoOrder \notin Orders
  BY NoOrderAssumption DEF QueueInv, BookInv
<1>2. /\ adding \in Seq(Orders) /\ platformFilled \in [Orders -> Nat]
      /\ \A i \in DOMAIN adding : adding[i] \in Orders
      /\ \A i \in DOMAIN jobs : jobs[i].order \in Orders
      /\ DOMAIN jobs = 1..Len(jobs) /\ Len(jobs) \in Nat
      /\ \A e : /\ Append(jobs, e)[Len(jobs) + 1] = e
                /\ DOMAIN Append(jobs, e) = 1..(Len(jobs) + 1)
                /\ \A i \in 1..Len(jobs) : Append(jobs, e)[i] = jobs[i]
  <2>1. adding \in Seq(Orders) /\ jobs \in Seq(JobRecord) /\ platformFilled \in [Orders -> Nat]
    BY <1>1 DEF QueueTypeOK
  <2>2. \A j \in JobRecord : j.order \in Orders
    OBVIOUS
  <2>. HIDE DEF JobRecord
  <2>3. \A i \in DOMAIN jobs : jobs[i] \in JobRecord
    BY <2>1
  <2>4. \A e : /\ Append(jobs, e)[Len(jobs) + 1] = e
               /\ DOMAIN Append(jobs, e) = 1..(Len(jobs) + 1)
               /\ \A i \in 1..Len(jobs) : Append(jobs, e)[i] = jobs[i]
    BY <2>1
  <2>. QED
    BY <2>1, <2>2, <2>3, <2>4
<1>3. \A i \in DOMAIN jobs :
          /\ reply'[jobs[i].order] = "resolved"
          /\ \A j : j = jobs[i] => Consistent(j)'
          /\ jobs[i].status = "FILLED" => status'[jobs[i].order] \in TerminalStatus
  <2>. SUFFICES ASSUME NEW i \in DOMAIN jobs
                PROVE  /\ reply'[jobs[i].order] = "resolved"
                       /\ \A j : j = jobs[i] => Consistent(j)'
                       /\ jobs[i].status = "FILLED" => status'[jobs[i].order] \in TerminalStatus
    OBVIOUS
  <2>1. PICK j : j = jobs[i]
    OBVIOUS
  <2>2. /\ j.order \in Orders /\ reply[j.order] = "resolved" /\ Consistent(j)
        /\ j.status = "FILLED" => status[j.order] \in TerminalStatus
    BY <1>1, <1>2, <2>1 DEF JobInv, JobIsConsistent
  <2>3. reply'[j.order] = "resolved"
    BY <2>2, ResolvedKept
  <2>4. Consistent(j)' /\ (j.status = "FILLED" => status'[j.order] \in TerminalStatus)
    BY <2>2, JobStaysTrue
  <2>. QED
    BY <2>1, <2>3, <2>4
<1>4. \A i \in DOMAIN adding : reply'[adding[i]] = "resolved"
  BY <1>1, <1>2, ResolvedKept DEF JobInv
<1>5. \A o \in Orders : platformFilled'[o] > 0 =>
           /\ platformFilled'[o] <= rem'[o] /\ rem'[o] <= order'[o].qty
           /\ status'[o] \in {"CANCELLED", "REJECTED"}
  BY NextFits DEF FillFits
<1>6. ASSUME UNCHANGED <<adding, jobs>>
      PROVE  JobInv'
  BY <1>1, <1>3, <1>4, <1>5, <1>6 DEF JobInv, JobIsConsistent
<1>7. CASE Finish
  <2>1. /\ phase = "publish" /\ jobs' = jobs /\ adding' = Append(adding, current)
        /\ reply' = [reply EXCEPT ![current] = "resolved"]
    BY <1>7 DEF Finish, Settle
  <2>2. current \in Orders /\ reply[current] = "waiting" /\ reply \in [Orders -> Reply]
    BY <1>1, <2>1 DEF PlaceInv, QueueTypeOK
  <2>3. reply'[current] = "resolved"
    BY <2>1, <2>2
  <2>4. /\ \A i \in DOMAIN adding : adding[i] # current
        /\ \A i \in DOMAIN jobs : jobs[i].order # current
    BY <1>1, <2>2 DEF JobInv
  <2>5. /\ DOMAIN adding' = 1..(Len(adding) + 1) /\ DOMAIN adding = 1..Len(adding) /\ Len(adding) \in Nat
        /\ \A i \in 1..Len(adding) : adding'[i] = adding[i]
        /\ adding'[Len(adding) + 1] = current
    BY <1>2, <2>1, <2>2
  <2>6. \A i \in DOMAIN adding' : i \in DOMAIN adding \/ i = Len(adding) + 1
    BY <2>5
  <2>7. /\ \A i \in DOMAIN adding' : reply'[adding'[i]] = "resolved"
        /\ \A i, j \in DOMAIN adding' : adding'[i] = adding'[j] => i = j
        /\ \A i \in DOMAIN adding', j \in DOMAIN jobs : adding'[i] # jobs[j].order
    BY <1>1, <1>4, <2>3, <2>4, <2>5, <2>6 DEF JobInv
  <2>. QED
    BY <1>1, <1>3, <1>5, <2>1, <2>7 DEF JobInv, JobIsConsistent
<1>8. ASSUME AddJob \/ AddFails
      PROVE  /\ Head(adding) = adding[1] /\ 1 \in DOMAIN adding
             /\ adding' = Tail(adding)
             /\ \A i \in DOMAIN adding' : /\ i + 1 \in DOMAIN adding /\ adding'[i] = adding[i + 1]
                                           /\ i + 1 # 1 /\ i \in Nat
             /\ \A i \in DOMAIN adding' : reply'[adding'[i]] = "resolved"
             /\ \A i, j \in DOMAIN adding' : adding'[i] = adding'[j] => i = j
             /\ \A i \in DOMAIN adding', j \in DOMAIN jobs : adding'[i] # jobs[j].order
  <2>1. adding # << >> /\ adding' = Tail(adding)
    BY <1>8 DEF AddJob, AddFails
  <2>2. /\ Head(adding) = adding[1] /\ 1 \in DOMAIN adding
        /\ \A i \in DOMAIN adding' : /\ i + 1 \in DOMAIN adding /\ adding'[i] = adding[i + 1]
                                      /\ i + 1 # 1 /\ i \in Nat
    BY <1>2, <2>1, HeadTailProperties
  <2>3. ASSUME NEW i \in DOMAIN adding', NEW j \in DOMAIN adding', adding'[i] = adding'[j]
        PROVE  i = j
    <3>1. i + 1 = j + 1
      BY <1>1, <2>2, <2>3 DEF JobInv
    <3>. QED
      BY <2>2, <3>1
  <2>4. /\ \A i \in DOMAIN adding' : reply'[adding'[i]] = "resolved"
        /\ \A i \in DOMAIN adding', j \in DOMAIN jobs : adding'[i] # jobs[j].order
    BY <1>1, <1>4, <2>2 DEF JobInv
  <2>. QED
    BY <2>1, <2>2, <2>3, <2>4
<1>9. CASE AddFails
  <2>1. jobs' = jobs
    BY <1>9 DEF AddFails
  <2>. QED
    BY <1>1, <1>3, <1>5, <1>8, <1>9, <2>1 DEF JobInv, JobIsConsistent
<1>10. CASE AddJob
  <2>1. PICK o \in Orders : o = adding[1] /\ reply[o] = "resolved"
    BY <1>1, <1>2, <1>8, <1>10 DEF JobInv
  <2>2. PICK e : e = Job(o)
    OBVIOUS
  <2>3. jobs' = Append(jobs, e) /\ UNCHANGED <<status, reply, platformFilled>> /\ UNCHANGED bookVars
        /\ taker = NoOrder
    BY <1>8, <1>10, <2>1, <2>2 DEF AddJob, bookVars, LoopIdle
  <2>4. /\ Consistent(e) /\ (e.status = "FILLED" => status[o] \in TerminalStatus) /\ e.order = o
    <3>1. status[o] # "NEW" /\ o # taker /\ FillFits(o)
      BY <1>1, <2>1, <2>3 DEF PlaceInv, JobInv, FillFits
    <3>. QED
      BY <1>1, <1>2, <2>2, <3>1, JobSaysWhatHappened
  <2>5. /\ reply'[e.order] = "resolved" /\ Consistent(e)'
        /\ e.status = "FILLED" => status'[e.order] \in TerminalStatus
    BY <2>1, <2>4, ResolvedKept, JobStaysTrue
  <2>6. /\ \A i \in DOMAIN jobs : jobs[i].order # o
        /\ \A i \in DOMAIN adding' : adding'[i] # o
    BY <1>1, <1>8, <1>10, <2>1 DEF JobInv
  <2>7. /\ DOMAIN jobs' = 1..(Len(jobs) + 1)
        /\ \A i \in 1..Len(jobs) : jobs'[i] = jobs[i]
        /\ jobs'[Len(jobs) + 1] = e
    BY <1>2, <2>3
  <2>8. \A i \in DOMAIN jobs' : i \in DOMAIN jobs \/ i = Len(jobs) + 1
    BY <1>2, <2>7
  <2>9. /\ \A i \in DOMAIN jobs' : reply'[jobs'[i].order] = "resolved"
        /\ \A i, j \in DOMAIN jobs' : jobs'[i].order = jobs'[j].order => i = j
        /\ \A i \in DOMAIN adding', j \in DOMAIN jobs' : adding'[i] # jobs'[j].order
    <3>1. \A i \in DOMAIN jobs' : reply'[jobs'[i].order] = "resolved"
      BY <1>2, <1>3, <2>5, <2>7, <2>8
    <3>2. ASSUME NEW i \in DOMAIN jobs', NEW j \in DOMAIN jobs', jobs'[i].order = jobs'[j].order
          PROVE  i = j
      <4>1. CASE i \in DOMAIN jobs /\ j \in DOMAIN jobs
        BY <1>1, <1>2, <2>7, <3>2, <4>1 DEF JobInv
      <4>2. CASE i = Len(jobs) + 1 /\ j = Len(jobs) + 1
        BY <4>2
      <4>3. CASE (i \in DOMAIN jobs) # (j \in DOMAIN jobs)
        BY <1>2, <2>4, <2>6, <2>7, <2>8, <3>2, <4>3
      <4>. QED
        BY <2>8, <4>1, <4>2, <4>3
    <3>3. ASSUME NEW i \in DOMAIN adding', NEW j \in DOMAIN jobs'
          PROVE  adding'[i] # jobs'[j].order
      BY <1>2, <1>8, <1>10, <2>4, <2>6, <2>7, <2>8
    <3>. QED
      BY <3>1, <3>2, <3>3
  <2>10. JobIsConsistent'
    BY <1>2, <1>3, <2>5, <2>7, <2>8 DEF JobIsConsistent
  <2>11. \A i \in DOMAIN jobs' : jobs'[i].status = "FILLED" => status'[jobs'[i].order] \in TerminalStatus
    BY <1>2, <1>3, <2>5, <2>7, <2>8
  <2>. QED
    BY <1>5, <1>8, <1>10, <2>9, <2>10, <2>11 DEF JobInv
<1>11. CASE \E o \in FreshIds, in \in Inputs \union Malformed : Submit(o, in)
  BY <1>6, <1>11 DEF Submit
<1>12. CASE Drain \/ EngineMatch \/ EngineReturn \/ PlatformSells \/ Publish \/ Fail \/ UNCHANGED vars
  BY <1>6, <1>12 DEF Drain, DrainNothing, DrainNext, EngineMatch, EngineReturn, PlatformSells, Publish,
                     Fail, Settle, vars, queueVars
<1>. QED
  BY <1>7, <1>9, <1>10, <1>11, <1>12 DEF QueueNext, ProcessOne

----------------------------------------------------------------------------
(* The invariant. *)

\* An empty queue in front of an empty book satisfies it.
LEMMA InitQueueInv == QueueInit => QueueInv
<1>. SUFFICES ASSUME QueueInit PROVE QueueInv
  OBVIOUS
<1>1. /\ BookInit /\ platformFilled = [o \in Orders |-> 0] /\ reply = [o \in Orders |-> "none"]
      /\ pending = << >> /\ taken = << >> /\ toPublish = << >> /\ published = << >>
      /\ adding = << >> /\ jobs = << >> /\ processing = FALSE /\ drains = 0 /\ phase = "idle"
      /\ current = NoOrder /\ platformLong \in 0..PlatformSupply
  BY DEF QueueInit, FillInit
<1>2. BookInv /\ FillInv
  BY <1>1, InitInv, InitFillInv
<1>3. (\A o \in Orders : status[o] = "NEW" /\ createdAt[o] = 0) /\ trades = << >> /\ clock = 0 /\ taker = NoOrder
  BY <1>1 DEF BookInit
<1>4. TypeOK
  BY <1>2 DEF BookInv
<1>5. QueueTypeOK
  <2>1. platformLong \in Nat
    BY <1>1, SupplyAssumption
  <2>2. \A S : << >> \in Seq(S)
    OBVIOUS
  <2>3. /\ pending \in Seq([id : Orders, in : Inputs \union Malformed])
        /\ taken \in Seq(Orders) /\ toPublish \in Seq(Message) /\ published \in Seq(Message)
        /\ adding \in Seq(Orders)
        /\ jobs \in Seq([order : Orders, status : Status, trades : Seq(JobTrade)])
    BY <1>1, <2>2, Zenon
  <2>4. /\ processing \in BOOLEAN /\ drains \in Nat /\ phase \in Phase
        /\ current \in Orders \union {NoOrder} /\ reply \in [Orders -> Reply]
        /\ platformFilled \in [Orders -> Nat]
    BY <1>1 DEF Phase, Reply
  <2>. QED
    BY <1>4, <2>1, <2>3, <2>4, Zenon DEF QueueTypeOK
<1>6. TakerInv
  BY <1>3 DEF TakerInv, TakerTradesLast
<1>7. NoLostWakeup /\ PlaceInv
  BY <1>1, <1>3, NoOrderAssumption DEF NoLostWakeup, PlaceInv
<1>8. AnnounceInv
  BY <1>1 DEF AnnounceInv, PublishedInOrder, SentOf
<1>9. JobInv
  BY <1>1 DEF JobInv, JobIsConsistent
<1>. QED
  BY <1>2, <1>5, <1>6, <1>7, <1>8, <1>9 DEF QueueInv

\* Every step of the queue keeps it.
LEMMA NextQueueInv ==
    ASSUME QueueInv, [QueueNext]_vars
    PROVE  QueueInv'
BY NextTypes, NextBook, NextPlace, NextWakeup, NextAnnounce, NextJob DEF QueueInv

\* The queue's invariant holds for any orders, inputs, failures and scheduling
\* of the awaits.
THEOREM QueueInvariant == QueueSpec => []QueueInv
<1>1. QueueInv /\ [QueueNext]_vars => QueueInv'
  BY NextQueueInv
<1>. QED
  BY InitQueueInv, <1>1, PTL DEF QueueSpec

\* order-queue.ts and processOne keep the types of what they share.
THEOREM QueueTypesHold == QueueSpec => []QueueTypeOK
<1>1. QueueInv => QueueTypeOK
  BY DEF QueueInv
<1>. QED
  BY QueueInvariant, <1>1, PTL

\* drainQueue never leaves an order pending that nobody will come for: the
\* finally block and submitOrder between them always have a drain coming.
THEOREM NoWakeupIsLost == QueueSpec => []NoLostWakeup
<1>1. QueueInv => NoLostWakeup
  BY DEF QueueInv
<1>. QED
  BY QueueInvariant, <1>1, PTL

\* processOne's publishes keep the order in which the engine made the results,
\* whatever is submitted or fails between two of its awaits.
THEOREM MessagesKeepTheOrder == QueueSpec => []PublishedInOrder
<1>1. QueueInv => PublishedInOrder
  BY DEF QueueInv, AnnounceInv
<1>. QED
  BY QueueInvariant, <1>1, PTL

\* A job tells the truth whenever it is serialised, and goes on doing so.
THEOREM JobsTellTheTruth == QueueSpec => []JobIsConsistent
<1>1. QueueInv => JobIsConsistent
  BY DEF QueueInv, JobInv
<1>. QED
  BY QueueInvariant, <1>1, PTL

\* A resolved caller's order was published whole, and it has one job at most.
LEMMA ResolvedMeansPublished == QueueInv => ResolvedIsPublished
<1>. SUFFICES ASSUME QueueInv, NEW o \in Orders
              PROVE  /\ reply[o] = "resolved" =>
                            Cardinality({i \in DOMAIN published : published[i].order = o})
                                = 2 + Len(ResultTrades(o, platformFilled[o]))
                     /\ Cardinality({i \in DOMAIN jobs : jobs[i].order = o})
                            + Cardinality({i \in DOMAIN adding : adding[i] = o})
                                <= (IF reply[o] = "resolved" THEN 1 ELSE 0)
  BY DEF ResolvedIsPublished
<1>. DEFINE js == {i \in DOMAIN jobs : jobs[i].order = o}
            as == {i \in DOMAIN adding : adding[i] = o}
<1>1. JobInv
  BY DEF QueueInv
<1>2. reply[o] = "resolved" => Cardinality(SentOf(o)) = 2 + Len(ResultTrades(o, platformFilled[o]))
  BY DEF QueueInv, AnnounceInv
<1>3. /\ js = {} \/ \E i : js = {i}
      /\ as = {} \/ \E i : as = {i}
      /\ js = {} \/ as = {}
      /\ reply[o] # "resolved" => js = {} /\ as = {}
  <2>1. /\ \A i \in as : reply[o] = "resolved"
        /\ \A i \in js : reply[o] = "resolved"
    BY <1>1 DEF JobInv
  <2>2. /\ \A i, j \in as : i = j
        /\ \A i, j \in js : i = j
        /\ \A i \in as, j \in js : FALSE
    BY <1>1 DEF JobInv
  <2>. HIDE DEF js, as
  <2>3. js = {} \/ \E i : js = {i}
    BY <2>2
  <2>4. as = {} \/ \E i : as = {i}
    <3>1. ASSUME NEW i \in as
          PROVE  as = {i}
      BY <2>2
    <3>. QED
      BY <3>1, Zenon
  <2>5. js = {} \/ as = {}
    BY <2>2
  <2>6. reply[o] # "resolved" => js = {} /\ as = {}
    BY <2>1
  <2>. QED
    BY <2>3, <2>4, <2>5, <2>6, Zenon
<1>. HIDE DEF js, as
<1>4. Cardinality({}) = 0 /\ \A i : Cardinality({i}) = 1
  BY FS_EmptySet, FS_Singleton
<1>5. Cardinality(js) + Cardinality(as) <= (IF reply[o] = "resolved" THEN 1 ELSE 0)
  <2>. DEFINE c == Cardinality(js)
              d == Cardinality(as)
  <2>1. (c = 0 \/ c = 1) /\ (js = {} => c = 0)
    BY <1>3, <1>4
  <2>2. (d = 0 \/ d = 1) /\ (as = {} => d = 0)
    BY <1>3, <1>4
  <2>3. c = 0 \/ d = 0
    BY <1>3, <2>1, <2>2
  <2>4. reply[o] # "resolved" => c = 0 /\ d = 0
    BY <1>3, <2>1, <2>2
  <2>. HIDE DEF c, d
  <2>5. c + d <= IF reply[o] = "resolved" THEN 1 ELSE 0
    BY <2>1, <2>2, <2>3, <2>4
  <2>. QED
    BY <2>5 DEF c, d
<1>. QED
  BY <1>2, <1>5 DEF SentOf, js, as

\* Whoever is told that an order went through finds all its messages out, and
\* one job with the persistence queue or on its way there at most.
THEOREM ResolvedOrdersArePublished == QueueSpec => []ResolvedIsPublished
BY QueueInvariant, ResolvedMeansPublished, PTL

----------------------------------------------------------------------------
(* The serial queue. *)

Entry == [id : Orders, in : Inputs \union Malformed]
Line(t, p) == t \o [i \in DOMAIN p |-> p[i].id]

\* The line: those who were taken up, then those who are pending.
LEMMA LineIs ==
    ASSUME NEW t \in Seq(Orders), NEW p \in Seq(Entry)
    PROVE  /\ Line(t, p) \in Seq(Orders)
           /\ Len(Line(t, p)) = Len(t) + Len(p)
           /\ Len(t) \in Nat /\ Len(p) \in Nat
           /\ \A k \in 1..(Len(t) + Len(p)) :
                 Line(t, p)[k] = IF k <= Len(t) THEN t[k] ELSE p[k - Len(t)].id
<1>. DEFINE ids == [i \in DOMAIN p |-> p[i].id]
<1>1. DOMAIN p = 1..Len(p) /\ Len(p) \in Nat /\ Len(t) \in Nat /\ \A i \in 1..Len(p) : p[i] \in Entry
  OBVIOUS
<1>2. \A e \in Entry : e.id \in Orders
  BY DEF Entry
<1>3. ids \in Seq(Orders) /\ Len(ids) = Len(p) /\ \A i \in 1..Len(p) : ids[i] = p[i].id
  BY <1>1, <1>2
<1>4. Line(t, p) = t \o ids
  BY DEF Line
<1>. HIDE DEF ids
<1>5. /\ t \o ids \in Seq(Orders) /\ Len(t \o ids) = Len(t) + Len(ids)
      /\ \A i \in 1..(Len(t) + Len(ids)) : (t \o ids)[i] = IF i <= Len(t) THEN t[i] ELSE ids[i - Len(t)]
  BY <1>3, ConcatProperties, Zenon
<1>6. \A k \in 1..(Len(t) + Len(p)) : ~(k <= Len(t)) => k - Len(t) \in 1..Len(p)
  BY <1>1
<1>. QED
  BY <1>1, <1>3, <1>4, <1>5, <1>6

\* Lines of the same people are the same.
LEMMA SameLine ==
    ASSUME NEW a \in Seq(Orders), NEW b \in Seq(Orders), Len(a) = Len(b),
           \A k \in 1..Len(a) : a[k] = b[k]
    PROVE  a = b
<1>1. a = [k \in 1..Len(a) |-> a[k]] /\ b = [k \in 1..Len(b) |-> b[k]]
  OBVIOUS
<1>. QED
  BY <1>1

\* A submission joins at the end of the line.
LEMMA LineJoins ==
    ASSUME NEW t \in Seq(Orders), NEW p \in Seq(Entry), NEW e \in Entry
    PROVE  Line(t, Append(p, e)) = Append(Line(t, p), e.id)
<1>1. e.id \in Orders
  BY DEF Entry
<1>2. Append(p, e) \in Seq(Entry) /\ Len(Append(p, e)) = Len(p) + 1
      /\ \A i \in 1..Len(p) : Append(p, e)[i] = p[i]
      /\ Append(p, e)[Len(p) + 1] = e
  OBVIOUS
<1>3. PICK a \in Seq(Orders) : a = Line(t, Append(p, e))
  BY <1>2, LineIs
<1>4. PICK l \in Seq(Orders) : l = Line(t, p)
  BY LineIs
<1>5. /\ Len(a) = Len(t) + (Len(p) + 1) /\ Len(t) \in Nat /\ Len(p) \in Nat
      /\ \A k \in 1..(Len(t) + (Len(p) + 1)) :
            a[k] = IF k <= Len(t) THEN t[k] ELSE Append(p, e)[k - Len(t)].id
  <2>1. PICK q \in Seq(Entry) : q = Append(p, e)
    BY <1>2
  <2>2. /\ Len(Line(t, q)) = Len(t) + Len(q) /\ Len(t) \in Nat
        /\ \A k \in 1..(Len(t) + Len(q)) : Line(t, q)[k] = IF k <= Len(t) THEN t[k] ELSE q[k - Len(t)].id
    BY LineIs
  <2>3. Len(q) = Len(p) + 1 /\ Len(p) \in Nat
    BY <1>2, <2>1
  <2>. QED
    BY <1>3, <2>1, <2>2, <2>3
<1>6. /\ Len(l) = Len(t) + Len(p)
      /\ \A k \in 1..(Len(t) + Len(p)) : l[k] = IF k <= Len(t) THEN t[k] ELSE p[k - Len(t)].id
  BY <1>4, LineIs
<1>7. /\ Append(l, e.id) \in Seq(Orders) /\ Len(Append(l, e.id)) = Len(l) + 1
      /\ \A k \in 1..Len(l) : Append(l, e.id)[k] = l[k]
      /\ Append(l, e.id)[Len(l) + 1] = e.id
  BY <1>1
<1>8. ASSUME NEW k \in 1..Len(a)
      PROVE  a[k] = Append(l, e.id)[k]
  <2>1. CASE k <= Len(t)
    BY <1>5, <1>6, <1>7, <2>1
  <2>2. CASE ~(k <= Len(t)) /\ k <= Len(t) + Len(p)
    <3>1. k - Len(t) \in 1..Len(p) /\ k \in 1..Len(l)
      BY <1>5, <1>6, <2>2
    <3>2. a[k] = p[k - Len(t)].id
      BY <1>2, <1>5, <2>2, <3>1
    <3>. QED
      BY <1>6, <1>7, <2>2, <3>1, <3>2
  <2>3. CASE k = Len(l) + 1
    <3>1. k - Len(t) = Len(p) + 1 /\ ~(k <= Len(t))
      BY <1>5, <1>6, <2>3
    <3>. QED
      BY <1>2, <1>5, <1>7, <2>3, <3>1
  <2>. QED
    BY <1>5, <1>6, <2>1, <2>2, <2>3
<1>. QED
  BY <1>3, <1>4, <1>5, <1>6, <1>7, <1>8, SameLine

\* Taking the first of those pending up moves nobody in the line.
LEMMA LineServes ==
    ASSUME NEW t \in Seq(Orders), NEW p \in Seq(Entry), p # << >>
    PROVE  /\ Line(Append(t, Head(p).id), Tail(p)) = Line(t, p)
           /\ Len(Append(t, Head(p).id)) = Len(t) + 1
           /\ Len(t) < Len(Line(t, p))
<1>1. PICK h \in Orders : h = Head(p).id /\ h = p[1].id
  <2>1. Head(p) \in Entry /\ Head(p) = p[1]
    BY HeadTailProperties
  <2>. QED
    BY <2>1 DEF Entry
<1>2. PICK s \in Seq(Orders) : s = Append(t, h)
  BY AppendProperties
<1>3. PICK q \in Seq(Entry) : q = Tail(p)
  BY HeadTailProperties
<1>4. /\ Len(s) = Len(t) + 1 /\ Len(t) \in Nat
      /\ \A i \in 1..Len(t) : s[i] = t[i]
      /\ s[Len(t) + 1] = h
  BY <1>2
<1>5. /\ Len(q) = Len(p) - 1 /\ Len(p) \in Nat /\ Len(p) > 0
      /\ \A i \in 1..Len(q) : q[i] = p[i + 1]
  BY <1>3, HeadTailProperties
<1>6. PICK a \in Seq(Orders) :
          /\ a = Line(s, q) /\ Len(a) = Len(s) + Len(q)
          /\ \A k \in 1..(Len(s) + Len(q)) : a[k] = IF k <= Len(s) THEN s[k] ELSE q[k - Len(s)].id
  BY LineIs
<1>7. PICK l \in Seq(Orders) :
          /\ l = Line(t, p) /\ Len(l) = Len(t) + Len(p)
          /\ \A k \in 1..(Len(t) + Len(p)) : l[k] = IF k <= Len(t) THEN t[k] ELSE p[k - Len(t)].id
  BY LineIs
<1>8. Len(a) = Len(l) /\ Len(s) + Len(q) = Len(t) + Len(p)
  BY <1>4, <1>5, <1>6, <1>7
<1>9. ASSUME NEW k \in 1..Len(a)
      PROVE  a[k] = l[k]
  <2>1. CASE k <= Len(t)
    <3>1. k <= Len(s) /\ k \in 1..Len(t) /\ k \in 1..(Len(t) + Len(p)) /\ k \in 1..(Len(s) + Len(q))
      BY <1>4, <1>6, <1>8, <2>1
    <3>2. a[k] = s[k]
      BY <1>6, <3>1
    <3>3. l[k] = t[k]
      BY <1>7, <2>1, <3>1
    <3>. QED
      BY <1>4, <3>1, <3>2, <3>3
  <2>2. CASE k = Len(t) + 1
    <3>1. k - Len(t) = 1 /\ ~(k <= Len(t)) /\ k <= Len(s)
      BY <1>4, <2>2
    <3>. QED
      BY <1>1, <1>4, <1>6, <1>7, <1>8, <2>2, <3>1
  <2>3. CASE k > Len(t) + 1
    <3>1. /\ k - Len(s) \in 1..Len(q) /\ (k - Len(s)) + 1 = k - Len(t)
          /\ ~(k <= Len(s)) /\ ~(k <= Len(t))
      BY <1>4, <1>5, <1>6, <2>3
    <3>. QED
      BY <1>5, <1>6, <1>7, <1>8, <3>1
  <2>. QED
    BY <1>4, <1>6, <2>1, <2>2, <2>3
<1>10. a = l
  BY <1>8, <1>9, SameLine
<1>. QED
  BY <1>1, <1>2, <1>3, <1>4, <1>5, <1>7, <1>6, <1>10

\* Every step of the queue is one of the serial queue, or none.
LEMMA NextSerial ==
    ASSUME QueueInv, [QueueNext]_vars
    PROVE  [Serial!Next]_Serial!vars
<1>. DEFINE J == Line(taken, pending)
<1>1. /\ taken \in Seq(Orders) /\ pending \in Seq(Entry) /\ reply \in [Orders -> Reply]
      /\ Len(taken) \in Nat
  BY DEF QueueInv, QueueTypeOK, Entry
<1>2. PlaceInv
  BY DEF QueueInv
<1>3. /\ Serial!vars = <<J, Len(taken), processing, reply>>
      /\ Serial!vars' = <<J', Len(taken'), processing', reply'>>
  BY DEF Serial!vars, Line
<1>. USE <1>3
<1>4. CASE UNCHANGED <<taken, pending, processing, reply>>
  BY <1>4 DEF Line
<1>5. ASSUME NEW o \in FreshIds, NEW in \in Inputs \union Malformed, Submit(o, in)
      PROVE  Serial!Join(o) /\ o \in Orders
  <2>1. /\ o \in Orders /\ reply[o] = "none" /\ UNCHANGED <<taken, processing>>
        /\ pending' = Append(pending, [id |-> o, in |-> in])
        /\ reply' = [reply EXCEPT ![o] = "waiting"]
    BY <1>5 DEF Submit, FreshIds, Push
  <2>2. [id |-> o, in |-> in] \in Entry
    BY <2>1 DEF Entry
  <2>3. Line(taken', pending') = Append(J, o)
    BY <1>1, <2>1, <2>2, LineJoins
  <2>. QED
    BY <2>1, <2>3 DEF Serial!Join, Line
<1>6. CASE DrainNext
  <2>1. /\ ~processing /\ pending # << >> /\ processing' = TRUE /\ reply' = reply
        /\ pending' = Tail(pending) /\ taken' = Append(taken, Head(pending).id)
    BY <1>6 DEF DrainNext, CanTake
  <2>2. /\ Line(taken', pending') = J /\ Len(taken') = Len(taken) + 1
        /\ Len(taken) < Len(J)
    BY <1>1, <2>1, LineServes
  <2>3. Serial!Serve
    BY <2>1, <2>2 DEF Serial!Serve, Line
  <2>. QED
    BY <2>3 DEF Serial!Next
<1>7. CASE Finish \/ Fail
  <2>1. PICK outcome \in {"resolved", "rejected"} :
            /\ reply' = [reply EXCEPT ![current] = outcome] /\ processing' = FALSE
            /\ UNCHANGED <<taken, pending>>
            /\ phase \in {"threw", "platform", "publish"}
    BY <1>7 DEF Finish, Fail, Settle
  <2>2. processing /\ taken # << >> /\ taken[Len(taken)] = current
    BY <1>2, <2>1 DEF PlaceInv
  <2>3. J[Len(taken)] = current
    <3>1. Len(taken) \in 1..(Len(taken) + Len(pending)) /\ Len(taken) <= Len(taken)
      BY <1>1, <2>2, LineIs
    <3>2. J[Len(taken)] = taken[Len(taken)]
      BY <1>1, <3>1, LineIs
    <3>. QED
      BY <2>2, <3>2
  <2>4. Serial!Reply
    BY <2>1, <2>2, <2>3 DEF Serial!Reply, Line
  <2>. QED
    BY <2>4 DEF Serial!Next
<1>8. CASE DrainNothing \/ EngineMatch \/ EngineReturn \/ PlatformSells \/ Publish \/ AddJob \/ AddFails
           \/ UNCHANGED vars
  BY <1>4, <1>8 DEF DrainNothing, EngineMatch, EngineReturn, PlatformSells, Publish, AddJob, AddFails,
                    vars, queueVars
<1>9. CASE \E o \in FreshIds, in \in Inputs \union Malformed : Submit(o, in)
  BY <1>5, <1>9 DEF Serial!Next
<1>. QED
  BY <1>6, <1>7, <1>8, <1>9 DEF QueueNext, Drain, ProcessOne

\* The safety half of ImplementsSerialQueue: whatever the awaits, failures and
\* scheduling, what callers see is a run of the serial queue that the head of
\* order-queue.ts describes: served in the order of submission, one at a time,
\* each answered once.
THEOREM QueueIsSerial == QueueSpec => Serial!Init /\ [][Serial!Next]_Serial!vars
<1>1. QueueInit => Serial!Init
  <2>. SUFFICES ASSUME QueueInit PROVE Serial!Init
    OBVIOUS
  <2>1. /\ taken = << >> /\ pending = << >> /\ processing = FALSE
        /\ reply = [o \in Orders |-> "none"]
    BY DEF QueueInit
  <2>2. PICK l \in Seq(Orders) : l = Line(taken, pending) /\ Len(l) = 0
    <3>1. taken \in Seq(Orders) /\ pending \in Seq(Entry) /\ Len(taken) = 0 /\ Len(pending) = 0
      BY <2>1
    <3>2. /\ Line(taken, pending) \in Seq(Orders)
          /\ Len(Line(taken, pending)) = Len(taken) + Len(pending)
      BY <3>1, LineIs
    <3>. QED
      BY <3>1, <3>2
  <2>3. l = << >>
    BY <2>2
  <2>. QED
    BY <2>1, <2>2, <2>3 DEF Serial!Init, Line
<1>2. QueueInv /\ [QueueNext]_vars => [Serial!Next]_Serial!vars
  BY NextSerial
<1>. QED
  BY <1>1, <1>2, QueueInvariant, PTL DEF QueueSpec
=============================================================================

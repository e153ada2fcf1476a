----------------------------- MODULE OrderBook -----------------------------
(***************************************************************************)
(* The price-time priority order book of one (market, outcome):            *)
(* src/src/engine/matching-engine.ts, class OrderBook.                     *)
(*                                                                         *)
(* processOrder() is synchronous: it runs from its first to its last line  *)
(* in one turn of the event loop.  It is modelled as the steps it takes,   *)
(* Accept or Refuse, then one MatchOne for each round of its for(;;) loop, *)
(* then one of Rest, CancelRemainder and Complete, with `taker' naming the *)
(* order it is working on (NoOrder between two calls).                     *)
(*                                                                         *)
(* Prices and quantities are decimal strings compared and subtracted       *)
(* exactly (decimal.js), here integers.  The two branches the code has for *)
(* bids and asks are one definition with the side as a parameter.  An      *)
(* input with text that is no number makes processOrder throw before it    *)
(* has changed anything: OrderQueue has what follows from that.            *)
(***************************************************************************)
EXTENDS Integers, FiniteSets, SequencesExt

CONSTANTS
    Orders,     \* order ids, each a fresh randomUUID of the route
    NoOrder,    \* no order is being processed
    Parties,    \* userId, agentId, crePayload and chainKey: copied, never read
    Inputs      \* the order inputs callers may submit

Side == {"BID", "ASK"}
OrderType == {"LIMIT", "MARKET", "IOC"}
OrderInput == [side : Side, type : OrderType, price : Int, qty : Int, who : Parties]

ASSUME InputsAssumption == Inputs \subseteq OrderInput
ASSUME PartiesAssumption == Parties # {}
ASSUME NoOrderAssumption == NoOrder \notin Orders

RestingStatus == {"LIVE", "PARTIALLY_FILLED"}
TerminalStatus == {"FILLED", "CANCELLED", "REJECTED"}
Status == {"NEW", "PENDING"} \union RestingStatus \union TerminalStatus

\* The keys a level can have: the positive prices of the inputs.
Prices == {in.price : in \in Inputs} \intersect (Nat \ {0})

Trade == [maker : Orders, taker : Orders, price : Prices, qty : Nat]

VARIABLES
    order,      \* the EngineOrder's fixed fields: side, type, price, qty
    rem,        \* its remainingQty
    status,     \* its status; "NEW" until processOrder gets the order
    createdAt,  \* its createdAt: which arrival it was
    clock,      \* the last createdAt given out
    levels,     \* Map: price -> orders at that price (FIFO); << >> is no entry
    prices,     \* bidPrices and askPrices, the sorted price arrays
    taker,      \* the order processOrder is working on, or NoOrder
    trades      \* every ExecutedTrade so far, oldest first

bookVars == <<order, rem, status, createdAt, clock, levels, prices, taker, trades>>

\* Stands for the fields of an order that has not arrived.
NoInput == [side |-> "BID", type |-> "LIMIT", price |-> 0, qty |-> 0,
            who |-> CHOOSE w \in Parties : TRUE]

Opposite(s) == IF s = "BID" THEN "ASK" ELSE "BID"

\* p is a strictly better resting price than q on side s.
Better(s, p, q) == IF s = "BID" THEN p > q ELSE p < q

----------------------------------------------------------------------------
(* The sorted price arrays. *)

\* What insertPriceSorted becomes when it forgets to look for the place.
AppendPrice(s, ps, p) == Append(ps, p)

\* insertPriceSorted: before the first price that p beats, else at the end.
InsertPriceSorted(s, ps, p) ==
    LET beaten == {i \in DOMAIN ps : Better(s, p, ps[i])}
    IN  IF beaten = {} THEN Append(ps, p) ELSE InsertAt(ps, Min(beaten), p)

\* removePrice: indexOf, and splice if the price is there.
RemovePrice(ps, p) ==
    LET at == {i \in DOMAIN ps : ps[i] = p}
    IN  IF at = {} THEN ps ELSE RemoveAt(ps, Min(at))

\* bestBidPrice and bestAskPrice: the first price whose list is not empty.
LevelIndexes(s) == {i \in DOMAIN prices[s] : levels[s][prices[s][i]] # << >>}
HasBest(s) == LevelIndexes(s) # {}
BestPrice(s) == prices[s][Min(LevelIndexes(s))]

\* getBestOpposite: the head of the best level a taker on side s trades with.
Maker(s) == Head(levels[Opposite(s)][BestPrice(Opposite(s))])

----------------------------------------------------------------------------
(* The book's own mutators, as the new value of `levels' and of `prices'.  *)

\* An order pushed to the front of its level instead of to its end.
StackLevel(o) == <<o>> \o levels[order[o].side][order[o].price]

\* addToBook: push to the level's list ...
PushLevel(o) == Append(levels[order[o].side][order[o].price], o)

\* ... which addToBook creates, with its price, when there is none.
AddToBook(o) ==
    LET s == order[o].side
        p == order[o].price
    IN  /\ levels' = [levels EXCEPT ![s][p] = PushLevel(o)]
        /\ prices' = IF levels[s][p] = << >>
                     THEN [prices EXCEPT ![s] = InsertPriceSorted(s, @, p)]
                     ELSE prices

\* A removeFromBook that forgets to splice the order out of its list.
KeepInBook(o) == UNCHANGED <<levels, prices>>

\* removeFromBook, for the head of its level (matchOne only ever removes the
\* maker, which is list[0]); the level and its price go with its last order.
RemoveFromBook(o) ==
    LET s == order[o].side
        p == order[o].price
    IN  /\ levels' = [levels EXCEPT ![s][p] = Tail(@)]
        /\ prices' = IF Tail(levels[s][p]) = << >>
                     THEN [prices EXCEPT ![s] = RemovePrice(@, p)]
                     ELSE prices
----------------------------------------------------------------------------
(* processOrder up to its loop. *)

\* The two guards that refuse an input: no quantity, or a LIMIT with no price.
Refused(in) == in.qty <= 0 \/ (in.type = "LIMIT" /\ in.price <= 0)

\* priceVal: the input's price counts only for a LIMIT order.
PriceOf(in) == IF in.type = "LIMIT" THEN in.price ELSE 0

Arrive(o, in, price) ==
    /\ taker = NoOrder
    /\ status[o] = "NEW"
    /\ order' = [order EXCEPT ![o] = [in EXCEPT !.price = price]]
    /\ clock' = clock + 1
    /\ createdAt' = [createdAt EXCEPT ![o] = clock + 1]
    /\ UNCHANGED <<levels, prices, trades>>

\* An early return: the order comes back REJECTED with nothing remaining.
Refuse(o, in) ==
    /\ Refused(in)
    /\ Arrive(o, in, 0)
    /\ rem' = [rem EXCEPT ![o] = 0]
    /\ status' = [status EXCEPT ![o] = "REJECTED"]
    /\ UNCHANGED taker

Accept(o, in) ==
    /\ ~Refused(in)
    /\ Arrive(o, in, PriceOf(in))
    /\ rem' = [rem EXCEPT ![o] = in.qty]
    /\ status' = [status EXCEPT ![o] = "PENDING"]
    /\ taker' = o

----------------------------------------------------------------------------
(* The matching loop. *)

\* A crossing test that leaves an equal price alone.
CrossesStrictly(o, p) ==
    order[o].type = "LIMIT" => Better(Opposite(order[o].side), p, order[o].price)

\* A crossing test that holds MARKET and IOC orders to their price, which is 0.
CrossesByPrice(o, p) == ~Better(order[o].side, p, order[o].price)

\* A LIMIT BID trades with asks up to its price, a LIMIT ASK with bids down to
\* its price, any other order with whatever there is.
Crosses(o, p) ==
    order[o].type = "LIMIT" => ~Better(order[o].side, p, order[o].price)

\* The loop goes on: there is a maker, it crosses, and something remains.
CanMatch(o) ==
    LET s == order[o].side
    IN  /\ HasBest(Opposite(s))
        /\ Crosses(o, BestPrice(Opposite(s)))
        /\ rem[o] > 0

\* A fill that takes all the taker wants, whatever the maker has.
FillWanted(t, m) == rem[t]

\* The fill of taker t against maker m: the lesser remaining quantity.
FillQty(t, m) == IF rem[t] <= rem[m] THEN rem[t] ELSE rem[m]

\* A trade that reports the maker's whole size instead of the fill.
MakerSizedTrade(t, m, p, q) == [maker |-> m, taker |-> t, price |-> p, qty |-> rem[m]]

\* The ExecutedTrade: at the maker's price.
TradeOf(t, m, p, q) == [maker |-> m, taker |-> t, price |-> p, qty |-> q]

\* One round of the loop: matchOne and trades.push.
MatchOne ==
    /\ taker # NoOrder
    /\ CanMatch(taker)
    /\ LET s == order[taker].side
           m == Maker(s)
           q == FillQty(taker, m)
           filled == rem[m] - q <= 0
       IN  /\ rem' = [rem EXCEPT ![m] = @ - q, ![taker] = @ - q]
           /\ status' = [status EXCEPT ![m] = IF filled THEN "FILLED" ELSE "PARTIALLY_FILLED"]
           /\ IF filled THEN RemoveFromBook(m) ELSE UNCHANGED <<levels, prices>>
           /\ trades' = Append(trades, TradeOf(taker, m, BestPrice(Opposite(s)), q))
    /\ UNCHANGED <<order, createdAt, clock, taker>>
----------------------------------------------------------------------------
(* What processOrder does once its loop has ended. *)

LoopDone == taker # NoOrder /\ ~CanMatch(taker)

Return(o, st) ==
    /\ status' = [status EXCEPT ![o] = st]
    /\ taker' = NoOrder
    /\ UNCHANGED <<order, rem, createdAt, clock, trades>>

\* A resting status that does not look at what was filled.
AlwaysLive(o) == "LIVE"

RestStatus(o) == IF order[o].qty - rem[o] > 0 THEN "PARTIALLY_FILLED" ELSE "LIVE"

\* The remainder of a LIMIT order goes to the book.
Rest ==
    /\ LoopDone
    /\ rem[taker] > 0
    /\ order[taker].type = "LIMIT"
    /\ AddToBook(taker)
    /\ Return(taker, RestStatus(taker))

\* The remainder of a MARKET or IOC order does not; a MARKET order that did
\* not trade at all is REJECTED.
CancelRemainder ==
    /\ LoopDone
    /\ rem[taker] > 0
    /\ order[taker].type # "LIMIT"
    /\ LET untraded == \A i \in DOMAIN trades : trades[i].taker # taker
       IN  Return(taker, IF order[taker].type = "MARKET" /\ untraded
                         THEN "REJECTED" ELSE "CANCELLED")
    /\ UNCHANGED <<levels, prices>>

Complete ==
    /\ LoopDone
    /\ rem[taker] <= 0
    /\ Return(taker, "FILLED")
    /\ UNCHANGED <<levels, prices>>

----------------------------------------------------------------------------
BookInit ==
    /\ order = [o \in Orders |-> NoInput]
    /\ rem = [o \in Orders |-> 0]
    /\ status = [o \in Orders |-> "NEW"]
    /\ createdAt = [o \in Orders |-> 0]
    /\ clock = 0
    /\ levels = [s \in Side |-> [p \in Prices |-> << >>]]
    /\ prices = [s \in Side |-> << >>]
    /\ taker = NoOrder
    /\ trades = << >>

\* processOrder is called, for any order and any input.
Call == \E o \in Orders, in \in Inputs : Refuse(o, in) \/ Accept(o, in)

\* processOrder runs on.
Run == MatchOne \/ Rest \/ CancelRemainder \/ Complete

BookNext == Call \/ Run

BookSpec == BookInit /\ [][BookNext]_bookVars
----------------------------------------------------------------------------
(* Properties. *)

\* Every variable keeps its type; in particular no remaining quantity ever
\* goes below zero, however fills follow one another (matchOne's minus).
TypeOK ==
    /\ order \in [Orders -> OrderInput]
    /\ rem \in [Orders -> Nat]
    /\ status \in [Orders -> Status]
    /\ createdAt \in [Orders -> Nat]
    /\ clock \in Nat
    /\ levels \in [Side -> [Prices -> Seq(Orders)]]
    /\ prices \in [Side -> Seq(Prices)]
    /\ taker \in Orders \union {NoOrder}
    /\ trades \in Seq(Trade)

\* bidPrices descends and askPrices ascends, strictly.
PricesSorted ==
    \A s \in Side : \A i, j \in DOMAIN prices[s] :
        i < j => Better(s, prices[s][i], prices[s][j])

\* A price is in the array exactly while its level holds orders.
PricesAreLevels ==
    \A s \in Side, p \in Prices :
        levels[s][p] # << >> <=> \E i \in DOMAIN prices[s] : prices[s][i] = p

\* What rests at a level is a LIMIT order of that side and price with
\* something left of it.
LevelsHoldTheirOrders ==
    \A s \in Side, p \in Prices : \A i \in DOMAIN levels[s][p] :
        LET o == levels[s][p][i]
        IN  /\ order[o].side = s
            /\ order[o].price = p
            /\ order[o].type = "LIMIT"
            /\ status[o] \in RestingStatus
            /\ rem[o] > 0

\* Each level is in order of arrival, so no order is in it twice.
LevelsAreFifo ==
    \A s \in Side, p \in Prices : \A i, j \in DOMAIN levels[s][p] :
        i < j => createdAt[levels[s][p][i]] < createdAt[levels[s][p][j]]

\* An order that says it is resting can be found in the book.
RestingIsInBook ==
    \A o \in Orders : status[o] \in RestingStatus =>
        /\ order[o].price \in Prices
        /\ \E i \in DOMAIN levels[order[o].side][order[o].price] :
               levels[order[o].side][order[o].price][i] = o

\* The sorted arrays, the level lists and the orders' own fields tell the same
\* story after every insertion and removal of addToBook and removeFromBook.
BookWellFormed ==
    /\ PricesSorted
    /\ PricesAreLevels
    /\ LevelsHoldTheirOrders
    /\ LevelsAreFifo
    /\ RestingIsInBook

\* No resting bid ever meets a resting ask, not even inside processOrder: the
\* loop has taken every order the remainder could trade with before addToBook.
Uncrossed ==
    \A p \in Prices, q \in Prices :
        levels["BID"][p] # << >> /\ levels["ASK"][q] # << >> => p < q

\* What each final or resting status of processOrder says about the fills: the
\* caller, the snapshot and the database row see the status only.
StatusMeaning ==
    \A o \in Orders :
        /\ status[o] = "LIVE" => rem[o] = order[o].qty
        /\ status[o] = "PARTIALLY_FILLED" => 0 < rem[o] /\ rem[o] < order[o].qty
        /\ status[o] = "FILLED" => rem[o] = 0
        /\ status[o] = "CANCELLED" => order[o].type # "LIMIT" /\ rem[o] > 0
        /\ status[o] = "REJECTED" =>
               \A i \in DOMAIN trades : o \notin {trades[i].taker, trades[i].maker}

Total(qs) == FoldLeft(LAMBDA sum, q : sum + q, 0, qs)

\* What each trade moved for o.
Moved(o) == [i \in DOMAIN trades |->
                IF o \in {trades[i].taker, trades[i].maker} THEN trades[i].qty ELSE 0]

Traded(o) == Total(Moved(o))

\* The trades account for exactly what left each order: over any number of
\* takers and makers nothing is filled twice and nothing is lost.
Conservation ==
    \A o \in Orders :
        status[o] \notin {"NEW", "REJECTED"} => Traded(o) = order[o].qty - rem[o]

\* A MARKET or IOC order with something left has emptied the other side: the
\* platform fill that follows a MARKET order never competes with a resting one
\* (and the best ask handed to it as its price hint is always undefined).
RemainderMeansEmptySide ==
    \A o \in Orders :
        (taker = o /\ ~CanMatch(o) /\ rem[o] > 0 /\ order[o].type # "LIMIT")
            => \A p \in Prices : levels[Opposite(order[o].side)][p] = << >>

\* Every trade is with the order at the best price that arrived first: no order
\* resting at that moment had a better price, nor the same price and an earlier
\* arrival.
PriceTimePriority ==
    [][\A m \in Orders :
        (trades' # trades /\ m = trades'[Len(trades')].maker) =>
            \A o \in Orders \ {m} :
                (order[o].side = order[m].side /\ status[o] \in RestingStatus) =>
                    \/ Better(order[m].side, order[m].price, order[o].price)
                    \/ order[m].price = order[o].price /\ createdAt[m] < createdAt[o]]_bookVars

\* A FILLED, CANCELLED or REJECTED order is over: its status and remaining
\* quantity stay, and no later trade names it.
TerminalIsFinal ==
    [][\A o \in Orders : status[o] \in TerminalStatus =>
        /\ status'[o] = status[o]
        /\ rem'[o] = rem[o]
        /\ trades' # trades =>
               o \notin {trades'[Len(trades')].maker, trades'[Len(trades')].taker}]_bookVars
============================================================================

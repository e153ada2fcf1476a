----------------------------- MODULE OrderQueue -----------------------------
(***************************************************************************)
(* The queue in front of one order book: src/src/engine/order-queue.ts,    *)
(* with the platform fill it awaits (platform-fill.service.ts) and the     *)
(* persistence job it leaves behind (workers/trades-queue.ts).             *)
(*                                                                         *)
(* JavaScript runs one callback at a time.  Between two awaits nothing     *)
(* else happens, so every action but the engine's own needs `taker' to be  *)
(* NoOrder; at an await anything may happen, so every await ends an        *)
(* action.  Queues of other books share no state with this one.            *)
(***************************************************************************)
EXTENDS PlatformFill

CONSTANTS
    PlatformSupply,     \* the most the platform's LONG row may hold
    Malformed           \* inputs whose price or quantity is no number: the
                        \* schema takes any text

ASSUME SupplyAssumption == PlatformSupply \in Nat
ASSUME MalformedAssumption == Malformed \intersect Inputs = {}

VARIABLES
    pending,        \* q.pending: the queued orders, oldest first
    processing,     \* q.processing
    taken,          \* history: the orders drains have taken up, oldest first
    drains,         \* setImmediate callbacks to drainQueue not yet run
    phase,          \* the await processOne is at
    current,        \* the order processOne has, or NoOrder
    reply,          \* each submitter's promise
    toPublish,      \* what processOne has yet to publish for `current'
    published,      \* what Redis subscribers have been sent
    adding,         \* orders whose queue.add is on its way (nobody awaits it)
    jobs,           \* jobs in the persistence queue
    platformLong    \* collateralLocked of the platform's LONG row (database)

queueVars == <<pending, processing, taken, drains, phase, current, reply, toPublish,
               published, adding, jobs, platformLong>>
vars == <<bookVars, platformFilled, queueVars>>

Reply == {"none", "waiting", "resolved", "rejected"}
Phase == {"idle", "engine", "threw", "platform", "publish"}

\* Nothing else is on the JavaScript stack.
LoopIdle == taker = NoOrder

----------------------------------------------------------------------------
(* What processOne publishes and leaves behind for an order. *)

\* Messages without the trades, which a client could take for "no fill".
BookMessages(o, result) ==
    <<[kind |-> "BOOK", order |-> o], [kind |-> "MARKET", order |-> o]>>

\* The trades announced ahead of the book they changed.
TradesFirst(o, result) ==
    [i \in DOMAIN result |-> [kind |-> "TRADE", order |-> o]] \o BookMessages(o, result)

\* One ORDER_BOOK_UPDATE, one MARKET_UPDATES, then a message for each trade.
Messages(o, result) ==
    <<[kind |-> "BOOK", order |-> o], [kind |-> "MARKET", order |-> o]>>
    \o [i \in DOMAIN result |-> [kind |-> "TRADE", order |-> o]]

----------------------------------------------------------------------------
(* submitOrder and drainQueue. *)

\* The route's randomUUID: an id nobody has used; which one makes no difference.
FreshIds ==
    LET unused == {o \in Orders : reply[o] = "none"}
    IN  IF unused = {} THEN {} ELSE {CHOOSE o \in unused : TRUE}

\* A submission that overtakes those who wait.
Unshift(entry) == <<entry>> \o pending

\* q.pending.push
Push(entry) == Append(pending, entry)

\* submitOrder: append, and schedule a drain.
Submit(o, in) ==
    /\ LoopIdle
    /\ reply[o] = "none"
    /\ pending' = Push([id |-> o, in |-> in])
    /\ drains' = drains + 1
    /\ reply' = [reply EXCEPT ![o] = "waiting"]
    /\ UNCHANGED <<bookVars, processing, phase, current, toPublish, published,
                   adding, jobs, platformLong, platformFilled, taken>>

\* drainQueue goes on only if no other drain has an order and one is waiting.
CanTake == ~processing /\ pending # << >>

\* A drain with nothing to do returns.
DrainNothing ==
    /\ LoopIdle
    /\ drains > 0
    /\ ~CanTake
    /\ drains' = drains - 1
    /\ UNCHANGED <<bookVars, pending, processing, phase, current, reply,
                   toPublish, published, adding, jobs, platformLong, platformFilled, taken>>

\* A drain takes the oldest order and hands it to the engine.  One the engine
\* refuses comes straight back; a number decimal.js cannot read makes it throw
\* before it has touched the book.
DrainNext ==
    /\ LoopIdle
    /\ drains > 0
    /\ CanTake
    /\ drains' = drains - 1
    /\ processing' = TRUE
    /\ pending' = Tail(pending)
    /\ current' = Head(pending).id
    /\ taken' = Append(taken, current')
    /\ \/ /\ Head(pending).in \in Inputs
          /\ Accept(Head(pending).id, Head(pending).in)
          /\ phase' = "engine"
          /\ UNCHANGED toPublish
       \/ /\ Head(pending).in \in Inputs
          /\ Refuse(Head(pending).id, Head(pending).in)
          /\ phase' = "publish"
          /\ toPublish' = Messages(Head(pending).id, << >>)
       \/ /\ Head(pending).in \in Malformed
          /\ phase' = "threw"
          /\ UNCHANGED <<bookVars, toPublish>>
    /\ UNCHANGED <<reply, published, adding, jobs, platformLong, platformFilled>>

----------------------------------------------------------------------------
(* processOne. *)

\* book.processOrder: the engine's rounds, then its return.
EngineMatch ==
    /\ phase = "engine"
    /\ MatchOne
    /\ UNCHANGED <<queueVars, platformFilled>>

\* A MARKET order with something left goes to the platform first.
EngineReturn ==
    /\ phase = "engine"
    /\ Rest \/ CancelRemainder \/ Complete
    /\ IF order[current].type = "MARKET" /\ rem[current] > 0
       THEN phase' = "platform" /\ UNCHANGED toPublish
       ELSE phase' = "publish" /\ toPublish' = Messages(current, BookTrades(current))
    /\ UNCHANGED <<pending, processing, drains, current, reply, published, adding,
                   jobs, platformLong, platformFilled, taken>>

\* fillMarketFromPlatform: the platform sells to a BID from what its LONG row
\* holds at this moment; the row itself changes only when the job is persisted.
PlatformSells ==
    /\ phase = "platform"
    /\ LET qty == PlatformQty(current, platformLong)
       IN  /\ platformFilled' = [platformFilled EXCEPT ![current] = qty]
           /\ toPublish' = Messages(current, ResultTrades(current, qty))
    /\ phase' = "publish"
    /\ UNCHANGED <<bookVars, pending, processing, drains, current, reply,
                   published, adding, jobs, platformLong, taken>>

\* An awaited publish returns.
Publish ==
    /\ LoopIdle
    /\ phase = "publish"
    /\ toPublish # << >>
    /\ published' = Append(published, Head(toPublish))
    /\ toPublish' = Tail(toPublish)
    /\ UNCHANGED <<bookVars, pending, processing, drains, phase, current, reply,
                   adding, jobs, platformLong, platformFilled, taken>>

\* A finally block that leaves it to submitOrder to schedule drains.
NoMoreDrains == 0

\* What drainQueue's finally block schedules.
DrainsAfter == IF pending # << >> THEN 1 ELSE 0

\* drainQueue's resolve or reject, and its finally block.
Settle(outcome) ==
    /\ reply' = [reply EXCEPT ![current] = outcome]
    /\ processing' = FALSE
    /\ current' = NoOrder
    /\ phase' = "idle"
    /\ drains' = drains + DrainsAfter
    /\ UNCHANGED <<bookVars, pending, jobs, platformLong, platformFilled, taken>>

\* processOne returns: the order is handed to queue.add, and nobody waits for it.
Finish ==
    /\ LoopIdle
    /\ phase = "publish"
    /\ toPublish = << >>
    /\ adding' = Append(adding, current)
    /\ Settle("resolved")
    /\ UNCHANGED <<toPublish, published>>

\* processOne rejects: the engine threw, or an awaited call rejected, Prisma's in
\* the platform fill (a BID only, the one side that reads) or Redis's in a
\* publish.
Fail ==
    /\ LoopIdle
    /\ \/ phase = "threw"
       \/ phase = "platform" /\ order[current].side = "BID"
       \/ phase = "publish" /\ toPublish # << >>
    /\ toPublish' = << >>
    /\ Settle("rejected")
    /\ UNCHANGED <<published, adding>>

\* The job reaches Redis.  Its data is turned into text only now, when the
\* queue's connection is ready, from an order object that the book shares: it
\* has the status the order has by now.
AddJob ==
    /\ LoopIdle
    /\ adding # << >>
    /\ jobs' = Append(jobs, Job(Head(adding)))
    /\ adding' = Tail(adding)
    /\ UNCHANGED <<bookVars, pending, processing, drains, phase, current, reply,
                   toPublish, published, platformLong, platformFilled, taken>>

\* The add rejects, and is only logged.
AddFails ==
    /\ LoopIdle
    /\ adding # << >>
    /\ adding' = Tail(adding)
    /\ UNCHANGED <<bookVars, pending, processing, drains, phase, current, reply,
                   toPublish, published, jobs, platformLong, platformFilled, taken>>
----------------------------------------------------------------------------
QueueInit ==
    /\ FillInit
    /\ pending = << >>
    /\ processing = FALSE
    /\ taken = << >>
    /\ drains = 0
    /\ phase = "idle"
    /\ current = NoOrder
    /\ reply = [o \in Orders |-> "none"]
    /\ toPublish = << >>
    /\ published = << >>
    /\ adding = << >>
    /\ jobs = << >>
    /\ platformLong \in 0..PlatformSupply

Drain == DrainNothing \/ DrainNext
ProcessOne == EngineMatch \/ EngineReturn \/ PlatformSells \/ Publish \/ Finish \/ Fail

QueueNext ==
    \/ \E o \in FreshIds, in \in Inputs \union Malformed : Submit(o, in)
    \/ Drain
    \/ ProcessOne
    \/ AddJob
    \/ AddFails

\* setImmediate callbacks run, the engine's loop is synchronous, and an awaited
\* call returns or rejects in the end (ioredis retries until Redis is back).
QueueSpec ==
    /\ QueueInit
    /\ [][QueueNext]_vars
    /\ WF_vars(Drain)
    /\ WF_vars(ProcessOne)
----------------------------------------------------------------------------
(* Properties. *)

Message == [kind : {"BOOK", "MARKET", "TRADE"}, order : Orders]
JobTrade == [maker : Orders \union {Platform}, taker : Orders, price : Nat, qty : Nat \ {0}]

\* The queue's variables keep their types; `drains' stays a count.
QueueTypeOK ==
    /\ TypeOK
    /\ pending \in Seq([id : Orders, in : Inputs \union Malformed])
    /\ processing \in BOOLEAN
    /\ taken \in Seq(Orders)
    /\ drains \in Nat
    /\ phase \in Phase
    /\ current \in Orders \union {NoOrder}
    /\ reply \in [Orders -> Reply]
    /\ toPublish \in Seq(Message)
    /\ published \in Seq(Message)
    /\ adding \in Seq(Orders)
    /\ jobs \in Seq([order : Orders, status : Status, trades : Seq(JobTrade)])
    /\ platformLong \in Nat
    /\ platformFilled \in [Orders -> Nat]

\* An order is never left waiting with nobody to come for it: while the queue
\* holds one, a drain is scheduled or running.
NoLostWakeup == pending # << >> => drains > 0 \/ processing

\* A caller who is told its order went through finds it whole: every message
\* was published and its job is with the persistence queue or was refused by
\* it; whatever the answer, a job is never made twice.
ResolvedIsPublished ==
    \A o \in Orders :
        /\ reply[o] = "resolved" =>
            Cardinality({i \in DOMAIN published : published[i].order = o})
                = 2 + Len(ResultTrades(o, platformFilled[o]))
        /\ Cardinality({i \in DOMAIN jobs : jobs[i].order = o})
               + Cardinality({i \in DOMAIN adding : adding[i] = o})
                <= (IF reply[o] = "resolved" THEN 1 ELSE 0)

\* Subscribers see the books in the order the engine made them, and no trade
\* before the book update of its own order.
PublishedInOrder ==
    \A i, j \in DOMAIN published : i < j =>
        /\ createdAt[published[i].order] <= createdAt[published[j].order]
        /\ published[j].kind = "BOOK" => published[i].order # published[j].order

Sold(ts) == Total([k \in DOMAIN ts |-> ts[k].qty])

Consistent(j) ==
    LET sum == Sold(j.trades)
        left == rem[j.order] - platformFilled[j.order]
    IN  /\ sum = order[j.order].qty /\ sum > 0 => j.status = "FILLED"
        /\ j.status = "FILLED" => left = 0
        /\ j.status \in {"REJECTED", "LIVE"} => sum = 0
        /\ j.status = "PARTIALLY_FILLED" => sum < order[j.order].qty /\ left < order[j.order].qty

\* A job says FILLED when book and platform fills together make the whole
\* quantity, and never says more than has been traded; what its own trades add
\* up to is only a lower bound, since the order may have been a maker before
\* the job was serialised.
JobIsConsistent == \A i \in DOMAIN jobs : Consistent(jobs[i])

Serial == INSTANCE SerialQueue WITH
    joined <- taken \o [i \in DOMAIN pending |-> pending[i].id],
    served <- Len(taken),
    busy <- processing,
    answer <- reply

\* Whatever the awaits, failures and scheduling in between, callers see the
\* serial queue that order-queue.ts promises, and see it make progress.
ImplementsSerialQueue == Serial!Spec

\* Every submitted order is answered in the end, also when calls fail.
EveryoneIsAnswered ==
    \A o \in Orders : reply[o] = "waiting" ~> reply[o] \in {"resolved", "rejected"}

\* md/orders-trades.api.md:111, "When an order matches, resulting trades are enqueued
\* and persisted": once its caller has been answered and no add is on its way, an
\* order that has taken something from the book, and so changed what others hold, has
\* a persistence job with those trades.
EveryMatchedOrderHasAJob ==
    adding = << >> => \A o \in Orders :
        (reply[o] \in {"resolved", "rejected"} /\ BookTrades(o) # << >>)
            => \E i \in DOMAIN jobs : jobs[i].order = o /\ jobs[i].trades # << >>
============================================================================

------------------------------ MODULE CreTrades ------------------------------
(***************************************************************************)
(* What CRE says of trades it has executed: POST /api/cre/buy and sell     *)
(* (services/cre-buy-sell-callback.service.ts).  The order they belong to  *)
(* is written by the persistence worker, before, after, and perhaps again. *)
(***************************************************************************)
EXTENDS Handlers

CONSTANTS
    MarketOrders,   \* orders the contract executes
    Values          \* what the fields of a callback may hold

VARIABLES
    jobs,           \* persistence jobs added and not yet done
    payload,        \* Order.crePayload: no row, or what its fields hold
    executed,       \* orders CRE has executed
    reported,       \* history: of each field, what the last callback written brought
    crossed         \* history: orders of which two callbacks have read the same row

tradeVars == <<jobs, payload, executed, reported, crossed>>

\* No fields, and so no row.
NoOrderRow == [field \in {} |-> field]

\* The quote an order comes with: userSignature stands for what no callback brings,
\* tradeCostUsdc for what every callback brings too (quantity, buy, questionId).
QuoteFields == {"userSignature", "tradeCostUsdc"}
Quote == [field \in QuoteFields |-> "quoted"]

\* buildCallbackPayload: CRE's cost, and one hash at least.  The value of a callback stands
\* for all that its fields hold, so that a field tells which callback brought it.
Hashes == {"txHash", "txHashes"}
Report(F, v) == [field \in {"tradeCostUsdc"} \union F |-> v]
Reports == {Report(F, v) : F \in (SUBSET Hashes) \ {{}}, v \in Values}

\* What a row may hold.
Payloads == UNION {[QuoteFields \union F -> Values \union {"quoted"}] : F \in SUBSET Hashes}

TradesInit ==
    /\ jobs = {} /\ executed = {} /\ crossed = {}
    /\ payload = [o \in MarketOrders |-> NoOrderRow]
    /\ reported = [o \in MarketOrders |-> NoOrderRow]

\* postToCre: whether CRE has done what it was asked, and whether the caller learns so.
\* A refusal, a lost answer and one that is no JSON read alike.
CreCalls == {[done |-> TRUE, ok |-> TRUE], [done |-> TRUE, ok |-> FALSE],
             [done |-> FALSE, ok |-> FALSE]}

\* The orders CRE has executed after executeUserMarketTradeOnCre.
AfterCall(o, call) == IF call.done THEN executed \union {o} ELSE executed

\* The MARKET branch of POST /orders ...
TakeMarketOrder(r) ==
    /\ Arrive(r, "market")
    /\ \E o \in MarketOrders \ (executed \union {req[q].order : q \in InFlight("market")}) :
          Become(r, [kind |-> "market", at |-> "cre", order |-> o])
    /\ UNCHANGED <<tradeVars, faults>>

\* ... has CRE execute the order, and then adds the job; after an error there is
\* none, whatever CRE has done.
ExecuteMarketOrder(r) ==
    /\ At(r, "market", "cre")
    /\ \E call \in CreCalls :
          /\ executed' = AfterCall(req[r].order, call)
          /\ IF call.ok THEN Goto(r, "enqueue") /\ UNCHANGED <<traffic, faults>> ELSE Rejects(r)
    /\ UNCHANGED <<jobs, payload, reported, crossed>>

EnqueueOrder(r) ==
    /\ At(r, "market", "enqueue")
    /\ jobs' = jobs \union {req[r].order}
    /\ Answer(r)
    /\ UNCHANGED <<payload, executed, reported, crossed, traffic, faults>>

\* An update that writes the payload as the job has it.
JobsPayload(o) == Quote

\* order.upsert: only create has the payload.
UpsertedPayload(o) == IF payload[o] = NoOrderRow THEN Quote ELSE payload[o]

\* The worker does a job; BullMQ may have it done again.
PersistOrder ==
    /\ \E o \in jobs :
          /\ payload' = [payload EXCEPT ![o] = UpsertedPayload(o)]
          /\ \/ jobs' = jobs \ {o} /\ UNCHANGED <<traffic, faults>>
             \/ Fault /\ UNCHANGED jobs
    /\ UNCHANGED <<executed, reported, crossed, req>>

\* POST buy or sell, three looks at most.
TradeCallback(r) ==
    /\ Arrive(r, "tradeResult")
    /\ \E o \in executed, body \in Reports :
          Become(r, [kind |-> "tradeResult", at |-> "look", order |-> o, body |-> body,
                     tries |-> 3])
    /\ UNCHANGED <<tradeVars, faults>>

\* The order with this nonce and deadline; or 3 s of waiting; or 404.  Another callback
\* that has read the row, and not written it yet, will write what this one reads.
FindOrder(r) ==
    LET x == req[r]
        readers == {q \in InFlight("tradeResult") : req[q].at = "merge" /\ req[q].order = x.order}
    IN  /\ At(r, "tradeResult", "look")
        /\ IF payload[x.order] # NoOrderRow
           THEN /\ Become(r, With(x, [at |-> "merge", read |-> payload[x.order]]))
                /\ crossed' = IF readers = {} THEN crossed ELSE crossed \union {x.order}
           ELSE /\ IF x.tries > 1 THEN Become(r, [x EXCEPT !.tries = @ - 1]) ELSE Answer(r)
                /\ UNCHANGED crossed
        /\ UNCHANGED <<jobs, payload, executed, reported, traffic, faults>>

\* The callback instead of the payload.
Replaced(x) == x.body

\* The spread at 79: the callback's fields over those that were read.  A second
\* callback's txHash takes the place of the first one's.
Merged(x) == With(x.read, x.body)

\* order.update ...
UpdatePayload(r) ==
    LET x == req[r]
    IN  /\ At(r, "tradeResult", "merge")
        /\ payload' = [payload EXCEPT ![x.order] = Merged(x)]
        /\ reported' = [reported EXCEPT ![x.order] = With(@, x.body)]
        /\ Goto(r, "publish")
        /\ UNCHANGED <<jobs, executed, crossed, traffic, faults>>

\* ... then redis.publish and 200.  When the publish rejects the answer is 500, and the
\* row stays as it was written (TradesFail).
PublishPayload(r) ==
    /\ At(r, "tradeResult", "publish")
    /\ Answer(r)
    /\ UNCHANGED <<tradeVars, traffic, faults>>

TradesArrive(r) == TakeMarketOrder(r) \/ TradeCallback(r)
TradesStep(r) ==
    \/ ExecuteMarketOrder(r) \/ EnqueueOrder(r)
    \/ FindOrder(r) \/ UpdatePayload(r) \/ PublishPayload(r)

\* A call fails: an executed order may never get its job, a callback may be in the row
\* and not confirmed.
TradesFail(r) ==
    /\ req[r].kind \in {"market", "tradeResult"}
    /\ Rejects(r)
    /\ UNCHANGED tradeVars

----------------------------------------------------------------------------
TradesTypeOK ==
    /\ jobs \subseteq executed /\ executed \subseteq MarketOrders
    /\ \A o \in MarketOrders : payload[o] \in Payloads \union {NoOrderRow}

\* What callbacks brought stays in the order's row, over the quote, each field until
\* another callback brings the same one: the worker's job, late or run again, takes
\* nothing out, and neither does a callback with other fields, or one whose publish
\* fails after its update.  A 200 comes after the update, so what CRE was told is
\* kept is; two callbacks that have read the same row each write it as they read it,
\* and that order is left out.
\* (cre-buy-sell-callback.service.ts:74-96, trades-persistence.worker.ts:443-467.)
ReportedIsKept ==
    \A o \in MarketOrders \ crossed :
        payload[o] = NoOrderRow \/ payload[o] = With(Quote, reported[o])
=============================================================================

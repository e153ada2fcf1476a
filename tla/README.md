# A formal model of sub0server

sub0server is the backend of a prediction market: an order matching engine per
market outcome, a job queue that writes its results to PostgreSQL, an agent
worker that trades through a language model, a connection to Chainlink CRE for
everything on chain, and WebSocket rooms for its clients. This directory holds
TLA+ modules translated from its source, TLC configurations that check them on
small instances, and theorems about them with proofs checked by TLAPS.

The source is the reference. A comment or a page of `src/md/` is quoted only
where a property states it; where the code disagrees, a run shows how
(see "Findings").

Run a check with `tlc -workers 2 -config MCOrderBook.cfg MCOrderBook.tla`, and a proof
with `tlapm OrderBookProofs.tla`. `PROJECT.json` is the index: the components, the
runs, for every property a mutation of the code's model that it catches, the
source lines each definition stands for, the hazards and the theorems.


## The system

One Node process runs Fastify, the WebSocket rooms, the BullMQ workers and the
cron timers (`src/server.ts`); the workers can also be run by scripts in
processes of their own (`worker:trades`, `worker:agent`). JavaScript runs one
callback at a time: code between two `await`s is atomic, and at an `await` any
other callback, HTTP request or worker may come in. PostgreSQL (Prisma) and
Redis (BullMQ, pub/sub) are shared by all processes. Only one function opens
a database transaction, around reads (`agent-market-creation.service.ts:489`): every write stands alone.

| Component | State it keeps | Operations | Modelled |
|---|---|---|---|
| Matching engine, `engine/matching-engine.ts` | per book: `bids`, `asks` (Map price -> list), the sorted arrays `bidPrices`, `askPrices` | `processOrder`, `getSnapshot` | `OrderBook` |
| Order queue, `engine/order-queue.ts` | per book: `pending`, `processing` | `submitOrder`, `drainQueue`, `processOne` | `OrderQueue`, `SerialQueue` |
| Platform fill, `services/platform-fill.service.ts` | none (reads `Position`) | `fillMarketFromPlatform` | `PlatformFill`, `OrderQueue` |
| Trades queue and persistence worker, `workers/trades-*.ts` | the BullMQ queue; `Order`, `Trade`, `Position`, `Market.volume` rows | `addTradesJob`, `persistTrades` | `TradesPersistence` |
| Order route, `routes/orders.routes.ts` | none | `POST /orders`: book, contract or 4xx | `TradesPersistence` (part) |
| Market creation: CRE cron, `cre-pending-markets.ts`, on-chain callback, seeding | pending list in memory, draft and market rows, platform positions | `trigger`, `runPoll`, `persistMarketFromChain`, `createMarketFromOnchainResult`, POST and DELETE of `markets.routes.ts` | `MarketCreation` |
| Agent worker, `workers/agent-worker.ts`, with `agent-enqueue.routes.ts` and `trigger-all.service.ts` | BullMQ jobs; `AgentEnqueuedMarket`, agent positions, pending trades, balances | `executeAgentLoop`, `submitOrderFromWorker`; enqueue, unenqueue, trigger, trigger-all | `AgentLoop`, `AgentEnqueue` |
| Simulation, `routes/simulate.routes.ts` | `Simulation` rows and their jobs; the last funding, in Redis and in memory | start, extend, stop, delete, fund, balance | `Simulation` |
| Request handlers, `server.ts` | the requests at work | Fastify's handlers, the process and its end | `Handlers`, `Backend` |
| Agents and their wallets: `agents`, `register`, `sdk-agent`, `cre-callback` routes | `Agent`, `AgentRegistration`, `User` rows | create, register, claim, create-wallet, patch, delete, two callbacks | `AgentWallet` |
| Balances and vault: `settings.routes.ts`, `user-balance.service.ts`, `agent-balance.service.ts` | `UserVault`, `UserBalance`, two copies of an agent's balance | deposit, withdraw, deduct, synchronize | `Ledger` |
| Pricing requests, `cre-lmsr-pricing.service.ts` | pending requests in memory, with timers | request, callback, timeout | `PricingRequests` |
| WebSocket rooms, `websocket.service.ts`, `price-feed.service.ts` | rooms, sockets, heartbeats | subscribe, unsubscribe, broadcast, heartbeat, price feed | `SocketRooms` |
| Settlement, `settlement*.ts` | `Market.status`, `MarketSettlementLog` | due, run, resolved; a market's patch and deletion | `Settlement` |
| Trade reports, `cre-buy-sell-callback.service.ts` | `Order.crePayload` | buy and sell callbacks, beside the job that writes the row | `CreTrades` |
| Candles, `candles.service.ts` | none | `getMarketCandles` | `Candles` |
| LLM key rotation, `lib/llm-rotation.ts` | a counter per list of keys | next key, rate limit | `KeyRotation` |
| LMSR pricing engine | none | cost and price formulas | no: exponentials of decimals |
| Other read-only routes, statistics, authentication, scripts | none | queries, stateless checks | no |


### How they interact

    POST /orders --submitOrder--> pending --drainQueue--> processOrder (the book)
        |                                                     |
        |  (signed MARKET order)                     fillMarketFromPlatform (reads Position)
        v                                                     |
    CRE execute-trade                           publishes to Redis --> rooms
        |                                                     |
        +---addTradesJob (FILLED)---> trades queue <---addTradesJob (not awaited)
                                           |
                             persistTrades: Order, Trade, maker rows,
                             positions, CRE execute-trade, Market.volume

Agents call the same route from the agent worker. A simulation schedules agent jobs with
another `chainKey`; live and simulated orders share one book.

    enqueue, trigger, crons, start/extend a simulation --> agent queue --> executeAgentLoop
                                                             ^                |   |
                                     repeating jobs, retries-+                |   +--> POST /orders
                                                   AgentEnqueuedMarket.nextRunAt, Position

    CRE --callbacks--> wallets and keys (Agent), quotes --> Redis --> rooms --> sockets
                       trade reports (Order.crePayload), settlement (Market.status)

CRE answers by callback, whenever it likes and perhaps twice; what a callback is about has
been written by a request that may not have finished yet. Markets come from the
cron or an agent, through CRE and back by callback or by poll, whichever is first;
creating one creates platform positions, which the platform fill sells from.

### What is hard, and what makes it correct

* **Matching engine.** Two indexes of one fact (sorted prices and level lists)
  kept in step over any sequence of insertions, partial fills and removals;
  priority; that nothing is filled twice. *Correct when* the indexes agree, the
  book is never crossed, the best and earliest order trades first, quantities
  are conserved, and a final status is final.
* **Order queue.** Drains scheduled by several submitters and by the `finally`
  of one another, awaits in the middle of one order, publishes and a database
  read that reject, numbers that throw. *Correct when* each book is served one
  order at a time in the order of submission, every caller is answered, and what
  an answered caller was promised has been published in order.
* **Persistence.** A job is a row of statements without a transaction, each
  writing what an earlier one read. Jobs are redelivered, run beside each other,
  and write rows that other jobs write too. *Correct when*
  rows never claim more than the book did, and settle to it.
* **Market creation.** Polls that overlap, a callback that does the same work, and a
  cron that sends what it finds unfinished, with RPC calls between every look
  and write; the list of what is awaited lives in memory and for two minutes.
  *Correct when* what is created on the chain is recorded, with platform
  positions to trade against and a truthful `liquiditySeeded`.
* **Agent worker and simulation.** Several producers send jobs for one market, five run at
  once, and each decides on rows read minutes before, while simulations are extended,
  stopped and deleted. *Correct when* a market is traded once for each time it falls due, a
  stopped simulation's orders dry up, and what was paid for is there.
* **Wallets.** A wallet is asked for by one request and delivered by another, by two routes;
  funding comes minutes before the key is written. *Correct when* an address has its own key
  and funds are on a wallet somebody has the key of; one registration makes one agent.
* **Balances.** Checks before unconditional updates, and one number kept in two columns.
  *Correct when* sums agree with what was done and copies with what they copy.
* **Pricing requests and rooms.** A callback that overtakes the registration of its request;
  two mirrored maps; clients that leave without a word. *Correct when* nothing stays for ever
  and an answer reaches who waits for it.
* **Settlement and trade reports.** Verdict, report and callback come one after the other
  while the market changes; a report may come before the row it belongs to. *Correct when*
  what CRE did is what was decided, and what it said is kept.


## The modules

| Module | Is | Stands on |
|---|---|---|
| `OrderBook` | `class OrderBook`: one action per stage of `processOrder` | |
| `PlatformFill` | the platform's share of a result, and the job made of it | `OrderBook` |
| `OrderBookProofs` | the book's inductive invariant, what a status says about the fills, that trades account for them, and the lists made of them | `PlatformFill` |
| `SerialQueue` | the abstract contract of `submitOrder` | |
| `OrderQueue` | `order-queue.ts`, implementing `SerialQueue` | `PlatformFill`, `SerialQueue` |
| `OrderQueueProofs` | its inductive invariant, six theorems, the safety half of the refinement | `OrderQueue`, `OrderBookProofs` |
| `TradesPersistence` | the route, the worker's statements, BullMQ and faults | `PlatformFill` |
| `TradesInvariant` | its inductive invariant, and that the engine and the route keep it | `TradesPersistence`, `OrderBookProofs` |
| `TradesPersistenceProofs` | that the worker and the faults keep it, and seven theorems | `TradesInvariant` |
| `MarketCreation` | the CRE cron, polls, callbacks and market rows, with the chain as environment | |
| `MarketCreationProofs` | its inductive invariant, four invariants and two action properties | `MarketCreation` |
| `Handlers` | requests as processes between awaits, traffic and faults | |
| `AgentLoop` | `executeAgentLoop`, loop by loop | `Handlers` |
| `AgentEnqueue` | the routes and crons that give it jobs | `AgentLoop` |
| `Simulation` | `simulate.routes.ts`, composed with the worker | `AgentEnqueue` |
| `SimulationProofs` | its inductive invariant and five theorems | `Simulation` |
| `AgentWallet`, `Ledger`, `Settlement`, `CreTrades` | the routes of their names, above | `Handlers` |
| `SocketRooms` | rooms, heartbeats, the routing of channels, the price feed | `Handlers` |
| `PricingRequests` | quotes, whose answers go to the rooms | `SocketRooms` |
| `Backend` | these five in one process, with its timers and its end | all of them |
| `BackendProofs` | an inductive invariant for each of the five | `Backend` |
| `Candles` | the candles of a list of trades | |
| `KeyRotation`, `KeyRotationProofs` | the key rotation and what it does for any number of keys | |
| `MC...` | the instances for TLC | |

### OrderBook

`processOrder` is synchronous, so nothing can come between its steps, but its
loop is where the work is: it is modelled as the steps it takes, with `taker`
naming the order in hand. `Accept` or `Refuse` is everything up to the loop,
`MatchOne` one round (`getBestOpposite`, the crossing test, `matchOne` with its
`removeFromBook`, `trades.push`), and `Rest`, `CancelRemainder` and `Complete`
the three returns. `levels` is both Maps (`<< >>` for a key that is absent),
`prices` both arrays. The code writes out bids and asks separately; the model
has one definition with the side as a parameter, which a reader can compare with
either branch. `trades` keeps every trade ever made, so that properties can
speak of them: the code's own array is its end with `taker = o`
(`BookTrades`).

*Numbers.* The code keeps decimal strings, and compares and subtracts them with
decimal.js. They are integers here. The exact zero tests, `<=` against
`<`, and "no price" as 0 are kept. Rounding to 20 significant digits
and the texts `NaN` and `Infinity`, which decimal.js reads and every `lt` and `lte`
lets through, are not modelled. A text decimal.js cannot read makes `processOrder`
throw before any change; `OrderQueue` follows up on that.

### OrderQueue and SerialQueue

Every `await` ends an action. `Submit` is `submitOrder` (the queue entry, the
promise, the `setImmediate`). `DrainNext` is `drainQueue` up to the engine, `EngineMatch` and
`EngineReturn` the engine, `PlatformSells` the awaited Prisma read, `Publish` one
awaited publish, and `Finish` and `Fail` the resolve or reject with the `finally`
block's rescheduling. `drains` counts the callbacks scheduled and not yet run:
there may be more of them than orders, and `DrainNothing` is one that finds
another busy or nothing to do. Only the engine's own steps may happen while
`taker # NoOrder`.

The add of the persistence job is not awaited: `Finish` leaves the order in
`adding`, `AddJob` takes effect later, and `AddFails` is the rejection that is
only logged. BullMQ turns the job's data into text when its connection is ready, and
the data holds *the order object that rests in the book*: `Job` is therefore evaluated
in `AddJob`, with the status and fills the order has by then.

`SerialQueue` says what the header of `order-queue.ts` promises: a line, one
served at a time, each answered once. `OrderQueue` is shown to implement it
under `joined <- taken \o` the ids still pending, `served <- Len(taken)`, busy
and answers as they are.

### TradesPersistence

Composes the book, the route and the worker. The route's three outcomes are
`Place` (the book; the queue's own interleavings are `OrderQueue`'s subject, so an order
goes straight in), `DirectSend` with `DirectRecord` or `DirectFails` (a signed
MARKET order executed on CRE, then queued as FILLED), and nothing (4xx).
`EngineReturn` reads the platform's row, fixes the result and appends the job in
a row: the await between the read and the add is left to `OrderQueue`, and the job
always arrives.

The route does not look at the quantity of a signed MARKET order: one of zero is recorded as FILLED with a trade of
nothing, which the worker then applies to its parties' rows like any other. The contract's amounts are unsigned, so
`DirectRecord` has no negative one.

A worker takes the head of the queue (`Take`) and goes through `persistTrades`
statement by statement: `WriteOrder` (the upsert), `WriteTrades`, for each
trade `ReadMaker`/`WriteMaker`, for each trade `ReadBuyer`/`WriteBuyer`,
`ReadSeller`/`WriteSeller` and, for a sale beyond the row, `WriteShort`; then
`Cre`, `AddVolume`, `Done`. What a read returned is in the worker's record, so a
write uses it however stale.

Faults are `JobError` (a call rejects: one attempt, the job is over), `Stall` (the lock
expires while the worker runs on, and BullMQ puts the job back at the head) and
`Restart` (books and waiting routes are lost, jobs survive and those in hand are
stalled).

Left out: the early return for a deleted market, trades without a `questionId`,
average prices, the reasoning and outcome text of `createEnhancedPosition`,
redis publishes, the route's wallet deduction. The platform's `Position` row is
assumed to be at the address `fillMarketFromPlatform` reads
(`config.platformLiquidityAddress`). `createPlatformPositionsForMarket` writes it at
`contracts.usdc`; where the two differ in a deployment the platform has nothing to sell,
which is `PlatformSupply = 0`.

### MarketCreation

One action per stretch between two awaits. The cron's `triggerCreateMarketsFromBackend`
is `TriggerReads` (`getDraftMarketsForCre`), `Suggest`/`WriteDraft`/`EndDrafting`
(`createDraftMarketsFromAgents`), and `TriggerOk` (`addPending`) or `TriggerFails`.
`runPoll` is `PollStart` (the filtered list, kept by the poll whatever others remove
meanwhile) and `PollFinds` or `PollMisses` for each item; `persistMarketFromChain` and
`createMarketFromOnchainResult` do the same work in two orders and share
`ReadDraft`, `FillDraft`, `FindExisting`, `CreateRow`, `AddPositions`, `SeedOnChain` and
`WriteFlag`: `path` and `AfterPositions` say what comes next for whom. A
callback alone has `AskChain` (with its retries) and `MarkDraft`. `Shares`, `AgentAnswers`, `Kept`, `Demo` and
`Suggestions` say how many drafts a run may come to when agents answer short, fail or are not there. What a read
returned is in the `work` record and may be stale when it is used.

A *question* stands for its questionId and its conditionId: the run of the cron,
the draft and the name it was made of. That is what the suffix of
`cre-question-unique-suffix.ts` does: another run, another question. Of 15 s and 120 s
only the order is kept (`age`). The chain and CRE are external: `received`, `onChain`,
and `seeds`, which counts a seeding only when its receipt has arrived.

Left out: volume and liquidity, texts and images, PATCH (in `Settlement`), the batch limit. Faults are
`Reject` (any awaited call) and `Restart` (the pending list and all requests are lost).


### Handlers

A request of Fastify runs alone up to an `await`. So `req[r]` is where a request is (`kind`,
`at`) and its local variables, which it goes on with however stale they are. Each module
that extends `Handlers` has an action that brings a request of a kind (`Arrive`), one for each
await it comes back from, and its failure (`Rejects`: a 500 and nothing undone). `Traffics` is
a set of *mixes*: how many requests of each kind and how many faults one behaviour may have.
Requests that share no state are not multiplied with each other; who meets whom is in the
instance.

Some properties hold of requests that do not overlap with another of the same row, and
the code promises no more. History variables (`alone`, `mixed`, `drawnTwice`, `crossed`,
`patched`, `torn`, `slips`) record that two did, and the property says which it is about. They appear
in no guard.

### AgentLoop, AgentEnqueue and Simulation

One agent, since agents share no row. A job goes through `CheckSimulation`, `Gather` (the
row, `nextRunAt`, the market), `Decide` (minutes of LLM calls; `Analysis` is how two answers
become a decision), `FindPosition`, `Place` (the position written before the order), `CheckFunds`,
`Submit` or `Refused`, and `Record`. `JobFails` is a throw at any await, `WorkerCrash` puts the jobs in
hand back. `FallsDue` and `Repeat` are time: `nextRunAt` passes and a repeating job fires.

`AgentEnqueue` is who adds jobs: `Enqueue` with its repeating job, row and first job,
`Unenqueue`, `Trigger`, `TriggerAll` with its discovery of markets. `Simulation` is a run's start
(payment, row, one row and job for each market), its extension, stop, deletion and the
funding of its wallet. The order posted is modelled by its answer: books are `OrderBook`'s subject.

A funding (`fundSimulateWallet`) is two admin calls sent at once, native tokens and USDC: `AskChain` sends them,
`FundWallet` is one of them carried out and answered, and only after both is memory told. `FundingFails` is one of them
refused, or carried out with its answer lost: the handler answers 502, tells neither memory nor Redis, and the other
call stays under way (`strays`), to be carried out by `StrayCall` or not. A restart leaves calls under way too.

`late`, `orders`, `seen`, `bought`, `asked`, `slips` are history. Simulated time has no clock: a week
passes (`WeekPasses`), a row falls due.

What reading it for the model brought up and no document promises otherwise:
the position stays when its order is refused, fails, or becomes a pending trade for lack
of money, and a pending trade is never taken up again; a repeating job survives
`DELETE /agent/enqueue` (`agent-enqueue.routes.ts:86` removes the row) and goes on without a row; a
second row of one market on main is possible, `@@unique` being blind to null; the balance route
of a simulation stores raw units where funding stores USDC (`simulate.routes.ts:214`).

### Backend

`Backend` composes five parts that share the process. `Next` is a request's arrival, a step or a
failure of it, what sockets and timers do, what comes from outside, and `ServerRestart`.

* `AgentWallet`: a key pair is a number, which is also its address; 0 is PENDING. `StoreResult`
  and `StoreKeys` are the two callbacks' writes, `Onboard` the funding. An agent deleted
  during onboarding makes the update reject with nobody to catch it (`Unhandled`), which
  ends the process.
* `Ledger`: `PutIn` and `TakeOut` are increments, `Spend`/`WriteTokens` a read and a write,
  `Sync` to `WriteRowOf` the copies of a balance. Nothing in the program adds to a user's token
  balance: the first deduction makes the row, 0, and later ones throw and are swallowed.
* `SocketRooms`: `RoomsOf` is the routing of every channel, `Deliver` one message of Redis. A
  lost client is found by `Heartbeat`. Filters of a subscription are documented and dropped by the
  handler, so there are none.
* `PricingRequests`: `FetchQuote` and `TrackQuote` are two awaits, hence a callback may come between.
* `Settlement`: `Opinions`, `Review`, `Consensus`, `LogAndAnswer`; `WriteReport` is CRE's; `CloseMarket` the
  callback, which writes CLOSED where its comment says RESOLVED.
* `CreTrades`: `ExecuteMarketOrder` is the route, `PersistOrder` the job that writes the order's row,
  `FindOrder` the callback's look, `UpdatePayload` its write, a spread of its fields over those it read, and
  `PublishPayload` the publish it is answered 200 after. The row holds values, not only names of fields: a second
  callback's `txHash` takes the first one's place, and a publish that rejects leaves the row written and the
  answer 500.

### Candles and KeyRotation

`Candles` is a pure operator, the fold of a list of trades into buckets; `MCTradesPersistence`
compares it in an ASSUME with what a candle is, for every list of up to three trades
in time order. `KeyRotation` is a counter; it is proved about (below) and has no run.


## The runs

| Run | States | Shows |
|---|---|---|
| `order_book` | 546 000 | Four orders of every type at up to three prices, in every sequence |
| `order_queue` | 295 000 | Three callers, interleaved with drains, awaits, rejections and job additions |
| `persistence` | 902 000 | Three orders, two consumers, one fault |
| `market_creation` | 645 000 | The cron, two polls, a request and CRE, one rare event |
| `simulation` | 498 000 | Enqueueing, crons, simulations and funding, beside a worker of two loops |
| `backend` | 222 000 | Wallets, balances, quotes and rooms, settlement and trade reports |
| `job_lost`, `chain_isolation`, `marked_draft`, `user_fill_once`, `platform_oversell`, `sell_closes_long` | until violated | The findings below |

**`order_book`.** `TypeOK` includes that no remaining quantity is ever negative.
`BookWellFormed` is the agreement of the indexes, `Uncrossed` holds even between
two rounds of the loop, `StatusMeaning` says what each status promises about the fills,
`Conservation` that the trades account for what left each order.
`RemainderMeansEmptySide` shows that the best-ask hint `processOne` passes to the platform fill is always
undefined, so a platform fill after no book trade is always priced at the default.
`PriceTimePriority` and `TerminalIsFinal` are action properties. *Bounds:* with
three prices a price is inserted in the middle of an array; with four orders a
taker sweeps several makers over several levels, a maker outlives several takers
and a level holds a queue. Order ids are only compared, so they are symmetric.

**`order_queue`.** `NoLostWakeup` (an order is never left with nobody to come for
it), `PublishedInOrder` and `ResolvedIsPublished` (subscribers see each order's
messages whole and in order, before the caller is told), `JobIsConsistent` (a
job that turns into text late still tells one story: FILLED if its fills make up the
quantity, never more than has traded), `ImplementsSerialQueue`, and
`EveryoneIsAnswered`. *Bounds:* three orders give one in the engine, one waiting
and one that arrives at any moment; surplus drains occur from the second on. Inputs: one
that rests, one that crosses and rests, MARKET orders of both sides (with and without
platform stock), one the engine refuses, one that throws.

**`persistence`.** With a fault or without: `RowNeverAheadOfBook`,
`JobsAreDone`, and of `TradesAreCounted` that there is one row for each trade a job has told of,
however often it runs. Only when no
fault happened (each says so in its definition): `RowsSettle`, `BooksBalance`,
the volume's part of `TradesAreCounted`, `AtMostOneOpenLong`, `AgentSignaturesCounted`. They are *not* true
after a redelivery or with two consumers, since positions and the volume are
added to and nothing records how far a job came; no document promises otherwise.
`AgentSignaturesCounted` counts the calls made with an agent's signature exactly: one for each fill of its order, and
one more when the route has had CRE execute the order before it was queued. That one more is finding 4.
`RowsSettle` documents a defect of the code in its own words: a maker filled by
several takers stays PARTIALLY_FILLED in the database, because each job compares its own
fill with the whole amount. *Bounds:* three orders are a maker with two takers or a
taker with two makers; of the two takers' jobs one can fail, be run twice, or
overlap the other (`MaxFaults = 1`; a second consumer taking a job while the first
is busy counts as the fault). The order that
the contract fills is an agent's here and a user's in `user_fill_once`; the tables do not tell them apart. With contract fills of nothing among the inputs, which makes the run too long,
the same was checked by hand (1.74 million states).

**`market_creation`.** `ConditionIsOnChain` (a market that claims a condition has it on the
chain, under its own questionId, whoever wrote last), `MarketHasItsPositions` (it can be
traded against the platform once everyone is done), `SeededMeansSeeded`,
`AnsweredIsRecorded` (a callback answered 201 left a row) and `LeavesRecorded` (a
question younger than two minutes is not forgotten without a row). *Bounds:* one run of the cron
asks two agents for two drafts and sends what they come to; two polls overlap each other and a callback; a row deleted,
a user's market, a question that CRE fetched by itself, a failing call or a restart happens once.
With `Runs = 2`, `PerJob = 1`, no requests and `MaxRare = 0` (3.4 million states, checked by hand) the
same properties hold, and `MarketCreationProofs` proves them for any number of runs. They make an
exception, `SentTwice`, for what happens there: every row without a
questionId is sent at each run of the cron under a new suffix, also while the chain works on the
last one, so a draft becomes two markets (the poll finds the draft complete and creates
another), or a late callback writes its questionId over the one the condition was made of. A
market that a user created has no questionId either and is sent as if it were a draft, whereupon
its conditionId is overwritten. No property forbids this, since no document does.

Two names, with `MaxRare = 0`, were checked by hand as well: with rare events the run would not
end in time.

**`simulation`.** `StoppedSimulationDrains` (after a stop no more orders than the worker has loops
past its check, whatever is waiting, triggered or run again), `OneOrderPerDue`, `ExtensionsAddUp` (what was
paid for is in the row, and no more rows than markets), `FundedOncePerWeek` (in a week the chain is asked for test
tokens once, and once more for each slip that explains it: a request that read the last funding while another had
not written it, a Redis error, a funding torn between its two calls, a restart in the middle of one), and
`GivenMarketsAreSeen` (each market of a run is looked at, though no cron comes back for it).
*Bounds:* eleven mixes: two enqueues, an enqueue and its removal, trigger-all, and simulations
with a trigger, two stops, two extensions, two deletions, or a fault; three fundings in one. Two markets and
two loops are enough for one row in two loops and for a second job behind a busy worker; a
third loop would meet nothing new. Paused agents in the mixes of extensions keep the loops out
of what is between requests.

**`backend`.** `WalletsAgree`: `FundedWalletIsKept`, `AddressHasItsKey`, `ClaimsAgree`. `LedgersAgree`:
`VaultAddsUp`, `VaultIsCovered`, `SyncedIsSeen`. `CREReportsAreKept`: `PaidAsDecided` (the chain is told a
verdict both agents gave, which is in the log), `OnlyOpenIsClosed`,
`ReportedIsKept` (what callbacks wrote stays in the order's row, each field until another callback brings it, through late
and repeated jobs and publishes that reject, but for orders of which two callbacks had read the same row at once).
`NothingLingers`: `PendingEnds`, `LostSocketsLeave`, `QuotesArrive`. `BackendTypeOK` includes
`RoomsAgree`, that the two maps of rooms mirror each other. *Bounds:* sixteen mixes, each of two or
three requests of a kind with those that write the same rows, and one fault or none; two at a time at work
(the properties' exceptions name pairs). Two agents are the one and another that takes its
place; a claim may be made twice by two users; a vault has amounts of 1 and 2, so a withdrawal is
covered, just covered or not; a callback has one hash or two and one of two values, so that another repeats
a field with a new value, or brings a new field; verdicts agree, differ, pay nobody, or have a third outcome.

Deadlock is not checked: when all orders of the instance have been used the system
stops, as it should.

### Fairness

* `WF(Drain)`, `WF(ProcessOne)`: Node runs every `setImmediate` callback; the
  engine's loop is synchronous and ends; an awaited call of Prisma or ioredis
  returns or rejects (ioredis retries a command until Redis is back,
  `maxRetriesPerRequest: null`). Nothing is assumed of submitters or `AddJob`.
* `WF(Engine)`, `WF(Worker(w))` in `TradesPersistence`: the same, and a running BullMQ worker polls its
  queue. Faults are not fair and bounded. `JobsAreDone` needs nothing stronger.
* `WF(Progress)` in `Simulation`: a handler or a loop of the worker that can go on does, sooner or
  later one of them. No fairness for time, requests or the chain. It is one condition for all of
  them because in the instance all but finitely many steps are theirs.
* `WF(QuoteTimer)`, `WF(Deliver)`, `WF(SocketBeats(s))` in `Backend`: Node runs its timers, ioredis delivers what
  the server has subscribed to, the heartbeat's interval goes on. Nothing is assumed of
  clients, CRE or handlers: a quote whose handler never returns is not in the table.

### Findings

Each is a run that TLC must find violated.

1. `marked_draft` - `agent-markets-internal.routes.ts:8`: what a callback does not see on the
   chain yet is left to the pending poll. The poll forgets after two minutes, the callback
   itself tries for up to 516 s before it marks the draft, and a draft with a questionId is
   never sent again: it stays half filled.
2. `job_lost` - `md/orders-trades.api.md:111`: when an order matches, its trades are enqueued and persisted. An order
   that has taken what another one offered leaves no job when a publish rejects before the add, or when the
   add itself rejects.
3. `chain_isolation` - `trades-persistence.worker.ts:110`: `chainKey` isolates simulated from
   live positions. Both parties of a trade get the taker's chain.
4. `user_fill_once` - `md/orders-trades.api.md:46`: one execute-trade request when the order becomes FILLED. A signed
   MARKET order is executed by the route and again by the worker. So is an agent's, against line 47 (one call for each
   fill): `AgentSignaturesCounted`, which holds, says how often.
5. `platform_oversell` - `platform-fill.service.ts:19`: fill from the platform's position.
   Several MARKET bids are filled from the same row before the first job reduces it.
6. `sell_closes_long` - `agent-position-creation.service.ts:194`: a sale closes the LONG or opens a
   SHORT. The row that `findFirst` returns (116) may be a SHORT or a CLOSED one: that one is
   written and the LONG stays open.

Two more comments are not what the code does. `lib/llm-rotation.ts:51` has a rate limit lead
to the next key: `StuckOnOneKey` below proves that it may lead back to the same one. At
`agent-market-creation.service.ts:382` the shares of the agents are to make up the number of markets asked
for: without the third agent three become two (`SharesAddUp` of `MCMarketCreation` names the exception).


## The proofs

TLC shows the properties of the book for four orders. TLAPS shows them for any set of
orders, parties and inputs. The assumptions are those of `OrderBook`:
`Inputs` are order inputs, `NoOrder` is no order, there is a party.

| Theorem | Property |
|---|---|
| `BookInvariant` | `BookSpec => []BookInv` |
| `TypeCorrect` | `TypeOK` |
| `BookStaysWellFormed` | `BookWellFormed` |
| `NeverCrossed` | `Uncrossed` |
| `RemainderEmptiesSide` | `RemainderMeansEmptySide` |
| `PriorityIsKept` | `PriceTimePriority` |
| `TerminalStaysFinal` | `TerminalIsFinal` |
| `StatusTellsTheFills` | `StatusMeaning` |
| `NothingFilledTwice` | `Conservation` |

*The inductive invariant.* `BookWellFormed` and `Uncrossed` are not inductive alone.
`BookInv` adds: `TakerIsPending` (exactly the order in hand is PENDING, it is the last to
have arrived and its price has a level - without it a taker could match itself, or a resting
order be closed twice); `BookArrivedBefore` (everything that rests arrived no later than
the clock, and before the order in hand - without it appending to a level need not keep it
in order of arrival); and `EveryPriceHasAPlace`, that every price splits each sorted
array into those it does not beat and those it does. The last is true of every
finite sequence, but `InsertPriceSorted` takes the minimum of a set of indexes and
that every finite set of numbers has one is an induction over data, which is out of the
provers' reach; carried along as an invariant, it needs only the one step of an
insertion or removal.

*The argument.* `InsertedPrice`, `InsertKeepsOrder`, `RemovedPrice` and `TailKeepsOrder`
are lemmas about the arrays alone. `BestIsFirst` turns "first non-empty level" into
"first price", `MakerIsResting` and `MakerIsBest` say who the maker is, and `MatchEffect`
what a round does to the book. From these, one lemma per action: `ArriveInv`,
`CallInv`, `MatchInv`, `RestInv`, `CloseInv`, put together in `NextInv`.
`PriorityIsKept` follows from `MakerIsBest` and the sorted arrays; `NeverCrossed` rests on the
loop having stopped: what remains of a LIMIT order does not meet the best, so none.
`StatusMeaning` needs one more invariant, `FillInv`: `NeverMoreThanAsked` and
`TradedStatuses` (the maker of a trade is neither NEW, PENDING nor REJECTED, its taker neither
NEW nor REJECTED). `Conservation` speaks of a sum over all trades, a fold of the community
modules: what it gives for a longer list follows by induction on the length, from the well-foundedness of `<`
(`NatLessThanWellFounded`), so no induction theorem is needed.

### The key rotation

| Theorem | Says |
|---|---|
| `TypeCorrect` | What is used is always one of the keys, however callers overlap |
| `StuckOnOneKey` | `Keys = Records + 1`: a lone caller that is limited gets the same key again, for ever |
| `MovesOn` | `Keys > Records + 1`: it gets another one |

A request moves the index by one and its 429 by `Records` more, so the next request is `Records + 1`
keys on. `Records` is 2 where `callGemini` and its caller's catch both record
(`agent-market-creation.service.ts:129`, 414) and 1 elsewhere: with three keys, or with two, that is a
full turn. The inductive invariant `Position` says where the index stands when the last
answer was a 429; the rest is `FullTurn` and `PartOfTurn`, arithmetic of `%` proved from quotient and
remainder. With callers that overlap neither property holds.

### The queue

For any orders and inputs, any supply of the platform, and any order of awaits, failures and drains.

| Theorem | Property |
|---|---|
| `QueueInvariant` | `QueueSpec => []QueueInv` |
| `QueueTypesHold` | `QueueTypeOK` |
| `NoWakeupIsLost` | `NoLostWakeup` |
| `MessagesKeepTheOrder` | `PublishedInOrder` |
| `JobsTellTheTruth` | `JobIsConsistent` |
| `ResolvedOrdersArePublished` | `ResolvedIsPublished` |
| `QueueIsSerial` | `Serial!Init /\ [][Serial!Next]_Serial!vars`, the safety half of `ImplementsSerialQueue` |

`QueueInv` contains the book's `BookInv` and `FillInv`, for the queue's steps include the engine's, and adds

* `TakerInv`: the trades of the order in the engine are the end of the list (so that `BookTrades` are
  they), and an order's trades and what it lacks together stay within what it asked for;
* `PlaceInv`: pending orders are new and waiting, `current` is the last that was taken up, and
  `phase` says how far it is;
* `AnnounceInv`: what is published of the current order and what is left to publish are together as many
  messages as it has, the book first, and nothing is out of an order that waits.
  `PublishedInOrder` alone says nothing of a list that is half out;
* `JobInv`: a job is its order's only one, it is on its way or queued, and what it says of the fills
  goes on being true while the order rests in the book and is filled further.

`ResolvedIsPublished` counts the messages of an order in what was sent (`FS_AddElement`, `FS_Subset`). The refinement is proved step by step: every action of
`OrderQueue` is a `Join`, `Serve` or `Reply` of the serial queue or leaves it alone.

### The backend

For any agents, registrations, users, sockets, markets and orders, any amounts, any number of
requests at work and any traffic.

| Theorem | Property |
|---|---|
| `BackendTypesHold` | `BackendTypeOK`, with `RoomsAgree` |
| `LedgersAlwaysAgree` | `LedgersAgree`: `VaultAddsUp`, `VaultIsCovered`, `SyncedIsSeen` |
| `WhatCREReportsIsKept` | `CREReportsAreKept`: `PaidAsDecided`, `OnlyOpenIsClosed`, `ReportedIsKept` |
| `WalletsAlwaysAgree` | `WalletsAgree`: `FundedWalletIsKept`, `AddressHasItsKey`, `ClaimsAgree` |
| `LedgerInvariant`, `SettlementInvariant`, `TradesInvariant`, `WalletInvariant`, `QuotesInvariant` | their inductive invariants |

Five invariants are proved one by one. `ReqOK` (a request's record is of its kind) is shared; for each
part a frame lemma says that a step of another part leaves the part's variables and its requests as they
were. What makes each inductive:

* `LedgerInv`. `VaultIsCovered` excepts withdrawals that overlap (`drawnTwice`): otherwise the row has
  enough for the only one at work, whatever is deposited meanwhile (`VaultInv`). `SyncedIsSeen` needs that who is
  about to write a chain's row has found what is there (`SyncedInv`), and that of the main chain's
  two copies one is written last (`MainInv`).
* `SettlementInv`. A deliberation holds the outcomes of its market unless they were patched since; a verdict
  that CRE was given can be paid; a market about to be closed was open when it was read.
* `TradesInv`. Where two callbacks have not crossed, what one has read is what the row still has, and a row holds the
  quote with what was reported laid over it: laying a callback over both keeps them equal.
* `WalletInv`. `mixed` names whom two requests were at work for. Any other agent or registration has one
  at most (`AgentOK`, `ClaimOK`), and what it has in hand is said place by place: which key it has, whether it is
  funded, stored, onboarded. Nothing is ever taken back that another relies on (`Grows`).
* `QuotesInv`. The two maps of rooms are one relation; a quote in the table is one CRE has been sent.

### Market creation

For any finite sets of markets and names, any number of runs, polls, requests and rare events.

| Theorem | Property |
|---|---|
| `CreationInvariant` | `Spec => []Inv` |
| `CreationTypesHold` | `TypeOK` |
| `ConditionsAreOnChain` | `ConditionIsOnChain` |
| `MarketsHaveTheirPositions` | `MarketHasItsPositions` |
| `SeededIsTold` | `SeededMeansSeeded` |
| `AnsweredCallbacksAreRecorded` | `AnsweredIsRecorded`, an action property |
| `QuestionsLeaveRecorded` | `LeavesRecorded`, an action property |

`Inv` has five parts. `CronInv`: a run has no more drafts than its job, asks CRE only for questions of its own
suffix, and what waits was sent by a run that is over. `BaseInv`: a draft that was sent (`Sent`) has no other
questionId than one it was sent under, and a row's condition is on the chain and was its own draft's, or belongs
to a question of no draft, in which case the row was never sent. `WorkInv`: for each place of a poll or callback,
what it knows that later writes depend on. `PositionsInv`: a row with a condition has its positions or somebody who
is about to create them. `RestInv`: types. `Grows` is what no step may undo of that while another is
between two awaits: an id once in use is never a draft's again, and a questionId once written is never taken
away. The two action properties follow from `Inv`: a worker drops or answers its own question only
(`Finishes`), and only when `Recorded` holds afterwards.

What `Only` (the filters of `cre-pending-markets.ts`) and the sequences made of a set contain is proved by
induction over their prefixes, from `NatLessThanWellFounded` and `WFMin`.

*The assumptions.* Markets and names are finite; the null values are none of the values they stand in for;
polls and requests are not the same workers; `PerJob` is in `1..50`, which the code enforces.

### Simulations and the worker

For any numbers of requests, loops and simulations, any finite set of markets, and any traffic and faults.

| Theorem | Property |
|---|---|
| `SimulationInvariant` | `Spec => []Inv` |
| `SimulationTypesHold` | `SimulationTypeOK` |
| `StoppedRunsDrain` | `StoppedSimulationDrains` |
| `OneOrderForEachDue` | `OneOrderPerDue` |
| `ExtensionsAllCount` | `ExtensionsAddUp` |
| `FundedOnceAWeek` | `FundedOncePerWeek` |

None of the four properties is inductive; `Inv` adds to each what it rests on.

* `LateInv`, for `StoppedSimulationDrains`: the orders accepted since the stop and the loops that are past the
  check of that simulation are together no more than the worker's loops. An accepted order moves one from the
  second number to the first, and no loop passes the check after the stop (`LateWorker`).
* `DueInv`, for `OneOrderPerDue`: a row that counts (`Only`) is due as long as a loop has it, one loop has it at
  most, and it has no order until that loop has traded. Rows are written where they stand by six operations;
  `DueMapped` says once what each has to show of a row.
* `SimsInv`, for `ExtensionsAddUp`: `Load`, the markets a simulation has rows of and those its starts and
  extensions still have to create, is within its markets and those an extension at work will add to
  it (`OwedOK`); an extension alone has read what the row still says (`BoughtOK`). Each row created moves a market
  from one set to another (`FitsOne`); the rows are counted by `FS_Injection` into the markets, since
  a simulation has one row of each.
* `FundInv`, for `FundedOncePerWeek`: each time the chain was asked has its slip but one, and that one too where Redis
  does not know of it and no request is about to tell it.
* `RequestsInv`, `RowsInv`, `LoopsInv`, `JobsInv`: which locals a handler has at each await, that rows are
  numbered and have owners, that loops in use have a job, and that a market has one repeating job.

A step moves one request or one loop (`Assigned`, `LoopMoves`), so each part is looked at under the operations
that touch it and framed under the others (`Turn`, `Undisturbed`); one lemma per group of operations,
`EnqueueKeeps` to `QuietKeeps`, puts the parts together, and `InvNext` the groups.

*The assumptions.* Markets and loops are finite, `"main"` is the id of no simulation, and what a behaviour
takes as given has the types of `WorldAssumption`.

### Persistence

For any orders, parties and inputs, any supply of the platform, any finite number of workers, any number of
faults, and any order of the worker's statements, redeliveries, restarts and new orders.

| Theorem | Property |
|---|---|
| `Invariance` | `Spec => []Inv` |
| `DbTypes` | `DbTypeOK` |
| `NeverAhead` | `RowNeverAheadOfBook` |
| `RowsSettleInTheEnd` | `RowsSettle` |
| `FillsCounted` | `TradesAreCounted`: `TradeRowsExact`, `VolumeIsTradeSum` |
| `OpenLongs` | `AtMostOneOpenLong` |
| `AccountsBalance` | `BooksBalance` |
| `SignaturesCounted` | `AgentSignaturesCounted` |

Most of these properties speak of the moment when the queue is empty and no worker is busy. `Inv` says what holds
until then, in two layers. `SafeInv` is true whatever fails:

* `BooksInv`. `BookInv` itself does not hold here: a restart empties the book and leaves orders that are LIVE and
  rest nowhere. `ShelfInv` keeps what is true of what does rest; `FillsInv` keeps, of every order, that
  its trades add up to what it lacks, that a trade has closed one of its parties, which statuses a party may have, and
  that the platform filled only what the book left.
* `ListInv`: trades are all different, and those of one taker stand in a row. So a set of trades can stand for the
  list, and the two trades of a taker are never confused.
* `JobsInv`: a job has the trades of its order as a taker, and the status with which it left the engine.
  That is final unless it rests: this is why a stale job can do no harm to `RowNeverAheadOfBook`, however late it runs.
* `WorkInv`: what a worker's record says at each statement: which trades it is at, that their rows
  are written, that a position it goes on with exists.
* `TablesInv`, `NewInv`: what the rows may say at all: FILLED only of what was.
* `CoverInv`: a processed order whose job was not dropped has its Trade rows, a job in the queue, or a worker that
  has its job. Redelivery moves it from the third to the second and never out of all.

`ExactInv` is what the tables say exactly while `faults = 0`, seen from the one worker at work (`Cur`):

* `LineInv`: one worker is busy at most, an order has one job, and a maker's job comes before those of its takers. The
  upsert of an order's row would otherwise undo what a taker's job wrote there, which is what `DoneInv` and `RowsInv`
  need to say which fills a row has seen.
* `LongInv`: one open LONG row of an account on a chain at most, and the row (or its absence) that the worker has read
  is still so when it writes.
* `NetInv`, `VolumeInv`, `SentInv`: the net position of an account, the volume and the number of signatures sent are
  the sums over the Trade rows less what the job at work has still to apply. `MakersLeft`, `BuysLeft`, `SalesLeft`,
  `SendsLeft` and `VolumeLeft` say which trades those are at each statement. `HalfSold` is the sale that has
  closed a LONG row and not yet opened the SHORT one.

*The argument.* `TradesInvariant` shows what a step of the engine or the route can do to the rest of the system
(`EngineEffect`: at most one order becomes processed, with its job at the end of the queue, and no job in the
queue becomes untrue), once for each action, and then that this keeps every part (`...UnderEngine`).
`TradesPersistenceProofs` restates each statement of `persistTrades` in terms of the record before and after it
(`PersistMoves`), shows that every one leaves worker and tables in order (`StatementFits`) and, if nothing has failed,
exact (`StatementExact`); `TakeInv` is the job's start, where nothing is left over from the one before, and `FaultInv` all
faults, after which `ExactInv` promises nothing. The properties follow with nothing queued: all that was left is
empty. Sums over sets (`MapThenSumSet`) and lists (`FoldLeft`) are those of the community modules: that one more
element adds its value is proved by induction on the number of elements, from the well-foundedness of `<`.

*The assumptions.* Those of the book, and: the platform and the contract are no orders, workers are finitely
many, the numbers are naturals, and only an agent's order carries a signature without the fields of a user's
(`PartyAssumption`, as the route has it).

Before it was proved, TLC checked `Inv` as an invariant of the instance of `MCTradesPersistence`.

### Only model-checked

Every liveness property: `EveryoneIsAnswered` and the fairness half of `ImplementsSerialQueue`, `JobsAreDone`,
`GivenMarketsAreSeen`, `NothingLingers`; fairness and ENABLED are out of the provers' reach. The candles, compared with
their definition over bounded inputs. Every safety invariant and action property that a run checks is a theorem.


## The plan

The modules planned are written and what their runs check of safety is proved; "What is not modelled" lists what they
leave out. What could follow is the refinement of `OrderQueue`'s queue by the one step with which `TradesPersistence`
stands for it (the engine's return, the platform's read and the job's addition in a row).

## What is not modelled, and why

Exponentials and logarithms of the LMSR engine: TLC has no such numbers. Layout, logging,
statistics and read-only routes keep no state. Authentication is a stateless guard.
Smart contracts, CRE, the language models and Tenderly are outside the
repository; what the code makes of their answers is modelled as a choice.

Of modelled components: average prices and reasoning texts of positions, `updatePositionRiskMetrics`
(nothing calls it), the profile of a user's settings, names and settings of agents, the answer of
CRE's agent-keys that names no agent (it only onboards), and a failed Redis subscription at start
(the rooms stay silent until the next restart). The routes of users, strategies and tools
write one row each at a caller's word, and so do three routes of positions, by which an owner may
change a `Position` row between a read and a write of the worker. The scripts are run by hand.

------------------------- MODULE TradesPersistence -------------------------
(***************************************************************************)
(* From the order book to the database: the BullMQ queue that carries each *)
(* processed order with its trades, and the worker that writes them        *)
(* (src/src/workers/trades-persistence.worker.ts), with the route that     *)
(* sends a signed MARKET order to the contract instead of the book         *)
(* (src/src/routes/orders.routes.ts).                                      *)
(*                                                                         *)
(* OrderQueue shows that orders reach the engine one at a time, so here    *)
(* the queue is left out: an order is placed, matched, and its job added   *)
(* and serialised in a row (its connection being ready).  That a job may   *)
(* never reach BullMQ is JobError before its first write.  Every await of  *)
(* the worker ends an action, so a row it has read may change before it    *)
(* writes.                                                                 *)
(***************************************************************************)
EXTENDS PlatformFill

CONSTANTS
    Workers,        \* consumers of the queue: in-process, and `worker:trades'
    Contract,       \* makerOrderId "contract"
    PlatformAcct,   \* PLATFORM_LIQUIDITY_ADDRESS
    NoAcct,         \* resolveAddress returned null
    PlatformSupply, \* what the platform's LONG row holds at first
    QuotePrice,     \* tradeCostUsdc / quantity of a signed quote (of nothing: any)
    MaxFaults       \* bound on crashes, failed calls and lost locks

\* Who an order is attributed to, and how much of a quote it carries: "full"
\* has userSignature, tradeCostUsdc, nonce and deadline, "bare" only the first.
Party == [kind : {"user", "agent", "nobody"}, chain : {"main", "tenderly"},
          quote : {"full", "bare", "none"}, acct : {w.acct : w \in Parties}]

ASSUME PartyAssumption ==
    /\ Parties \subseteq Party
    /\ \A w \in Parties : w.quote = "bare" => w.kind = "agent"
ASSUME NumbersAssumption == {PlatformSupply, QuotePrice, MaxFaults} \subseteq Nat
ASSUME ContractAssumption == Contract \notin Orders \union {Platform}
ASSUME WorkersAssumption == IsFiniteSet(Workers)

VARIABLES
    routing,    \* MARKET orders whose route is waiting for CRE's answer
    direct,     \* those that CRE executed against the contract
    jobs,       \* waiting jobs of the matching-engine-trades queue
    work,       \* what each worker is doing
    dbStatus,   \* Order rows: the status, "none" without a row
    dbTrades,   \* Trade rows
    positions,  \* Position rows of this (market, outcome)
    volume,     \* Market.volume
    sent,       \* execute requests sent to CRE with each order's signature
    dropped,    \* orders whose job failed: there is one attempt only
    faults      \* how many faults have happened

routeVars == <<routing, direct>>
engineVars == <<bookVars, platformFilled, routeVars>>
dbVars == <<dbStatus, dbTrades, positions, volume, sent>>
faultVars == <<dropped, faults>>
vars == <<engineVars, jobs, work, dbVars, faultVars>>

NoJob == [order |-> NoOrder, status |-> "NEW", trades |-> << >>]
NoRow == [id |-> 0, amt |-> 0]

\* at: the next await; i: the trade it is at; seen, row: what it last read.
Idle == [at |-> "idle", job |-> NoJob, i |-> 0, seen |-> "none", row |-> NoRow]

Acct(x) ==
    IF x = Platform THEN PlatformAcct
    ELSE IF x = Contract THEN NoAcct ELSE order[x].who.acct

----------------------------------------------------------------------------
(* POST /api/orders. *)

\* A signed MARKET order, which the route sends to CRE itself.
GoesToContract(in) == in.type = "MARKET" /\ in.who.quote = "full"

\* Status 400: an agent's MARKET order without the whole quote.
TurnedAway(in) == in.type = "MARKET" /\ in.who.kind = "agent" /\ in.who.quote # "full"

\* randomUUID: an id nobody has used; which one makes no difference.
FreshIds ==
    LET unused == {o \in Orders : status[o] = "NEW"}
    IN  IF unused = {} THEN {} ELSE {CHOOSE o \in unused : TRUE}

\* submitOrder, up to the matching loop.  A refused order has its job at once.
Place(o, in) ==
    /\ ~GoesToContract(in) /\ ~TurnedAway(in)
    /\ UNCHANGED platformFilled
    /\ \/ Accept(o, in) /\ UNCHANGED jobs
       \/ Refuse(o, in) /\ jobs' = Append(jobs, Job(o)')
    /\ UNCHANGED <<routeVars, work, dbVars, faultVars>>

EngineMatch ==
    /\ MatchOne
    /\ UNCHANGED <<platformFilled, routeVars, jobs, work, dbVars, faultVars>>

\* What fillMarketFromPlatform may read: its query names no chain and no order.
PlatformReads ==
    LET open == {i \in DOMAIN positions :
                    positions[i].acct = PlatformAcct /\ positions[i].side = "LONG"
                        /\ positions[i].open}
    IN  IF open = {} THEN {0} ELSE {positions[i].amt : i \in open}

\* The engine returns, the platform fills what it can of a MARKET order's
\* remainder, and the job is added.
EngineReturn ==
    \E o \in {taker} :
        /\ Rest \/ CancelRemainder \/ Complete
        /\ \E available \in PlatformReads :
               platformFilled' = [platformFilled EXCEPT ![o] =
                   IF order[o].type = "MARKET" THEN PlatformQty(o, available) ELSE 0]
        /\ jobs' = Append(jobs, Job(o)')
        /\ UNCHANGED <<routeVars, work, dbVars, faultVars>>

\* executeUserMarketTradeOnCre is called from the route ...
DirectSend(o, in) ==
    /\ taker = NoOrder
    /\ status[o] = "NEW"
    /\ GoesToContract(in)
    /\ order' = [order EXCEPT ![o] = [in EXCEPT !.price = QuotePrice]]
    /\ status' = [status EXCEPT ![o] = "PENDING"]
    /\ routing' = routing \union {o}
    /\ sent' = [sent EXCEPT ![o] = @ + 1]
    /\ UNCHANGED <<rem, createdAt, clock, levels, prices, taker, trades, platformFilled,
                   direct, jobs, work, dbStatus, dbTrades, positions, volume, faultVars>>

ContractTrade(o) ==
    [maker |-> Contract, taker |-> o, price |-> QuotePrice, qty |-> order[o].qty]

\* ... and answers: the order is FILLED and its job is added.  The route does
\* not look at the quantity, the contract's amounts are unsigned.
DirectRecord(o) ==
    /\ taker = NoOrder
    /\ o \in routing
    /\ order[o].qty >= 0
    /\ routing' = routing \ {o}
    /\ direct' = direct \union {o}
    /\ status' = [status EXCEPT ![o] = "FILLED"]
    /\ jobs' = Append(jobs, [order |-> o, status |-> "FILLED", trades |-> <<ContractTrade(o)>>])
    /\ UNCHANGED <<order, rem, createdAt, clock, levels, prices, taker, trades,
                   platformFilled, work, dbVars, faultVars>>

\* Or it fails, or adding the job does: the caller gets an error and the order
\* is forgotten, whatever the contract did.
DirectFails(o) ==
    /\ taker = NoOrder
    /\ o \in routing
    /\ routing' = routing \ {o}
    /\ UNCHANGED <<bookVars, platformFilled, direct, jobs, work, dbVars, faultVars>>

----------------------------------------------------------------------------
(* persistTrades: one action for each statement that awaits. *)

Step(w, at, i) == work' = [work EXCEPT ![w] = [Idle EXCEPT !.at = at, !.job = work[w].job, !.i = i]]

JobOf(w) == work[w].job
TradeAt(w) == JobOf(w).trades[work[w].i]

\* A loop over the job's trades that stays at its first.
SameRound(w, loop, after) ==
    Step(w, IF work[w].i < Len(JobOf(w).trades) THEN loop ELSE after, 1)

\* The next round of a for loop over the job's trades, or what follows it.
NextRound(w, loop, after) ==
    IF work[w].i < Len(JobOf(w).trades) THEN Step(w, loop, work[w].i + 1)
    ELSE Step(w, after, 1)

\* A queue that serves the newest job first.
NewestJob == Len(jobs)

\* BullMQ serves jobs in the order they were added.
NextJob == 1

\* A worker takes a job.  To take one while another worker has one (the
\* standalone worker beside the server's own) is counted as a fault: it is
\* the server's worker alone, with concurrency 1, that keeps the jobs in order.
Take(w) ==
    /\ work[w] = Idle
    /\ jobs # << >>
    /\ LET alone == \A v \in Workers : work[v] = Idle
       IN  /\ ~alone => faults < MaxFaults
           /\ faults' = IF alone THEN faults ELSE faults + 1
    /\ work' = [work EXCEPT ![w] = [Idle EXCEPT !.at = "order", !.job = jobs[NextJob]]]
    /\ jobs' = RemoveAt(jobs, NextJob)
    /\ UNCHANGED <<engineVars, dbVars, dropped>>

AfterOrder(job) == IF job.trades = << >> THEN "done" ELSE "trades"

\* order.upsert: whatever the row said, it now says what the job says.
WriteOrder(w) ==
    /\ work[w].at = "order"
    /\ dbStatus' = [dbStatus EXCEPT ![JobOf(w).order] = JobOf(w).status]
    /\ Step(w, AfterOrder(JobOf(w)), 1)
    /\ UNCHANGED <<dbTrades, positions, volume, sent>>

\* Rows for the fills of the book only.
RowsOfBook(job) == {t \in ToSet(job.trades) : t.maker \in Orders}

RowsOf(job) == ToSet(job.trades)

\* trade.createMany with skipDuplicates: a trade id is written once.
WriteTrades(w) ==
    /\ work[w].at = "trades"
    /\ dbTrades' = dbTrades \union RowsOf(JobOf(w))
    /\ Step(w, "maker", 1)
    /\ UNCHANGED <<dbStatus, positions, volume, sent>>

\* updateMakerOrderStatuses: the row of each maker is read ...
ReadMaker(w) ==
    /\ work[w].at = "maker"
    /\ LET m == TradeAt(w).maker
       IN  work' = [work EXCEPT ![w].at = "makerRow",
                                ![w].seen = IF m \in Orders THEN dbStatus[m] ELSE "none"]
    /\ UNCHANGED dbVars

\* A maker's row that is FILLED by any fill.
AnyFill(qty, amount) == "FILLED"

\* The fill of this job alone against the order's whole amount.
MakerStatus(qty, amount) == IF qty >= amount THEN "FILLED" ELSE "PARTIALLY_FILLED"

\* ... and updated, unless there is none or it said FILLED.
WriteMaker(w) ==
    /\ work[w].at = "makerRow"
    /\ LET t == TradeAt(w)
       IN  dbStatus' = IF work[w].seen \in {"none", "FILLED"} THEN dbStatus
                       ELSE [dbStatus EXCEPT ![t.maker] = MakerStatus(t.qty, order[t.maker].qty)]
    /\ NextRound(w, "maker", "buyer")
    /\ UNCHANGED <<dbTrades, positions, volume, sent>>

----------------------------------------------------------------------------
(* applyTradesToPositions: the buyer's LONG row, then the seller's. *)

Buyer(t) == IF order[t.taker].side = "BID" THEN t.taker ELSE t.maker
Seller(t) == IF order[t.taker].side = "BID" THEN t.maker ELSE t.taker

\* chainKey of the job's order, the taker, for both parties.
ChainOf(job) == order[job.order].who.chain

\* A lookup that leaves the chain of a simulated order out.
MainRows(acct, chain) ==
    {i \in DOMAIN positions : positions[i].acct = acct /\ positions[i].chain = "main"
                                  /\ positions[i].side = "LONG" /\ positions[i].open}

\* The account's open LONG rows on the chain.
LongRows(acct, chain) ==
    {i \in DOMAIN positions : positions[i].acct = acct /\ positions[i].chain = chain
                                  /\ positions[i].side = "LONG" /\ positions[i].open}

\* position.findFirst: any of the rows, or none.
ReadLong(w, from, to, acct) ==
    /\ work[w].at = from
    /\ LET rows == LongRows(acct, ChainOf(JobOf(w)))
       IN  \/ rows = {} /\ work' = [work EXCEPT ![w].at = to, ![w].row = NoRow]
           \/ \E i \in rows : work' = [work EXCEPT
                  ![w].at = to, ![w].row = [id |-> i, amt |-> positions[i].amt]]
    /\ UNCHANGED dbVars

NewRow(w, acct, side, amt) ==
    [acct |-> acct, chain |-> ChainOf(JobOf(w)), side |-> side, open |-> TRUE, amt |-> amt]

ReadBuyer(w) == ReadLong(w, "buyer", "buyerRow", Acct(Buyer(TradeAt(w))))

\* collateralLocked plus the quantity, from the amount that was read.
WriteBuyer(w) ==
    /\ work[w].at = "buyerRow"
    /\ LET t == TradeAt(w)
           acct == Acct(Buyer(t))
           row == work[w].row
       IN  \/ acct = NoAcct /\ UNCHANGED positions
           \/ /\ acct # NoAcct /\ row = NoRow
              /\ positions' = Append(positions, NewRow(w, acct, "LONG", t.qty))
           \/ row # NoRow /\ positions' = [positions EXCEPT ![row.id].amt = row.amt + t.qty]
    /\ Step(w, "seller", work[w].i)
    /\ UNCHANGED <<dbStatus, dbTrades, volume, sent>>

ReadSeller(w) == ReadLong(w, "seller", "sellerRow", Acct(Seller(TradeAt(w))))

\* A sale that does not look at what the row holds.
SellOn(row, qty) == [positions EXCEPT ![row.id].amt = row.amt - qty]

\* The LONG row less the quantity; at zero or below it is CLOSED.
AfterSale(row, qty) ==
    IF qty < row.amt THEN [positions EXCEPT ![row.id].amt = row.amt - qty]
    ELSE [positions EXCEPT ![row.id].amt = 0, ![row.id].open = FALSE]

\* The SHORT row of a sale that forgets the LONG row it has just closed.
WholeSale(row, qty) == qty

\* What a LONG row did not cover of a sale.
Uncovered(row, qty) == qty - row.amt

\* No LONG row: a SHORT row for it all.  A LONG row that was read: AfterSale ...
WriteSeller(w) ==
    /\ work[w].at = "sellerRow"
    /\ LET t == TradeAt(w)
           acct == Acct(Seller(t))
           row == work[w].row
       IN  \/ acct = NoAcct /\ UNCHANGED positions /\ NextRound(w, "buyer", "cre")
           \/ /\ acct # NoAcct /\ row = NoRow
              /\ positions' = Append(positions, NewRow(w, acct, "SHORT", t.qty))
              /\ NextRound(w, "buyer", "cre")
           \/ /\ row # NoRow
              /\ positions' = AfterSale(row, t.qty)
              /\ IF t.qty > row.amt THEN work' = [work EXCEPT ![w].at = "short"]
                 ELSE NextRound(w, "buyer", "cre")
    /\ UNCHANGED <<dbStatus, dbTrades, volume, sent>>

\* ... and then, in a second statement, a SHORT row for what it did not cover.
WriteShort(w) ==
    /\ work[w].at = "short"
    /\ LET t == TradeAt(w)
           short == Uncovered(work[w].row, t.qty)
       IN  positions' = Append(positions, NewRow(w, Acct(Seller(t)), "SHORT", short))
    /\ NextRound(w, "buyer", "cre")
    /\ UNCHANGED <<dbStatus, dbTrades, volume, sent>>

----------------------------------------------------------------------------
(* executeCreTrades, then the volume. *)

\* A user's order is sent whole, once its own job says FILLED.
UserSends(job, o) ==
    IF o = job.order /\ job.status = "FILLED" /\ order[o].who.kind = "user"
           /\ order[o].who.quote = "full"
    THEN 1 ELSE 0

\* getAgentSignedQuoteFromPayload: a signature, whatever else of a quote there is.
HasSignature(o) == order[o].who.quote # "none"

\* The fills of an agent's order as a taker only.
TakerSends(job, o) ==
    IF order[o].who.kind = "agent" /\ HasSignature(o)
    THEN Cardinality({i \in DOMAIN job.trades : job.trades[i].taker = o}) ELSE 0

\* An agent's order is sent at each fill, the maker's with the signature of its
\* Order row.
AgentSends(job, o) ==
    IF order[o].who.kind = "agent" /\ HasSignature(o)
    THEN Cardinality({i \in DOMAIN job.trades :
             \/ job.trades[i].taker = o
             \/ job.trades[i].maker = o /\ dbStatus[o] # "none"})
    ELSE 0

\* CRE's refusals are only logged, so all the calls of a job are one step.
Cre(w) ==
    /\ work[w].at = "cre"
    /\ sent' = [o \in Orders |->
           sent[o] + UserSends(JobOf(w), o) + AgentSends(JobOf(w), o)]
    /\ Step(w, "volume", 1)
    /\ UNCHANGED <<dbStatus, dbTrades, positions, volume>>

\* A volume of quantities.
QuantityDelta(job) == FoldLeft(LAMBDA sum, t : sum + t.qty, 0, job.trades)

VolumeDelta(job) == FoldLeft(LAMBDA sum, t : sum + t.qty * t.price, 0, job.trades)

\* UPDATE "Market" SET volume = volume + delta
AddVolume(w) ==
    /\ work[w].at = "volume"
    /\ volume' = volume + VolumeDelta(JobOf(w))
    /\ Step(w, "done", 1)
    /\ UNCHANGED <<dbStatus, dbTrades, positions, sent>>

\* The job is completed.
Done(w) ==
    /\ work[w].at = "done"
    /\ work' = [work EXCEPT ![w] = Idle]
    /\ UNCHANGED dbVars

Persist(w) ==
    /\ \/ WriteOrder(w) \/ WriteTrades(w) \/ ReadMaker(w) \/ WriteMaker(w)
       \/ ReadBuyer(w) \/ WriteBuyer(w) \/ ReadSeller(w) \/ WriteSeller(w)
       \/ WriteShort(w) \/ Cre(w) \/ AddVolume(w) \/ Done(w)
    /\ UNCHANGED <<engineVars, jobs, faultVars>>

----------------------------------------------------------------------------
(* Faults. *)

Busy == {w \in Workers : work[w] # Idle}

Fault == faults < MaxFaults /\ faults' = faults + 1

\* An awaited call rejects: the job has failed and, with one attempt, is over.
JobError(w) ==
    /\ Fault
    /\ w \in Busy
    /\ dropped' = dropped \union {JobOf(w).order}
    /\ work' = [work EXCEPT ![w] = Idle]
    /\ UNCHANGED <<engineVars, jobs, dbVars>>

\* The job's lock expires while its worker still runs: BullMQ takes it for
\* stalled and puts it back at the head of the queue.
Stall(w) ==
    /\ Fault
    /\ w \in Busy
    /\ jobs' = <<JobOf(w)>> \o jobs
    /\ UNCHANGED <<engineVars, work, dbVars, dropped>>

\* The server dies and comes back: the books and the waiting routes are gone,
\* the jobs in Redis are not, and those that were being done are stalled.
Restart ==
    /\ Fault
    /\ levels' = [s \in Side |-> [p \in Prices |-> << >>]]
    /\ prices' = [s \in Side |-> << >>]
    /\ routing' = {}
    /\ jobs' = SetToSeq({JobOf(w) : w \in Busy}) \o jobs
    /\ work' = [w \in Workers |-> Idle]
    /\ UNCHANGED <<order, rem, status, createdAt, clock, taker, trades, platformFilled,
                   direct, dbVars, dropped>>

----------------------------------------------------------------------------
Init ==
    /\ FillInit
    /\ routing = {} /\ direct = {}
    /\ jobs = << >>
    /\ work = [w \in Workers |-> Idle]
    /\ dbStatus = [o \in Orders |-> "none"]
    /\ dbTrades = {}
    /\ positions = <<[acct |-> PlatformAcct, chain |-> "main", side |-> "LONG",
                      open |-> TRUE, amt |-> PlatformSupply]>>
    /\ volume = 0
    /\ sent = [o \in Orders |-> 0]
    /\ dropped = {} /\ faults = 0

Engine == EngineMatch \/ EngineReturn

Route ==
    \/ \E o \in FreshIds, in \in Inputs : Place(o, in) \/ DirectSend(o, in)
    \/ \E o \in routing : DirectRecord(o) \/ DirectFails(o)

\* Workers do not see the engine's rounds, which touch no row and no job.
Worker(w) == taker = NoOrder /\ (Take(w) \/ Persist(w))

Faults == taker = NoOrder /\ (Restart \/ \E w \in Workers : JobError(w) \/ Stall(w))

Next == Route \/ Engine \/ (\E w \in Workers : Worker(w)) \/ Faults

\* The engine's loop is synchronous, and a running worker polls its queue and
\* gets an answer or an error for every call.
Spec ==
    /\ Init /\ [][Next]_vars
    /\ WF_vars(Engine)
    /\ \A w \in Workers : WF_vars(Worker(w))

----------------------------------------------------------------------------
(* Properties. *)

JobTrade == [maker : Orders \union {Platform, Contract}, taker : Orders,
             price : Nat, qty : Nat]
JobType == [order : Orders, status : Status, trades : Seq(JobTrade)]

\* Every variable keeps its type; no row ever holds a negative amount.
DbTypeOK ==
    /\ routing \union direct \union dropped \subseteq Orders
    /\ jobs \in Seq(JobType)
    /\ \A w \in Workers :
        /\ work[w].job \in JobType \union {NoJob}
        /\ work[w].i \in 0..Len(work[w].job.trades) \union {1}
        /\ work[w].seen \in Status \union {"none"}
        /\ work[w].row.id \in 0..Len(positions)
    /\ dbStatus \in [Orders -> Status \union {"none"}]
    /\ dbTrades \subseteq JobTrade
    /\ \A i \in DOMAIN positions : positions[i].amt \in Nat
    /\ volume \in Nat
    /\ sent \in [Orders -> Nat]
    /\ faults \in 0..MaxFaults

\* Orders that should have a row: processed by the engine, or by the contract.
Recorded == {o \in Orders : status[o] \notin {"NEW", "PENDING"}}

\* The trades whose taker is o.
TradesOf(o) ==
    IF o \in direct THEN {ContractTrade(o)} ELSE ToSet(ResultTrades(o, platformFilled[o]))

AllTrades == UNION {TradesOf(o) : o \in Recorded}

\* What order o has traded.
Filled(o) ==
    MapThenSumSet(LAMBDA t : t.qty, {t \in AllTrades : o \in {t.maker, t.taker}})

Quiet == jobs = << >> /\ Busy = {} /\ taker = NoOrder

\* A row never says more than the book did: FILLED in the database means that
\* the whole quantity has traded, in spite of jobs run twice, run beside each
\* other, cut short or run after a restart.
RowNeverAheadOfBook ==
    taker = NoOrder => \A o \in Orders :
        dbStatus[o] = "FILLED" => Filled(o) = order[o].qty

\* The order was filled as a maker, by several takers or after it had traded
\* as a taker: no single job has fills that make up its amount.
FilledPiecemeal(o) ==
    \E t \in AllTrades : t.maker = o /\ t.qty < order[o].qty

\* When the worker has caught up, every Order row has the status the book (and
\* the platform) gave the order; only an order filled piecemeal still says
\* PARTIALLY_FILLED, updateMakerOrderStatuses having looked at one job at a time.
RowsSettle ==
    (Quiet /\ faults = 0) => \A o \in Recorded :
        LET result == IF o \in direct THEN "FILLED" ELSE ResultStatus(o, platformFilled[o])
        IN  dbStatus[o] = IF result = "FILLED" /\ FilledPiecemeal(o)
                          THEN "PARTIALLY_FILLED" ELSE result

Accounts == ({w.acct : w \in Parties} \union {PlatformAcct}) \ {NoAcct}

\* What an account's open rows add up to, on both chains.
Net(acct) ==
    FoldLeft(LAMBDA sum, r :
                 IF r.acct # acct \/ ~r.open THEN sum
                 ELSE IF r.side = "LONG" THEN sum + r.amt ELSE sum - r.amt,
             0, positions)

Bought(acct) == MapThenSumSet(LAMBDA t : t.qty, {t \in AllTrades : Acct(Buyer(t)) = acct})
Sold(acct) == MapThenSumSet(LAMBDA t : t.qty, {t \in AllTrades : Acct(Seller(t)) = acct})

\* When the worker has caught up, the positions of every account are what it
\* bought less what it sold, through every split of a sale into a closed LONG
\* row and a SHORT one, every platform fill and every contract fill.
BooksBalance ==
    (Quiet /\ faults = 0) => \A a \in Accounts :
        Net(a) = Bought(a) - Sold(a) + (IF a = PlatformAcct THEN PlatformSupply ELSE 0)

\* Every fill reaches the Trade table, once, however often its job was run:
\* all that is missing is the trades of jobs that failed.
TradeRowsExact ==
    taker = NoOrder =>
        /\ dbTrades \subseteq AllTrades
        /\ Quiet => \A o \in Recorded \ dropped : TradesOf(o) \subseteq dbTrades

\* md/orders-trades.api.md: totalVolume is the sum of amount x price over all
\* trades.  When the worker has caught up, Market.volume is that.
VolumeIsTradeSum ==
    (Quiet /\ faults = 0) => volume = MapThenSumSet(LAMBDA t : t.price * t.qty, dbTrades)

\* The positions an account has on a chain are one open LONG row: applying the
\* next fill never has to choose.
AtMostOneOpenLong ==
    faults = 0 => \A i, j \in DOMAIN positions :
        (/\ positions[i].acct = positions[j].acct /\ positions[i].chain = positions[j].chain
         /\ positions[i].side = "LONG" /\ positions[i].open
         /\ positions[j].side = "LONG" /\ positions[j].open) => i = j

Signed(o) == order[o].who.kind = "agent" /\ order[o].who.quote # "none"
FillsOf(o) == {t \in AllTrades : o \in {t.maker, t.taker}}

\* When the worker has caught up, an agent's signature has gone to CRE once for each
\* fill of its order, as a taker and as a maker, none left out and none sent again by
\* another job; and once more when the route had CRE execute the order itself before
\* it was queued (orders.routes.ts:121, then trades-persistence.worker.ts:361-380), though
\* md/orders-trades.api.md:47 has one call for each fill: UserFillSentOnce is the same of
\* a user.
AgentSignaturesCounted ==
    (Quiet /\ faults = 0) => \A o \in Recorded :
        Signed(o) => sent[o] = Cardinality(FillsOf(o)) + (IF o \in direct THEN 1 ELSE 0)

\* The Trade table, and the volume summed beside it, tell every fill once.
TradesAreCounted == TradeRowsExact /\ VolumeIsTradeSum

\* In the end every job has been done or has failed: none is left half done,
\* whatever happens to the workers.
JobsAreDone == <>[](Busy = {} /\ jobs = << >>)

\* trades-persistence.worker.ts:110, "chainKey isolates simulate (tenderly)
\* from live (main) positions": an account has rows only on chains it has
\* placed an order on.
ChainIsolation ==
    \A i \in DOMAIN positions : positions[i].acct # PlatformAcct =>
        \E o \in Orders : /\ status[o] # "NEW"
                          /\ order[o].who.acct = positions[i].acct
                          /\ order[o].who.chain = positions[i].chain

\* md/orders-trades.api.md:46, "When the order becomes FILLED, the backend sends
\* one execute-trade request to CRE with the stored signature".
UserFillSentOnce ==
    (Quiet /\ faults = 0) => \A o \in Recorded :
        (order[o].who.kind = "user" /\ order[o].who.quote = "full" /\ dbStatus[o] = "FILLED")
            => sent[o] = 1

\* platform-fill.service.ts:19, "Fill as much of the MARKET order's remaining
\* quantity as possible from the platform's LONG position": what it has sold is
\* never more than the position held.
PlatformSellsWhatItHas ==
    FoldFunction(+, 0, platformFilled) <= PlatformSupply
============================================================================

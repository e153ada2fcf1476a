----------------------------- MODULE Simulation -----------------------------
(***************************************************************************)
(* The routes of src/src/routes/simulate.routes.ts: a simulation is paid   *)
(* for, gets its rows and jobs, is extended, stopped and deleted while the *)
(* agent worker trades for it, and its agent is funded on the simulated    *)
(* chain (utils/tenderly/funding.ts).  The payment is                      *)
(* services/agent-x402-pay.service.ts; x402 is taken to be configured.     *)
(***************************************************************************)
EXTENDS AgentEnqueue

CONSTANTS
    Payments,       \* the payments the agent's wallet can make at first
    MaxMinutes,     \* the most minutes asked for at once
    FundAmount,     \* a funding, in USDC
    RawUnit         \* smallest units in a USDC (10^6)

ASSUME SimulationAssumption ==
    /\ Payments \in Nat /\ MaxMinutes \in Nat \ {0}
    /\ FundAmount \in Nat \ {0} /\ RawUnit \in Nat \ {0}

VARIABLES
    purse,          \* the payments its wallet can still make (payment chain)
    usdc,           \* its USDC on the simulated chain
    redisLast,      \* when Redis says it was last funded: never, week, old
    memoryLast,     \* the same in the server's memory
    strays,         \* USDC calls under way whose handler has gone
    asked,          \* history: fundings the chain was asked for since a week has passed
    slips           \* history: errors and overlaps in them since then

fundVars == <<usdc, redisLast, memoryLast, strays, asked, slips>>
vars == <<handlerVars, loopVars, purse, fundVars>>

\* What a simulation's routes leave alone.
workSame == <<repeating, ticks, positions, pendingTrades, loops, late, world, fundVars>>

NoSim == [status |-> "none", minutes |-> 0, max |-> 0, bought |-> 0, boughtMax |-> 0,
          alone |-> TRUE]

----------------------------------------------------------------------------
(* paySimulateWithAgent: the balance is read, the transfer sent, its receipt *)
(* awaited.                                                                  *)

ReadPurse(r) ==
    /\ req[r].at = "pay"
    /\ IF world.wallet /\ purse > 0 THEN Goto(r, "transfer") ELSE Answer(r)
    /\ UNCHANGED <<waiting, rows, made, sims, balance, purse, workSame, traffic, faults>>

\* Where a handler goes once it has been paid.
Paid(x) ==
    [x EXCEPT !.at = IF x.kind = "start" THEN "create"
                     ELSE IF x.addMarkets > 0 THEN "existing" ELSE "update"]

\* A transfer the purse no longer covers reverts.
Transfer(r) ==
    /\ req[r].at = "transfer"
    /\ IF purse > 0
       THEN purse' = purse - 1 /\ Become(r, Paid(req[r]))
       ELSE Answer(r) /\ UNCHANGED purse
    /\ UNCHANGED <<waiting, rows, made, sims, balance, workSame, traffic, faults>>

\* Its receipt does not come: the user is told that the payment failed.
ReceiptLost(r) ==
    /\ req[r].at = "transfer"
    /\ Fault
    /\ purse > 0
    /\ purse' = purse - 1
    /\ Answer(r)
    /\ UNCHANGED <<waiting, rows, made, sims, balance, workSame>>

----------------------------------------------------------------------------
(* POST /api/simulate/start, extend. *)

Start(r) ==
    /\ Arrive(r, "start")
    /\ \E max \in 1..Cardinality(Markets), minutes \in 1..MaxMinutes :
          Become(r, [kind |-> "start", at |-> "pay", max |-> max, minutes |-> minutes])
    /\ UNCHANGED <<waiting, rows, made, sims, balance, purse, workSame, faults>>

\* Which markets, of those there are: a shuffled list is cut.
Slices(pool, n) ==
    {cut \in SUBSET pool :
        Cardinality(cut) = IF n < Cardinality(pool) THEN n ELSE Cardinality(pool)}

\* The simulation's own row; then its markets.
CreateSimulation(r) ==
    LET fresh == {s \in Sims : sims[s].status = "none"}
    IN  /\ At(r, "start", "create")
        /\ fresh # {}
        /\ LET s == CHOOSE s \in fresh : TRUE
               x == req[r]
           IN  /\ sims' = [sims EXCEPT ![s] =
                      [NoSim EXCEPT !.status = "RUNNING", !.minutes = x.minutes, !.max = x.max,
                                    !.bought = x.minutes, !.boughtMax = x.max]]
               /\ \E todo \in Slices(Markets, x.max) :
                     Become(r, [kind |-> "start", at |-> "row", sim |-> s, todo |-> todo])
        /\ UNCHANGED <<waiting, rows, made, balance, purse, workSame, traffic, faults>>

\* One row of the batch.  The simulation may be gone, or have a row of that
\* market by now: Prisma throws and the handler ends.
CreateRow(r) ==
    LET s == req[r].sim
    IN  /\ req[r].at = "row"
        /\ \E m \in req[r].todo :
              IF Exists(s) /\ ~Duplicate(m, s)
              THEN /\ Create(m, s, "tenderly", FALSE)
                   /\ Become(r, With(req[r], [at |-> "job", market |-> m, todo |-> req[r].todo \ {m}]))
                   /\ UNCHANGED sims
              ELSE /\ Answer(r)
                   /\ sims' = [sims EXCEPT ![s].alone = FALSE]
                   /\ UNCHANGED <<rows, made>>
        /\ UNCHANGED <<waiting, balance, purse, workSame, traffic, faults>>

\* Where the handler is when a row has its job.
AfterJob(x) ==
    IF x.todo # {} THEN [x EXCEPT !.at = "row"]
    ELSE IF x.kind = "extend" THEN [x EXCEPT !.at = "update"] ELSE Free

\* The row alone is thought to be enough.
NoJobs(x) == << >>

\* The jobs that row gets: trigger-all leaves the rows of simulations alone, so
\* it has no other.
JobsOf(x) == <<Job(x.market, x.sim, "tenderly")>>

AddJob(r) ==
    /\ req[r].at = "job"
    /\ waiting' = waiting \o JobsOf(req[r])
    /\ Become(r, AfterJob(req[r]))
    /\ UNCHANGED <<rows, made, sims, balance, purse, workSame, traffic, faults>>

\* The simulation is read before the payment and not again.
Extend(r) ==
    /\ Arrive(r, "extend")
    /\ \E s \in Sims, min \in 0..MaxMinutes, n \in 0..Cardinality(Markets) :
          /\ min + n > 0
          /\ sims[s].status = "RUNNING"
          /\ Become(r, [kind |-> "extend", at |-> "pay", sim |-> s, addMinutes |-> min,
                        addMarkets |-> n, added |-> 0,
                        minutes |-> sims[s].minutes, max |-> sims[s].max])
          /\ sims' = [sims EXCEPT ![s].alone =
                         @ /\ \A q \in InFlight("extend") : req[q].sim # s]
    /\ UNCHANGED <<waiting, rows, made, balance, purse, workSame, faults>>

\* The markets it does not have yet.
ReadExisting(r) ==
    LET x == req[r]
        existing == {row.market : row \in {y \in rows : y.scope = x.sim}}
    IN  /\ At(r, "extend", "existing")
        /\ \E todo \in Slices(Markets \ existing, x.addMarkets) :
              Become(r, With(x, [at |-> IF todo = {} THEN "update" ELSE "row",
                                 todo |-> todo, added |-> Cardinality(todo)]))
        /\ UNCHANGED <<waiting, rows, made, sims, balance, purse, workSame, traffic, faults>>

\* What was asked for instead of what was found.
ExtendedAsAsked(sim, x) ==
    [sim EXCEPT !.minutes = x.minutes + x.addMinutes,
                !.max = IF x.addMarkets > 0 THEN x.max + x.addMarkets ELSE @,
                !.bought = @ + x.addMinutes, !.boughtMax = @ + x.added]

\* The simulation with what was read and what is added; what was bought is history.
Extended(sim, x) ==
    [sim EXCEPT !.minutes = x.minutes + x.addMinutes,
                !.max = IF x.added > 0 THEN x.max + x.added ELSE @,
                !.bought = @ + x.addMinutes, !.boughtMax = @ + x.added]

UpdateSimulation(r) ==
    LET x == req[r]
    IN  /\ At(r, "extend", "update")
        /\ sims' = IF Exists(x.sim) THEN [sims EXCEPT ![x.sim] = Extended(@, x)] ELSE sims
        /\ Answer(r)
        /\ UNCHANGED <<waiting, rows, made, balance, purse, workSame, traffic, faults>>

----------------------------------------------------------------------------
(* POST /api/simulate/stop, DELETE /api/simulations/:id. *)

\* Only a running simulation goes on to the update.
Stop(r) ==
    /\ Arrive(r, "stop")
    /\ \E s \in Sims, status \in Stopped :
          /\ Exists(s)
          /\ IF sims[s].status = "RUNNING"
             THEN Become(r, [kind |-> "stop", at |-> "write", sim |-> s, status |-> status])
             ELSE Answer(r)
    /\ UNCHANGED <<waiting, rows, made, sims, balance, purse, workSame, faults>>

\* The update does not ask for the status again.
WriteStop(r) ==
    /\ At(r, "stop", "write")
    /\ sims' = IF Exists(req[r].sim)
               THEN [sims EXCEPT ![req[r].sim].status = req[r].status] ELSE sims
    /\ Answer(r)
    /\ UNCHANGED <<waiting, rows, made, balance, purse, workSame, traffic, faults>>

Delete(r) ==
    /\ Arrive(r, "delete")
    /\ \E s \in Sims : Exists(s) /\ Become(r, [kind |-> "delete", at |-> "write", sim |-> s])
    /\ UNCHANGED <<waiting, rows, made, sims, balance, purse, workSame, faults>>

\* A table whose rows outlive their simulation.
Orphaned(s) == rows

\* onDelete: Cascade.
Cascaded(s) == {row \in rows : row.scope # s}

\* Its rows go with it; its jobs and the loops at work for it do not.
WriteDelete(r) ==
    LET s == req[r].sim
    IN  /\ At(r, "delete", "write")
        /\ IF Exists(s)
           THEN /\ sims' = [sims EXCEPT ![s] = [NoSim EXCEPT !.status = "gone"]]
                /\ rows' = Cascaded(s)
           ELSE UNCHANGED <<sims, rows>>
        /\ Answer(r)
        /\ UNCHANGED <<waiting, made, balance, purse, workSame, traffic, faults>>

----------------------------------------------------------------------------
(* POST /api/simulate/fund, GET /api/simulate/balance. *)

fundSame == <<waiting, repeating, ticks, rows, made, sims, positions, pendingTrades,
              loops, late, world, purse>>

Fund(r) ==
    /\ Arrive(r, "fund")
    /\ IF world.wallet THEN Become(r, [kind |-> "fund", at |-> "last"]) ELSE Answer(r)
    /\ UNCHANGED <<fundVars, balance, fundSame, faults>>

\* The requests that have asked the chain and not told Redis yet.
Funding == {q \in InFlight("fund") : req[q].at \in {"chain", "redis"}}

\* Memory is forgotten at every restart, but it is the only thing asked.
MemoryOnly(fromRedis) == memoryLast

\* checkFundingEligibility: Redis first, memory where Redis has nothing.
LastFunding(fromRedis) == IF fromRedis # "never" THEN fromRedis ELSE memoryLast

\* Both admin calls of fundSimulateWallet are sent at once, if the week is over.
Calls == {"native", "usdc"}
AskChain(r, fromRedis, slip) ==
    IF LastFunding(fromRedis) = "week" THEN Answer(r) /\ UNCHANGED <<asked, slips>>
    ELSE /\ Become(r, [kind |-> "fund", at |-> "chain", left |-> Calls,
                        first |-> LastFunding(fromRedis) = "never"])
         /\ asked' = asked + 1
         /\ slips' = IF slip THEN slips + 1 ELSE slips

\* Redis is asked when the agent was funded last; without an answer there is only
\* the server's memory.
ReadLast(r) ==
    /\ At(r, "fund", "last")
    /\ \/ AskChain(r, redisLast, Funding # {}) /\ UNCHANGED <<faults, traffic>>
       \/ AskChain(r, "never", TRUE) /\ Fault
    /\ UNCHANGED <<usdc, redisLast, memoryLast, strays, balance, fundSame>>

\* The chain's USDC after tenderly_setErc20Balance, for a first funding, or
\* tenderly_addErc20Balance.
Filled(first) == IF first THEN FundAmount ELSE usdc + FundAmount

\* Promise.all: one of the two calls is carried out and answered; after both the
\* server's memory knows.
FundWallet(r) ==
    /\ At(r, "fund", "chain")
    /\ \E call \in req[r].left :
          LET left == req[r].left \ {call}
          IN  /\ usdc' = IF call = "usdc" THEN Filled(req[r].first) ELSE usdc
              /\ memoryLast' = IF left = {} THEN "week" ELSE memoryLast
              /\ Become(r, [req[r] EXCEPT !.left = left, !.at = IF left = {} THEN "redis" ELSE @])
    /\ UNCHANGED <<redisLast, strays, asked, slips, balance, fundSame, traffic, faults>>

\* What is left under way when the handlers of these requests have gone.
Strayed(these) ==
    {[req |-> r, after |-> faults, first |-> req[r].first] :
        r \in {q \in these : At(q, "fund", "chain") /\ "usdc" \in req[q].left}}

\* One of the calls is refused, or carried out and its answer lost; Promise.all rejects and
\* the answer is 502, with neither memory nor Redis told.  The other call is not called off.
FundingFails(r) ==
    /\ At(r, "fund", "chain")
    /\ \E call \in req[r].left :
          /\ \/ UNCHANGED usdc
             \/ call = "usdc" /\ usdc' = Filled(req[r].first)
          /\ strays' = strays \union (IF call = "usdc" THEN {} ELSE Strayed({r}))
    /\ slips' = slips + 1
    /\ Rejects(r)
    /\ UNCHANGED <<redisLast, memoryLast, asked, balance, fundSame>>

\* A call nobody waits for is carried out, or is not.
StrayCall ==
    /\ \E stray \in strays :
          /\ strays' = strays \ {stray}
          /\ UNCHANGED usdc \/ usdc' = Filled(stray.first)
    /\ UNCHANGED <<redisLast, memoryLast, asked, slips, balance, fundSame, handlerVars>>

\* An error of Redis is swallowed.
WriteLast(r) ==
    /\ At(r, "fund", "redis")
    /\ \/ redisLast' = "week" /\ UNCHANGED <<slips, faults, traffic>>
       \/ Fault /\ slips' = slips + 1 /\ UNCHANGED redisLast
    /\ Goto(r, "upsert")
    /\ UNCHANGED <<usdc, memoryLast, strays, asked, balance, fundSame>>

\* 20000, whatever the chain has.
WriteFunded(r) ==
    /\ At(r, "fund", "upsert")
    /\ balance' = [balance EXCEPT !["tenderly"] = FundAmount]
    /\ Answer(r)
    /\ UNCHANGED <<fundVars, fundSame, traffic, faults>>

\* The chain's balance is read, and written as it came: in smallest units.
ReadBalance(r) ==
    /\ Arrive(r, "balance")
    /\ IF world.wallet
       THEN Become(r, [kind |-> "balance", at |-> "write", units |-> usdc * RawUnit])
       ELSE Answer(r)
    /\ UNCHANGED <<balance, fundVars, fundSame, faults>>

WriteBalance(r) ==
    /\ At(r, "balance", "write")
    /\ balance' = [balance EXCEPT !["tenderly"] = req[r].units]
    /\ Answer(r)
    /\ UNCHANGED <<fundVars, fundSame, traffic, faults>>

\* REQUEST_COOLDOWN_MS goes by; no handler and no call takes that long.
WeekPasses ==
    LET older(last) == IF last = "week" THEN "old" ELSE last
    IN  /\ InFlight("fund") = {} /\ strays = {}
        /\ asked # 0
        /\ redisLast' = older(redisLast)
        /\ memoryLast' = older(memoryLast)
        /\ asked' = 0 /\ slips' = 0
        /\ UNCHANGED <<usdc, strays, balance, fundSame, handlerVars>>

\* The server restarts: its requests and its memory are lost, what they have asked of
\* the chain is not.
ServerRestart ==
    /\ (\E r \in Requests : Busy(r)) \/ memoryLast # "never"
    /\ Fault
    /\ req' = [r \in Requests |-> Free]
    /\ memoryLast' = "never"
    /\ strays' = strays \union Strayed(Requests)
    /\ slips' = IF Funding # {} THEN slips + 1 ELSE slips
    /\ UNCHANGED <<usdc, redisLast, asked, balance, fundSame>>

----------------------------------------------------------------------------
(* The composition. *)

SimulationStep(r) ==
    \/ ReadPurse(r) \/ Transfer(r) \/ CreateSimulation(r) \/ CreateRow(r) \/ AddJob(r)
    \/ ReadExisting(r) \/ UpdateSimulation(r) \/ WriteStop(r) \/ WriteDelete(r)
    \/ ReadLast(r) \/ FundWallet(r) \/ WriteLast(r) \/ WriteFunded(r) \/ WriteBalance(r)
    \/ EnqueueStep(r) /\ UNCHANGED <<purse, fundVars>>

Arrives(r) ==
    \/ Start(r) \/ Extend(r) \/ Stop(r) \/ Delete(r) \/ Fund(r) \/ ReadBalance(r)
    \/ EnqueueArrives(r) /\ UNCHANGED <<purse, fundVars>>

\* The errors of a funding are caught (ReadLast, FundingFails, WriteLast).
RequestFails(r) ==
    /\ ~(req[r].kind = "fund" /\ req[r].at \in {"last", "chain", "redis"})
    /\ Rejects(r)
    /\ UNCHANGED <<loopVars, purse, fundVars>>

WorkerStep(l) == LoopStep(l) /\ UNCHANGED <<handlerVars, purse, fundVars>>
WorkerFails(l) ==
    (PlaceFails(l) \/ JobFails(l)) /\ UNCHANGED <<req, purse, fundVars>>
Environment ==
    \/ WorkerCrash /\ UNCHANGED <<req, purse, fundVars>>
    \/ FallsDue /\ UNCHANGED <<handlerVars, purse, fundVars>>
    \/ Repeat /\ UNCHANGED <<handlerVars, purse, fundVars>>
    \/ WeekPasses
    \/ StrayCall
    \/ ServerRestart

Init ==
    /\ HandlersInit
    /\ world \in Worlds(traffic)
    /\ waiting = << >> /\ repeating = {} /\ ticks = 0
    /\ rows = {} /\ made = 0
    /\ sims = [s \in Sims |-> NoSim]
    /\ positions = << >> /\ pendingTrades = {}
    /\ balance = world.balance
    /\ loops = [l \in Loops |-> Idle]
    /\ late = [s \in Sims |-> 0]
    /\ purse = Payments
    /\ usdc = 0 /\ redisLast = "never" /\ memoryLast = "never"
    /\ strays = {} /\ asked = 0 /\ slips = 0

Next ==
    \/ \E r \in Requests : Arrives(r) \/ SimulationStep(r) \/ RequestFails(r)
                        \/ ReceiptLost(r) \/ FundingFails(r)
    \/ \E l \in Loops : WorkerStep(l) \/ WorkerFails(l)
    \/ Environment

\* As long as a handler or a job can go on, one of them does; nobody owes a request,
\* a fault or the passing of time.
Progress == (\E r \in Requests : SimulationStep(r)) \/ (\E l \in Loops : WorkerStep(l))
Spec == Init /\ [][Next]_vars /\ WF_vars(Progress)

----------------------------------------------------------------------------
(* What must hold. *)

\* The values that the tables, the queue, the worker and the handlers can have.
SimulationTypeOK ==
    /\ \A row \in rows :
          /\ row.id \in 1..made
          /\ Exists(row.scope)
          /\ row.status \in {"PENDING", "TRADED", "DISCARDED"}
    /\ \A x, y \in rows : x.id = y.id => x = y
    /\ \A l \in Loops : loops[l].at \in {"idle", "status", "gather", "decide",
                             "discard", "find", "place", "funds", "submit", "traded"}
    /\ \A j \in repeating, k \in repeating : j.market = k.market => j = k
    /\ purse \in Nat /\ usdc \in Nat
    /\ \A s \in Sims : sims[s].status \in Stopped \union {"none", "RUNNING", "gone"}

\* Once a simulation is stopped its orders dry up: no more of them are accepted
\* than the worker had loops past the check when the stop was written, however
\* many jobs are waiting, are triggered or run again after a crash.
StoppedSimulationDrains == \A s \in Sims : late[s] <= Cardinality(world.loops)

\* nextRunAt keeps a market to one order for each time it falls due, although
\* repeating jobs, triggers and crons all send jobs for it: unless two loops had
\* it at once, a loop failed after its order, or main has two rows of the market.
OneOrderPerDue ==
    \A row \in rows : row.alone /\ RowsOf(row.market, row.scope) = {row} => row.orders <= 1

\* Every extension that was made counts, in minutes and in markets, and the run
\* has no more rows of its own than it has markets: unless two extensions of it
\* overlapped, or one failed before it was written.
ExtensionsAddUp ==
    \A s \in Sims : sims[s].alone /\ Exists(s) =>
        /\ sims[s].minutes = sims[s].bought
        /\ sims[s].max = sims[s].boughtMax
        /\ InFlight("extend") = {} /\ faults = 0 =>
              Cardinality({row \in rows : row.scope = s /\ ~row.user}) <= sims[s].max

\* The chain is asked for test tokens once a week, and every further time in a week
\* costs a slip of its own: a request that read the last funding while another had not
\* written it, an error of Redis, a funding that failed half way, with tokens out and
\* neither memory nor Redis told, or a restart in the middle of one.  A restart at any
\* other time costs nothing: Redis remembers, and is asked before memory is.
FundedOncePerWeek == asked <= 1 + slips

\* Every market a simulation was given is looked at by the worker, although no
\* cron comes back for it, unless the run ends or something fails before.
GivenMarketsAreSeen ==
    \A s \in Sims, m \in Markets :
        (\E row \in RowsOf(m, s) : ~row.user /\ ~row.seen)
            ~> \/ \A row \in RowsOf(m, s) : row.user \/ row.seen
               \/ sims[s].status # "RUNNING"
               \/ faults > 0

\* agent-position-creation.service.ts:194, "Close LONG position or open SHORT
\* position": once a sale has been written no LONG of that market, outcome and chain
\* is open.  The single row findFirst returns may be another one.
SellClosesLong ==
    \A l \in Loops : LoopAt(l, "funds") /\ loops[l].decision.action = "sell" =>
        \A p \in PositionsOf(loops[l].job, loops[l].decision.outcome) : ~OpenLong(p)
=============================================================================

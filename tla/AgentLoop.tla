----------------------------- MODULE AgentLoop -----------------------------
(***************************************************************************)
(* The agent worker: src/src/workers/agent-worker.ts, its queue            *)
(* (workers/queue.ts), the position it writes before it trades             *)
(* (services/agent-position-creation.service.ts), and the routes that give *)
(* it work (routes/agent-enqueue.routes.ts, services/                      *)
(* trigger-all.service.ts).  One agent; other agents share no row with it. *)
(*                                                                         *)
(* The worker is a process of its own with five jobs in progress at once.  *)
(* Each is a loop here, with one action per await.  Sim scope "main" is    *)
(* simulationId null.  The order it posts is modelled by its answer.       *)
(***************************************************************************)
EXTENDS Handlers, Sequences, FiniteSets, FiniteSetsExt, SequencesExt

CONSTANTS
    Markets,        \* markets with a questionId, all in the simulated range
    Sims,           \* ids of simulations
    Loops,          \* the worker's concurrency, as numbers
    Outcomes,       \* outcome indexes of a market
    Quantities,     \* quantities the LLM asks for
    Worlds(_),      \* what a behaviour takes as given beside its traffic, see
                    \* WorldAssumption
    NoRow           \* no such database row

Chains == {"main", "tenderly"}
Scopes == {"main"} \union Sims

\* Whether the agent is ACTIVE and its wallet complete, the markets that are
\* OPEN, the balance the database has for it on each chain; and two bounds, how often
\* time matters (a row falls due, a repeating job comes up) and the loops in use.
ASSUME WorldAssumption ==
    \A mix \in Traffics : Worlds(mix) \subseteq [active : BOOLEAN, wallet : BOOLEAN, open : SUBSET Markets,
                      balance : [Chains -> Nat \union {NoRow}], ticks : Nat,
         loops : SUBSET Loops]
ASSUME QuantityAssumption == Quantities \subseteq Nat \ {0}
ASSUME SetsAssumption == IsFiniteSet(Markets) /\ IsFiniteSet(Loops) /\ "main" \notin Sims

RowType == [id : Nat, market : Markets, scope : Scopes, chain : Chains,
            status : {"PENDING", "TRADED", "DISCARDED"}, due : BOOLEAN,
            orders : Nat, alone : BOOLEAN, seen : BOOLEAN, user : BOOLEAN]
ASSUME NoRowAssumption == NoRow \notin RowType

VARIABLES
    waiting,        \* jobs in the agent-prediction queue, oldest first
    repeating,      \* jobs that are added again every minute, one per market
    ticks,          \* how often time has mattered
    rows,           \* AgentEnqueuedMarket
    made,           \* rows created so far, which number them
    sims,           \* Simulation
    positions,      \* Position rows, in the order of their creation
    pendingTrades,  \* PendingAgentTrade
    balance,        \* AgentChainBalance
    loops,          \* the worker's jobs in progress
    late,           \* history: orders accepted for a simulation after its stop
    world           \* what the behaviour takes as given

loopVars == <<waiting, repeating, ticks, rows, made, sims, positions,
              pendingTrades, balance, loops, late, world>>

Idle == [at |-> "idle"]
Stopped == {"COMPLETED", "CANCELLED"}

Job(m, s, c) == [market |-> m, scope |-> s, chain |-> c]

\* The loops that are past their checks for a market and simulation.
AtWork(ls, m, s) ==
    {l \in ls : /\ loops[l].at \notin {"idle", "status", "gather"}
                /\ loops[l].job.market = m /\ loops[l].job.scope = s}

\* findFirst, findMany and updateMany by market and simulation.
RowsOf(m, s) == {row \in rows : row.market = m /\ row.scope = s}
UpdateRows(m, s, New(_)) ==
    {IF row \in RowsOf(m, s) THEN New(row) ELSE row : row \in rows}

\* A new row.  `orders', `alone', `seen' and `user' are history: the orders
\* accepted since it was last due, whether no two loops had it at once and none
\* that had it failed, whether a loop has looked at it, who made it.
NewRow(m, s, c, user) ==
    [id |-> made + 1, market |-> m, scope |-> s, chain |-> c, status |-> "PENDING",
     due |-> TRUE, orders |-> 0, alone |-> AtWork(Loops, m, s) = {}, seen |-> FALSE,
     user |-> user]

\* The row as create leaves the table.  @@unique refuses a second row of one
\* market and simulation, but not of simulation null.
Duplicate(m, s) == s # "main" /\ RowsOf(m, s) # {}
Create(m, s, c, user) ==
    /\ rows' = rows \union {NewRow(m, s, c, user)}
    /\ made' = made + 1

----------------------------------------------------------------------------
(* executeAgentLoop, one action for each await. *)

LoopAt(l, at) == loops[l].at = at
LoopGoto(l, at) == loops' = [loops EXCEPT ![l].at = at]
LoopEnds(l) == loops' = [loops EXCEPT ![l] = Idle]

\* The worker takes the oldest job as soon as a loop is free.
Take(l) ==
    /\ l \in world.loops /\ LoopAt(l, "idle")
    /\ \A k \in world.loops : k < l => ~LoopAt(k, "idle")
    /\ waiting # << >>
    /\ loops' = [loops EXCEPT ![l] =
                    [at |-> IF Head(waiting).scope = "main" THEN "gather" ELSE "status",
                     job |-> Head(waiting)]]
    /\ waiting' = Tail(waiting)
    /\ UNCHANGED <<repeating, ticks, rows, made, sims, positions, pendingTrades,
                   balance, late, world>>

\* Only the timer's end counts, not the user's cancellation.
SkipsCompletedOnly(status) == status = "COMPLETED"

\* The jobs of these simulations are skipped.
SkipsStatus(status) == status \in Stopped

\* A simulation that has been stopped gets no more work; one that has been
\* deleted reads as null, which is neither.
CheckSimulation(l) ==
    /\ LoopAt(l, "status")
    /\ IF SkipsStatus(sims[loops[l].job.scope].status)
       THEN LoopEnds(l) ELSE LoopGoto(l, "gather")
    /\ UNCHANGED <<waiting, repeating, ticks, rows, made, sims, positions,
                   pendingTrades, balance, late, world>>

\* nextRunAt is not looked at.
DueIgnored(found) == TRUE

\* nextRunAt, where a row has one.
Due(found) == found = NoRow \/ found.due

\* The agent trades: it is ACTIVE, and on the main chain the market is OPEN.
Runs(job) == world.active /\ (job.chain = "main" => job.market \in world.open)

\* The row, the agent and the market.
Gather(l) ==
    LET job == loops[l].job
        mine == RowsOf(job.market, job.scope)
    IN  /\ LoopAt(l, "gather")
        /\ \E found \in IF mine = {} THEN {NoRow} ELSE mine :
              IF Due(found) /\ Runs(job)
              THEN /\ LoopGoto(l, "decide")
                   /\ rows' = UpdateRows(job.market, job.scope,
                        LAMBDA row : [row EXCEPT !.seen = TRUE,
                                                 !.alone = @ /\ AtWork(Loops, job.market, job.scope) = {}])
              ELSE /\ LoopEnds(l)
                   /\ rows' = UpdateRows(job.market, job.scope,
                                         LAMBDA row : [row EXCEPT !.seen = TRUE])
        /\ UNCHANGED <<waiting, repeating, ticks, made, sims, positions,
                       pendingTrades, balance, late, world>>

\* The agent's positions of a market, chain and outcome.
PositionsOf(job, o) ==
    {p \in DOMAIN positions : /\ positions[p].market = job.market
                              /\ positions[p].chain = job.chain
                              /\ positions[p].outcome = o}
OpenLong(p) == positions[p].side = "LONG" /\ positions[p].status = "OPEN"

\* What parseTradingResponse makes of a text.
Parsed == [action : {"skip"}] \union
          [action : {"buy", "sell"}, outcome : Outcomes, quantity : Quantities]

\* callGeminiTrading and callGrokTrading: a text, or an error.  No key, status 429 and
\* a spent quota are errors that the other provider may make good.
Errors == [action : {"error"}, recoverable : BOOLEAN]
Answers == Parsed \union Errors

\* runTradingAnalysis: the model's own provider, then the other one for an error of
\* that kind, and nothing after it; an error in the end is a skip.
Analysis(first, other) ==
    LET last == IF first \in Errors /\ first.recoverable THEN other ELSE first
    IN  IF last \in Errors THEN [action |-> "skip"] ELSE last

Decisions == {Analysis(first, other) : first \in Answers, other \in Answers}

\* The OPEN LONG amounts are read for the prompt, and used again after the LLM,
\* minutes later perhaps; what it answers depends on nothing else.
Decide(l) ==
    LET job == loops[l].job
        longs(o) == {p \in PositionsOf(job, o) : OpenLong(p)}
    IN  /\ LoopAt(l, "decide")
        /\ \E d \in Decisions :
              loops' = [loops EXCEPT ![l] =
                 IF d.action = "skip" THEN [at |-> "discard", job |-> job]
                 ELSE [at |-> "find", job |-> job, decision |-> d,
                       long |-> MapThenSumSet(LAMBDA p : positions[p].locked,
                                              longs(d.outcome))]]
        /\ UNCHANGED <<waiting, repeating, ticks, rows, made, sims, positions,
                       pendingTrades, balance, late, world>>

\* findFirst without an order and whatever the status: any row of this market,
\* outcome and chain.
FindPosition(l) ==
    LET mine == PositionsOf(loops[l].job, loops[l].decision.outcome)
    IN  /\ LoopAt(l, "find")
        /\ \E found \in IF mine = {} THEN {NoRow} ELSE mine :
              loops' = [loops EXCEPT ![l] =
                          [at |-> "place", job |-> @.job, long |-> @.long,
                           decision |-> @.decision, found |-> found,
                           locked |-> IF found = NoRow THEN 0 ELSE positions[found].locked]]
        /\ UNCHANGED <<waiting, repeating, ticks, rows, made, sims, positions,
                       pendingTrades, balance, late, world>>

NewPosition(job, d) ==
    [market |-> job.market, chain |-> job.chain, outcome |-> d.outcome,
     side |-> IF d.action = "buy" THEN "LONG" ELSE "SHORT",
     status |-> "OPEN", locked |-> d.quantity]

\* The table after createOrUpdateAgentPosition.  A LONG row found is opened with
\* the amount that was read and this purchase, or closed; anything else found,
\* or nothing, and there is a new row.
Placed(x) ==
    IF x.found # NoRow /\ positions[x.found].side = "LONG"
    THEN IF x.decision.action = "buy"
         THEN [positions EXCEPT ![x.found].status = "OPEN",
                                ![x.found].locked = x.locked + x.decision.quantity]
         ELSE [positions EXCEPT ![x.found].status = "CLOSED"]
    ELSE Append(positions, NewPosition(x.job, x.decision))

AtFunds(x) == [at |-> "funds", job |-> x.job, long |-> x.long, decision |-> x.decision]

\* The position is written before the order is sent.
Place(l) ==
    /\ LoopAt(l, "place")
    /\ positions' = Placed(loops[l])
    /\ loops' = [loops EXCEPT ![l] = AtFunds(@)]
    /\ UNCHANGED <<waiting, repeating, ticks, rows, made, sims, pendingTrades,
                   balance, late, world>>

\* An error there is logged and the loop goes on to trade.
PlaceFails(l) ==
    /\ loops[l].at \in {"find", "place"}
    /\ Fault
    /\ loops' = [loops EXCEPT ![l] = AtFunds(@)]
    /\ UNCHANGED <<waiting, repeating, ticks, rows, made, sims, positions,
                   pendingTrades, balance, late, world>>

\* getAgentBalanceForChain.
BalanceFor(chain) == IF balance[chain] = NoRow THEN 0 ELSE balance[chain]

\* Why the order is not sent, if it is not: a sale is checked against the
\* positions read before the LLM, a purchase against the balance now.
Pending(x) ==
    CASE ~world.wallet -> "NO_WALLET"
      [] world.wallet /\ x.decision.action = "sell"
            /\ x.long < x.decision.quantity -> "INSUFFICIENT_POSITION"
      [] world.wallet /\ x.decision.action = "buy"
            /\ BalanceFor(x.job.chain) < x.decision.quantity -> "INSUFFICIENT_BALANCE"
      [] OTHER -> "none"

CheckFunds(l) ==
    LET x == loops[l]
    IN  /\ LoopAt(l, "funds")
        /\ IF Pending(x) = "none"
           THEN /\ loops' = [loops EXCEPT ![l] = [at |-> "submit", job |-> x.job]]
                /\ UNCHANGED pendingTrades
           ELSE /\ pendingTrades' = pendingTrades \union
                      {[market |-> x.job.market, reason |-> Pending(x)]}
                /\ LoopEnds(l)
        /\ UNCHANGED <<waiting, repeating, ticks, rows, made, sims, positions,
                       balance, late, world>>

\* POST /api/orders accepts the order.
Submit(l) ==
    LET job == loops[l].job
    IN  /\ LoopAt(l, "submit")
        /\ LoopGoto(l, "traded")
        /\ rows' = UpdateRows(job.market, job.scope,
                              LAMBDA row : [row EXCEPT !.orders = @ + 1])
        /\ late' = IF job.scope \in Sims /\ sims[job.scope].status \in Stopped
                   THEN [late EXCEPT ![job.scope] = @ + 1] ELSE late
        /\ UNCHANGED <<waiting, repeating, ticks, made, sims, positions,
                       pendingTrades, balance, world>>

\* It is refused, or cannot be signed: only the reasons are written.
Refused(l) ==
    /\ LoopAt(l, "submit")
    /\ LoopEnds(l)
    /\ UNCHANGED <<waiting, repeating, ticks, rows, made, sims, positions,
                   pendingTrades, balance, late, world>>

\* What is written after a trade or a skip: the follow-up is always later.
Scheduled(row, status) == [row EXCEPT !.status = status, !.due = FALSE]

\* The row is put to sleep, after a skip or a trade.  The balance is asked for
\* after a trade and not awaited: Ledger has what that does.
Record(l) ==
    LET job == loops[l].job
        status == IF LoopAt(l, "discard") THEN "DISCARDED" ELSE "TRADED"
    IN  /\ loops[l].at \in {"discard", "traded"}
        /\ rows' = UpdateRows(job.market, job.scope, LAMBDA row : Scheduled(row, status))
        /\ LoopEnds(l)
        /\ UNCHANGED <<waiting, repeating, ticks, made, sims, positions,
                       pendingTrades, balance, late, world>>

\* Rows whose loop ended between their order and their next run.
Disturbed(ls) ==
    {IF \E l \in ls : /\ loops[l].at = "traded"
                      /\ row \in RowsOf(loops[l].job.market, loops[l].job.scope)
     THEN [row EXCEPT !.alone = FALSE] ELSE row : row \in rows}

\* Anything else that rejects fails the job, which is not tried again.
JobFails(l) ==
    /\ loops[l].at \notin {"idle", "find", "place"}
    /\ Fault
    /\ LoopEnds(l)
    /\ rows' = Disturbed({l})
    /\ UNCHANGED <<waiting, repeating, ticks, made, sims, positions,
                   pendingTrades, balance, late, world>>

\* The worker process dies.  BullMQ finds its jobs stalled and runs them again,
\* from the start.
WorkerCrash ==
    LET lost == {l \in Loops : loops[l].at # "idle"}
    IN  /\ lost # {}
        /\ Fault
        /\ waiting' = [i \in 1..Cardinality(lost) |->
                          loops[SetToSortSeq(lost, <)[i]].job] \o waiting
        /\ loops' = [l \in Loops |-> Idle]
        /\ rows' = Disturbed(lost)
        /\ UNCHANGED <<repeating, ticks, made, sims, positions, pendingTrades,
                       balance, late, world>>

LoopStep(l) ==
    \/ Take(l) \/ CheckSimulation(l) \/ Gather(l) \/ Decide(l)
    \/ FindPosition(l) \/ Place(l) \/ CheckFunds(l) \/ Submit(l) \/ Refused(l)
    \/ Record(l)

----------------------------------------------------------------------------
(* Time. *)

\* A row's nextRunAt comes.
FallsDue ==
    /\ ticks < world.ticks
    /\ ticks' = ticks + 1
    /\ \E row \in rows :
          /\ ~row.due
          /\ rows' = (rows \ {row}) \union {[row EXCEPT !.due = TRUE, !.orders = 0]}
    /\ UNCHANGED <<waiting, repeating, made, sims, positions, pendingTrades,
                   balance, loops, late, world>>

\* A minute has passed for a repeating job.
Repeat ==
    /\ ticks < world.ticks
    /\ ticks' = ticks + 1
    /\ \E job \in repeating : waiting' = Append(waiting, job)
    /\ UNCHANGED <<repeating, rows, made, sims, positions, pendingTrades, balance,
                   loops, late, world>>
=============================================================================

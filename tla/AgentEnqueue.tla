---------------------------- MODULE AgentEnqueue ----------------------------
(***************************************************************************)
(* Who gives the agent worker its jobs on request: the routes of           *)
(* src/src/routes/agent-enqueue.routes.ts and the trigger-all run of       *)
(* services/trigger-all.service.ts, which a cron of the server and         *)
(* POST /api/agent/trigger-all both start.  Adding a job, finding a row    *)
(* and writing it are three awaits.                                        *)
(***************************************************************************)
EXTENDS AgentLoop

enqueueSame == <<ticks, sims, positions, pendingTrades, balance, loops, late, world>>

\* A simulation its owner can still find.
Exists(s) == IF s = "main" THEN TRUE ELSE sims[s].status \notin {"none", "gone"}

----------------------------------------------------------------------------
(* POST /api/agent/enqueue, whose last three steps trigger-all repeats for *)
(* each market it discovers.                                               *)

\* The route's checks.  A simulation's rows trade on tenderly; the status of the
\* simulation is not asked.
Enqueue(r) ==
    /\ Arrive(r, "enqueue")
    /\ \E m \in Markets, s \in Scopes, c \in Chains :
          /\ Exists(s)
          /\ s # "main" => c = "tenderly"
          /\ Become(r, [kind |-> "enqueue", at |-> "repeat", job |-> Job(m, s, c)])
    /\ UNCHANGED <<waiting, repeating, rows, made, enqueueSame, faults>>

\* enqueueAgentPrediction: the job's id has the agent and the market only, so
\* there is one repeating job for all the simulations of a market.  BullMQ may
\* keep what it had or take the new payload.
AddRepeating(r) ==
    LET job == req[r].job
        same == {j \in repeating : j.market = job.market}
    IN  /\ req[r].at = "repeat"
        /\ Goto(r, "find")
        /\ \/ repeating' = (repeating \ same) \union {job}
           \/ same # {} /\ UNCHANGED repeating
        /\ UNCHANGED <<waiting, rows, made, enqueueSame, traffic, faults>>

FindRow(r) ==
    LET mine == RowsOf(req[r].job.market, req[r].job.scope)
    IN  /\ req[r].at = "find"
        /\ \E found \in IF mine = {} THEN {0} ELSE {row.id : row \in mine} :
              Become(r, With(req[r], [at |-> "save", found |-> found]))
        /\ UNCHANGED <<waiting, repeating, rows, made, enqueueSame, traffic, faults>>

\* Where the handler is after a row: enqueue answers, trigger-all has others.
AfterWrite(r) ==
    IF req[r].kind = "enqueue" THEN Free
    ELSE IF req[r].todo = {} THEN [kind |-> "triggerAll", at |-> "due"]
    ELSE [kind |-> "triggerAll", at |-> "next", todo |-> req[r].todo]

\* The row found is moved to the chain, or there is a new one.  A row deleted
\* since, a second row of one simulation, a simulation deleted since: Prisma
\* throws and the handler ends.
WriteRow(r) ==
    LET job == req[r].job
        found == {row \in rows : row.id = req[r].found}
    IN  /\ req[r].at = "save"
        /\ \/ /\ found # {}
              /\ rows' = (rows \ found) \union {[row EXCEPT !.chain = job.chain] : row \in found}
              /\ Become(r, AfterWrite(r))
              /\ UNCHANGED made
           \/ /\ req[r].found = 0 /\ Exists(job.scope) /\ ~Duplicate(job.market, job.scope)
              /\ Create(job.market, job.scope, job.chain, TRUE)
              /\ Become(r, AfterWrite(r))
           \/ /\ IF req[r].found # 0 THEN found = {}
                 ELSE ~Exists(job.scope) \/ Duplicate(job.market, job.scope)
              /\ Answer(r)
              /\ UNCHANGED <<rows, made>>
        /\ UNCHANGED <<waiting, repeating, enqueueSame, traffic, faults>>

\* DELETE /api/agent/enqueue: the rows go, the repeating job stays.
Unenqueue(r) ==
    /\ Arrive(r, "unenqueue")
    /\ \E m \in Markets, s \in Scopes : rows' = rows \ RowsOf(m, s)
    /\ Answer(r)
    /\ UNCHANGED <<waiting, repeating, made, enqueueSame, faults>>

----------------------------------------------------------------------------
(* Jobs at once: POST /api/agent/:id/trigger and trigger-all.              *)

\* One job for each row, in some order.
JobsFor(found, c) == [i \in 1..Cardinality(found) |->
                        LET row == SetToSortSeq(found, LAMBDA x, y : x.id < y.id)[i]
                        IN  Job(row.market, row.scope, IF c = "row" THEN row.chain ELSE c)]

\* All the rows of the scope, whatever their status; the body may name a chain.
Trigger(r) ==
    /\ Arrive(r, "trigger")
    /\ \E s \in Scopes, c \in Chains \union {"row"} :
          /\ \E row \in rows : row.scope = s
          /\ Become(r, [kind |-> "trigger", at |-> "now",
                        jobs |-> JobsFor({row \in rows : row.scope = s}, c)])
    /\ UNCHANGED <<waiting, repeating, rows, made, enqueueSame, faults>>

\* enqueueAgentPredictionNow for the first of them.
AddNow(r) ==
    /\ req[r].at = "now"
    /\ IF req[r].jobs = << >>
       THEN Answer(r) /\ UNCHANGED waiting
       ELSE /\ waiting' = Append(waiting, Head(req[r].jobs))
            /\ req' = [req EXCEPT ![r].jobs = Tail(@)]
    /\ UNCHANGED <<repeating, rows, made, enqueueSame, traffic, faults>>

\* A run of trigger-all.  Discovery, where it is enabled, takes the OPEN markets
\* that have no row on the main chain.
TriggerAll(r) ==
    LET existing == {row.market : row \in {x \in rows : x.scope = "main" /\ x.chain = "main"}}
        missing == IF world.active THEN world.open \ existing ELSE {}
    IN  /\ Arrive(r, "triggerAll")
        /\ \/ missing # {} /\ Become(r, [kind |-> "triggerAll", at |-> "next", todo |-> missing])
           \/ Become(r, [kind |-> "triggerAll", at |-> "due"])
        /\ UNCHANGED <<waiting, repeating, rows, made, enqueueSame, faults>>

Discover(r) ==
    /\ At(r, "triggerAll", "next")
    /\ \E m \in req[r].todo :
          Become(r, [kind |-> "triggerAll", at |-> "repeat", job |-> Job(m, "main", "main"),
                     todo |-> req[r].todo \ {m}])
    /\ UNCHANGED <<waiting, repeating, rows, made, enqueueSame, traffic, faults>>

\* The rows a run starts.
Triggered == {row \in rows : /\ row.scope = "main" /\ row.chain = "main" /\ row.due
                             /\ row.status \in {"PENDING", "TRADED"}}

FindDue(r) ==
    /\ At(r, "triggerAll", "due")
    /\ Become(r, [kind |-> "triggerAll", at |-> "now", jobs |-> JobsFor(Triggered, "row")])
    /\ UNCHANGED <<waiting, repeating, rows, made, enqueueSame, traffic, faults>>

EnqueueArrives(r) == Enqueue(r) \/ Unenqueue(r) \/ Trigger(r) \/ TriggerAll(r)

EnqueueStep(r) ==
    \/ AddRepeating(r) \/ FindRow(r) \/ WriteRow(r) \/ AddNow(r) \/ Discover(r) \/ FindDue(r)
=============================================================================

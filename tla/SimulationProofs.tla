-------------------------- MODULE SimulationProofs --------------------------
(***************************************************************************)
(* Proofs about Simulation for any number of requests, loops, markets and  *)
(* simulations, and any mix of requests and faults.                        *)
(*                                                                         *)
(* A request moves only itself, a loop only itself; so each part of the    *)
(* invariant is looked at under the steps that touch what it is about, and *)
(* framed under the others: the rows and the simulations, who is at work   *)
(* for a row, what a stopped simulation still gets, what extensions and    *)
(* starts still owe a simulation, and when the agent was funded.           *)
(***************************************************************************)
EXTENDS Simulation, FiniteSetTheorems, TLAPS

----------------------------------------------------------------------------
(* The inductive invariant. *)

\* Where a handler is, and the locals that later steps rely on.
JobType == [market : Markets, scope : Scopes, chain : Chains]

StartOK(x) ==
    \/ /\ x.at \in {"pay", "transfer", "create"}
       /\ {"max", "minutes"} \subseteq DOMAIN x /\ "sim" \notin DOMAIN x
       /\ x.max \in Nat /\ x.minutes \in Nat
    \/ /\ x.at \in {"row", "job"}
       /\ {"sim", "todo"} \subseteq DOMAIN x
       /\ x.sim \in Sims /\ x.todo \subseteq Markets

ExtendOK(x) ==
    /\ {"sim", "addMinutes", "addMarkets", "added", "minutes", "max"} \subseteq DOMAIN x
    /\ x.sim \in Sims
    /\ x.addMinutes \in Nat /\ x.added \in Nat /\ x.minutes \in Nat /\ x.max \in Nat
    /\ x.at \in {"pay", "transfer", "existing", "row", "job", "update"}
    /\ x.at \in {"row", "job"} => "todo" \in DOMAIN x /\ x.todo \subseteq Markets
    /\ x.at \in {"pay", "transfer", "existing"} => x.added = 0

EnqueueOK(x) ==
    /\ x.at \in {"repeat", "find", "save"}
    /\ "job" \in DOMAIN x /\ x.job \in JobType

TriggerAllOK(x) ==
    \/ x.at \in {"due", "now"}
    \/ x.at = "next" /\ "todo" \in DOMAIN x /\ x.todo \subseteq Markets
    \/ EnqueueOK(x) /\ "todo" \in DOMAIN x /\ x.todo \subseteq Markets

RequestOK(x) ==
    /\ {"kind", "at"} \subseteq DOMAIN x
    /\ \/ x.kind = "none" /\ x.at = "none"
       \/ x.kind = "start" /\ StartOK(x)
       \/ x.kind = "extend" /\ ExtendOK(x)
       \/ x.kind = "stop" /\ x.at = "write" /\ {"sim", "status"} \subseteq DOMAIN x
                          /\ x.sim \in Sims /\ x.status \in Stopped
       \/ x.kind = "delete" /\ x.at = "write" /\ "sim" \in DOMAIN x /\ x.sim \in Sims
       \/ x.kind = "fund" /\ x.at \in {"last", "chain", "redis", "upsert"}
       \/ x.kind = "balance" /\ x.at = "write"
       \/ x.kind = "enqueue" /\ EnqueueOK(x)
       \/ x.kind = "trigger" /\ x.at = "now"
       \/ x.kind = "triggerAll" /\ TriggerAllOK(x)

RequestsInv ==
    /\ DOMAIN req = Requests
    /\ \A r \in Requests : RequestOK(req[r])
    /\ faults \in Nat

\* The rows are numbered, belong to simulations that are there, and a simulation has
\* one of a market.
SimType == [status : Stopped \union {"none", "RUNNING", "gone"}, minutes : Nat, max : Nat,
            bought : Nat, boughtMax : Nat, alone : BOOLEAN]

TableInv ==
    /\ rows \subseteq RowType /\ made \in Nat
    /\ \A row \in rows : row.id \in 1..made
    /\ \A x, y \in rows : x.id = y.id => x = y
    /\ \A x, y \in rows : x.scope # "main" /\ x.scope = y.scope /\ x.market = y.market => x = y

OwnersInv ==
    /\ sims \in [Sims -> SimType]
    /\ \A row \in rows : Exists(row.scope)

RowsInv == TableInv /\ OwnersInv

\* Only the loops of this world have jobs.
AtWorkPlaces == {"decide", "discard", "find", "place", "funds", "submit", "traded"}
LoopPlaces == {"idle", "status", "gather"} \union AtWorkPlaces

LoopsInv ==
    /\ DOMAIN loops = Loops /\ world.loops \subseteq Loops /\ world.open \subseteq Markets
    /\ \A l \in Loops :
          /\ "at" \in DOMAIN loops[l] /\ loops[l].at \in LoopPlaces
          /\ loops[l].at # "idle" => l \in world.loops /\ "job" \in DOMAIN loops[l]

\* The loops past the check of a simulation that may yet have an order accepted: with
\* those accepted since the stop they are no more than there are loops.
Past(s) == {l \in world.loops : /\ loops[l].at \in {"gather", "decide", "find", "place", "funds", "submit"}
                                /\ loops[l].job.scope = s}
LateOK(s) ==
    /\ late[s] \in Nat /\ late[s] <= Cardinality(world.loops)
    /\ sims[s].status \in {"none", "RUNNING"} => late[s] = 0
    /\ sims[s].status \in Stopped => late[s] + Cardinality(Past(s)) <= Cardinality(world.loops)
LateInv == DOMAIN late = Sims /\ \A s \in Sims : LateOK(s)

\* A row that no two loops had at once and that is alone of its market: while a loop
\* has it, it is due, and has no order until that loop has traded.
Only(row) == row.alone /\ RowsOf(row.market, row.scope) = {row}
Having(row) == AtWork(Loops, row.market, row.scope)
DueOK(row) ==
    /\ row.orders <= 1
    /\ row.due /\ (\A l \in Having(row) : loops[l].at # "traded") => row.orders = 0
    /\ \A l \in Having(row) : row.due /\ \A k \in Having(row) : k = l
DueInv == \A row \in rows : Only(row) => DueOK(row)

\* What starts and extensions still owe a simulation.  The rows it has been given and
\* those to come are no more than its markets and those that are about to be added.
Starting(s) == {r \in Requests : req[r].kind = "start" /\ req[r].at \in {"row", "job"} /\ req[r].sim = s}
Extending(s) == {r \in Requests : req[r].kind = "extend" /\ req[r].sim = s}
Adding(s) == {r \in Extending(s) : req[r].at \in {"row", "job"}}
Counted(s) == {r \in Extending(s) : req[r].at \in {"row", "job", "update"}}
Todo(R) == UNION {req[r].todo : r \in R}
MineOf(s) == {row.market : row \in {x \in rows : x.scope = s /\ ~x.user}}
AddedOf(s) == IF Counted(s) = {} THEN {0} ELSE {req[r].added : r \in Counted(s)}

BoughtOK(s) ==
    /\ sims[s].minutes = sims[s].bought /\ sims[s].max = sims[s].boughtMax
    /\ \A q, r \in Extending(s) : q = r
    /\ \A r \in Extending(s) : req[r].minutes = sims[s].minutes /\ req[r].max = sims[s].max
Load(s) == Cardinality(MineOf(s)) + Cardinality(Todo(Starting(s))) + Cardinality(Todo(Adding(s)))
OwedOK(s) == \A a \in AddedOf(s) : Load(s) <= sims[s].max + a
SimOK(s) ==
    /\ sims[s].status = "none" => Starting(s) \union Extending(s) = {}
    /\ \A q, r \in Starting(s) : q = r
    /\ sims[s].alone /\ Exists(s) => BoughtOK(s) /\ (faults = 0 => OwedOK(s))
SimsInv == \A s \in Sims : SimOK(s)

\* Every time the chain was asked in a week has its slip but one; that one too, when
\* neither Redis knows of it nor a request is about to tell Redis.
FundInv ==
    /\ asked \in Nat /\ slips \in Nat /\ usdc \in Nat
    /\ asked <= slips + 1
    /\ Funding = {} /\ redisLast # "week" => asked <= slips

\* There is one repeating job of a market.
JobsInv ==
    /\ \A j \in repeating, k \in repeating : j.market = k.market => j = k
    /\ purse \in Nat

Inv == /\ RequestsInv /\ RowsInv /\ LoopsInv /\ LateInv
       /\ DueInv /\ SimsInv /\ FundInv /\ JobsInv

----------------------------------------------------------------------------
(* Requests move one at a time. *)

\* One request moves, from and to a handler of these kinds.
Turn(r, K) ==
    /\ \A q \in Requests \ {r} : req'[q] = req[q]
    /\ req[r].kind \in K \union {"none"}
    /\ req'[r].kind \in K \union {"none"}

\* Requests of these kinds stay as and where they are.
Undisturbed(K) ==
    \A q \in Requests : (req[q].kind \in K \/ req'[q].kind \in K) => req'[q] = req[q]

EnqueueKinds == {"enqueue", "trigger", "triggerAll"}
SimKinds == {"start", "extend"}
EndKinds == {"stop", "delete"}
FundKinds == {"fund", "balance"}

\* An assignment to one request.
LEMMA Assigned ==
    ASSUME RequestsInv, NEW r \in Requests, NEW y, req' = [req EXCEPT ![r] = y]
    PROVE  /\ req'[r] = y
           /\ \A q \in Requests \ {r} : req'[q] = req[q]
           /\ RequestOK(y) /\ faults' \in Nat => RequestsInv'
<1>1. /\ DOMAIN req' = Requests
      /\ req'[r] = y /\ \A q \in Requests \ {r} : req'[q] = req[q]
  BY DEF RequestsInv
<1>2. ASSUME RequestOK(y), faults' \in Nat PROVE RequestsInv'
  <2>1. \A q \in Requests : RequestOK(req'[q])
    BY <1>1, <1>2 DEF RequestsInv
  <2>. QED
    BY <1>1, <1>2, <2>1 DEF RequestsInv
<1>. QED
  BY <1>1, <1>2

\* An answer leaves the request free, whatever it was.
LEMMA AnswerFrees ==
    ASSUME RequestsInv, NEW r \in Requests, Answer(r)
    PROVE  /\ req'[r] = Free /\ Free.kind = "none"
           /\ \A q \in Requests \ {r} : req'[q] = req[q]
           /\ faults' \in Nat => RequestsInv'
<1>1. PICK y : y = Free
  OBVIOUS
<1>2. y.kind = "none" /\ y.at = "none" /\ DOMAIN y = {"kind", "at"}
  BY <1>1 DEF Free
<1>3. RequestOK(y)
  BY <1>2 DEF RequestOK
<1>4. req' = [req EXCEPT ![r] = y]
  BY <1>1 DEF Answer
<1>. QED
  BY <1>1, <1>2, <1>3, <1>4, Assigned

\* The request goes to another await.
LEMMA Goes ==
    ASSUME RequestsInv, NEW r \in Requests, NEW at, Goto(r, at)
    PROVE  /\ req'[r].kind = req[r].kind /\ req'[r].at = at
           /\ DOMAIN req'[r] = DOMAIN req[r]
           /\ \A field \in DOMAIN req[r] \ {"at"} : req'[r][field] = req[r][field]
           /\ \A q \in Requests \ {r} : req'[q] = req[q]
           /\ RequestOK(req'[r]) /\ faults' \in Nat => RequestsInv'
<1>1. "kind" \in DOMAIN req[r] /\ "at" \in DOMAIN req[r]
  BY DEF RequestsInv, RequestOK
<1>. DEFINE y == [req[r] EXCEPT !.at = at]
<1>2. req' = [req EXCEPT ![r] = y]
  BY DEF Goto, RequestsInv
<1>3. /\ y.kind = req[r].kind /\ y.at = at /\ DOMAIN y = DOMAIN req[r]
      /\ \A field \in DOMAIN req[r] \ {"at"} : y[field] = req[r][field]
  BY <1>1
<1>. HIDE DEF y
<1>. QED
  BY <1>2, <1>3, Assigned

\* A request that comes finds a place that is free.
LEMMA ArrivesFree ==
    ASSUME NEW r, NEW kind, Arrive(r, kind)
    PROVE  req[r] = Free /\ req[r].kind = "none"
BY DEF Arrive, Busy, Free

\* A fault is counted.
LEMMA FaultCounts ==
    ASSUME RequestsInv, Fault
    PROVE  faults' \in Nat /\ faults' # 0
BY DEF RequestsInv, Fault

\* The handlers that enqueue, and trigger-all.
LEMMA EnqueueMoves ==
    ASSUME RequestsInv, LoopsInv, NEW r \in Requests, EnqueueArrives(r) \/ EnqueueStep(r)
    PROVE  RequestsInv' /\ Turn(r, EnqueueKinds)
<1>1. RequestOK(req[r]) /\ faults \in Nat
  BY DEF RequestsInv
<1>2. UNCHANGED faults
  BY DEF EnqueueArrives, EnqueueStep, Enqueue, Unenqueue, Trigger, TriggerAll, AddRepeating, FindRow,
         WriteRow, AddNow, Discover, FindDue
<1>3. ASSUME NEW y, Become(r, y), RequestOK(y), y.kind \in EnqueueKinds \union {"none"},
             req[r].kind \in EnqueueKinds \union {"none"}
      PROVE  RequestsInv' /\ Turn(r, EnqueueKinds)
  BY <1>1, <1>2, <1>3, Assigned DEF Turn, Become
<1>4. ASSUME Answer(r), req[r].kind \in EnqueueKinds \union {"none"}
      PROVE  RequestsInv' /\ Turn(r, EnqueueKinds)
  <2>1. /\ req'[r].kind = "none" /\ RequestsInv'
        /\ \A q \in Requests \ {r} : req'[q] = req[q]
    BY <1>1, <1>2, <1>4, AnswerFrees
  <2>. QED
    BY <1>4, <2>1 DEF Turn
<1>5. CASE Enqueue(r)
  <2>1. PICK m \in Markets, s \in Scopes, c \in Chains :
            Become(r, [kind |-> "enqueue", at |-> "repeat", job |-> Job(m, s, c)])
    BY <1>5 DEF Enqueue
  <2>2. PICK y : y = [kind |-> "enqueue", at |-> "repeat", job |-> Job(m, s, c)]
    OBVIOUS
  <2>3. y.kind = "enqueue" /\ RequestOK(y)
    BY <2>2 DEF RequestOK, EnqueueOK, Job, JobType
  <2>4. req[r].kind = "none"
    BY <1>5, ArrivesFree DEF Enqueue
  <2>. QED
    BY <1>3, <2>1, <2>2, <2>3, <2>4 DEF EnqueueKinds
<1>6. CASE Unenqueue(r)
  BY <1>4, <1>6, ArrivesFree DEF Unenqueue
<1>7. CASE Trigger(r)
  <2>1. PICK j : Become(r, [kind |-> "trigger", at |-> "now", jobs |-> j])
    BY <1>7 DEF Trigger
  <2>2. PICK y : y = [kind |-> "trigger", at |-> "now", jobs |-> j]
    OBVIOUS
  <2>3. y.kind = "trigger" /\ RequestOK(y)
    BY <2>2 DEF RequestOK
  <2>4. req[r].kind = "none"
    BY <1>7, ArrivesFree DEF Trigger
  <2>. QED
    BY <1>3, <2>1, <2>2, <2>3, <2>4 DEF EnqueueKinds
<1>8. CASE TriggerAll(r)
  <2>1. req[r].kind = "none"
    BY <1>8, ArrivesFree DEF TriggerAll
  <2>2. PICK missing : /\ missing \subseteq Markets
                       /\ \/ Become(r, [kind |-> "triggerAll", at |-> "next", todo |-> missing])
                          \/ Become(r, [kind |-> "triggerAll", at |-> "due"])
    <3>1. PICK missing : missing = IF world.active
                 THEN world.open \ {row.market : row \in {x \in rows : x.scope = "main" /\ x.chain = "main"}}
                 ELSE {}
      OBVIOUS
    <3>2. missing \subseteq Markets
      BY <3>1 DEF LoopsInv
    <3>. QED
      BY <1>8, <3>1, <3>2 DEF TriggerAll
  <2>3. PICK y, z : y = [kind |-> "triggerAll", at |-> "next", todo |-> missing]
                    /\ z = [kind |-> "triggerAll", at |-> "due"]
    OBVIOUS
  <2>4. y.kind = "triggerAll" /\ RequestOK(y) /\ z.kind = "triggerAll" /\ RequestOK(z)
    BY <2>2, <2>3 DEF RequestOK, TriggerAllOK
  <2>. QED
    BY <1>3, <2>1, <2>2, <2>3, <2>4 DEF EnqueueKinds
<1>9. ASSUME req[r].at \in {"repeat", "find", "save"}
      PROVE  /\ req[r].kind \in {"enqueue", "triggerAll"} /\ EnqueueOK(req[r])
             /\ req[r].kind = "triggerAll" => "todo" \in DOMAIN req[r] /\ req[r].todo \subseteq Markets
  BY <1>1, <1>9 DEF RequestOK, StartOK, ExtendOK, TriggerAllOK
<1>10. CASE AddRepeating(r)
  <2>1. PICK x, y : x = req[r] /\ y = req'[r]
    OBVIOUS
  <2>2. x.at = "repeat" /\ Goto(r, "find")
    BY <1>10, <2>1 DEF AddRepeating
  <2>3. /\ y.kind = x.kind /\ y.at = "find" /\ DOMAIN y = DOMAIN x
        /\ \A field \in DOMAIN x \ {"at"} : y[field] = x[field]
        /\ \A q \in Requests \ {r} : req'[q] = req[q]
        /\ RequestOK(y) => RequestsInv'
    BY <1>1, <1>2, <2>1, <2>2, Goes
  <2>4. /\ x.kind \in {"enqueue", "triggerAll"} /\ EnqueueOK(x)
        /\ x.kind = "triggerAll" => "todo" \in DOMAIN x /\ x.todo \subseteq Markets
    BY <1>9, <2>1, <2>2
  <2>5. y.job = x.job /\ "job" \in DOMAIN y /\ ("todo" \in DOMAIN x => y.todo = x.todo)
    BY <2>3, <2>4 DEF EnqueueOK
  <2>6. {"kind", "at"} \subseteq DOMAIN y
    BY <1>1, <2>1, <2>3 DEF RequestOK
  <2>7. RequestOK(y)
    BY <2>3, <2>4, <2>5, <2>6 DEF RequestOK, EnqueueOK, TriggerAllOK
  <2>. QED
    BY <2>1, <2>3, <2>4, <2>7 DEF Turn, EnqueueKinds
<1>11. CASE FindRow(r)
  <2>1. PICK x : x = req[r]
    OBVIOUS
  <2>2. PICK found : Become(r, With(x, [at |-> "save", found |-> found]))
    BY <1>11, <2>1 DEF FindRow
  <2>3. PICK l : l = [at |-> "save", found |-> found]
    OBVIOUS
  <2>4. DOMAIN l = {"at", "found"} /\ l.at = "save"
    BY <2>3
  <2>5. PICK y : y = With(x, l)
    OBVIOUS
  <2>6. x.at = "find"
    BY <1>11, <2>1 DEF FindRow
  <2>7. /\ x.kind \in {"enqueue", "triggerAll"} /\ EnqueueOK(x)
        /\ x.kind = "triggerAll" => "todo" \in DOMAIN x /\ x.todo \subseteq Markets
        /\ {"kind", "at"} \subseteq DOMAIN x
    BY <1>1, <1>9, <2>1, <2>6 DEF RequestOK
  <2>8. /\ DOMAIN y = DOMAIN x \union DOMAIN l
        /\ \A field \in DOMAIN l : y[field] = l[field]
        /\ \A field \in DOMAIN x \ DOMAIN l : y[field] = x[field]
    BY <2>5 DEF With
  <2>9. /\ y.at = "save" /\ y.kind = x.kind /\ y.job = x.job /\ {"kind", "at", "job"} \subseteq DOMAIN y
        /\ "todo" \in DOMAIN x => "todo" \in DOMAIN y /\ y.todo = x.todo
    BY <2>4, <2>7, <2>8 DEF EnqueueOK
  <2>10. RequestOK(y)
    BY <2>7, <2>9 DEF RequestOK, EnqueueOK, TriggerAllOK
  <2>. QED
    BY <1>3, <2>1, <2>2, <2>3, <2>5, <2>7, <2>9, <2>10 DEF EnqueueKinds
<1>12. CASE WriteRow(r)
  <2>1. req[r].at = "save" /\ (Answer(r) \/ Become(r, AfterWrite(r)))
    BY <1>12 DEF WriteRow
  <2>2. req[r].kind \in EnqueueKinds
    BY <1>9, <2>1 DEF EnqueueKinds
  <2>3. PICK y : y = AfterWrite(r)
    OBVIOUS
  <2>4. RequestOK(y) /\ y.kind \in EnqueueKinds \union {"none"}
    <3>1. CASE req[r].kind = "enqueue"
      BY <2>3, <3>1 DEF AfterWrite, RequestOK, Free
    <3>2. CASE req[r].kind # "enqueue"
      <4>1. req[r].todo \subseteq Markets
        BY <1>9, <2>1, <3>2
      <4>2. \/ y = [kind |-> "triggerAll", at |-> "due"]
            \/ y = [kind |-> "triggerAll", at |-> "next", todo |-> req[r].todo]
        BY <2>3, <3>2 DEF AfterWrite
      <4>. QED
        BY <4>1, <4>2 DEF RequestOK, TriggerAllOK, EnqueueKinds
    <3>. QED
      BY <3>1, <3>2
  <2>. QED
    BY <1>3, <1>4, <2>1, <2>2, <2>3, <2>4
<1>13. CASE AddNow(r)
  <2>1. PICK x : x = req[r]
    OBVIOUS
  <2>2. x.at = "now"
    BY <1>13, <2>1 DEF AddNow
  <2>3. x.kind \in {"trigger", "triggerAll"}
    BY <1>1, <2>1, <2>2 DEF RequestOK, StartOK, ExtendOK, EnqueueOK
  <2>4. CASE Answer(r)
    BY <1>4, <2>1, <2>3, <2>4 DEF EnqueueKinds
  <2>5. CASE ~Answer(r)
    <3>1. PICK rest : rest = Tail(x.jobs)
      OBVIOUS
    <3>2. req' = [req EXCEPT ![r].jobs = rest]
      BY <1>13, <2>1, <2>5, <3>1 DEF AddNow
    <3>3. PICK y : y = [x EXCEPT !.jobs = rest]
      OBVIOUS
    <3>4. req' = [req EXCEPT ![r] = y]
      BY <2>1, <3>2, <3>3 DEF RequestsInv
    <3>5. DOMAIN y = DOMAIN x /\ y.kind = x.kind /\ y.at = x.at
      BY <1>1, <2>1, <3>3 DEF RequestOK
    <3>6. RequestOK(y)
      BY <1>1, <2>1, <2>2, <2>3, <3>5 DEF RequestOK, TriggerAllOK
    <3>. QED
      BY <1>3, <2>1, <2>3, <3>4, <3>5, <3>6 DEF Become, EnqueueKinds
  <2>. QED
    BY <2>4, <2>5
<1>14. CASE Discover(r)
  <2>1. req[r].kind = "triggerAll" /\ req[r].at = "next"
    BY <1>14 DEF Discover, At
  <2>2. req[r].todo \subseteq Markets
    BY <1>1, <2>1 DEF RequestOK, TriggerAllOK, EnqueueOK
  <2>3. PICK m \in req[r].todo :
            Become(r, [kind |-> "triggerAll", at |-> "repeat", job |-> Job(m, "main", "main"),
                       todo |-> req[r].todo \ {m}])
    BY <1>14 DEF Discover
  <2>4. PICK y : y = [kind |-> "triggerAll", at |-> "repeat", job |-> Job(m, "main", "main"),
                      todo |-> req[r].todo \ {m}]
    OBVIOUS
  <2>5. y.kind = "triggerAll" /\ RequestOK(y)
    BY <2>2, <2>4 DEF RequestOK, TriggerAllOK, EnqueueOK, Job, JobType, Scopes, Chains
  <2>. QED
    BY <1>3, <2>1, <2>3, <2>4, <2>5 DEF EnqueueKinds
<1>15. CASE FindDue(r)
  <2>1. PICK j : Become(r, [kind |-> "triggerAll", at |-> "now", jobs |-> j])
    BY <1>15 DEF FindDue
  <2>2. PICK y : y = [kind |-> "triggerAll", at |-> "now", jobs |-> j]
    OBVIOUS
  <2>3. y.kind = "triggerAll" /\ RequestOK(y)
    BY <2>2 DEF RequestOK, TriggerAllOK
  <2>. QED
    BY <1>3, <1>15, <2>1, <2>2, <2>3 DEF FindDue, At, EnqueueKinds
<1>. QED
  BY <1>5, <1>6, <1>7, <1>8, <1>10, <1>11, <1>12, <1>13, <1>14, <1>15 DEF EnqueueArrives, EnqueueStep

\* The stop and deletion of a simulation.
LEMMA EndMoves ==
    ASSUME RequestsInv, NEW r \in Requests, Stop(r) \/ Delete(r) \/ WriteStop(r) \/ WriteDelete(r)
    PROVE  RequestsInv' /\ Turn(r, EndKinds)
<1>1. RequestOK(req[r]) /\ faults \in Nat /\ UNCHANGED faults
  BY DEF RequestsInv, Stop, Delete, WriteStop, WriteDelete
<1>2. req[r].kind \in EndKinds \union {"none"}
  BY ArrivesFree DEF Stop, Delete, WriteStop, WriteDelete, At, EndKinds
<1>3. CASE Answer(r)
  BY <1>1, <1>2, <1>3, AnswerFrees DEF Turn
<1>4. CASE ~Answer(r)
  <2>1. PICK s \in Sims, status \in Stopped :
            \/ Become(r, [kind |-> "stop", at |-> "write", sim |-> s, status |-> status])
            \/ Become(r, [kind |-> "delete", at |-> "write", sim |-> s])
    <3>1. CASE Stop(r)
      BY <1>4, <3>1 DEF Stop
    <3>2. CASE Delete(r)
      BY <3>2 DEF Delete, Stopped
    <3>. QED
      BY <1>4, <3>1, <3>2 DEF WriteStop, WriteDelete
  <2>2. PICK y, z : /\ y = [kind |-> "stop", at |-> "write", sim |-> s, status |-> status]
                    /\ z = [kind |-> "delete", at |-> "write", sim |-> s]
    OBVIOUS
  <2>3. y.kind = "stop" /\ RequestOK(y) /\ z.kind = "delete" /\ RequestOK(z)
    BY <2>2 DEF RequestOK
  <2>4. (req' = [req EXCEPT ![r] = y]) \/ (req' = [req EXCEPT ![r] = z])
    BY <2>1, <2>2 DEF Become
  <2>. QED
    BY <1>1, <1>2, <2>3, <2>4, Assigned DEF Turn, EndKinds
<1>. QED
  BY <1>3, <1>4

\* Funding, and the balance that is read: where a request of theirs is afterwards.
FundSteps(r) ==
    \/ Fund(r) \/ ReadLast(r) \/ FundWallet(r) \/ FundingFails(r) \/ WriteLast(r)
    \/ WriteFunded(r) \/ ReadBalance(r) \/ WriteBalance(r)

\* A funding of which one call has been answered waits for the other, or goes on.
LEMMA Answered ==
    ASSUME RequestsInv, NEW r \in Requests, FundWallet(r)
    PROVE  \E y : Become(r, y) /\ y.kind = "fund" /\ y.at \in {"chain", "redis"} /\ RequestOK(y)
<1>1. req[r].kind = "fund" /\ req[r].at = "chain" /\ {"kind", "at"} \subseteq DOMAIN req[r]
  BY DEF FundWallet, At, RequestsInv, RequestOK
<1>2. PICK left : Become(r, [req[r] EXCEPT !.left = left,
                                          !.at = IF left = {} THEN "redis" ELSE @])
  BY DEF FundWallet
<1>3. PICK y : y = [req[r] EXCEPT !.left = left, !.at = IF left = {} THEN "redis" ELSE @]
  OBVIOUS
<1>4. y.kind = "fund" /\ y.at \in {"chain", "redis"} /\ DOMAIN y = DOMAIN req[r]
  BY <1>1, <1>3
<1>5. RequestOK(y)
  BY <1>1, <1>4 DEF RequestOK
<1>. QED
  BY <1>2, <1>3, <1>4, <1>5

\* A funding or a reading of the balance is in order after each of its steps.
LEMMA FundMoves ==
    ASSUME RequestsInv, NEW r \in Requests, FundSteps(r)
    PROVE  RequestsInv' /\ Turn(r, FundKinds)
<1>1. RequestOK(req[r]) /\ faults' \in Nat
  BY FaultCounts DEF RequestsInv, FundSteps, Fund, ReadLast, FundWallet, FundingFails, WriteLast,
                     WriteFunded, ReadBalance, WriteBalance, Rejects
<1>2. req[r].kind \in FundKinds \union {"none"}
  BY ArrivesFree DEF FundSteps, Fund, ReadLast, FundWallet, FundingFails, WriteLast, WriteFunded,
                     ReadBalance, WriteBalance, At, FundKinds
<1>3. CASE Answer(r)
  BY <1>1, <1>2, <1>3, AnswerFrees DEF Turn
<1>4. ASSUME NEW y, Become(r, y), RequestOK(y), y.kind \in FundKinds
      PROVE  RequestsInv' /\ Turn(r, FundKinds)
  BY <1>1, <1>2, <1>4, Assigned DEF Turn, Become
<1>5. CASE Fund(r) /\ ~Answer(r)
  <2>1. PICK y : y = [kind |-> "fund", at |-> "last"]
    OBVIOUS
  <2>2. y.kind = "fund" /\ RequestOK(y)
    BY <2>1 DEF RequestOK
  <2>. QED
    BY <1>4, <1>5, <2>1, <2>2 DEF Fund, FundKinds
<1>6. CASE ReadLast(r) /\ ~Answer(r)
  <2>1. PICK b : Become(r, [kind |-> "fund", at |-> "chain", left |-> Calls, first |-> b])
    BY <1>6 DEF ReadLast, AskChain
  <2>2. PICK y : y = [kind |-> "fund", at |-> "chain", left |-> Calls, first |-> b]
    OBVIOUS
  <2>3. y.kind = "fund" /\ RequestOK(y)
    BY <2>2 DEF RequestOK
  <2>. QED
    BY <1>4, <2>1, <2>2, <2>3 DEF FundKinds
<1>7. CASE WriteLast(r)
  <2>1. req[r].kind = "fund" /\ Goto(r, "upsert")
    BY <1>7 DEF WriteLast, At
  <2>2. PICK x, y : x = req[r] /\ y = req'[r]
    OBVIOUS
  <2>3. /\ y.kind = "fund" /\ y.at = "upsert" /\ DOMAIN y = DOMAIN x
        /\ \A q \in Requests \ {r} : req'[q] = req[q]
        /\ RequestOK(y) => RequestsInv'
    BY <1>1, <2>1, <2>2, Goes
  <2>4. RequestOK(y)
    BY <1>1, <2>2, <2>3 DEF RequestOK
  <2>. QED
    BY <1>2, <2>2, <2>3, <2>4 DEF Turn, FundKinds
<1>9. CASE FundWallet(r)
  <2>1. PICK y : Become(r, y) /\ y.kind = "fund" /\ y.at \in {"chain", "redis"} /\ RequestOK(y)
    BY <1>1, <1>9, Answered
  <2>. QED
    BY <1>4, <2>1 DEF FundKinds
<1>8. CASE ReadBalance(r) /\ ~Answer(r)
  <2>1. PICK u : Become(r, [kind |-> "balance", at |-> "write", units |-> u])
    BY <1>8 DEF ReadBalance
  <2>2. PICK y : y = [kind |-> "balance", at |-> "write", units |-> u]
    OBVIOUS
  <2>3. y.kind = "balance" /\ RequestOK(y)
    BY <2>2 DEF RequestOK
  <2>. QED
    BY <1>4, <2>1, <2>2, <2>3 DEF FundKinds
<1>. QED
  BY <1>3, <1>5, <1>6, <1>7, <1>8, <1>9 DEF FundSteps, FundingFails, WriteFunded, WriteBalance, Rejects

\* A handler that rejects.
LEMMA FailureMoves ==
    ASSUME RequestsInv, NEW r \in Requests, RequestFails(r)
    PROVE  /\ RequestsInv' /\ faults' # 0 /\ req'[r] = Free /\ req'[r].kind = "none"
           /\ \A q \in Requests \ {r} : req'[q] = req[q]
BY AnswerFrees, FaultCounts DEF RequestFails, Rejects

\* The moves of one kind of request leave the others undisturbed.
LEMMA TurnUndisturbs ==
    ASSUME NEW r \in Requests, NEW K, NEW L, Turn(r, K), K \intersect L = {}, "none" \notin L
    PROVE  Undisturbed(L)
BY DEF Turn, Undisturbed

----------------------------------------------------------------------------
(* When the agent was funded. *)

\* Requests that are no fundings change nothing about fundings.
LEMMA FundFrame ==
    ASSUME FundInv, UNCHANGED fundVars, Undisturbed({"fund"})
    PROVE  FundInv'
<1>1. Funding' = Funding
  BY DEF Undisturbed, Funding, InFlight
<1>. QED
  BY <1>1 DEF FundInv, fundVars

\* A request that is not about to tell Redis, before its step and after, changes none of this.
LEMMA FundAside ==
    ASSUME FundInv, UNCHANGED fundVars, NEW r \in Requests,
           \A q \in Requests \ {r} : req'[q] = req[q],
           ~(req[r].kind = "fund" /\ req[r].at \in {"chain", "redis"}),
           ~(req'[r].kind = "fund" /\ req'[r].at \in {"chain", "redis"})
    PROVE  FundInv'
<1>1. Funding' = Funding
  BY DEF Funding, InFlight
<1>. QED
  BY <1>1 DEF FundInv, fundVars

\* The chain is asked again only when neither Redis nor another request speaks against it,
\* or with a slip; and what a request was about to tell Redis is told, or is a slip.
LEMMA FundSteady ==
    ASSUME RequestsInv, FundInv, NEW r \in Requests, FundSteps(r)
    PROVE  FundInv'
<1>1. \A q \in Requests \ {r} : req'[q] = req[q]
  BY FundMoves DEF Turn
<1>2. \A units : Filled(units) \in Nat
  BY SimulationAssumption DEF FundInv, Filled
<1>3. CASE Answer(r) /\ UNCHANGED fundVars /\ req[r].at \notin {"chain", "redis"}
  BY <1>1, <1>3, AnswerFrees, FundAside
<1>4. CASE Fund(r)
  <2>1. UNCHANGED fundVars /\ req[r].kind = "none"
    BY <1>4, ArrivesFree DEF Fund
  <2>2. CASE Answer(r)
    BY <1>1, <2>1, <2>2, AnswerFrees, FundAside
  <2>3. CASE ~Answer(r)
    <3>1. PICK y : y = [kind |-> "fund", at |-> "last"]
      OBVIOUS
    <3>2. req'[r] = y /\ y.at = "last"
      BY <1>4, <2>3, <3>1, Assigned DEF Fund, Become
    <3>. QED
      BY <1>1, <2>1, <3>2, FundAside
  <2>. QED
    BY <2>2, <2>3
<1>5. CASE ReadLast(r) /\ ~Answer(r)
  <2>1. PICK b : Become(r, [kind |-> "fund", at |-> "chain", left |-> Calls, first |-> b])
    BY <1>5 DEF ReadLast, AskChain
  <2>2. PICK y : y = [kind |-> "fund", at |-> "chain", left |-> Calls, first |-> b]
    OBVIOUS
  <2>3. req'[r] = y /\ y.kind = "fund" /\ y.at = "chain"
    BY <2>1, <2>2, Assigned DEF Become
  <2>4. Funding' # {}
    BY <2>3 DEF Funding, InFlight
  <2>5. /\ asked' = asked + 1 /\ UNCHANGED <<usdc, redisLast>>
        /\ slips' = slips + 1 \/ (slips' = slips /\ Funding = {} /\ redisLast # "week")
    <3>1. CASE AskChain(r, redisLast, Funding # {})
      BY <1>5, <3>1 DEF ReadLast, AskChain, LastFunding
    <3>2. CASE AskChain(r, "never", TRUE)
      BY <1>5, <3>2 DEF ReadLast, AskChain
    <3>. QED
      BY <1>5, <3>1, <3>2 DEF ReadLast
  <2>6. asked' \in Nat /\ slips' \in Nat /\ usdc' \in Nat /\ asked' <= slips' + 1
    BY <2>5 DEF FundInv
  <2>. QED
    BY <2>4, <2>6 DEF FundInv
<1>6. CASE ReadLast(r) /\ Answer(r)
  <2>1. req[r].at = "last" /\ UNCHANGED <<usdc, redisLast, memoryLast, strays>>
    BY <1>6 DEF ReadLast, At
  <2>2. UNCHANGED <<asked, slips>>
    <3>1. ASSUME NEW fromRedis, NEW slip, AskChain(r, fromRedis, slip) PROVE UNCHANGED <<asked, slips>>
      <4>1. CASE LastFunding(fromRedis) = "week"
        BY <3>1, <4>1 DEF AskChain
      <4>2. CASE LastFunding(fromRedis) # "week"
        <5>1. PICK y : y = [kind |-> "fund", at |-> "chain", left |-> Calls,
                            first |-> LastFunding(fromRedis) = "never"]
          OBVIOUS
        <5>2. req'[r] = y /\ y.kind = "fund"
          BY <3>1, <4>2, <5>1, Assigned DEF AskChain, Become
        <5>. QED
          BY <1>6, <5>2, AnswerFrees
      <4>. QED
        BY <4>1, <4>2
    <3>. QED
      BY <1>6, <3>1 DEF ReadLast
  <2>. QED
    BY <1>3, <1>6, <2>1, <2>2 DEF fundVars
<1>7. CASE FundWallet(r)
  <2>1. PICK y : Become(r, y) /\ y.kind = "fund" /\ y.at \in {"chain", "redis"}
    BY <1>7, Answered
  <2>2. req'[r] = y
    BY <2>1, Assigned DEF Become
  <2>3. Funding' # {}
    BY <2>1, <2>2 DEF Funding, InFlight
  <2>4. UNCHANGED <<asked, slips, redisLast>> /\ usdc' \in Nat
    BY <1>2, <1>7 DEF FundWallet, FundInv
  <2>. QED
    BY <2>3, <2>4 DEF FundInv
<1>8. CASE FundingFails(r)
  <2>1. slips' = slips + 1 /\ UNCHANGED <<asked, redisLast>> /\ usdc' \in Nat
    BY <1>2, <1>8 DEF FundingFails, FundInv
  <2>. QED
    BY <2>1 DEF FundInv
<1>9. CASE WriteLast(r)
  <2>1. /\ UNCHANGED <<asked, usdc>>
        /\ slips' = slips + 1 \/ (slips' = slips /\ redisLast' = "week")
    BY <1>9 DEF WriteLast
  <2>. QED
    BY <2>1 DEF FundInv
<1>10. CASE WriteFunded(r)
  <2>1. Answer(r) /\ UNCHANGED fundVars /\ req[r].at = "upsert"
    BY <1>10 DEF WriteFunded, At, fundVars
  <2>. QED
    BY <1>3, <2>1
<1>11. CASE ReadBalance(r) \/ WriteBalance(r)
  <2>1. req[r].kind # "fund" /\ UNCHANGED fundVars
    BY <1>11, ArrivesFree DEF ReadBalance, WriteBalance, At
  <2>2. req'[r].kind # "fund"
    <3>1. CASE Answer(r)
      BY <3>1, AnswerFrees
    <3>2. CASE ~Answer(r)
      <4>1. PICK y : y = [kind |-> "balance", at |-> "write", units |-> usdc * RawUnit]
        OBVIOUS
      <4>2. req'[r] = y /\ y.kind = "balance"
        BY <1>11, <3>2, <4>1, Assigned DEF ReadBalance, WriteBalance, Become
      <4>. QED
        BY <4>2
    <3>. QED
      BY <3>1, <3>2
  <2>. QED
    BY <1>1, <2>1, <2>2, FundAside
<1>. QED
  BY <1>4, <1>5, <1>6, <1>7, <1>8, <1>9, <1>10, <1>11 DEF FundSteps

\* A request that fails was not about to tell Redis; a week that passes begins anew; a call
\* nobody waits for changes the chain alone; a restart in the middle of a funding is a slip.
LEMMA FundElsewhere ==
    ASSUME RequestsInv, FundInv,
           \/ \E r \in Requests : RequestFails(r)
           \/ WeekPasses
           \/ StrayCall
           \/ ServerRestart
    PROVE  FundInv'
<1>1. ASSUME NEW r \in Requests, RequestFails(r) PROVE FundInv'
  <2>1. /\ \A q \in Requests \ {r} : req'[q] = req[q]
        /\ req'[r].kind = "none"
    BY <1>1, FailureMoves
  <2>2. UNCHANGED fundVars /\ ~(req[r].kind = "fund" /\ req[r].at \in {"chain", "redis"})
    BY <1>1 DEF RequestFails
  <2>. QED
    BY <2>1, <2>2, FundAside
<1>2. CASE WeekPasses
  <2>1. asked' = 0 /\ slips' = 0 /\ UNCHANGED usdc
    BY <1>2 DEF WeekPasses
  <2>. QED
    BY <2>1 DEF FundInv
<1>3. CASE StrayCall
  <2>1. UNCHANGED <<redisLast, asked, slips, req>>
    BY <1>3 DEF StrayCall, handlerVars
  <2>2. usdc' \in Nat
    BY <1>3, SimulationAssumption DEF StrayCall, Filled, FundInv
  <2>3. Funding' = Funding
    BY <2>1 DEF Funding, InFlight
  <2>. QED
    BY <2>1, <2>2, <2>3 DEF FundInv
<1>4. CASE ServerRestart
  <2>1. /\ UNCHANGED <<usdc, redisLast, asked>>
        /\ slips' = slips + 1 \/ (slips' = slips /\ Funding = {})
    BY <1>4 DEF ServerRestart
  <2>. QED
    BY <2>1 DEF FundInv
<1>. QED
  BY <1>1, <1>2, <1>3, <1>4

----------------------------------------------------------------------------
(* The worker's loops move one at a time, along these edges, or end. *)

Edges == {<<"status", "gather">>, <<"gather", "decide">>, <<"decide", "discard">>, <<"decide", "find">>,
          <<"find", "place">>, <<"find", "funds">>, <<"place", "funds">>, <<"funds", "submit">>,
          <<"submit", "traded">>}

LoopMoved(l) ==
    \/ /\ Take(l) /\ loops[l].at = "idle" /\ loops'[l].at \in {"status", "gather"}
       /\ loops'[l].at = "gather" => loops'[l].job.scope = "main"
    \/ loops[l].at # "idle" /\ loops'[l].at = "idle"
    \/ loops'[l].job = loops[l].job /\ <<loops[l].at, loops'[l].at>> \in Edges

\* An assignment to one loop.
LEMMA LoopAssigned ==
    ASSUME LoopsInv, NEW l \in Loops, NEW y, loops' = [loops EXCEPT ![l] = y], UNCHANGED world,
           "at" \in DOMAIN y, y.at \in LoopPlaces,
           y.at # "idle" => l \in world.loops /\ "job" \in DOMAIN y
    PROVE  LoopsInv' /\ loops'[l] = y /\ \A k \in Loops \ {l} : loops'[k] = loops[k]
<1>1. /\ DOMAIN loops' = Loops
      /\ loops'[l] = y /\ \A k \in Loops \ {l} : loops'[k] = loops[k]
  BY DEF LoopsInv
<1>2. \A k \in Loops : /\ "at" \in DOMAIN loops'[k] /\ loops'[k].at \in LoopPlaces
                       /\ loops'[k].at # "idle" => k \in world.loops /\ "job" \in DOMAIN loops'[k]
  BY <1>1 DEF LoopsInv
<1>. QED
  BY <1>1, <1>2 DEF LoopsInv

\* Each of the worker's steps moves one loop, along an edge or to its end.
LEMMA LoopMoves ==
    ASSUME LoopsInv, NEW l \in Loops, LoopStep(l) \/ PlaceFails(l) \/ JobFails(l)
    PROVE  /\ LoopsInv' /\ UNCHANGED world /\ LoopMoved(l)
           /\ \A k \in Loops \ {l} : loops'[k] = loops[k]
<1>1. UNCHANGED world
  BY DEF LoopStep, Take, CheckSimulation, Gather, Decide, FindPosition, Place, CheckFunds, Submit,
         Refused, Record, PlaceFails, JobFails
<1>2. /\ "at" \in DOMAIN loops[l] /\ loops[l].at \in LoopPlaces
      /\ loops[l].at # "idle" => l \in world.loops /\ "job" \in DOMAIN loops[l]
  BY DEF LoopsInv
<1>3. ASSUME LoopEnds(l), loops[l].at # "idle"
      PROVE  LoopsInv' /\ LoopMoved(l) /\ \A k \in Loops \ {l} : loops'[k] = loops[k]
  <2>1. PICK y : y = Idle
    OBVIOUS
  <2>2. "at" \in DOMAIN y /\ y.at = "idle"
    BY <2>1 DEF Idle
  <2>. QED
    BY <1>1, <1>3, <2>1, <2>2, LoopAssigned DEF LoopEnds, LoopMoved, LoopPlaces
<1>4. ASSUME NEW y, loops' = [loops EXCEPT ![l] = y], "at" \in DOMAIN y, "job" \in DOMAIN y,
             y.job = loops[l].job, <<loops[l].at, y.at>> \in Edges
      PROVE  LoopsInv' /\ LoopMoved(l) /\ \A k \in Loops \ {l} : loops'[k] = loops[k]
  <2>1. y.at \in LoopPlaces /\ loops[l].at # "idle"
    BY <1>4 DEF Edges, LoopPlaces, AtWorkPlaces
  <2>2. LoopsInv' /\ loops'[l] = y /\ \A k \in Loops \ {l} : loops'[k] = loops[k]
    BY <1>1, <1>2, <1>4, <2>1, LoopAssigned
  <2>. QED
    BY <1>4, <2>2 DEF LoopMoved
<1>5. ASSUME NEW at, LoopGoto(l, at), <<loops[l].at, at>> \in Edges
      PROVE  LoopsInv' /\ LoopMoved(l) /\ \A k \in Loops \ {l} : loops'[k] = loops[k]
  <2>1. PICK y : y = [loops[l] EXCEPT !.at = at]
    OBVIOUS
  <2>2. loops[l].at # "idle"
    BY <1>5 DEF Edges
  <2>3. DOMAIN y = DOMAIN loops[l] /\ y.at = at /\ y.job = loops[l].job
    BY <1>2, <2>1, <2>2
  <2>4. loops' = [loops EXCEPT ![l] = y]
    BY <1>5, <2>1 DEF LoopGoto, LoopsInv
  <2>. QED
    BY <1>2, <1>4, <1>5, <2>2, <2>3, <2>4
<1>6. CASE Take(l)
  <2>1. PICK y : y = [at |-> IF Head(waiting).scope = "main" THEN "gather" ELSE "status",
                      job |-> Head(waiting)]
    OBVIOUS
  <2>2. /\ "at" \in DOMAIN y /\ "job" \in DOMAIN y /\ y.at \in {"status", "gather"}
        /\ y.at = "gather" => y.job.scope = "main"
    BY <2>1
  <2>3. loops' = [loops EXCEPT ![l] = y] /\ l \in world.loops /\ loops[l].at = "idle"
    BY <1>6, <2>1 DEF Take, LoopAt
  <2>4. LoopsInv' /\ loops'[l] = y /\ \A k \in Loops \ {l} : loops'[k] = loops[k]
    BY <1>1, <2>2, <2>3, LoopAssigned DEF LoopPlaces
  <2>5. /\ loops'[l].at \in {"status", "gather"}
        /\ loops'[l].at = "gather" => loops'[l].job.scope = "main"
    BY <2>2, <2>4
  <2>. QED
    BY <1>1, <1>6, <2>3, <2>4, <2>5 DEF LoopMoved
<1>7. CASE CheckSimulation(l)
  BY <1>3, <1>5, <1>7 DEF CheckSimulation, LoopAt, Edges
<1>8. CASE Gather(l)
  BY <1>3, <1>5, <1>8 DEF Gather, LoopAt, Edges
<1>9. CASE Decide(l)
  <2>1. PICK d, long : loops' = [loops EXCEPT ![l] =
                 IF d.action = "skip" THEN [at |-> "discard", job |-> loops[l].job]
                 ELSE [at |-> "find", job |-> loops[l].job, decision |-> d, long |-> long]]
    BY <1>9 DEF Decide
  <2>2. PICK y : y = IF d.action = "skip" THEN [at |-> "discard", job |-> loops[l].job]
                     ELSE [at |-> "find", job |-> loops[l].job, decision |-> d, long |-> long]
    OBVIOUS
  <2>3. "at" \in DOMAIN y /\ "job" \in DOMAIN y /\ y.job = loops[l].job /\ y.at \in {"discard", "find"}
    BY <2>2
  <2>. QED
    BY <1>4, <1>9, <2>1, <2>2, <2>3 DEF Decide, LoopAt, Edges
<1>10. CASE FindPosition(l)
  <2>1. PICK found, locked : loops' = [loops EXCEPT ![l] =
                          [at |-> "place", job |-> @.job, long |-> @.long,
                           decision |-> @.decision, found |-> found, locked |-> locked]]
    BY <1>10 DEF FindPosition
  <2>2. PICK y : y = [at |-> "place", job |-> loops[l].job, long |-> loops[l].long,
                      decision |-> loops[l].decision, found |-> found, locked |-> locked]
    OBVIOUS
  <2>3. "at" \in DOMAIN y /\ "job" \in DOMAIN y /\ y.job = loops[l].job /\ y.at = "place"
    BY <2>2
  <2>4. loops' = [loops EXCEPT ![l] = y]
    BY <2>1, <2>2 DEF LoopsInv
  <2>. QED
    BY <1>4, <1>10, <2>3, <2>4 DEF FindPosition, LoopAt, Edges
<1>11. CASE Place(l) \/ PlaceFails(l)
  <2>1. PICK y : y = AtFunds(loops[l])
    OBVIOUS
  <2>2. "at" \in DOMAIN y /\ "job" \in DOMAIN y /\ y.job = loops[l].job /\ y.at = "funds"
    BY <2>1 DEF AtFunds
  <2>3. loops' = [loops EXCEPT ![l] = y] /\ loops[l].at \in {"find", "place"}
    BY <1>11, <2>1 DEF Place, PlaceFails, LoopAt, LoopsInv
  <2>4. <<loops[l].at, y.at>> \in Edges
    BY <2>2, <2>3 DEF Edges
  <2>. QED
    BY <1>1, <1>4, <2>2, <2>3, <2>4
<1>12. CASE CheckFunds(l)
  <2>1. PICK y : y = [at |-> "submit", job |-> loops[l].job]
    OBVIOUS
  <2>2. "at" \in DOMAIN y /\ "job" \in DOMAIN y /\ y.job = loops[l].job /\ y.at = "submit"
    BY <2>1
  <2>3. LoopEnds(l) \/ loops' = [loops EXCEPT ![l] = y]
    BY <1>12, <2>1 DEF CheckFunds
  <2>. QED
    BY <1>3, <1>4, <1>12, <2>2, <2>3 DEF CheckFunds, LoopAt, Edges
<1>13. CASE Submit(l)
  BY <1>5, <1>13 DEF Submit, LoopAt, Edges
<1>14. CASE Refused(l) \/ Record(l) \/ JobFails(l)
  BY <1>3, <1>14 DEF Refused, Record, JobFails, LoopAt
<1>. QED
  BY <1>1, <1>6, <1>7, <1>8, <1>9, <1>10, <1>11, <1>12, <1>13, <1>14 DEF LoopStep

\* A crash ends them all.
LEMMA CrashEndsLoops ==
    ASSUME LoopsInv, WorkerCrash
    PROVE  LoopsInv' /\ UNCHANGED world /\ \A l \in Loops : loops'[l].at = "idle"
<1>1. UNCHANGED world /\ DOMAIN loops' = Loops /\ \A l \in Loops : loops'[l] = Idle
  BY DEF WorkerCrash
<1>2. PICK y : y = Idle
  OBVIOUS
<1>3. y.at = "idle" /\ "at" \in DOMAIN y
  BY <1>2 DEF Idle
<1>4. \A l \in Loops : loops'[l] = y
  BY <1>1, <1>2
<1>. QED
  BY <1>1, <1>3, <1>4 DEF LoopsInv, LoopPlaces

----------------------------------------------------------------------------
(* What becomes of simulations. *)

StatusStep(s) ==
    \/ sims'[s].status = sims[s].status
    \/ sims[s].status = "none" /\ sims'[s].status = "RUNNING"
    \/ sims[s].status \in Stopped \union {"RUNNING"} /\ sims'[s].status \in Stopped \union {"gone"}

\* An assignment to one simulation.
LEMMA SimAssigned ==
    ASSUME sims \in [Sims -> SimType], NEW s \in Sims, NEW y \in SimType, sims' = [sims EXCEPT ![s] = y]
    PROVE  /\ sims' \in [Sims -> SimType] /\ sims'[s] = y
           /\ \A t \in Sims \ {s} : sims'[t] = sims[t]
OBVIOUS

\* A simulation that no longer is alone keeps the rest.
LEMMA AloneAssigned ==
    ASSUME sims \in [Sims -> SimType], NEW s \in Sims, NEW b \in BOOLEAN, sims' = [sims EXCEPT ![s].alone = b]
    PROVE  /\ sims' \in [Sims -> SimType] /\ sims'[s].alone = b
           /\ sims'[s].status = sims[s].status /\ sims'[s].minutes = sims[s].minutes
           /\ sims'[s].max = sims[s].max /\ sims'[s].bought = sims[s].bought
           /\ sims'[s].boughtMax = sims[s].boughtMax
           /\ \A t \in Sims \ {s} : sims'[t] = sims[t]
<1>1. PICK y : y = [sims[s] EXCEPT !.alone = b]
  OBVIOUS
<1>2. sims[s] \in SimType
  OBVIOUS
<1>3. /\ y \in SimType /\ y.alone = b /\ y.status = sims[s].status /\ y.minutes = sims[s].minutes
      /\ y.max = sims[s].max /\ y.bought = sims[s].bought /\ y.boughtMax = sims[s].boughtMax
  BY <1>1, <1>2 DEF SimType
<1>4. sims' = [sims EXCEPT ![s] = y]
  BY <1>1
<1>. QED
  BY <1>3, <1>4, SimAssigned

\* The requests that write simulations: what they write, and where.
LEMMA CreatedSimulation ==
    ASSUME RequestsInv, RowsInv, NEW r \in Requests, CreateSimulation(r)
    PROVE  \E s \in Sims :
              /\ sims[s].status = "none" /\ sims'[s].status = "RUNNING"
              /\ sims' \in [Sims -> SimType]
              /\ \A t \in Sims \ {s} : sims'[t] = sims[t]
              /\ req[r].max \in Nat /\ sims'[s].max = req[r].max /\ sims'[s].boughtMax = req[r].max
              /\ sims'[s].minutes = sims'[s].bought
              /\ \E todo \in Slices(Markets, req[r].max) :
                    req' = [req EXCEPT ![r] = [kind |-> "start", at |-> "row", sim |-> s, todo |-> todo]]
<1>1. PICK x : x = req[r]
  OBVIOUS
<1>2. x.max \in Nat /\ x.minutes \in Nat
  BY <1>1 DEF CreateSimulation, At, RequestsInv, RequestOK, StartOK
<1>3. PICK y : y = [NoSim EXCEPT !.status = "RUNNING", !.minutes = x.minutes, !.max = x.max,
                                 !.bought = x.minutes, !.boughtMax = x.max]
  OBVIOUS
<1>4. PICK s \in Sims :
         /\ sims[s].status = "none" /\ sims' = [sims EXCEPT ![s] = y]
         /\ \E todo \in Slices(Markets, x.max) :
               Become(r, [kind |-> "start", at |-> "row", sim |-> s, todo |-> todo])
  <2>1. PICK fresh : fresh = {t \in Sims : sims[t].status = "none"}
    OBVIOUS
  <2>2. PICK s : s = CHOOSE t \in fresh : TRUE
    OBVIOUS
  <2>3. fresh # {}
    BY <2>1 DEF CreateSimulation
  <2>4. s \in fresh
    BY <2>2, <2>3
  <2>. QED
    BY <1>1, <1>3, <2>1, <2>2, <2>4 DEF CreateSimulation
<1>5. /\ y \in SimType /\ y.status = "RUNNING" /\ y.max = x.max /\ y.boughtMax = x.max
      /\ y.minutes = y.bought
  BY <1>2, <1>3 DEF NoSim, SimType
<1>6. /\ sims' \in [Sims -> SimType] /\ sims'[s] = y
      /\ \A t \in Sims \ {s} : sims'[t] = sims[t]
  BY <1>4, <1>5, SimAssigned DEF RowsInv, OwnersInv
<1>. QED
  BY <1>1, <1>2, <1>4, <1>5, <1>6 DEF Become

\* An extension writes what it read and what it adds to its simulation, if it is there.
LEMMA UpdatedSimulation ==
    ASSUME RequestsInv, RowsInv, NEW r \in Requests, UpdateSimulation(r)
    PROVE  \E s \in Sims :
              /\ req[r].kind = "extend" /\ req[r].sim = s /\ req[r].at = "update"
              /\ req[r].added \in Nat /\ req[r].addMinutes \in Nat /\ req[r].max \in Nat /\ req[r].minutes \in Nat
              /\ sims' \in [Sims -> SimType]
              /\ \A t \in Sims \ {s} : sims'[t] = sims[t]
              /\ ~Exists(s) => sims'[s] = sims[s]
              /\ Exists(s) =>
                    /\ sims'[s].status = sims[s].status /\ sims'[s].alone = sims[s].alone
                    /\ sims'[s].minutes = req[r].minutes + req[r].addMinutes
                    /\ sims'[s].bought = sims[s].bought + req[r].addMinutes
                    /\ sims'[s].max = IF req[r].added > 0 THEN req[r].max + req[r].added ELSE sims[s].max
                    /\ sims'[s].boughtMax = sims[s].boughtMax + req[r].added
<1>1. PICK x, s : x = req[r] /\ s = x.sim
  OBVIOUS
<1>2. /\ s \in Sims /\ x.kind = "extend" /\ x.at = "update"
      /\ x.added \in Nat /\ x.addMinutes \in Nat /\ x.max \in Nat /\ x.minutes \in Nat
  BY <1>1 DEF UpdateSimulation, At, RequestsInv, RequestOK, ExtendOK
<1>3. sims[s] \in SimType /\ sims \in [Sims -> SimType]
  BY <1>2 DEF RowsInv, OwnersInv
<1>4. PICK y : y = Extended(sims[s], x)
  OBVIOUS
<1>5. /\ y \in SimType /\ y.status = sims[s].status /\ y.alone = sims[s].alone
      /\ y.minutes = x.minutes + x.addMinutes
      /\ y.bought = sims[s].bought + x.addMinutes
      /\ y.max = IF x.added > 0 THEN x.max + x.added ELSE sims[s].max
      /\ y.boughtMax = sims[s].boughtMax + x.added
  <2>1. PICK z : z = sims[s]
    OBVIOUS
  <2>2. PICK a, b, c, d : /\ a = x.minutes + x.addMinutes
                          /\ b = IF x.added > 0 THEN x.max + x.added ELSE z.max
                          /\ c = z.bought + x.addMinutes
                          /\ d = z.boughtMax + x.added
    OBVIOUS
  <2>3. y = [z EXCEPT !.minutes = a, !.max = b, !.bought = c, !.boughtMax = d]
    BY <1>4, <2>1, <2>2 DEF Extended
  <2>4. z \in SimType /\ a \in Nat /\ b \in Nat /\ c \in Nat /\ d \in Nat
    BY <1>2, <1>3, <2>1, <2>2 DEF SimType
  <2>5. /\ y \in SimType /\ y.status = z.status /\ y.alone = z.alone
        /\ y.minutes = a /\ y.max = b /\ y.bought = c /\ y.boughtMax = d
    BY <2>3, <2>4 DEF SimType
  <2>. QED
    BY <2>1, <2>2, <2>5
<1>6. sims' = IF Exists(s) THEN [sims EXCEPT ![s] = y] ELSE sims
  BY <1>1, <1>3, <1>4 DEF UpdateSimulation
<1>7. CASE Exists(s)
  <2>1. sims' = [sims EXCEPT ![s] = y]
    BY <1>6, <1>7
  <2>2. sims' \in [Sims -> SimType] /\ sims'[s] = y /\ \A t \in Sims \ {s} : sims'[t] = sims[t]
    BY <1>2, <1>3, <1>5, <2>1, SimAssigned
  <2>. QED
    BY <1>1, <1>2, <1>5, <1>7, <2>2
<1>8. CASE ~Exists(s)
  BY <1>1, <1>2, <1>3, <1>6, <1>8
<1>. QED
  BY <1>7, <1>8

\* A stop writes the status only; a deletion takes the simulation away.
LEMMA EndedSimulation ==
    ASSUME RequestsInv, RowsInv, NEW r \in Requests, WriteStop(r) \/ WriteDelete(r)
    PROVE  \E s \in Sims :
              /\ req[r].sim = s /\ sims' \in [Sims -> SimType]
              /\ \A t \in Sims \ {s} : sims'[t] = sims[t]
              /\ ~Exists(s) => sims'[s] = sims[s]
              /\ Exists(s) /\ WriteDelete(r) => sims'[s].status = "gone"
              /\ Exists(s) /\ WriteStop(r) =>
                    /\ sims'[s].status \in Stopped
                    /\ sims'[s].alone = sims[s].alone /\ sims'[s].minutes = sims[s].minutes
                    /\ sims'[s].max = sims[s].max /\ sims'[s].bought = sims[s].bought
                    /\ sims'[s].boughtMax = sims[s].boughtMax
<1>1. PICK x, s : x = req[r] /\ s = x.sim
  OBVIOUS
<1>2. s \in Sims /\ (WriteStop(r) => x.status \in Stopped)
  BY <1>1 DEF WriteStop, WriteDelete, At, RequestsInv, RequestOK
<1>3. sims[s] \in SimType /\ sims \in [Sims -> SimType]
  BY <1>2 DEF RowsInv, OwnersInv
<1>4. CASE WriteStop(r) /\ Exists(s)
  <2>1. PICK y : y = [sims[s] EXCEPT !.status = x.status]
    OBVIOUS
  <2>2. /\ y \in SimType /\ y.status \in Stopped
        /\ y.alone = sims[s].alone /\ y.minutes = sims[s].minutes
        /\ y.max = sims[s].max /\ y.bought = sims[s].bought
        /\ y.boughtMax = sims[s].boughtMax
    BY <1>2, <1>3, <1>4, <2>1 DEF SimType
  <2>3. sims' = [sims EXCEPT ![s] = y]
    BY <1>1, <1>3, <1>4, <2>1 DEF WriteStop
  <2>4. sims' \in [Sims -> SimType] /\ sims'[s] = y /\ \A t \in Sims \ {s} : sims'[t] = sims[t]
    BY <1>2, <1>3, <2>2, <2>3, SimAssigned
  <2>5. ~WriteDelete(r)
    BY <1>4 DEF WriteStop, WriteDelete, At
  <2>. QED
    BY <1>1, <1>2, <1>4, <2>2, <2>4, <2>5
<1>5. CASE WriteDelete(r) /\ Exists(s)
  <2>1. PICK y : y = [NoSim EXCEPT !.status = "gone"]
    OBVIOUS
  <2>2. y \in SimType /\ y.status = "gone"
    BY <2>1 DEF SimType, NoSim
  <2>3. sims' = [sims EXCEPT ![s] = y]
    BY <1>1, <1>5, <2>1 DEF WriteDelete
  <2>4. sims' \in [Sims -> SimType] /\ sims'[s] = y /\ \A t \in Sims \ {s} : sims'[t] = sims[t]
    BY <1>2, <1>3, <2>2, <2>3, SimAssigned
  <2>5. ~WriteStop(r)
    BY <1>5 DEF WriteStop, WriteDelete, At
  <2>. QED
    BY <1>1, <1>2, <1>5, <2>2, <2>4, <2>5
<1>6. CASE ~Exists(s)
  <2>1. UNCHANGED sims
    BY <1>1, <1>6 DEF WriteStop, WriteDelete
  <2>. QED
    BY <1>1, <1>2, <1>3, <1>6, <2>1
<1>. QED
  BY <1>4, <1>5, <1>6

\* Whatever a request does, a simulation keeps its status, is created, is stopped or
\* goes.
SimWriters(r) ==
    CreateSimulation(r) \/ CreateRow(r) \/ Extend(r) \/ UpdateSimulation(r) \/ WriteStop(r) \/ WriteDelete(r)

\* Each of them takes a simulation one such step.
LEMMA Statuses ==
    ASSUME RequestsInv, RowsInv, NEW r \in Requests, SimWriters(r)
    PROVE  sims' \in [Sims -> SimType] /\ \A s \in Sims : StatusStep(s)
<1>1. CASE CreateSimulation(r)
  BY <1>1, CreatedSimulation DEF StatusStep
<1>2. CASE CreateRow(r)
  <2>1. req[r].sim \in Sims
    BY <1>2 DEF CreateRow, RequestsInv, RequestOK, StartOK, ExtendOK, EnqueueOK, TriggerAllOK
  <2>2. UNCHANGED sims \/ sims' = [sims EXCEPT ![req[r].sim].alone = FALSE]
    BY <1>2 DEF CreateRow
  <2>. QED
    BY <2>1, <2>2, AloneAssigned DEF RowsInv, OwnersInv, StatusStep
<1>3. CASE Extend(r)
  <2>1. PICK s \in Sims : sims' = [sims EXCEPT ![s].alone =
                                      @ /\ \A q \in InFlight("extend") : req[q].sim # s]
    BY <1>3 DEF Extend
  <2>2. PICK b \in BOOLEAN : b = (sims[s].alone /\ \A q \in InFlight("extend") : req[q].sim # s)
    OBVIOUS
  <2>3. sims' = [sims EXCEPT ![s].alone = b]
    BY <2>1, <2>2 DEF RowsInv, OwnersInv
  <2>. QED
    BY <2>3, AloneAssigned DEF RowsInv, OwnersInv, StatusStep
<1>4. CASE UpdateSimulation(r)
  BY <1>4, UpdatedSimulation DEF StatusStep
<1>5. CASE WriteStop(r) \/ WriteDelete(r)
  <2>1. PICK s \in Sims :
              /\ sims' \in [Sims -> SimType]
              /\ \A t \in Sims \ {s} : sims'[t] = sims[t]
              /\ ~Exists(s) => sims'[s] = sims[s]
              /\ Exists(s) => sims'[s].status \in Stopped \union {"gone"}
    BY <1>5, EndedSimulation
  <2>2. Exists(s) => sims[s].status \in Stopped \union {"RUNNING"}
    BY SetsAssumption DEF Exists, RowsInv, OwnersInv, SimType
  <2>. QED
    BY <2>1, <2>2 DEF StatusStep
<1>. QED
  BY <1>1, <1>2, <1>3, <1>4, <1>5 DEF SimWriters

----------------------------------------------------------------------------
(* What a stopped simulation still gets. *)

\* Loops of the worker are counted.
LEMMA LoopsCounted ==
    ASSUME LoopsInv, NEW s
    PROVE  /\ IsFiniteSet(world.loops) /\ Cardinality(world.loops) \in Nat
           /\ IsFiniteSet(Past(s)) /\ Cardinality(Past(s)) \in Nat
           /\ Cardinality(Past(s)) <= Cardinality(world.loops)
<1>1. IsFiniteSet(world.loops)
  BY SetsAssumption, FS_Subset DEF LoopsInv
<1>2. Past(s) \subseteq world.loops
  BY DEF Past
<1>. QED
  BY <1>1, <1>2, FS_Subset, FS_CardinalityType

\* Loops that leave, and simulations that are created, stopped or gone.
LEMMA LateFrame ==
    ASSUME LoopsInv, LateInv, UNCHANGED <<late, world>>,
           \A s \in Sims : StatusStep(s),
           \A s \in Sims : sims[s].status \in Stopped => Past(s)' \subseteq Past(s),
           \/ UNCHANGED sims
           \/ \A s \in Sims : Past(s)' = Past(s)
    PROVE  LateInv'
<1>1. SUFFICES ASSUME NEW s \in Sims PROVE LateOK(s)'
  BY DEF LateInv
<1>2. LateOK(s) /\ StatusStep(s)
  BY DEF LateInv
<1>3. PICK n, p : n = Cardinality(world.loops) /\ p = Cardinality(Past(s))
  OBVIOUS
<1>4. n \in Nat /\ p \in Nat /\ p <= n /\ IsFiniteSet(Past(s))
  BY <1>3, LoopsCounted
<1>5. late[s] \in Nat /\ late[s] <= n /\ late'[s] = late[s] /\ Cardinality(world'.loops) = n
  BY <1>2, <1>3 DEF LateOK
<1>6. sims'[s].status \in {"none", "RUNNING"} => late'[s] = 0
  BY <1>2 DEF LateOK, StatusStep, Stopped
<1>7. ASSUME sims'[s].status \in Stopped PROVE late'[s] + Cardinality(Past(s)') <= n
  <2>1. CASE sims[s].status \in Stopped
    <3>1. PICK P : P = Past(s)'
      OBVIOUS
    <3>2. Cardinality(P) \in Nat /\ Cardinality(P) <= p
      BY <1>3, <1>4, <2>1, <3>1, FS_Subset, FS_CardinalityType
    <3>3. late[s] + p <= n
      BY <1>2, <1>3, <2>1 DEF LateOK
    <3>. QED
      BY <1>4, <1>5, <3>1, <3>2, <3>3
  <2>2. CASE sims[s].status \notin Stopped
    <3>1. sims[s].status = "RUNNING" /\ late[s] = 0 /\ sims'[s].status # sims[s].status
      BY <1>2, <1>7, <2>2 DEF StatusStep, Stopped, LateOK
    <3>2. Past(s)' = Past(s)
      BY <3>1
    <3>. QED
      BY <1>3, <1>4, <1>5, <3>1, <3>2
  <2>. QED
    BY <2>1, <2>2
<1>. QED
  BY <1>5, <1>6, <1>7 DEF LateOK

\* No loop passes the check of a simulation that has been stopped, and one that has an
\* order accepted is past it no longer.
LEMMA LateWorker ==
    ASSUME RowsInv, LoopsInv, LateInv, NEW l \in Loops, LoopStep(l) \/ PlaceFails(l) \/ JobFails(l)
    PROVE  LateInv'
<1>1. /\ LoopsInv' /\ UNCHANGED world /\ LoopMoved(l)
      /\ \A k \in Loops \ {l} : loops'[k] = loops[k]
  BY LoopMoves
<1>2. UNCHANGED sims
  BY DEF LoopStep, Take, CheckSimulation, Gather, Decide, FindPosition, Place, CheckFunds, Submit,
         Refused, Record, PlaceFails, JobFails
<1>3. ASSUME NEW s \in Sims, sims[s].status \in Stopped, NEW k \in Past(s)'
      PROVE  k \in Past(s)
  <2>1. k \in world.loops /\ k \in Loops
    BY <1>1 DEF Past, LoopsInv
  <2>2. loops'[k].at \in {"gather", "decide", "find", "place", "funds", "submit"} /\ loops'[k].job.scope = s
    BY DEF Past
  <2>3. CASE k # l
    BY <1>1, <2>1, <2>2, <2>3 DEF Past
  <2>4. CASE k = l
    <3>1. s # "main"
      BY SetsAssumption
    <3>2. loops'[l].job = loops[l].job /\ <<loops[l].at, loops'[l].at>> \in Edges
      BY <1>1, <2>2, <2>4, <3>1 DEF LoopMoved
    <3>3. CASE loops[l].at = "status"
      <4>1. CheckSimulation(l) \/ JobFails(l)
        BY <3>3 DEF LoopStep, Take, CheckSimulation, Gather, Decide, FindPosition, Place, CheckFunds, Submit,
                    Refused, Record, PlaceFails, LoopAt
      <4>2. ~LoopEnds(l)
        <5>1. Idle.at = "idle"
          BY DEF Idle
        <5>. QED
          BY <2>2, <2>4, <5>1 DEF LoopEnds, LoopsInv
      <4>3. ~SkipsStatus(sims[loops[l].job.scope].status)
        BY <4>1, <4>2 DEF CheckSimulation, JobFails
      <4>. QED
        BY <1>3, <2>2, <2>4, <3>2, <4>3 DEF SkipsStatus
    <3>4. CASE loops[l].at # "status"
      BY <2>1, <2>2, <2>4, <3>2, <3>4 DEF Past, Edges
    <3>. QED
      BY <3>3, <3>4
  <2>. QED
    BY <2>3, <2>4
<1>4. \A s \in Sims : sims[s].status \in Stopped => Past(s)' \subseteq Past(s)
  BY <1>3
<1>5. \A s \in Sims : StatusStep(s)
  BY <1>2 DEF StatusStep
<1>6. CASE UNCHANGED late
  BY <1>1, <1>2, <1>4, <1>5, <1>6, LateFrame
<1>7. CASE late' # late
  <2>1. PICK s : s = loops[l].job.scope
    OBVIOUS
  <2>2. Submit(l)
    BY <1>7 DEF LoopStep, Take, CheckSimulation, Gather, Decide, FindPosition, Place, CheckFunds,
                Refused, Record, PlaceFails, JobFails
  <2>3. /\ s \in Sims /\ sims[s].status \in Stopped /\ late' = [late EXCEPT ![s] = @ + 1]
        /\ loops[l].at = "submit" /\ LoopGoto(l, "traded")
    BY <1>7, <2>1, <2>2 DEF Submit, LoopAt
  <2>4. loops'[l].at = "traded" /\ l \in world.loops
    BY <2>3 DEF LoopGoto, LoopsInv
  <2>5. l \in Past(s) /\ l \notin Past(s)'
    BY <2>1, <2>3, <2>4 DEF Past
  <2>6. ASSUME NEW t \in Sims PROVE LateOK(t)'
    <3>1. LateOK(t) /\ (t # s => late'[t] = late[t]) /\ late[t] \in Nat
      BY <2>3 DEF LateInv, LateOK
    <3>2. PICK P, Q, n : P = Past(t) /\ Q = Past(t)' /\ n = Cardinality(world.loops)
      OBVIOUS
    <3>3. IsFiniteSet(P) /\ Cardinality(P) \in Nat /\ n \in Nat
      BY <3>2, LoopsCounted
    <3>4. CASE t = s
      <4>1. Q \subseteq P \ {l} /\ l \in P
        BY <1>4, <2>3, <2>5, <3>2, <3>4
      <4>2. Cardinality(P \ {l}) = Cardinality(P) - 1 /\ IsFiniteSet(P \ {l})
        BY <3>3, <4>1, FS_RemoveElement
      <4>3. Cardinality(Q) <= Cardinality(P) - 1 /\ Cardinality(Q) \in Nat
        BY <4>1, <4>2, FS_Subset, FS_CardinalityType
      <4>4. late[s] + Cardinality(P) <= n /\ late'[s] = late[s] + 1
        BY <2>3, <3>1, <3>2, <3>4 DEF LateInv, LateOK
      <4>5. late'[s] + Cardinality(Q) <= n /\ late'[s] \in Nat /\ late'[s] <= n
        BY <3>1, <3>3, <3>4, <4>3, <4>4
      <4>6. sims'[s].status \notin {"none", "RUNNING"}
        BY <1>2, <2>3 DEF Stopped
      <4>. QED
        BY <1>1, <3>2, <3>4, <4>5, <4>6 DEF LateOK
    <3>5. CASE t # s
      <4>1. sims[t].status \in Stopped => Cardinality(Q) <= Cardinality(P) /\ Cardinality(Q) \in Nat
        BY <1>4, <3>2, <3>3, FS_Subset, FS_CardinalityType
      <4>. QED
        BY <1>1, <1>2, <3>1, <3>2, <3>3, <3>5, <4>1 DEF LateOK
    <3>. QED
      BY <3>4, <3>5
  <2>. QED
    BY <2>3, <2>6 DEF LateInv
<1>. QED
  BY <1>6, <1>7

\* A crash ends what was past the check.
LEMMA LateCrash ==
    ASSUME LoopsInv, LateInv, WorkerCrash
    PROVE  LateInv'
<1>1. \A l \in Loops : loops'[l].at = "idle"
  BY CrashEndsLoops
<1>2. UNCHANGED <<late, world, sims>>
  BY DEF WorkerCrash
<1>3. \A s \in Sims : Past(s)' = {}
  BY <1>1, <1>2 DEF Past, LoopsInv
<1>4. \A s \in Sims : StatusStep(s)
  BY <1>2 DEF StatusStep
<1>. QED
  BY <1>2, <1>3, <1>4, LateFrame

\* Requests move no loop, so what stopped simulations got stays within bounds.
LEMMA LateRequests ==
    ASSUME LoopsInv, LateInv, UNCHANGED <<loops, late, world>>, \A s \in Sims : StatusStep(s)
    PROVE  LateInv'
<1>1. \A s \in Sims : Past(s)' = Past(s)
  BY DEF Past
<1>. QED
  BY <1>1, LateFrame

----------------------------------------------------------------------------
(* The rows, and whose they are. *)

\* Rows written where they stand: each keeps its number, market, simulation and maker.
Mapped(f) ==
    /\ f \in [rows -> RowType] /\ rows' = {f[row] : row \in rows} /\ UNCHANGED made
    /\ \A row \in rows : /\ f[row].id = row.id /\ f[row].market = row.market
                         /\ f[row].scope = row.scope /\ f[row].user = row.user

\* Rows written where they stand are the same rows of the same simulations.
LEMMA MappedRows ==
    ASSUME TableInv, NEW f, Mapped(f)
    PROVE  /\ TableInv'
           /\ \A x \in rows' : \E row \in rows : x = f[row] /\ row.scope = x.scope
           /\ \A s : MineOf(s)' = MineOf(s)
<1>1. /\ rows' \subseteq RowType /\ made' \in Nat
      /\ \A x \in rows' : x.id \in 1..made'
  BY DEF TableInv, Mapped
<1>2. ASSUME NEW x \in rows', NEW y \in rows', x.id = y.id PROVE x = y
  BY <1>2 DEF TableInv, Mapped
<1>3. ASSUME NEW x \in rows', NEW y \in rows', x.scope # "main", x.scope = y.scope, x.market = y.market
      PROVE  x = y
  BY <1>3 DEF TableInv, Mapped
<1>4. ASSUME NEW s PROVE MineOf(s)' = MineOf(s)
  BY DEF Mapped, MineOf
<1>5. \A x \in rows' : \E row \in rows : x = f[row] /\ row.scope = x.scope
  BY DEF Mapped
<1>. QED
  BY <1>1, <1>2, <1>3, <1>4, <1>5 DEF TableInv

\* Rows deleted.
LEMMA FewerRows ==
    ASSUME TableInv, rows' \subseteq rows, UNCHANGED made
    PROVE  TableInv'
BY DEF TableInv

\* A row created where there is none of that market and simulation, or for main.
LEMMA CreatedRow ==
    ASSUME TableInv, NEW m \in Markets, NEW s \in Scopes, NEW c \in Chains, NEW user \in BOOLEAN,
           ~Duplicate(m, s), Create(m, s, c, user)
    PROVE  /\ TableInv'
           /\ \E new \in RowType : /\ rows' = rows \union {new} /\ new.scope = s /\ new.market = m
                                   /\ new.user = user /\ new.due /\ new.orders = 0
                                   /\ new.alone = (AtWork(Loops, m, s) = {})
                                   /\ new \notin rows
<1>1. PICK new : new = NewRow(m, s, c, user)
  OBVIOUS
<1>2. PICK b \in BOOLEAN : b = (AtWork(Loops, m, s) = {})
  OBVIOUS
<1>3. new = [id |-> made + 1, market |-> m, scope |-> s, chain |-> c, status |-> "PENDING",
             due |-> TRUE, orders |-> 0, alone |-> b, seen |-> FALSE, user |-> user]
  BY <1>1, <1>2 DEF NewRow
<1>4. /\ new \in RowType /\ new.id = made + 1 /\ new.scope = s /\ new.market = m
      /\ new.user = user /\ new.due = TRUE /\ new.orders = 0 /\ new.alone = b
  BY <1>3 DEF RowType, TableInv
<1>5. rows' = rows \union {new} /\ made' = made + 1
  BY <1>1 DEF Create
<1>6. \A row \in rows : row.id # made + 1 /\ row.id \in 1..(made + 1)
  BY DEF TableInv
<1>7. s # "main" => \A row \in rows : ~(row.scope = s /\ row.market = m)
  BY DEF Duplicate, RowsOf
<1>8. \A x, y \in rows' : x.id = y.id => x = y
  BY <1>4, <1>5, <1>6 DEF TableInv
<1>9. \A x, y \in rows' : x.scope # "main" /\ x.scope = y.scope /\ x.market = y.market => x = y
  BY <1>4, <1>5, <1>7 DEF TableInv
<1>10. TableInv'
  BY <1>4, <1>5, <1>6, <1>8, <1>9 DEF TableInv
<1>. QED
  BY <1>2, <1>4, <1>5, <1>6, <1>10

\* Rows that have owners still have them when no simulation is written.
LEMMA OwnedSame ==
    ASSUME OwnersInv, UNCHANGED sims, \A x \in rows' : \E row \in rows : row.scope = x.scope
    PROVE  OwnersInv'
BY DEF OwnersInv, Exists

----------------------------------------------------------------------------
(* One order for each time a row falls due. *)

\* What is to show of a row that is written as y.
DueAfter(row, y) ==
    /\ y.orders <= 1
    /\ y.due /\ (\A l \in Having(row)' : loops'[l].at # "traded") => y.orders = 0
    /\ \A l \in Having(row)' : y.due /\ \A k \in Having(row)' : k = l

\* Rows written where they stand keep to one order if each that was in order is afterwards.
LEMMA DueMapped ==
    ASSUME TableInv, DueInv, NEW f, Mapped(f),
           \A row \in rows : f[row].alone => row.alone,
           \A row \in rows : Only(row) /\ DueOK(row) /\ f[row].alone => DueAfter(row, f[row])
    PROVE  DueInv'
<1>1. SUFFICES ASSUME NEW row \in rows, NEW y, y = f[row], Only(y)' PROVE DueOK(y)'
  BY DEF DueInv, Mapped
<1>2. y.id = row.id /\ y.market = row.market /\ y.scope = row.scope /\ y.alone
  BY <1>1 DEF Mapped, Only
<1>3. ASSUME NEW x \in RowsOf(row.market, row.scope) PROVE x = row
  <2>1. x \in rows /\ f[x] \in rows' /\ f[x].market = y.market /\ f[x].scope = y.scope /\ f[x].id = x.id
    BY <1>2 DEF RowsOf, Mapped
  <2>2. f[x] = y
    BY <1>1, <2>1 DEF Only, RowsOf
  <2>. QED
    BY <1>2, <2>1, <2>2 DEF TableInv
<1>4. Only(row) /\ DueOK(row)
  <2>1. RowsOf(row.market, row.scope) = {row}
    BY <1>3 DEF RowsOf
  <2>. QED
    BY <1>1, <1>2, <2>1 DEF Only, DueInv
<1>5. DueAfter(row, y)
  BY <1>1, <1>2, <1>4
<1>6. Having(y)' = Having(row)'
  BY <1>2 DEF Having, AtWork
<1>. QED
  BY <1>5, <1>6 DEF DueAfter, DueOK

\* Rows written with the same orders, due as before, while no loop moves.
LEMMA DueKept ==
    ASSUME TableInv, DueInv, UNCHANGED loops, NEW f, Mapped(f),
           \A row \in rows : f[row].alone = row.alone /\ f[row].due = row.due /\ f[row].orders = row.orders
    PROVE  DueInv'
<1>1. ASSUME NEW row \in rows, DueOK(row) PROVE DueAfter(row, f[row])
  <2>1. Having(row)' = Having(row)
    BY DEF Having, AtWork
  <2>. QED
    BY <1>1, <2>1 DEF DueOK, DueAfter
<1>. QED
  BY <1>1, DueMapped

\* All the rows of a market and simulation deleted.
LEMMA DueFewer ==
    ASSUME DueInv, UNCHANGED loops, rows' \subseteq rows,
           \A row \in rows' : RowsOf(row.market, row.scope) \subseteq rows'
    PROVE  DueInv'
<1>1. SUFFICES ASSUME NEW row \in rows', Only(row)' PROVE DueOK(row)'
  BY DEF DueInv
<1>2. RowsOf(row.market, row.scope)' = RowsOf(row.market, row.scope)
  BY DEF RowsOf
<1>3. Only(row)
  BY <1>1, <1>2 DEF Only
<1>4. Having(row)' = Having(row)
  BY DEF Having, AtWork
<1>. QED
  BY <1>3, <1>4 DEF DueInv, DueOK

\* A row created.
LEMMA DueCreated ==
    ASSUME DueInv, UNCHANGED loops, NEW new, rows' = rows \union {new}, new \notin rows,
           new.due, new.orders = 0, new.alone = (AtWork(Loops, new.market, new.scope) = {})
    PROVE  DueInv'
<1>1. SUFFICES ASSUME NEW row \in rows', Only(row)' PROVE DueOK(row)'
  BY DEF DueInv
<1>2. Having(row)' = Having(row)
  BY DEF Having, AtWork
<1>3. CASE row = new
  <2>1. Having(row) = {}
    BY <1>1, <1>3 DEF Only, Having
  <2>. QED
    BY <1>2, <1>3, <2>1 DEF DueOK
<1>4. CASE row # new
  <2>1. RowsOf(row.market, row.scope) \subseteq RowsOf(row.market, row.scope)'
    BY DEF RowsOf
  <2>2. row \in rows /\ Only(row)
    BY <1>1, <1>4, <2>1 DEF Only, RowsOf
  <2>. QED
    BY <1>2, <2>2 DEF DueInv, DueOK
<1>. QED
  BY <1>3, <1>4

----------------------------------------------------------------------------
(* The requests that write rows. *)

\* A row created is in order, and counted if no user made it.
LEMMA Creating ==
    ASSUME RowsInv, DueInv, UNCHANGED <<loops, sims>>,
           NEW m \in Markets, NEW s \in Scopes, NEW c \in Chains, NEW user \in BOOLEAN,
           ~Duplicate(m, s), Exists(s), Create(m, s, c, user)
    PROVE  /\ RowsInv' /\ DueInv'
           /\ \A t : MineOf(t)' = IF user \/ t # s THEN MineOf(t) ELSE MineOf(t) \union {m}
<1>1. TableInv
  BY DEF RowsInv
<1>2. PICK new \in RowType : /\ rows' = rows \union {new} /\ new.scope = s /\ new.market = m
                             /\ new.user = user /\ new.due /\ new.orders = 0
                             /\ new.alone = (AtWork(Loops, m, s) = {})
                             /\ new \notin rows
  BY <1>1, CreatedRow
<1>3. TableInv'
  BY <1>1, CreatedRow
<1>4. OwnersInv'
  BY <1>2 DEF RowsInv, OwnersInv, Exists
<1>5. DueInv'
  BY <1>2, DueCreated
<1>6. ASSUME NEW t PROVE MineOf(t)' = IF user \/ t # s THEN MineOf(t) ELSE MineOf(t) \union {m}
  BY <1>2 DEF MineOf
<1>. QED
  BY <1>3, <1>4, <1>5, <1>6 DEF RowsInv

\* The row of a market is moved to a chain, or made.
LEMMA WroteRow ==
    ASSUME RequestsInv, RowsInv, DueInv, NEW r \in Requests, WriteRow(r)
    PROVE  RowsInv' /\ DueInv' /\ \A t : MineOf(t)' = MineOf(t)
<1>1. req[r].job \in JobType
  BY DEF RequestsInv, RequestOK, StartOK, ExtendOK, EnqueueOK, TriggerAllOK, WriteRow
<1>2. PICK job : job = req[r].job
  OBVIOUS
<1>3. job.market \in Markets /\ job.scope \in Scopes /\ job.chain \in Chains
  BY <1>1, <1>2 DEF JobType
<1>4. UNCHANGED <<loops, sims>>
  BY DEF WriteRow, enqueueSame
<1>5. PICK found : found = {row \in rows : row.id = req[r].found}
  OBVIOUS
<1>6. CASE rows' = (rows \ found) \union {[row EXCEPT !.chain = job.chain] : row \in found} /\ UNCHANGED made
  <2>. DEFINE f == [row \in rows |-> IF row \in found THEN [row EXCEPT !.chain = job.chain] ELSE row]
  <2>1. ASSUME NEW row \in rows
        PROVE  /\ f[row] \in RowType /\ f[row].id = row.id /\ f[row].market = row.market
               /\ f[row].scope = row.scope /\ f[row].user = row.user
               /\ f[row].alone = row.alone /\ f[row].due = row.due /\ f[row].orders = row.orders
    <3>1. row \in RowType
      BY DEF RowsInv, TableInv
    <3>. QED
      BY <1>3, <3>1 DEF RowType
  <2>2. rows' = {f[row] : row \in rows}
    BY <1>5, <1>6
  <2>3. f \in [rows -> RowType]
    BY <2>1
  <2>. HIDE DEF f
  <2>4. Mapped(f)
    BY <1>6, <2>1, <2>2, <2>3 DEF Mapped
  <2>5. TableInv' /\ (\A x \in rows' : \E row \in rows : row.scope = x.scope) /\ \A t : MineOf(t)' = MineOf(t)
    BY <2>4, MappedRows DEF RowsInv
  <2>6. OwnersInv'
    BY <1>4, <2>5, OwnedSame DEF RowsInv
  <2>7. DueInv'
    BY <1>4, <2>1, <2>4, DueKept DEF RowsInv
  <2>. QED
    BY <2>5, <2>6, <2>7 DEF RowsInv
<1>7. CASE /\ Exists(job.scope) /\ ~Duplicate(job.market, job.scope)
           /\ Create(job.market, job.scope, job.chain, TRUE)
  BY <1>3, <1>4, <1>7, Creating
<1>8. CASE UNCHANGED <<rows, made>>
  <2>1. RowsInv' /\ DueInv'
    BY <1>4, <1>8 DEF RowsInv, TableInv, OwnersInv, Exists, DueInv, Only, DueOK, Having, AtWork, RowsOf
  <2>2. \A t : MineOf(t)' = MineOf(t)
    BY <1>8 DEF MineOf
  <2>. QED
    BY <2>1, <2>2
<1>. QED
  BY <1>2, <1>5, <1>6, <1>7, <1>8 DEF WriteRow

\* Rows deleted, and nothing else of them or of the simulations changed.
LEMMA Fewer ==
    ASSUME RowsInv, DueInv, UNCHANGED <<loops, made>>, NEW m, NEW s,
           \/ rows' = rows \ RowsOf(m, s) /\ UNCHANGED sims
           \/ rows' = Cascaded(s) /\ sims' \in [Sims -> SimType] /\ s \in Sims
              /\ \A t \in Sims \ {s} : sims'[t] = sims[t]
    PROVE  RowsInv' /\ DueInv' /\ \A t : MineOf(t)' \subseteq MineOf(t)
<1>1. rows' \subseteq rows
  BY DEF Cascaded
<1>2. \A row \in rows' : RowsOf(row.market, row.scope) \subseteq rows'
  BY DEF Cascaded, RowsOf
<1>3. DueInv'
  BY <1>1, <1>2, DueFewer
<1>4. TableInv'
  BY <1>1, FewerRows DEF RowsInv
<1>5. OwnersInv'
  <2>1. CASE UNCHANGED sims
    BY <1>1, <2>1, OwnedSame DEF RowsInv
  <2>2. CASE rows' = Cascaded(s) /\ sims' \in [Sims -> SimType] /\ \A t \in Sims \ {s} : sims'[t] = sims[t]
    <3>1. ASSUME NEW row \in rows' PROVE Exists(row.scope)'
      <4>1. row \in rows /\ row.scope # s /\ row.scope \in Scopes
        BY <2>2, <3>1 DEF Cascaded, RowsInv, TableInv, RowType
      <4>. QED
        BY <2>2, <4>1 DEF RowsInv, OwnersInv, Exists, Scopes
    <3>. QED
      BY <2>2, <3>1 DEF OwnersInv
  <2>. QED
    BY <2>1, <2>2
<1>6. \A t : MineOf(t)' \subseteq MineOf(t)
  BY <1>1 DEF MineOf
<1>. QED
  BY <1>3, <1>4, <1>5, <1>6 DEF RowsInv

\* DELETE /api/agent/enqueue takes rows away.
LEMMA UnenqueuedRows ==
    ASSUME RowsInv, DueInv, NEW r, Unenqueue(r)
    PROVE  RowsInv' /\ DueInv' /\ \A t : MineOf(t)' \subseteq MineOf(t)
<1>1. PICK m \in Markets, s \in Scopes : rows' = rows \ RowsOf(m, s)
  BY DEF Unenqueue
<1>2. UNCHANGED <<loops, made, sims>>
  BY DEF Unenqueue, enqueueSame
<1>. QED
  BY <1>1, <1>2, Fewer

\* Rows that stay, while simulations are written but do not go.
LEMMA SameRows ==
    ASSUME RowsInv, DueInv, UNCHANGED <<rows, made, loops>>, sims' \in [Sims -> SimType],
           \A s \in Sims : StatusStep(s) /\ (sims'[s].status = "gone" => sims[s].status = "gone")
    PROVE  RowsInv' /\ DueInv' /\ \A t : MineOf(t)' = MineOf(t)
<1>1. TableInv' /\ DueInv'
  BY DEF RowsInv, TableInv, DueInv, Only, DueOK, Having, AtWork, RowsOf
<1>2. \A t : MineOf(t)' = MineOf(t)
  BY DEF MineOf
<1>3. OwnersInv'
  <2>1. ASSUME NEW row \in rows' PROVE Exists(row.scope)'
    <3>1. Exists(row.scope) /\ row.scope \in Scopes
      BY <2>1 DEF RowsInv, OwnersInv, TableInv, RowType
    <3>2. CASE row.scope = "main"
      BY <3>2 DEF Exists
    <3>3. CASE row.scope # "main"
      <4>1. row.scope \in Sims /\ sims[row.scope].status \notin {"none", "gone"}
        BY <3>1, <3>3 DEF Exists, Scopes
      <4>2. sims'[row.scope].status \notin {"none", "gone"}
        BY <4>1 DEF StatusStep, Stopped
      <4>. QED
        BY <3>3, <4>2 DEF Exists
    <3>. QED
      BY <3>2, <3>3
  <2>. QED
    BY <2>1 DEF OwnersInv
<1>. QED
  BY <1>1, <1>2, <1>3 DEF RowsInv

\* A simulation goes with its rows.
LEMMA DeletedRows ==
    ASSUME RequestsInv, RowsInv, DueInv, NEW r \in Requests, WriteDelete(r)
    PROVE  RowsInv' /\ DueInv' /\ \A t : MineOf(t)' \subseteq MineOf(t)
<1>1. UNCHANGED <<loops, made>>
  BY DEF WriteDelete, workSame
<1>2. PICK s \in Sims :
              /\ req[r].sim = s /\ sims' \in [Sims -> SimType]
              /\ \A t \in Sims \ {s} : sims'[t] = sims[t]
              /\ ~Exists(s) => sims'[s] = sims[s]
  BY EndedSimulation
<1>3. CASE Exists(s)
  <2>1. rows' = Cascaded(s)
    BY <1>2, <1>3 DEF WriteDelete
  <2>. QED
    BY <1>1, <1>2, <2>1, Fewer
<1>4. CASE ~Exists(s)
  <2>1. UNCHANGED rows
    BY <1>2, <1>4 DEF WriteDelete
  <2>2. \A t \in Sims : sims'[t] = sims[t]
    BY <1>2, <1>4
  <2>3. \A t \in Sims : StatusStep(t) /\ (sims'[t].status = "gone" => sims[t].status = "gone")
    BY <2>2 DEF StatusStep
  <2>. QED
    BY <1>1, <1>2, <2>1, <2>3, SameRows
<1>. QED
  BY <1>3, <1>4

\* A row of a batch, or the end of it.
CreatesRow(r, s, m) ==
    /\ sims[s].status \notin {"none", "gone"} /\ UNCHANGED sims
    /\ req' = [req EXCEPT ![r] = With(req[r], [at |-> "job", market |-> m, todo |-> req[r].todo \ {m}])]
    /\ \A t : MineOf(t)' = IF t # s THEN MineOf(t) ELSE MineOf(t) \union {m}
BreaksOff(r, s) ==
    /\ Answer(r) /\ sims' = [sims EXCEPT ![s].alone = FALSE]
    /\ \A t : MineOf(t)' = MineOf(t)

\* A batch creates one more row of its simulation, or ends and leaves the rows alone.
LEMMA RowsCreated ==
    ASSUME RequestsInv, RowsInv, DueInv, NEW r \in Requests, CreateRow(r)
    PROVE  /\ RowsInv' /\ DueInv'
           /\ \E s \in Sims : /\ req[r].kind \in SimKinds /\ req[r].at = "row" /\ req[r].sim = s
                              /\ req[r].todo \subseteq Markets
                              /\ BreaksOff(r, s) \/ \E m \in req[r].todo : CreatesRow(r, s, m)
<1>1. PICK s, todo : s = req[r].sim /\ todo = req[r].todo
  OBVIOUS
<1>2. s \in Sims /\ todo \subseteq Markets /\ req[r].kind \in SimKinds /\ req[r].at = "row"
  BY <1>1 DEF CreateRow, RequestsInv, RequestOK, StartOK, ExtendOK, EnqueueOK, TriggerAllOK, SimKinds
<1>3. UNCHANGED <<loops>>
  BY DEF CreateRow, workSame
<1>4. PICK m \in todo :
              \/ /\ Exists(s) /\ ~Duplicate(m, s)
                 /\ Create(m, s, "tenderly", FALSE)
                 /\ Become(r, With(req[r], [at |-> "job", market |-> m, todo |-> todo \ {m}]))
                 /\ UNCHANGED sims
              \/ /\ Answer(r)
                 /\ sims' = [sims EXCEPT ![s].alone = FALSE]
                 /\ UNCHANGED <<rows, made>>
  BY <1>1 DEF CreateRow
<1>5. s \in Scopes /\ s # "main" /\ "tenderly" \in Chains
  BY <1>2, SetsAssumption DEF Scopes, Chains
<1>6. CASE Exists(s) /\ ~Duplicate(m, s) /\ Create(m, s, "tenderly", FALSE)
           /\ Become(r, With(req[r], [at |-> "job", market |-> m, todo |-> todo \ {m}])) /\ UNCHANGED sims
  <2>1. /\ RowsInv' /\ DueInv'
        /\ \A t : MineOf(t)' = IF t # s THEN MineOf(t) ELSE MineOf(t) \union {m}
    BY <1>2, <1>3, <1>5, <1>6, Creating
  <2>2. CreatesRow(r, s, m)
    BY <1>1, <1>5, <1>6, <2>1 DEF CreatesRow, Become, Exists
  <2>. QED
    BY <1>1, <1>2, <2>1, <2>2
<1>7. CASE Answer(r) /\ sims' = [sims EXCEPT ![s].alone = FALSE] /\ UNCHANGED <<rows, made>>
  <2>1. sims' \in [Sims -> SimType] /\ \A t \in Sims : sims'[t].status = sims[t].status
    BY <1>2, <1>7, AloneAssigned DEF RowsInv, OwnersInv
  <2>2. \A t \in Sims : StatusStep(t) /\ (sims'[t].status = "gone" => sims[t].status = "gone")
    BY <2>1 DEF StatusStep
  <2>3. RowsInv' /\ DueInv' /\ \A t : MineOf(t)' = MineOf(t)
    BY <1>3, <1>7, <2>1, <2>2, SameRows
  <2>. QED
    BY <1>1, <1>2, <1>7, <2>3 DEF BreaksOff
<1>. QED
  BY <1>4, <1>6, <1>7

----------------------------------------------------------------------------
(* The loops that write rows, and those that leave them. *)

\* The other loops have what they had.
LEMMA OthersHave ==
    ASSUME NEW row, NEW l \in Loops, \A k \in Loops \ {l} : loops'[k] = loops[k]
    PROVE  \A k \in Loops \ {l} : k \in Having(row)' <=> k \in Having(row)
BY DEF Having, AtWork

\* A loop moves that was not at its order and is not now, and has no row it had not.
LEMMA DueQuiet ==
    ASSUME TableInv, DueInv, UNCHANGED rows,
           NEW l \in Loops, \A k \in Loops \ {l} : loops'[k] = loops[k],
           loops[l].at # "traded", loops'[l].at # "traded",
           \A row \in rows : l \in Having(row)' => l \in Having(row)
    PROVE  DueInv'
<1>1. SUFFICES ASSUME NEW row \in rows, Only(row) PROVE DueOK(row)'
  BY DEF DueInv, Only, RowsOf
<1>2. DueOK(row) /\ \A k \in Loops \ {l} : k \in Having(row)' <=> k \in Having(row)
  BY <1>1, OthersHave DEF DueInv
<1>3. Having(row)' \subseteq Having(row) /\ Having(row) \subseteq Loops
  BY <1>2 DEF Having, AtWork
<1>4. ASSUME row.due, \A k \in Having(row)' : loops'[k].at # "traded" PROVE row.orders = 0
  <2>1. ASSUME NEW k \in Having(row) PROVE loops[k].at # "traded"
    <3>1. CASE k = l
      BY <3>1
    <3>2. CASE k # l
      <4>1. k \in Having(row)' /\ loops'[k] = loops[k]
        BY <1>2, <1>3, <3>2
      <4>. QED
        BY <1>4, <4>1
    <3>. QED
      BY <3>1, <3>2
  <2>. QED
    BY <1>2, <1>4, <2>1 DEF DueOK
<1>. QED
  BY <1>2, <1>3, <1>4 DEF DueOK

\* One that has a row, and alone, when it writes its rows.
LEMMA HasAlone ==
    ASSUME NEW row, DueOK(row), NEW l \in Having(row)
    PROVE  row.due /\ Having(row) = {l}
BY DEF DueOK

\* A loop that finds its row due has it alone, or the row counts as disturbed.
LEMMA GatheredRows ==
    ASSUME RowsInv, LoopsInv, DueInv, NEW l \in Loops, Gather(l)
    PROVE  RowsInv' /\ DueInv' /\ \A t : MineOf(t)' = MineOf(t)
<1>1. /\ UNCHANGED <<sims, made>> /\ loops[l].at = "gather"
      /\ LoopsInv' /\ LoopMoved(l)
      /\ \A k \in Loops \ {l} : loops'[k] = loops[k]
  BY LoopMoves DEF Gather, LoopAt, LoopStep
<1>2. PICK m, s, mine : m = loops[l].job.market /\ s = loops[l].job.scope /\ mine = RowsOf(m, s)
  OBVIOUS
<1>3. PICK b \in BOOLEAN : b = (AtWork(Loops, m, s) = {})
  OBVIOUS
<1>4. TableInv /\ OwnersInv
  BY DEF RowsInv
<1>5. CASE /\ LoopGoto(l, "decide") /\ \E found \in IF mine = {} THEN {NoRow} ELSE mine : Due(found)
           /\ rows' = {IF row \in mine THEN [row EXCEPT !.seen = TRUE, !.alone = @ /\ b] ELSE row : row \in rows}
  <2>. DEFINE f == [row \in rows |-> IF row \in mine THEN [row EXCEPT !.seen = TRUE, !.alone = @ /\ b] ELSE row]
  <2>1. ASSUME NEW row \in rows
        PROVE  /\ f[row] \in RowType /\ f[row].id = row.id /\ f[row].market = row.market
               /\ f[row].scope = row.scope /\ f[row].user = row.user
               /\ f[row].due = row.due /\ f[row].orders = row.orders
               /\ f[row].alone => row.alone /\ (row \in mine => b)
    <3>1. row \in RowType
      BY DEF RowsInv, TableInv
    <3>2. CASE row \in mine
      <4>1. PICK c \in BOOLEAN : c = (row.alone /\ b)
        OBVIOUS
      <4>2. f[row] = [row EXCEPT !.seen = TRUE, !.alone = c]
        BY <3>1, <3>2, <4>1 DEF RowType
      <4>. HIDE DEF f
      <4>. QED
        BY <3>1, <4>1, <4>2 DEF RowType
    <3>3. CASE row \notin mine
      BY <3>1, <3>3 DEF RowType
    <3>. QED
      BY <3>2, <3>3
  <2>2. rows' = {f[row] : row \in rows}
    BY <1>5
  <2>3. f \in [rows -> RowType]
    BY <2>1
  <2>. HIDE DEF f
  <2>4. Mapped(f)
    BY <1>1, <2>1, <2>2, <2>3 DEF Mapped
  <2>5. ASSUME NEW row \in rows, Only(row), DueOK(row), f[row].alone
        PROVE  DueAfter(row, f[row])
    <3>1. \A k \in Loops \ {l} : k \in Having(row)' <=> k \in Having(row)
      BY <1>1, OthersHave
    <3>2. CASE row \in mine
      <4>1. Having(row) = {} /\ mine = {row}
        BY <1>2, <1>3, <2>1, <2>5, <3>2 DEF RowsOf, Having, Only
      <4>2. row.due
        BY <1>5, <4>1, NoRowAssumption, <1>4 DEF Due, TableInv
      <4>3. row.orders = 0
        BY <2>5, <4>1, <4>2 DEF DueOK
      <4>4. Having(row)' \subseteq {l}
        BY <3>1, <4>1 DEF Having, AtWork
      <4>. QED
        BY <2>1, <4>2, <4>3, <4>4 DEF DueAfter
    <3>3. CASE row \notin mine
      <4>1. l \notin Having(row) /\ l \notin Having(row)'
        <5>1. ~(loops[l].job.market = row.market /\ loops[l].job.scope = row.scope)
          BY <1>2, <3>3 DEF RowsOf
        <5>2. loops'[l].job = loops[l].job \/ loops'[l].at = "idle"
          BY <1>1 DEF LoopMoved
        <5>. QED
          BY <5>1, <5>2 DEF Having, AtWork
      <4>2. Having(row)' = Having(row) /\ \A k \in Having(row) : k \in Loops \ {l}
        BY <3>1, <4>1 DEF Having, AtWork
      <4>. QED
        BY <1>1, <2>1, <2>5, <4>2 DEF DueOK, DueAfter
    <3>. QED
      BY <3>2, <3>3
  <2>6. DueInv'
    BY <1>4, <2>1, <2>4, <2>5, DueMapped
  <2>. QED
    BY <1>1, <1>4, <2>4, <2>6, MappedRows, OwnedSame DEF RowsInv
<1>6. CASE /\ LoopEnds(l)
           /\ rows' = {IF row \in mine THEN [row EXCEPT !.seen = TRUE] ELSE row : row \in rows}
  <2>. DEFINE f == [row \in rows |-> IF row \in mine THEN [row EXCEPT !.seen = TRUE] ELSE row]
  <2>1. ASSUME NEW row \in rows
        PROVE  /\ f[row] \in RowType /\ f[row].id = row.id /\ f[row].market = row.market
               /\ f[row].scope = row.scope /\ f[row].user = row.user
               /\ f[row].due = row.due /\ f[row].orders = row.orders /\ f[row].alone = row.alone
    <3>1. row \in RowType
      BY DEF RowsInv, TableInv
    <3>. QED
      BY <3>1 DEF RowType
  <2>2. rows' = {f[row] : row \in rows}
    BY <1>6
  <2>3. f \in [rows -> RowType]
    BY <2>1
  <2>. HIDE DEF f
  <2>4. Mapped(f)
    BY <1>1, <2>1, <2>2, <2>3 DEF Mapped
  <2>5. ASSUME NEW row \in rows, DueOK(row) PROVE DueAfter(row, f[row])
    <3>1. l \notin Having(row) /\ l \notin Having(row)'
      <4>1. Idle.at = "idle"
        BY DEF Idle
      <4>. QED
        BY <1>1, <1>6, <4>1 DEF Having, AtWork, LoopEnds, LoopsInv
    <3>2. Having(row)' = Having(row) /\ \A k \in Having(row) : k \in Loops \ {l}
      BY <1>1, <3>1, OthersHave DEF Having, AtWork
    <3>. QED
      BY <1>1, <2>1, <2>5, <3>2 DEF DueOK, DueAfter
  <2>6. DueInv'
    BY <1>4, <2>1, <2>4, <2>5, DueMapped
  <2>. QED
    BY <1>1, <1>4, <2>4, <2>6, MappedRows, OwnedSame DEF RowsInv
<1>. QED
  BY <1>2, <1>3, <1>5, <1>6 DEF Gather, UpdateRows

\* The order of a loop that has the row alone is the first since it fell due.
LEMMA SubmittedRows ==
    ASSUME RowsInv, LoopsInv, DueInv, NEW l \in Loops, Submit(l)
    PROVE  RowsInv' /\ DueInv' /\ \A t : MineOf(t)' = MineOf(t)
<1>1. /\ UNCHANGED <<sims, made>> /\ loops[l].at = "submit"
      /\ LoopsInv' /\ LoopMoved(l)
      /\ \A k \in Loops \ {l} : loops'[k] = loops[k]
  BY LoopMoves DEF Submit, LoopAt, LoopStep
<1>2. PICK m, s, mine : m = loops[l].job.market /\ s = loops[l].job.scope /\ mine = RowsOf(m, s)
  OBVIOUS
<1>3. loops'[l].at = "traded" /\ loops'[l].job = loops[l].job
  <2>1. loops'[l].at = "traded"
    BY <1>1 DEF Submit, LoopGoto, LoopsInv
  <2>. QED
    BY <1>1, <2>1 DEF LoopMoved
<1>4. TableInv /\ OwnersInv
  BY DEF RowsInv
<1>5. rows' = {IF row \in mine THEN [row EXCEPT !.orders = @ + 1] ELSE row : row \in rows}
  BY <1>2 DEF Submit, UpdateRows
<1>. DEFINE f == [row \in rows |-> IF row \in mine THEN [row EXCEPT !.orders = @ + 1] ELSE row]
<1>6. ASSUME NEW row \in rows
      PROVE  /\ f[row] \in RowType /\ f[row].id = row.id /\ f[row].market = row.market
             /\ f[row].scope = row.scope /\ f[row].user = row.user
             /\ f[row].due = row.due /\ f[row].alone = row.alone
             /\ f[row].orders = IF row \in mine THEN row.orders + 1 ELSE row.orders
  <2>1. row \in RowType
    BY DEF RowsInv, TableInv
  <2>. QED
    BY <2>1 DEF RowType
<1>7. rows' = {f[row] : row \in rows}
  BY <1>5
<1>8. f \in [rows -> RowType]
  BY <1>6
<1>. HIDE DEF f
<1>9. Mapped(f)
  BY <1>1, <1>6, <1>7, <1>8 DEF Mapped
<1>10. ASSUME NEW row \in rows, Only(row), DueOK(row)
       PROVE  DueAfter(row, f[row])
  <2>1. \A k \in Loops \ {l} : k \in Having(row)' <=> k \in Having(row)
    BY <1>1, OthersHave
  <2>2. l \in Having(row)' <=> row \in mine
    BY <1>2, <1>3 DEF Having, AtWork, RowsOf
  <2>3. l \in Having(row) <=> row \in mine
    BY <1>1, <1>2 DEF Having, AtWork, RowsOf
  <2>4. Having(row) = Having(row)'
    BY <2>1, <2>2, <2>3 DEF Having, AtWork
  <2>5. CASE row \in mine
    <3>1. row.due /\ Having(row) = {l}
      BY <1>10, <2>3, <2>5, HasAlone
    <3>2. row.orders = 0
      BY <1>1, <1>10, <3>1 DEF DueOK
    <3>. QED
      BY <1>3, <1>6, <2>4, <2>5, <3>1, <3>2 DEF DueAfter
  <2>6. CASE row \notin mine
    <3>1. \A k \in Having(row) : k \in Loops \ {l}
      BY <2>3, <2>6 DEF Having, AtWork
    <3>. QED
      BY <1>1, <1>6, <1>10, <2>4, <2>6, <3>1 DEF DueOK, DueAfter
  <2>. QED
    BY <2>5, <2>6
<1>11. DueInv'
  BY <1>4, <1>6, <1>9, <1>10, DueMapped
<1>. QED
  BY <1>1, <1>4, <1>9, <1>11, MappedRows, OwnedSame DEF RowsInv

\* The loop that puts a row to sleep is the one that had it.
LEMMA RecordedRows ==
    ASSUME RowsInv, LoopsInv, DueInv, NEW l \in Loops, Record(l)
    PROVE  RowsInv' /\ DueInv' /\ \A t : MineOf(t)' = MineOf(t)
<1>1. /\ UNCHANGED <<sims, made>> /\ loops[l].at \in {"discard", "traded"}
      /\ LoopsInv' /\ LoopMoved(l) /\ LoopEnds(l)
      /\ \A k \in Loops \ {l} : loops'[k] = loops[k]
  BY LoopMoves DEF Record, LoopStep
<1>2. PICK m, s, mine : m = loops[l].job.market /\ s = loops[l].job.scope /\ mine = RowsOf(m, s)
  OBVIOUS
<1>3. loops'[l].at = "idle"
  <2>1. Idle.at = "idle"
    BY DEF Idle
  <2>. QED
    BY <1>1, <2>1 DEF LoopEnds, LoopsInv
<1>4. TableInv /\ OwnersInv
  BY DEF RowsInv
<1>5. PICK status \in {"DISCARDED", "TRADED"} :
          rows' = {IF row \in mine THEN [row EXCEPT !.status = status, !.due = FALSE] ELSE row : row \in rows}
  BY <1>2 DEF Record, UpdateRows, Scheduled
<1>. DEFINE f == [row \in rows |-> IF row \in mine THEN [row EXCEPT !.status = status, !.due = FALSE] ELSE row]
<1>6. ASSUME NEW row \in rows
      PROVE  /\ f[row] \in RowType /\ f[row].id = row.id /\ f[row].market = row.market
             /\ f[row].scope = row.scope /\ f[row].user = row.user
             /\ f[row].orders = row.orders /\ f[row].alone = row.alone
             /\ f[row].due = IF row \in mine THEN FALSE ELSE row.due
  <2>1. row \in RowType
    BY DEF RowsInv, TableInv
  <2>. QED
    BY <2>1 DEF RowType
<1>7. rows' = {f[row] : row \in rows}
  BY <1>5
<1>8. f \in [rows -> RowType]
  BY <1>6
<1>. HIDE DEF f
<1>9. Mapped(f)
  BY <1>1, <1>6, <1>7, <1>8 DEF Mapped
<1>10. ASSUME NEW row \in rows, Only(row), DueOK(row)
       PROVE  DueAfter(row, f[row])
  <2>1. \A k \in Loops \ {l} : k \in Having(row)' <=> k \in Having(row)
    BY <1>1, OthersHave
  <2>2. l \notin Having(row)'
    BY <1>3 DEF Having, AtWork
  <2>3. l \in Having(row) <=> row \in mine
    BY <1>1, <1>2 DEF Having, AtWork, RowsOf
  <2>4. Having(row)' = Having(row) \ {l}
    BY <2>1, <2>2 DEF Having, AtWork
  <2>5. CASE row \in mine
    <3>1. Having(row)' = {}
      BY <1>10, <2>3, <2>4, <2>5, HasAlone
    <3>. QED
      BY <1>6, <1>10, <2>5, <3>1 DEF DueOK, DueAfter
  <2>6. CASE row \notin mine
    <3>1. Having(row)' = Having(row) /\ \A k \in Having(row) : k \in Loops \ {l}
      BY <2>3, <2>4, <2>6 DEF Having, AtWork
    <3>. QED
      BY <1>1, <1>6, <1>10, <2>6, <3>1 DEF DueOK, DueAfter
  <2>. QED
    BY <2>5, <2>6
<1>11. DueInv'
  BY <1>4, <1>6, <1>9, <1>10, DueMapped
<1>. QED
  BY <1>1, <1>4, <1>9, <1>11, MappedRows, OwnedSame DEF RowsInv

\* Jobs that end, one or all of them: rows that had an order and are not put to sleep
\* have been disturbed.
LEMMA DisturbedRows ==
    ASSUME RowsInv, LoopsInv, DueInv, NEW ls \in SUBSET Loops, rows' = Disturbed(ls), UNCHANGED <<sims, made>>,
           \A l \in ls : loops'[l].at = "idle",
           \A l \in Loops \ ls : loops'[l] = loops[l]
    PROVE  RowsInv' /\ DueInv' /\ \A t : MineOf(t)' = MineOf(t)
<1>1. TableInv /\ OwnersInv
  BY DEF RowsInv
<1>2. PICK hit : hit = {row \in rows : \E l \in ls : /\ loops[l].at = "traded"
                                                     /\ row \in RowsOf(loops[l].job.market, loops[l].job.scope)}
  OBVIOUS
<1>3. rows' = {IF row \in hit THEN [row EXCEPT !.alone = FALSE] ELSE row : row \in rows}
  BY <1>2 DEF Disturbed
<1>. DEFINE f == [row \in rows |-> IF row \in hit THEN [row EXCEPT !.alone = FALSE] ELSE row]
<1>4. ASSUME NEW row \in rows
      PROVE  /\ f[row] \in RowType /\ f[row].id = row.id /\ f[row].market = row.market
             /\ f[row].scope = row.scope /\ f[row].user = row.user
             /\ f[row].orders = row.orders /\ f[row].due = row.due
             /\ f[row].alone = IF row \in hit THEN FALSE ELSE row.alone
  <2>1. row \in RowType
    BY DEF RowsInv, TableInv
  <2>. QED
    BY <2>1 DEF RowType
<1>5. rows' = {f[row] : row \in rows}
  BY <1>3
<1>6. f \in [rows -> RowType]
  BY <1>4
<1>. HIDE DEF f
<1>7. Mapped(f)
  BY <1>4, <1>5, <1>6 DEF Mapped
<1>8. ASSUME NEW row \in rows, Only(row), DueOK(row), f[row].alone
      PROVE  DueAfter(row, f[row])
  <2>1. row \notin hit
    BY <1>4, <1>8
  <2>2. Having(row)' = Having(row) \ ls
    BY DEF Having, AtWork
  <2>3. ASSUME NEW k \in Having(row), loops[k].at = "traded" PROVE k \in Having(row)' /\ loops'[k] = loops[k]
    <3>1. k \in Loops /\ row \in RowsOf(loops[k].job.market, loops[k].job.scope)
      BY DEF Having, AtWork, RowsOf
    <3>2. k \notin ls
      BY <1>2, <2>1, <2>3, <3>1
    <3>. QED
      BY <2>2, <3>1, <3>2
  <2>. QED
    BY <1>4, <1>8, <2>2, <2>3 DEF DueOK, DueAfter
<1>9. DueInv'
  BY <1>1, <1>4, <1>7, <1>8, DueMapped
<1>. QED
  BY <1>1, <1>7, <1>9, MappedRows, OwnedSame DEF RowsInv

\* A row falls due while no loop has it, or two had it at once.
LEMMA DueRows ==
    ASSUME RowsInv, DueInv, FallsDue
    PROVE  RowsInv' /\ DueInv' /\ \A t : MineOf(t)' = MineOf(t)
<1>1. TableInv /\ OwnersInv /\ UNCHANGED <<sims, made, loops>>
  BY DEF RowsInv, FallsDue
<1>2. PICK x \in rows : ~x.due /\ rows' = (rows \ {x}) \union {[x EXCEPT !.due = TRUE, !.orders = 0]}
  BY DEF FallsDue
<1>. DEFINE f == [row \in rows |-> IF row = x THEN [row EXCEPT !.due = TRUE, !.orders = 0] ELSE row]
<1>3. ASSUME NEW row \in rows
      PROVE  /\ f[row] \in RowType /\ f[row].id = row.id /\ f[row].market = row.market
             /\ f[row].scope = row.scope /\ f[row].user = row.user /\ f[row].alone = row.alone
             /\ f[row].orders = IF row = x THEN 0 ELSE row.orders
             /\ f[row].due = IF row = x THEN TRUE ELSE row.due
  <2>1. row \in RowType
    BY DEF RowsInv, TableInv
  <2>. QED
    BY <2>1 DEF RowType
<1>4. rows' = {f[row] : row \in rows}
  BY <1>2
<1>5. f \in [rows -> RowType]
  BY <1>3
<1>. HIDE DEF f
<1>6. Mapped(f)
  BY <1>1, <1>3, <1>4, <1>5 DEF Mapped
<1>7. ASSUME NEW row \in rows, DueOK(row) PROVE DueAfter(row, f[row])
  <2>1. Having(row)' = Having(row)
    BY <1>1 DEF Having, AtWork
  <2>2. row = x => Having(row) = {}
    BY <1>2, <1>7 DEF DueOK
  <2>3. CASE row = x
    <3>1. Having(row)' = {} /\ f[row].orders = 0
      BY <1>3, <2>1, <2>2, <2>3
    <3>. QED
      BY <3>1 DEF DueAfter
  <2>4. CASE row # x
    BY <1>1, <1>3, <1>7, <2>1, <2>4 DEF DueOK, DueAfter
  <2>. QED
    BY <2>3, <2>4
<1>8. DueInv'
  BY <1>1, <1>3, <1>6, <1>7, DueMapped
<1>. QED
  BY <1>1, <1>6, <1>8, MappedRows, OwnedSame DEF RowsInv

\* What the worker does to rows, loops and stopped simulations.
LEMMA WorkerMoves ==
    ASSUME RowsInv, LoopsInv, LateInv, DueInv, NEW l \in Loops, LoopStep(l) \/ PlaceFails(l) \/ JobFails(l)
    PROVE  /\ RowsInv' /\ LoopsInv' /\ LateInv' /\ DueInv' /\ \A t : MineOf(t)' = MineOf(t)
           /\ UNCHANGED <<sims, repeating>>
<1>1. /\ LoopsInv' /\ LoopMoved(l)
      /\ \A k \in Loops \ {l} : loops'[k] = loops[k]
  BY LoopMoves
<1>2. LateInv'
  BY LateWorker
<1>3. UNCHANGED <<sims, made, repeating>>
  BY DEF LoopStep, Take, CheckSimulation, Gather, Decide, FindPosition, Place, CheckFunds, Submit,
         Refused, Record, PlaceFails, JobFails
<1>4. CASE Gather(l)
  BY <1>1, <1>2, <1>3, <1>4, GatheredRows
<1>5. CASE Submit(l)
  BY <1>1, <1>2, <1>3, <1>5, SubmittedRows
<1>6. CASE Record(l)
  BY <1>1, <1>2, <1>3, <1>6, RecordedRows
<1>7. Idle.at = "idle"
  BY DEF Idle
<1>8. CASE JobFails(l)
  <2>1. loops'[l].at = "idle" /\ rows' = Disturbed({l})
    BY <1>7, <1>8 DEF JobFails, LoopEnds, LoopsInv
  <2>2. RowsInv' /\ DueInv' /\ \A t : MineOf(t)' = MineOf(t)
    BY <1>1, <1>3, <2>1, DisturbedRows
  <2>. QED
    BY <1>1, <1>2, <1>3, <2>2
<1>9. CASE \/ Take(l) \/ CheckSimulation(l) \/ Decide(l) \/ FindPosition(l) \/ Place(l) \/ PlaceFails(l)
           \/ CheckFunds(l) \/ Refused(l)
  <2>1. UNCHANGED rows /\ loops[l].at \in {"idle", "status", "decide", "find", "place", "funds", "submit"}
    BY <1>9 DEF Take, CheckSimulation, Decide, FindPosition, Place, CheckFunds, Refused, PlaceFails, LoopAt
  <2>2. loops[l].at = "submit" => loops'[l].at = "idle"
    BY <1>7, <1>9 DEF Take, CheckSimulation, Decide, FindPosition, Place, CheckFunds, Refused, PlaceFails,
                      LoopAt, LoopEnds, LoopsInv
  <2>3. loops'[l].at # "traded"
    BY <1>1, <2>1, <2>2 DEF LoopMoved, Edges
  <2>4. ASSUME NEW row \in rows, l \in Having(row)' PROVE l \in Having(row)
    <3>1. loops'[l].at \notin {"idle", "status", "gather"}
      BY <2>4 DEF Having, AtWork
    <3>2. loops'[l].job = loops[l].job /\ <<loops[l].at, loops'[l].at>> \in Edges
      BY <1>1, <3>1 DEF LoopMoved
    <3>3. loops[l].at \notin {"idle", "status", "gather"}
      BY <2>1, <3>1, <3>2 DEF Edges
    <3>. QED
      BY <2>4, <3>2, <3>3 DEF Having, AtWork
  <2>5. DueInv'
    BY <1>1, <2>1, <2>3, <2>4, DueQuiet DEF RowsInv
  <2>6. RowsInv' /\ \A t : MineOf(t)' = MineOf(t)
    BY <1>3, <2>1 DEF RowsInv, TableInv, OwnersInv, Exists, MineOf
  <2>. QED
    BY <1>1, <1>2, <1>3, <2>5, <2>6
<1>. QED
  BY <1>4, <1>5, <1>6, <1>8, <1>9 DEF LoopStep

\* What a crash of the worker does to them.
LEMMA CrashMoves ==
    ASSUME RowsInv, LoopsInv, LateInv, DueInv, WorkerCrash
    PROVE  /\ RowsInv' /\ LoopsInv' /\ LateInv' /\ DueInv' /\ \A t : MineOf(t)' = MineOf(t)
           /\ UNCHANGED <<sims, repeating>>
<1>1. LoopsInv' /\ \A l \in Loops : loops'[l].at = "idle"
  BY CrashEndsLoops
<1>2. PICK lost : lost = {l \in Loops : loops[l].at # "idle"}
  OBVIOUS
<1>3. rows' = Disturbed(lost) /\ UNCHANGED <<sims, made, repeating>>
  BY <1>2 DEF WorkerCrash
<1>4. rows' = Disturbed(Loops)
  <2>1. \A l \in Loops : loops[l].at = "traded" => l \in lost
    BY <1>2
  <2>. QED
    BY <1>2, <1>3, <2>1 DEF Disturbed
<1>5. RowsInv' /\ DueInv' /\ \A t : MineOf(t)' = MineOf(t)
  BY <1>1, <1>3, <1>4, DisturbedRows
<1>. QED
  BY <1>1, <1>3, <1>5, LateCrash

----------------------------------------------------------------------------
(* The requests that start and extend simulations. *)

\* Locals a later step relies on.
Keeps(x, y) ==
    /\ DOMAIN x \subseteq DOMAIN y /\ y.kind = x.kind
    /\ \A field \in {"sim", "addMinutes", "minutes", "max"} \intersect DOMAIN x : y[field] = x[field]

\* An extension that keeps its locals is in order if its place, its count and its
\* markets are.
LEMMA StillExtends ==
    ASSUME NEW x, NEW y, RequestOK(x), x.kind = "extend", Keeps(x, y),
           y.at \in {"pay", "transfer", "existing", "row", "job", "update"},
           y.added \in Nat,
           y.at \in {"row", "job"} => "todo" \in DOMAIN y /\ y.todo \subseteq Markets,
           y.at \in {"pay", "transfer", "existing"} => y.added = 0
    PROVE  RequestOK(y) /\ y.sim = x.sim /\ y.minutes = x.minutes /\ y.max = x.max
<1>1. ExtendOK(x) /\ {"kind", "at"} \subseteq DOMAIN x
  BY DEF RequestOK
<1>2. /\ y.kind = "extend" /\ DOMAIN x \subseteq DOMAIN y
      /\ y.sim = x.sim /\ y.addMinutes = x.addMinutes /\ y.minutes = x.minutes /\ y.max = x.max
  BY <1>1 DEF Keeps, ExtendOK
<1>3. ExtendOK(y)
  BY <1>1, <1>2 DEF ExtendOK
<1>. QED
  BY <1>1, <1>2, <1>3 DEF RequestOK

\* A start begins with its payment.
LEMMA StartMoves ==
    ASSUME RequestsInv, NEW r \in Requests, Start(r)
    PROVE  /\ RequestsInv' /\ Turn(r, SimKinds)
           /\ req[r].kind = "none" /\ req'[r].kind = "start" /\ req'[r].at = "pay"
<1>1. PICK max \in 1..Cardinality(Markets), minutes \in 1..MaxMinutes :
          Become(r, [kind |-> "start", at |-> "pay", max |-> max, minutes |-> minutes])
  BY DEF Start
<1>2. PICK y : y = [kind |-> "start", at |-> "pay", max |-> max, minutes |-> minutes]
  OBVIOUS
<1>3. y.kind = "start" /\ y.at = "pay" /\ RequestOK(y)
  BY <1>2 DEF RequestOK, StartOK
<1>4. UNCHANGED faults /\ req[r].kind = "none" /\ faults \in Nat
  BY ArrivesFree DEF Start, RequestsInv
<1>. QED
  BY <1>1, <1>2, <1>3, <1>4, Assigned DEF Become, Turn, SimKinds

\* An extension begins with its payment and what it read of its simulation.
LEMMA ExtendMoves ==
    ASSUME RequestsInv, RowsInv, NEW r \in Requests, Extend(r)
    PROVE  /\ RequestsInv' /\ Turn(r, SimKinds) /\ req[r].kind = "none"
           /\ \E s \in Sims :
                 /\ req'[r].kind = "extend" /\ req'[r].at = "pay" /\ req'[r].sim = s
                 /\ req'[r].minutes = sims[s].minutes /\ req'[r].max = sims[s].max
                 /\ sims[s].status = "RUNNING"
                 /\ sims' = [sims EXCEPT ![s].alone = @ /\ \A q \in InFlight("extend") : req[q].sim # s]
<1>1. PICK s \in Sims, min \in 0..MaxMinutes, n \in 0..Cardinality(Markets) :
          /\ sims[s].status = "RUNNING"
          /\ Become(r, [kind |-> "extend", at |-> "pay", sim |-> s, addMinutes |-> min,
                        addMarkets |-> n, added |-> 0,
                        minutes |-> sims[s].minutes, max |-> sims[s].max])
          /\ sims' = [sims EXCEPT ![s].alone = @ /\ \A q \in InFlight("extend") : req[q].sim # s]
  BY DEF Extend
<1>2. PICK a, b : a = sims[s].minutes /\ b = sims[s].max
  OBVIOUS
<1>3. a \in Nat /\ b \in Nat /\ min \in Nat
  BY <1>2, SimulationAssumption DEF RowsInv, OwnersInv, SimType
<1>4. PICK y : y = [kind |-> "extend", at |-> "pay", sim |-> s, addMinutes |-> min,
                    addMarkets |-> n, added |-> 0, minutes |-> a, max |-> b]
  OBVIOUS
<1>5. y.kind = "extend" /\ y.at = "pay" /\ y.sim = s /\ y.minutes = a /\ y.max = b
  BY <1>4
<1>6. RequestOK(y)
  BY <1>3, <1>4 DEF RequestOK, ExtendOK
<1>7. UNCHANGED faults /\ req[r].kind = "none" /\ faults \in Nat
  BY ArrivesFree DEF Extend, RequestsInv
<1>8. req' = [req EXCEPT ![r] = y]
  BY <1>1, <1>2, <1>4 DEF Become
<1>9. RequestsInv' /\ req'[r] = y /\ \A q \in Requests \ {r} : req'[q] = req[q]
  BY <1>6, <1>7, <1>8, Assigned
<1>10. Turn(r, SimKinds)
  BY <1>5, <1>7, <1>9 DEF Turn, SimKinds
<1>. QED
  BY <1>1, <1>2, <1>5, <1>7, <1>9, <1>10

\* A payment: the handler goes on with what it has, or ends before it had any.
PaymentMoved(x, y) ==
    /\ x.kind \in SimKinds /\ x.at \in {"pay", "transfer"}
    /\ \/ y.kind = "none"
       \/ y.kind = "start" /\ x.kind = "start" /\ y.at \in {"transfer", "create"}
       \/ /\ y.kind = "extend" /\ x.kind = "extend" /\ y.at \in {"transfer", "existing", "update"}
          /\ y.sim = x.sim /\ y.minutes = x.minutes /\ y.max = x.max /\ y.added = 0

\* A payment goes on, is made, or ends the request.
LEMMA PaymentMoves ==
    ASSUME RequestsInv, NEW r \in Requests, ReadPurse(r) \/ Transfer(r) \/ ReceiptLost(r)
    PROVE  RequestsInv' /\ Turn(r, SimKinds) /\ PaymentMoved(req[r], req'[r])
<1>1. PICK x : x = req[r]
  OBVIOUS
<1>2. RequestOK(x) /\ faults' \in Nat /\ x.at \in {"pay", "transfer"}
  BY <1>1, FaultCounts DEF RequestsInv, ReadPurse, Transfer, ReceiptLost
<1>3. x.kind \in SimKinds /\ {"kind", "at"} \subseteq DOMAIN x
  BY <1>2 DEF RequestOK, EnqueueOK, TriggerAllOK, SimKinds
<1>4. CASE Answer(r)
  <2>1. RequestsInv' /\ req'[r].kind = "none" /\ \A q \in Requests \ {r} : req'[q] = req[q]
    BY <1>2, <1>4, AnswerFrees
  <2>. QED
    BY <1>1, <1>2, <1>3, <2>1 DEF Turn, PaymentMoved
<1>5. CASE ~Answer(r)
  <2>1. PICK at : /\ req' = [req EXCEPT ![r] = [x EXCEPT !.at = at]]
                  /\ x.kind = "start" => at \in {"transfer", "create"}
                  /\ x.kind = "extend" => at \in {"transfer", "existing", "update"}
    <3>1. CASE ReadPurse(r)
      <4>1. Goto(r, "transfer")
        BY <1>5, <3>1 DEF ReadPurse
      <4>2. req' = [req EXCEPT ![r] = [x EXCEPT !.at = "transfer"]]
        BY <1>1, <4>1 DEF Goto, RequestsInv
      <4>. QED
        BY <4>2
    <3>2. CASE Transfer(r)
      <4>1. Become(r, Paid(x))
        BY <1>1, <1>5, <3>2 DEF Transfer
      <4>2. PICK at : at = IF x.kind = "start" THEN "create" ELSE IF x.addMarkets > 0 THEN "existing" ELSE "update"
        OBVIOUS
      <4>3. req' = [req EXCEPT ![r] = [x EXCEPT !.at = at]]
        BY <4>1, <4>2 DEF Become, Paid
      <4>. QED
        BY <4>2, <4>3
    <3>. QED
      BY <1>5, <3>1, <3>2 DEF ReceiptLost
  <2>2. PICK y : y = [x EXCEPT !.at = at]
    OBVIOUS
  <2>3. DOMAIN y = DOMAIN x /\ y.at = at /\ \A field \in DOMAIN x \ {"at"} : y[field] = x[field]
    BY <1>3, <2>2
  <2>4. y.kind = x.kind
    BY <1>3, <2>3
  <2>5. RequestOK(y) /\ PaymentMoved(x, y)
    <3>1. CASE x.kind = "start"
      <4>1. /\ {"max", "minutes"} \subseteq DOMAIN x /\ "sim" \notin DOMAIN x
            /\ x.max \in Nat /\ x.minutes \in Nat
        BY <1>2, <3>1 DEF RequestOK, StartOK
      <4>2. y.max = x.max /\ y.minutes = x.minutes
        BY <2>3, <4>1
      <4>3. StartOK(y)
        BY <2>1, <2>3, <3>1, <4>1, <4>2 DEF StartOK
      <4>. QED
        BY <1>2, <1>3, <2>1, <2>3, <2>4, <3>1, <4>3 DEF RequestOK, PaymentMoved
    <3>2. CASE x.kind = "extend"
      <4>1. ExtendOK(x) /\ x.added = 0
        BY <1>2, <3>2 DEF RequestOK, ExtendOK
      <4>2. Keeps(x, y) /\ y.added = 0
        BY <2>3, <2>4, <4>1 DEF Keeps, ExtendOK
      <4>3. RequestOK(y) /\ y.sim = x.sim /\ y.minutes = x.minutes /\ y.max = x.max
        BY <1>2, <2>1, <2>3, <3>2, <4>2, StillExtends
      <4>. QED
        BY <1>2, <1>3, <2>1, <2>3, <2>4, <3>2, <4>2, <4>3 DEF PaymentMoved
    <3>. QED
      BY <1>3, <3>1, <3>2 DEF SimKinds
  <2>6. RequestsInv' /\ req'[r] = y /\ \A q \in Requests \ {r} : req'[q] = req[q]
    BY <1>2, <2>1, <2>2, <2>5, Assigned
  <2>. QED
    BY <1>1, <1>3, <2>4, <2>5, <2>6 DEF Turn
<1>. QED
  BY <1>4, <1>5

\* A batch: the rows still to come, and what comes after them.
LEMMA CreationMoves ==
    ASSUME RequestsInv, RowsInv, NEW r \in Requests, CreateSimulation(r)
    PROVE  /\ RequestsInv' /\ Turn(r, SimKinds) /\ req[r].kind = "start" /\ req[r].at = "create"
           /\ \E s \in Sims :
                 /\ sims[s].status = "none" /\ sims'[s].status = "RUNNING"
                 /\ sims' \in [Sims -> SimType]
                 /\ \A t \in Sims \ {s} : sims'[t] = sims[t]
                 /\ sims'[s].max = sims'[s].boughtMax /\ sims'[s].minutes = sims'[s].bought
                 /\ req'[r].kind = "start" /\ req'[r].at = "row" /\ req'[r].sim = s
                 /\ req'[r].todo \subseteq Markets /\ Cardinality(req'[r].todo) <= sims'[s].max
<1>1. PICK s \in Sims :
              /\ sims[s].status = "none" /\ sims'[s].status = "RUNNING"
              /\ sims' \in [Sims -> SimType]
              /\ \A t \in Sims \ {s} : sims'[t] = sims[t]
              /\ req[r].max \in Nat /\ sims'[s].max = req[r].max /\ sims'[s].boughtMax = req[r].max
              /\ sims'[s].minutes = sims'[s].bought
              /\ \E todo \in Slices(Markets, req[r].max) :
                    req' = [req EXCEPT ![r] = [kind |-> "start", at |-> "row", sim |-> s, todo |-> todo]]
  BY CreatedSimulation
<1>2. PICK todo \in Slices(Markets, req[r].max) :
          req' = [req EXCEPT ![r] = [kind |-> "start", at |-> "row", sim |-> s, todo |-> todo]]
  BY <1>1
<1>3. Cardinality(Markets) \in Nat
  BY SetsAssumption, FS_CardinalityType
<1>4. todo \subseteq Markets /\ Cardinality(todo) <= req[r].max
  BY <1>1, <1>2, <1>3 DEF Slices
<1>5. PICK y : y = [kind |-> "start", at |-> "row", sim |-> s, todo |-> todo]
  OBVIOUS
<1>6. y.kind = "start" /\ y.at = "row" /\ y.sim = s /\ y.todo = todo
  BY <1>5
<1>7. RequestOK(y)
  BY <1>4, <1>5 DEF RequestOK, StartOK
<1>8. req[r].kind = "start" /\ req[r].at = "create" /\ UNCHANGED faults /\ faults \in Nat
  BY DEF CreateSimulation, At, RequestsInv
<1>9. RequestsInv' /\ req'[r] = y /\ \A q \in Requests \ {r} : req'[q] = req[q]
  BY <1>2, <1>5, <1>7, <1>8, Assigned
<1>10. Turn(r, SimKinds)
  BY <1>6, <1>8, <1>9 DEF Turn, SimKinds
<1>. QED
  BY <1>1, <1>4, <1>6, <1>8, <1>9, <1>10

\* A handler of a batch goes on with its simulation and what it was paid for.
GoesOn(x, y) ==
    /\ y.kind = x.kind /\ y.sim = x.sim
    /\ x.kind = "extend" => y.minutes = x.minutes /\ y.max = x.max /\ y.added = x.added

\* A handler of a batch that keeps its locals is in order.
LEMMA StillBatch ==
    ASSUME NEW x, NEW y, RequestOK(x), x.kind \in SimKinds, x.at \in {"row", "job"}, Keeps(x, y),
           \/ y.at \in {"row", "job"} /\ "todo" \in DOMAIN y /\ y.todo \subseteq Markets
           \/ y.at = "update" /\ x.kind = "extend",
           x.kind = "extend" => y.added = x.added
    PROVE  RequestOK(y) /\ GoesOn(x, y)
<1>1. CASE x.kind = "start"
  <2>1. "sim" \in DOMAIN x /\ x.sim \in Sims /\ {"kind", "at"} \subseteq DOMAIN x
    BY <1>1 DEF RequestOK, StartOK
  <2>2. y.kind = "start" /\ y.sim = x.sim /\ DOMAIN x \subseteq DOMAIN y
    BY <1>1, <2>1 DEF Keeps
  <2>3. StartOK(y)
    BY <1>1, <2>1, <2>2 DEF StartOK
  <2>. QED
    BY <1>1, <2>1, <2>2, <2>3 DEF RequestOK, GoesOn
<1>2. CASE x.kind = "extend"
  <2>1. ExtendOK(x)
    BY <1>2 DEF RequestOK
  <2>2. y.added \in Nat
    BY <1>2, <2>1 DEF ExtendOK
  <2>3. RequestOK(y) /\ y.sim = x.sim /\ y.minutes = x.minutes /\ y.max = x.max
    BY <1>2, <2>2, StillExtends
  <2>. QED
    BY <1>2, <2>3 DEF GoesOn, Keeps
<1>. QED
  BY <1>1, <1>2 DEF SimKinds

\* A row has been created: the handler goes on to its job.
LEMMA RowMoves ==
    ASSUME RequestsInv, NEW r \in Requests, NEW s, NEW m \in req[r].todo, CreatesRow(r, s, m), CreateRow(r)
    PROVE  /\ RequestsInv' /\ Turn(r, SimKinds) /\ GoesOn(req[r], req'[r])
           /\ req'[r].at = "job" /\ req'[r].todo = req[r].todo \ {m}
<1>1. PICK x : x = req[r]
  OBVIOUS
<1>2. RequestOK(x) /\ x.at = "row" /\ UNCHANGED faults /\ faults \in Nat
  BY <1>1 DEF RequestsInv, CreateRow
<1>3. x.kind \in SimKinds /\ {"kind", "at", "sim", "todo"} \subseteq DOMAIN x /\ x.todo \subseteq Markets
  BY <1>2 DEF RequestOK, EnqueueOK, TriggerAllOK, StartOK, ExtendOK, SimKinds
<1>4. PICK l : l = [at |-> "job", market |-> m, todo |-> x.todo \ {m}]
  OBVIOUS
<1>5. DOMAIN l = {"at", "market", "todo"} /\ l.at = "job" /\ l.todo = x.todo \ {m}
  BY <1>4
<1>6. PICK y : y = With(x, l)
  OBVIOUS
<1>7. /\ DOMAIN y = DOMAIN x \union DOMAIN l
      /\ \A field \in DOMAIN l : y[field] = l[field]
      /\ \A field \in DOMAIN x \ DOMAIN l : y[field] = x[field]
  BY <1>6 DEF With
<1>8. y.at = "job" /\ y.todo = x.todo \ {m} /\ "todo" \in DOMAIN y
  BY <1>5, <1>7
<1>9. Keeps(x, y)
  BY <1>3, <1>5, <1>7 DEF Keeps
<1>10. x.kind = "extend" => y.added = x.added
  BY <1>2, <1>5, <1>7 DEF RequestOK, ExtendOK
<1>11. RequestOK(y) /\ GoesOn(x, y)
  BY <1>2, <1>3, <1>8, <1>9, <1>10, StillBatch
<1>12. req' = [req EXCEPT ![r] = y]
  BY <1>1, <1>4, <1>6 DEF CreatesRow
<1>13. RequestsInv' /\ req'[r] = y /\ \A q \in Requests \ {r} : req'[q] = req[q]
  BY <1>2, <1>11, <1>12, Assigned
<1>14. Turn(r, SimKinds)
  BY <1>1, <1>3, <1>11, <1>13 DEF Turn, GoesOn
<1>. QED
  BY <1>1, <1>8, <1>11, <1>13, <1>14

\* It ends, goes on to the next row, or to the update of an extension.
JobMoved(x, y) ==
    /\ x.kind \in SimKinds /\ x.at = "job"
    /\ \/ y.kind = "none" /\ x.kind = "start"
       \/ GoesOn(x, y) /\ y.at = "row" /\ y.todo = x.todo
       \/ GoesOn(x, y) /\ y.at = "update" /\ x.kind = "extend"

\* A job has been added: the next row, the update, or the answer.
LEMMA JobMoves ==
    ASSUME RequestsInv, NEW r \in Requests, AddJob(r)
    PROVE  RequestsInv' /\ Turn(r, SimKinds) /\ JobMoved(req[r], req'[r])
<1>1. PICK x : x = req[r]
  OBVIOUS
<1>2. RequestOK(x) /\ x.at = "job" /\ UNCHANGED faults /\ faults \in Nat /\ Become(r, AfterJob(x))
  BY <1>1 DEF RequestsInv, AddJob
<1>3. x.kind \in SimKinds /\ {"kind", "at", "sim", "todo"} \subseteq DOMAIN x /\ x.todo \subseteq Markets
  BY <1>2 DEF RequestOK, EnqueueOK, TriggerAllOK, StartOK, ExtendOK, SimKinds
<1>4. CASE Answer(r) /\ x.kind = "start"
  <2>1. RequestsInv' /\ req'[r].kind = "none" /\ \A q \in Requests \ {r} : req'[q] = req[q]
    BY <1>2, <1>4, AnswerFrees
  <2>. QED
    BY <1>1, <1>2, <1>3, <1>4, <2>1 DEF Turn, JobMoved
<1>5. ASSUME NEW at \in {"row", "update"}, req' = [req EXCEPT ![r] = [x EXCEPT !.at = at]],
             at = "update" => x.kind = "extend"
      PROVE  RequestsInv' /\ Turn(r, SimKinds) /\ JobMoved(x, req'[r])
  <2>1. PICK y : y = [x EXCEPT !.at = at]
    OBVIOUS
  <2>2. DOMAIN y = DOMAIN x /\ y.at = at /\ \A field \in DOMAIN x \ {"at"} : y[field] = x[field]
    BY <1>3, <2>1
  <2>3. Keeps(x, y) /\ y.todo = x.todo
    BY <1>3, <2>2 DEF Keeps
  <2>4. x.kind = "extend" => y.added = x.added
    BY <1>2, <2>2 DEF RequestOK, ExtendOK
  <2>5. RequestOK(y) /\ GoesOn(x, y)
    BY <1>2, <1>3, <1>5, <2>2, <2>3, <2>4, StillBatch
  <2>6. RequestsInv' /\ req'[r] = y /\ \A q \in Requests \ {r} : req'[q] = req[q]
    BY <1>2, <1>5, <2>1, <2>5, Assigned
  <2>. QED
    BY <1>1, <1>2, <1>3, <1>5, <2>2, <2>3, <2>5, <2>6 DEF Turn, JobMoved, GoesOn
<1>6. CASE x.todo # {}
  <2>1. req' = [req EXCEPT ![r] = [x EXCEPT !.at = "row"]]
    BY <1>2, <1>6 DEF Become, AfterJob
  <2>2. PICK at \in {"row", "update"} : at = "row"
    OBVIOUS
  <2>. QED
    BY <1>1, <1>5, <2>1, <2>2
<1>7. CASE x.todo = {} /\ x.kind = "extend"
  <2>1. req' = [req EXCEPT ![r] = [x EXCEPT !.at = "update"]]
    BY <1>2, <1>7 DEF Become, AfterJob
  <2>. QED
    BY <1>1, <1>5, <1>7, <2>1
<1>8. CASE x.todo = {} /\ x.kind # "extend"
  BY <1>2, <1>3, <1>4, <1>8 DEF Become, AfterJob, Answer, SimKinds
<1>. QED
  BY <1>6, <1>7, <1>8

\* What an extension will add is what it found.
LEMMA ExistingMoves ==
    ASSUME RequestsInv, NEW r \in Requests, ReadExisting(r)
    PROVE  /\ RequestsInv' /\ Turn(r, SimKinds)
           /\ req[r].kind = "extend" /\ req[r].at = "existing"
           /\ req'[r].kind = "extend" /\ req'[r].sim = req[r].sim
           /\ req'[r].minutes = req[r].minutes /\ req'[r].max = req[r].max
           /\ req'[r].at \in {"row", "update"} /\ req'[r].todo \subseteq Markets
           /\ req'[r].added = Cardinality(req'[r].todo)
<1>1. PICK x : x = req[r]
  OBVIOUS
<1>2. RequestOK(x) /\ x.kind = "extend" /\ x.at = "existing" /\ UNCHANGED faults /\ faults \in Nat
  BY <1>1 DEF RequestsInv, ReadExisting, At
<1>3. PICK pool : pool = Markets \ {row.market : row \in {z \in rows : z.scope = x.sim}}
  OBVIOUS
<1>4. PICK todo \in Slices(pool, x.addMarkets) :
          Become(r, With(x, [at |-> IF todo = {} THEN "update" ELSE "row",
                             todo |-> todo, added |-> Cardinality(todo)]))
  BY <1>1, <1>3 DEF ReadExisting
<1>5. todo \subseteq Markets /\ Cardinality(todo) \in Nat
  BY <1>3, <1>4, SetsAssumption, FS_Subset, FS_CardinalityType DEF Slices
<1>6. PICK at, n, l : /\ at = IF todo = {} THEN "update" ELSE "row"
                      /\ n = Cardinality(todo)
                      /\ l = [at |-> at, todo |-> todo, added |-> n]
  OBVIOUS
<1>7. DOMAIN l = {"at", "todo", "added"} /\ l.at = at /\ l.todo = todo /\ l.added = n
  BY <1>6
<1>8. PICK y : y = With(x, l)
  OBVIOUS
<1>9. /\ DOMAIN y = DOMAIN x \union DOMAIN l
      /\ \A field \in DOMAIN l : y[field] = l[field]
      /\ \A field \in DOMAIN x \ DOMAIN l : y[field] = x[field]
  BY <1>8 DEF With
<1>10. y.at = at /\ y.todo = todo /\ y.added = n /\ "todo" \in DOMAIN y
  BY <1>7, <1>9
<1>11. Keeps(x, y)
  BY <1>2, <1>7, <1>9 DEF Keeps, RequestOK, ExtendOK
<1>12. at \in {"row", "update"}
  BY <1>6
<1>13. RequestOK(y) /\ y.sim = x.sim /\ y.minutes = x.minutes /\ y.max = x.max
  BY <1>2, <1>5, <1>6, <1>10, <1>11, <1>12, StillExtends
<1>14. req' = [req EXCEPT ![r] = y]
  BY <1>4, <1>6, <1>8 DEF Become
<1>15. RequestsInv' /\ req'[r] = y /\ \A q \in Requests \ {r} : req'[q] = req[q]
  BY <1>2, <1>13, <1>14, Assigned
<1>16. y.kind = "extend"
  BY <1>2, <1>11 DEF Keeps
<1>17. Turn(r, SimKinds)
  BY <1>1, <1>2, <1>15, <1>16 DEF Turn, SimKinds
<1>. QED
  BY <1>1, <1>2, <1>5, <1>6, <1>10, <1>12, <1>13, <1>15, <1>16, <1>17

----------------------------------------------------------------------------
(* What starts and extensions owe. *)

\* Sets of markets are finite.
LEMMA MarketSets ==
    ASSUME NEW X, X \subseteq Markets
    PROVE  IsFiniteSet(X) /\ Cardinality(X) \in Nat
BY SetsAssumption, FS_Subset, FS_CardinalityType

OwedType(s) ==
    /\ MineOf(s) \subseteq Markets
    /\ Todo(Starting(s)) \subseteq Markets
    /\ Todo(Adding(s)) \subseteq Markets
    /\ AddedOf(s) \subseteq Nat

\* All that is owed are markets.
LEMMA Owing ==
    ASSUME RequestsInv, RowsInv, NEW s \in Sims
    PROVE  OwedType(s)
<1>1. MineOf(s) \subseteq Markets
  BY DEF RowsInv, TableInv, MineOf, RowType
<1>2. \A r \in Starting(s) \union Adding(s) : req[r].todo \subseteq Markets
  <2>1. ASSUME NEW r \in Requests, req[r].kind \in SimKinds, req[r].at \in {"row", "job"}
        PROVE  req[r].todo \subseteq Markets
    <3>1. PICK x : x = req[r]
      OBVIOUS
    <3>2. RequestOK(x)
      BY <3>1 DEF RequestsInv
    <3>. QED
      BY <2>1, <3>1, <3>2 DEF RequestOK, StartOK, ExtendOK, SimKinds
  <2>. QED
    BY <2>1 DEF Starting, Adding, Extending, SimKinds
<1>3. ASSUME NEW r \in Extending(s) PROVE req[r].added \in Nat
  <2>1. PICK x : x = req[r]
    OBVIOUS
  <2>2. RequestOK(x) /\ x.kind = "extend"
    BY <2>1 DEF RequestsInv, Extending
  <2>. QED
    BY <2>1, <2>2 DEF RequestOK, ExtendOK
<1>4. AddedOf(s) \subseteq Nat
  BY <1>3 DEF AddedOf, Counted
<1>. QED
  BY <1>1, <1>2, <1>4 DEF Todo, OwedType

\* Sets of markets that shrink; and a market that goes from one to another.
LEMMA Fits ==
    ASSUME NEW M, NEW S, NEW A, M \subseteq Markets, S \subseteq Markets, A \subseteq Markets,
           NEW M2, NEW S2, NEW A2, M2 \subseteq M, S2 \subseteq S, A2 \subseteq A
    PROVE  Cardinality(M2) + Cardinality(S2) + Cardinality(A2)
              <= Cardinality(M) + Cardinality(S) + Cardinality(A)
<1>1. IsFiniteSet(M) /\ IsFiniteSet(S) /\ IsFiniteSet(A)
  BY MarketSets
<1>2. Cardinality(M2) <= Cardinality(M) /\ Cardinality(S2) <= Cardinality(S) /\ Cardinality(A2) <= Cardinality(A)
  BY <1>1, FS_Subset
<1>3. /\ Cardinality(M) \in Nat /\ Cardinality(S) \in Nat /\ Cardinality(A) \in Nat
      /\ Cardinality(M2) \in Nat /\ Cardinality(S2) \in Nat /\ Cardinality(A2) \in Nat
  BY <1>1, MarketSets
<1>. QED
  BY <1>2, <1>3

\* A market that goes from one set to another leaves the sum.
LEMMA FitsOne ==
    ASSUME NEW M, NEW S, M \subseteq Markets, S \subseteq Markets,
           NEW m \in S, NEW M2, NEW S2, M2 \subseteq M \union {m}, S2 \subseteq S \ {m}
    PROVE  Cardinality(M2) + Cardinality(S2) <= Cardinality(M) + Cardinality(S)
<1>1. IsFiniteSet(M) /\ IsFiniteSet(S) /\ Cardinality(M) \in Nat /\ Cardinality(S) \in Nat
  BY MarketSets
<1>2. Cardinality(S \ {m}) = Cardinality(S) - 1 /\ IsFiniteSet(S \ {m})
  BY <1>1, FS_RemoveElement
<1>3. Cardinality(M \union {m}) <= Cardinality(M) + 1 /\ IsFiniteSet(M \union {m})
  <2>1. /\ IsFiniteSet(M \union {m})
        /\ \/ Cardinality(M \union {m}) = Cardinality(M)
           \/ Cardinality(M \union {m}) = Cardinality(M) + 1
    BY <1>1, FS_AddElement
  <2>. QED
    BY <1>1, <2>1
<1>4. Cardinality(M2) <= Cardinality(M \union {m}) /\ Cardinality(S2) <= Cardinality(S \ {m})
  BY <1>2, <1>3, FS_Subset
<1>5. /\ Cardinality(M2) \in Nat /\ Cardinality(S2) \in Nat
      /\ Cardinality(M \union {m}) \in Nat /\ Cardinality(S \ {m}) \in Nat
  BY MarketSets
<1>. QED
  BY <1>1, <1>2, <1>3, <1>4, <1>5

\* What a simulation counts on: nobody rewrites it unseen.
Unwritten(s) ==
    /\ sims'[s].status = "none" => sims[s].status = "none"
    /\ sims'[s].alone /\ Exists(s)' =>
          /\ sims[s].alone /\ Exists(s)
          /\ sims'[s].minutes = sims[s].minutes /\ sims'[s].bought = sims[s].bought
          /\ sims'[s].max = sims[s].max /\ sims'[s].boughtMax = sims[s].boughtMax
    /\ faults' = 0 => faults = 0

\* A simulation nobody rewrites, and whose handlers ask for no more, is in order.
LEMMA SimKept ==
    ASSUME RequestsInv, RowsInv, NEW s \in Sims, SimOK(s), Unwritten(s),
           Starting(s)' \subseteq Starting(s), Extending(s)' \subseteq Extending(s),
           \A q \in Extending(s)' : req'[q].minutes = req[q].minutes /\ req'[q].max = req[q].max,
           faults' = 0 /\ BoughtOK(s) => AddedOf(s)' \subseteq AddedOf(s) /\ Load(s)' <= Load(s),
           Load(s) \in Nat, Load(s)' \in Nat, sims[s].max \in Nat
    PROVE  SimOK(s)'
<1>1. sims'[s].status = "none" => Starting(s)' \union Extending(s)' = {}
  BY DEF SimOK, Unwritten
<1>2. \A q, r \in Starting(s)' : q = r
  BY DEF SimOK
<1>3. ASSUME sims'[s].alone, Exists(s)'
      PROVE  BoughtOK(s)' /\ (faults' = 0 => OwedOK(s)')
  <2>1. /\ sims[s].alone /\ Exists(s) /\ BoughtOK(s)
        /\ sims'[s].minutes = sims[s].minutes /\ sims'[s].bought = sims[s].bought
        /\ sims'[s].max = sims[s].max /\ sims'[s].boughtMax = sims[s].boughtMax
        /\ faults' = 0 => OwedOK(s)
    BY <1>3 DEF Unwritten, SimOK
  <2>2. BoughtOK(s)'
    BY <2>1 DEF BoughtOK
  <2>3. ASSUME faults' = 0, NEW a \in AddedOf(s)' PROVE Load(s)' <= sims'[s].max + a
    <3>1. a \in AddedOf(s) /\ Load(s)' <= Load(s) /\ Load(s) <= sims[s].max + a
      BY <2>1, <2>3 DEF OwedOK
    <3>2. a \in Nat
      BY <3>1, Owing DEF OwedType
    <3>. QED
      BY <2>1, <3>1, <3>2
  <2>. QED
    BY <2>2, <2>3 DEF OwedOK
<1>. QED
  BY <1>1, <1>2, <1>3 DEF SimOK

\* The same after a step.
LEMMA OwingNext ==
    ASSUME NEW s \in Sims
    PROVE  RequestsInv' /\ RowsInv' => OwedType(s)'
<1>1. RequestsInv /\ RowsInv => OwedType(s)
  BY Owing
<1>. QED
  BY <1>1, PTL

\* Loads are numbers, before a step and after.
LEMMA Loads ==
    ASSUME RequestsInv, RowsInv, RequestsInv', RowsInv', NEW s \in Sims
    PROVE  Load(s) \in Nat /\ Load(s)' \in Nat /\ sims[s].max \in Nat
<1>1. /\ MineOf(s) \subseteq Markets /\ Todo(Starting(s)) \subseteq Markets /\ Todo(Adding(s)) \subseteq Markets
  BY Owing DEF OwedType
<1>2. /\ MineOf(s)' \subseteq Markets /\ Todo(Starting(s))' \subseteq Markets
      /\ Todo(Adding(s))' \subseteq Markets
  BY OwingNext DEF OwedType
<1>3. /\ Cardinality(MineOf(s)) \in Nat /\ Cardinality(Todo(Starting(s))) \in Nat
      /\ Cardinality(Todo(Adding(s))) \in Nat
  BY <1>1, MarketSets
<1>4. PICK M, S, A : M = MineOf(s)' /\ S = Todo(Starting(s))' /\ A = Todo(Adding(s))'
  OBVIOUS
<1>5. Cardinality(M) \in Nat /\ Cardinality(S) \in Nat /\ Cardinality(A) \in Nat
  BY <1>2, <1>4, MarketSets
<1>6. Load(s)' = Cardinality(M) + Cardinality(S) + Cardinality(A)
  BY <1>4 DEF Load
<1>7. sims[s] \in SimType
  BY DEF RowsInv, OwnersInv
<1>. QED
  BY <1>3, <1>5, <1>6, <1>7 DEF Load, SimType

\* A simulation that stays as it is.
LEMMA UnwrittenSame ==
    ASSUME NEW s \in Sims, sims'[s] = sims[s], faults' = 0 => faults = 0
    PROVE  Unwritten(s)
BY SetsAssumption DEF Unwritten, Exists

SettledSets == RequestsInv /\ RequestsInv' /\ RowsInv /\ RowsInv'

\* A simulation whose handlers do not move.
LEMMA Untouched ==
    ASSUME SettledSets, NEW s \in Sims, SimOK(s), Unwritten(s), MineOf(s)' \subseteq MineOf(s),
           \A q \in Requests : q \in Starting(s) \union Extending(s) \/ q \in Starting(s)' \union Extending(s)'
                                  => req'[q] = req[q]
    PROVE  SimOK(s)'
<1>1. Starting(s)' = Starting(s) /\ Extending(s)' = Extending(s)
  BY DEF Starting, Extending
<1>2. \A q \in Starting(s) \union Extending(s) : req'[q] = req[q]
  BY DEF Starting, Extending
<1>3. Adding(s)' = Adding(s) /\ Counted(s)' = Counted(s)
  BY <1>1, <1>2 DEF Adding, Counted
<1>4. Todo(Starting(s))' = Todo(Starting(s))
  BY <1>1, <1>2 DEF Todo
<1>5. Todo(Adding(s))' = Todo(Adding(s))
  BY <1>2, <1>3 DEF Todo, Adding
<1>6. AddedOf(s)' = AddedOf(s)
  BY <1>2, <1>3 DEF AddedOf, Counted
<1>7. Load(s)' <= Load(s)
  <2>1. PICK M, S, A, M2 : M = MineOf(s) /\ S = Todo(Starting(s)) /\ A = Todo(Adding(s)) /\ M2 = MineOf(s)'
    OBVIOUS
  <2>2. M \subseteq Markets /\ S \subseteq Markets /\ A \subseteq Markets
    BY <2>1, Owing DEF SettledSets, OwedType
  <2>3. Cardinality(M2) + Cardinality(S) + Cardinality(A) <= Cardinality(M) + Cardinality(S) + Cardinality(A)
    BY <2>1, <2>2, Fits
  <2>4. Load(s)' = Cardinality(M2) + Cardinality(S) + Cardinality(A)
    BY <1>4, <1>5, <2>1 DEF Load
  <2>. QED
    BY <2>1, <2>3, <2>4 DEF Load
<1>8. Load(s) \in Nat /\ Load(s)' \in Nat /\ sims[s].max \in Nat
  BY Loads DEF SettledSets
<1>. QED
  BY <1>1, <1>2, <1>6, <1>7, <1>8, SimKept DEF SettledSets

\* Requests that are no starts or extensions.
LEMMA SimsUndisturbed ==
    ASSUME SettledSets, SimsInv, Undisturbed(SimKinds), \A s \in Sims : Unwritten(s) /\ MineOf(s)' \subseteq MineOf(s)
    PROVE  SimsInv'
<1>1. ASSUME NEW s \in Sims PROVE SimOK(s)'
  <2>1. \A q \in Requests : q \in Starting(s) \union Extending(s) \/ q \in Starting(s)' \union Extending(s)'
                               => req'[q] = req[q]
    BY DEF Undisturbed, SimKinds, Starting, Extending
  <2>. QED
    BY <2>1, Untouched DEF SimsInv
<1>. QED
  BY <1>1 DEF SimsInv

\* A request that moves and is about no simulation that counts it, or about another.
LEMMA SimsOfOthers ==
    ASSUME SettledSets, NEW s \in Sims, SimOK(s), NEW r \in Requests, \A q \in Requests \ {r} : req'[q] = req[q],
           sims'[s] = sims[s], MineOf(s)' \subseteq MineOf(s), faults' = 0 => faults = 0,
           r \notin Starting(s) \union Extending(s), r \notin Starting(s)' \union Extending(s)'
    PROVE  SimOK(s)'
<1>1. Unwritten(s)
  BY UnwrittenSame
<1>2. \A q \in Requests : q \in Starting(s) \union Extending(s) \/ q \in Starting(s)' \union Extending(s)'
                             => req'[q] = req[q]
  OBVIOUS
<1>. QED
  BY <1>1, <1>2, Untouched

\* Handlers that end with a fault.
LEMMA SimsFail ==
    ASSUME SettledSets, SimsInv, UNCHANGED <<sims, rows>>, faults' # 0,
           \A q \in Requests : req'[q] = req[q] \/ req'[q].kind = "none"
    PROVE  SimsInv'
<1>1. ASSUME NEW s \in Sims PROVE SimOK(s)'
  <2>1. Unwritten(s)
    BY UnwrittenSame
  <2>2. /\ Starting(s)' \subseteq Starting(s) /\ Extending(s)' \subseteq Extending(s)
        /\ \A q \in Extending(s)' : req'[q] = req[q]
    BY DEF Starting, Extending
  <2>3. Load(s) \in Nat /\ Load(s)' \in Nat /\ sims[s].max \in Nat
    BY Loads DEF SettledSets
  <2>. QED
    BY <2>1, <2>2, <2>3, SimKept DEF SettledSets, SimsInv
<1>. QED
  BY <1>1 DEF SimsInv

\* A start owes nothing before its simulation is created.
LEMMA StartSteady ==
    ASSUME SettledSets, SimsInv, NEW r \in Requests, Start(r)
    PROVE  SimsInv'
<1>1. /\ req[r].kind = "none" /\ req'[r].kind = "start" /\ req'[r].at = "pay"
      /\ \A q \in Requests \ {r} : req'[q] = req[q]
  BY StartMoves DEF SettledSets, Turn
<1>2. UNCHANGED <<sims, rows, faults>>
  BY DEF Start
<1>3. ASSUME NEW s \in Sims PROVE SimOK(s)'
  <2>1. r \notin Starting(s) \union Extending(s) /\ r \notin Starting(s)' \union Extending(s)'
    BY <1>1 DEF Starting, Extending
  <2>2. MineOf(s)' = MineOf(s)
    BY <1>2 DEF MineOf
  <2>. QED
    BY <1>1, <1>2, <2>1, <2>2, SimsOfOthers DEF SimsInv
<1>. QED
  BY <1>3 DEF SimsInv

\* An extension that finds none under way has read what the simulation has; where
\* there is one, they overlap.
LEMMA ExtendSteady ==
    ASSUME SettledSets, SimsInv, NEW r \in Requests, Extend(r)
    PROVE  SimsInv'
<1>1. /\ req[r].kind = "none"
      /\ \A q \in Requests \ {r} : req'[q] = req[q]
  BY ExtendMoves DEF SettledSets, Turn
<1>2. PICK s \in Sims :
          /\ req'[r].kind = "extend" /\ req'[r].at = "pay" /\ req'[r].sim = s
          /\ req'[r].minutes = sims[s].minutes /\ req'[r].max = sims[s].max
          /\ sims[s].status = "RUNNING"
          /\ sims' = [sims EXCEPT ![s].alone = @ /\ \A q \in InFlight("extend") : req[q].sim # s]
  BY ExtendMoves DEF SettledSets
<1>3. UNCHANGED <<rows, faults>>
  BY DEF Extend
<1>4. PICK b \in BOOLEAN : b = (sims[s].alone /\ \A q \in InFlight("extend") : req[q].sim # s)
  OBVIOUS
<1>5. sims' = [sims EXCEPT ![s].alone = b] /\ sims \in [Sims -> SimType]
  BY <1>2, <1>4 DEF SettledSets, RowsInv, OwnersInv
<1>6. /\ sims'[s].alone = b
      /\ sims'[s].status = sims[s].status /\ sims'[s].minutes = sims[s].minutes
      /\ sims'[s].max = sims[s].max /\ sims'[s].bought = sims[s].bought
      /\ sims'[s].boughtMax = sims[s].boughtMax
      /\ \A t \in Sims \ {s} : sims'[t] = sims[t]
  BY <1>5, AloneAssigned
<1>7. ASSUME NEW t \in Sims \ {s} PROVE SimOK(t)'
  <2>1. r \notin Starting(t) \union Extending(t) /\ r \notin Starting(t)' \union Extending(t)'
    BY <1>1, <1>2 DEF Starting, Extending
  <2>2. MineOf(t)' = MineOf(t)
    BY <1>3 DEF MineOf
  <2>. QED
    BY <1>1, <1>3, <1>6, <2>1, <2>2, SimsOfOthers DEF SimsInv
<1>8. SimOK(s)'
  <2>1. SimOK(s)
    BY DEF SimsInv
  <2>2. Starting(s)' = Starting(s) /\ \A q \in Starting(s) : req'[q] = req[q]
    BY <1>1, <1>2 DEF Starting
  <2>3. Extending(s)' = Extending(s) \union {r}
    BY <1>1, <1>2 DEF Extending
  <2>4. sims'[s].status = "RUNNING"
    BY <1>2, <1>6
  <2>5. ASSUME sims'[s].alone, Exists(s)' PROVE BoughtOK(s)' /\ (faults' = 0 => OwedOK(s)')
    <3>1. Extending(s) = {} /\ sims[s].alone
      BY <1>4, <1>6, <2>5 DEF Extending, InFlight
    <3>2. Exists(s)
      BY <1>2 DEF Exists
    <3>3. BoughtOK(s) /\ (faults = 0 => OwedOK(s))
      BY <2>1, <3>1, <3>2 DEF SimOK
    <3>4. BoughtOK(s)'
      BY <1>2, <1>6, <2>3, <3>1, <3>3 DEF BoughtOK
    <3>5. Adding(s)' = {} /\ Counted(s)' = {} /\ Adding(s) = {} /\ Counted(s) = {}
      BY <1>2, <2>3, <3>1 DEF Adding, Counted
    <3>6. AddedOf(s)' = AddedOf(s)
      BY <3>5 DEF AddedOf
    <3>7. MineOf(s)' = MineOf(s) /\ Todo(Starting(s))' = Todo(Starting(s)) /\ Todo(Adding(s))' = Todo(Adding(s))
      BY <1>3, <2>2, <3>5 DEF MineOf, Todo
    <3>8. Load(s)' = Load(s)
      BY <3>7 DEF Load
    <3>. QED
      BY <1>3, <1>6, <3>3, <3>4, <3>6, <3>8 DEF OwedOK
  <2>. QED
    BY <2>1, <2>2, <2>4, <2>5 DEF SimOK
<1>. QED
  BY <1>7, <1>8 DEF SimsInv

\* What it owes does not grow: no handler of it is new, and none asks for more.
Kept(s) ==
    /\ Starting(s)' \subseteq Starting(s) /\ Extending(s)' \subseteq Extending(s)
    /\ \A q \in Extending(s)' : req'[q].minutes = req[q].minutes /\ req'[q].max = req[q].max
    /\ faults' = 0 /\ BoughtOK(s) => AddedOf(s)' \subseteq AddedOf(s) /\ Load(s)' <= Load(s)

\* A simulation that is owed no more than before is in order.
LEMMA StillOK ==
    ASSUME SettledSets, NEW s \in Sims, SimOK(s), Unwritten(s), Kept(s)
    PROVE  SimOK(s)'
<1>1. Load(s) \in Nat /\ Load(s)' \in Nat /\ sims[s].max \in Nat
  BY Loads DEF SettledSets
<1>2. RequestsInv /\ RowsInv
  BY DEF SettledSets
<1>. QED
  BY <1>1, <1>2, SimKept DEF Kept

\* Paying, an extension counts nothing yet.
LEMMA PaymentSteady ==
    ASSUME SettledSets, SimsInv, NEW r \in Requests, ReadPurse(r) \/ Transfer(r) \/ ReceiptLost(r)
    PROVE  SimsInv'
<1>1. PaymentMoved(req[r], req'[r]) /\ \A q \in Requests \ {r} : req'[q] = req[q]
  BY PaymentMoves DEF SettledSets, Turn
<1>2. UNCHANGED <<sims, rows>> /\ (faults' = 0 => faults = 0)
  BY FaultCounts DEF ReadPurse, Transfer, ReceiptLost, SettledSets
<1>3. ASSUME NEW s \in Sims PROVE SimOK(s)'
  <2>1. SimOK(s) /\ MineOf(s)' = MineOf(s) /\ Unwritten(s)
    BY <1>2, UnwrittenSame DEF SimsInv, MineOf
  <2>2. CASE r \notin Extending(s)
    <3>1. r \notin Starting(s) \union Extending(s) /\ r \notin Starting(s)' \union Extending(s)'
      BY <1>1, <2>2 DEF Starting, Extending, PaymentMoved
    <3>. QED
      BY <1>1, <1>2, <2>1, <3>1, SimsOfOthers
  <2>3. CASE r \in Extending(s)
    <3>1. Starting(s)' = Starting(s) /\ \A q \in Starting(s) : req'[q] = req[q]
      BY <1>1 DEF Starting, PaymentMoved
    <3>2. /\ Extending(s)' \subseteq Extending(s)
          /\ \A q \in Extending(s)' : req'[q].minutes = req[q].minutes /\ req'[q].max = req[q].max
      BY <1>1, <2>3 DEF Extending, PaymentMoved
    <3>3. ASSUME BoughtOK(s) PROVE AddedOf(s)' \subseteq AddedOf(s) /\ Load(s)' <= Load(s)
      <4>1. \A q \in Extending(s) : q = r
        BY <2>3, <3>3 DEF BoughtOK
      <4>2. Counted(s) = {} /\ Adding(s) = {}
        BY <1>1, <4>1 DEF Counted, Adding, PaymentMoved
      <4>3. Adding(s)' = {} /\ \A q \in Counted(s)' : req'[q].added = 0
        BY <1>1, <3>2, <4>1 DEF Counted, Adding, Extending, PaymentMoved
      <4>4. AddedOf(s)' \subseteq AddedOf(s)
        BY <4>2, <4>3 DEF AddedOf
      <4>5. Todo(Starting(s))' = Todo(Starting(s)) /\ Todo(Adding(s))' = Todo(Adding(s))
        BY <3>1, <4>2, <4>3 DEF Todo
      <4>6. Load(s)' = Load(s) /\ Load(s) \in Nat
        BY <2>1, <4>5, Loads DEF Load, SettledSets
      <4>. QED
        BY <4>4, <4>6
    <3>4. Load(s) \in Nat /\ Load(s)' \in Nat /\ sims[s].max \in Nat
      BY Loads DEF SettledSets
    <3>. QED
      BY <2>1, <3>1, <3>2, <3>3, <3>4, SimKept DEF SettledSets
  <2>. QED
    BY <2>2, <2>3
<1>. QED
  BY <1>3 DEF SimsInv

\* A new simulation has no rows and nobody at work for it.
LEMMA CreationSteady ==
    ASSUME SettledSets, SimsInv, NEW r \in Requests, CreateSimulation(r)
    PROVE  SimsInv'
<1>1. /\ req[r].kind = "start" /\ req[r].at = "create"
      /\ \A q \in Requests \ {r} : req'[q] = req[q]
  BY CreationMoves DEF SettledSets, Turn
<1>2. PICK s \in Sims :
                 /\ sims[s].status = "none" /\ sims'[s].status = "RUNNING"
                 /\ sims' \in [Sims -> SimType]
                 /\ \A t \in Sims \ {s} : sims'[t] = sims[t]
                 /\ sims'[s].max = sims'[s].boughtMax /\ sims'[s].minutes = sims'[s].bought
                 /\ req'[r].kind = "start" /\ req'[r].at = "row" /\ req'[r].sim = s
                 /\ req'[r].todo \subseteq Markets /\ Cardinality(req'[r].todo) <= sims'[s].max
  BY CreationMoves DEF SettledSets
<1>3. UNCHANGED <<rows, faults>>
  BY DEF CreateSimulation
<1>4. ASSUME NEW t \in Sims \ {s} PROVE SimOK(t)'
  <2>1. r \notin Starting(t) \union Extending(t) /\ r \notin Starting(t)' \union Extending(t)'
    BY <1>1, <1>2 DEF Starting, Extending
  <2>2. MineOf(t)' = MineOf(t)
    BY <1>3 DEF MineOf
  <2>. QED
    BY <1>1, <1>2, <1>3, <2>1, <2>2, SimsOfOthers DEF SimsInv
<1>5. SimOK(s)'
  <2>1. Starting(s) = {} /\ Extending(s) = {}
    BY <1>2 DEF SimsInv, SimOK
  <2>2. Starting(s)' = {r} /\ Extending(s)' = {}
    BY <1>1, <1>2, <2>1 DEF Starting, Extending
  <2>3. Adding(s)' = {} /\ Counted(s)' = {} /\ AddedOf(s)' = {0} /\ Todo(Adding(s))' = {}
    BY <2>2 DEF Adding, Counted, AddedOf, Todo
  <2>4. Todo(Starting(s))' = req'[r].todo
    BY <2>2 DEF Todo
  <2>5. ~Exists(s)
    BY <1>2, SetsAssumption DEF Exists
  <2>6. MineOf(s)' = {}
    BY <1>3, <2>5 DEF MineOf, SettledSets, RowsInv, OwnersInv
  <2>7. Load(s)' <= sims'[s].max
    <3>1. PICK T : T = req'[r].todo
      OBVIOUS
    <3>2. Cardinality({}) = 0 /\ Cardinality(T) \in Nat /\ Cardinality(T) <= sims'[s].max
      BY <1>2, <3>1, FS_EmptySet, MarketSets
    <3>3. Load(s)' = Cardinality({}) + Cardinality(T) + Cardinality({})
      BY <2>3, <2>4, <2>6, <3>1 DEF Load
    <3>. QED
      BY <3>2, <3>3
  <2>8. OwedOK(s)'
    <3>1. sims'[s].max \in Nat
      BY <1>2 DEF SimType
    <3>. QED
      BY <2>3, <2>7, <3>1 DEF OwedOK
  <2>9. BoughtOK(s)'
    BY <1>2, <2>2 DEF BoughtOK
  <2>. QED
    BY <1>2, <2>2, <2>8, <2>9 DEF SimOK
<1>. QED
  BY <1>4, <1>5 DEF SimsInv

\* A handler of a batch: what goes from its markets to the rows, or is done.
LEMMA BatchSteady ==
    ASSUME SettledSets, SimsInv, UNCHANGED <<sims, faults>>,
           NEW r \in Requests, \A q \in Requests \ {r} : req'[q] = req[q],
           NEW s \in Sims, req[r].kind \in SimKinds, req[r].sim = s, req[r].at \in {"row", "job"},
           \A t \in Sims \ {s} : MineOf(t)' = MineOf(t),
           \/ req'[r].kind = "none" /\ req[r].kind = "start"
           \/ GoesOn(req[r], req'[r]) /\ req'[r].at \in {"row", "job"}
           \/ GoesOn(req[r], req'[r]) /\ req'[r].at = "update" /\ req[r].kind = "extend",
           \/ MineOf(s)' = MineOf(s) /\ (req'[r].at \in {"row", "job"} => req'[r].todo = req[r].todo)
           \/ /\ req'[r].at \in {"row", "job"} /\ req'[r].kind # "none"
              /\ \E m \in req[r].todo : /\ MineOf(s)' = MineOf(s) \union {m}
                                        /\ req'[r].todo = req[r].todo \ {m}
    PROVE  SimsInv'
<1>1. ASSUME NEW t \in Sims \ {s} PROVE SimOK(t)'
  <2>1. r \notin Starting(t) \union Extending(t) /\ r \notin Starting(t)' \union Extending(t)'
    BY DEF Starting, Extending, GoesOn
  <2>. QED
    BY <1>1, <2>1, SimsOfOthers DEF SimsInv
<1>2. SimOK(s) /\ Unwritten(s) /\ Load(s) \in Nat /\ Load(s)' \in Nat /\ sims[s].max \in Nat
  BY Loads, UnwrittenSame DEF SimsInv, SettledSets
<1>3. PICK M, S, A, M2, S2, A2 : /\ M = MineOf(s) /\ S = Todo(Starting(s)) /\ A = Todo(Adding(s))
                                 /\ M2 = MineOf(s)' /\ S2 = Todo(Starting(s))' /\ A2 = Todo(Adding(s))'
  OBVIOUS
<1>4. M \subseteq Markets /\ S \subseteq Markets /\ A \subseteq Markets
  BY <1>3, Owing DEF SettledSets, OwedType
<1>5. /\ Load(s) = Cardinality(M) + Cardinality(S) + Cardinality(A)
      /\ Load(s)' = Cardinality(M2) + Cardinality(S2) + Cardinality(A2)
  BY <1>3 DEF Load
<1>6. CASE req[r].kind = "start"
  <2>1. /\ Extending(s)' = Extending(s) /\ \A q \in Extending(s) : req'[q] = req[q]
    BY <1>6 DEF Extending, GoesOn
  <2>2. r \in Starting(s) /\ \A q \in Starting(s) : q = r
    BY <1>2, <1>6 DEF SimOK, Starting
  <2>3. Starting(s)' \subseteq {r} /\ Starting(s) = {r}
    BY <2>2 DEF Starting
  <2>4. Adding(s)' = Adding(s) /\ Counted(s)' = Counted(s) /\ AddedOf(s)' = AddedOf(s)
    <3>1. Adding(s)' = Adding(s) /\ Counted(s)' = Counted(s)
      BY <2>1 DEF Adding, Counted
    <3>2. {req'[q].added : q \in Counted(s)} = {req[q].added : q \in Counted(s)}
      BY <2>1 DEF Counted
    <3>3. AddedOf(s)' = AddedOf(s)
      BY <3>1, <3>2 DEF AddedOf
    <3>. QED
      BY <3>1, <3>3
  <2>5. A2 = A
    BY <1>3, <2>1, <2>4 DEF Todo, Adding
  <2>6. S = req[r].todo /\ S2 \subseteq IF r \in Starting(s)' THEN req'[r].todo ELSE {}
    BY <1>3, <2>3 DEF Todo
  <2>7. r \in Starting(s)' => req'[r].at \in {"row", "job"}
    BY DEF Starting
  <2>8. Load(s)' <= Load(s)
    <3>1. CASE M2 = M /\ S2 \subseteq S
      BY <1>4, <1>5, <2>5, <3>1, Fits
    <3>2. CASE \E m \in S : M2 \subseteq M \union {m} /\ S2 \subseteq S \ {m}
      <4>1. Cardinality(M2) + Cardinality(S2) <= Cardinality(M) + Cardinality(S)
        BY <1>4, <3>2, FitsOne
      <4>2. Cardinality(A) \in Nat /\ Cardinality(M) \in Nat /\ Cardinality(S) \in Nat
        BY <1>4, MarketSets
      <4>3. Cardinality(M2) \in Nat /\ Cardinality(S2) \in Nat
        <5>1. M2 \subseteq Markets /\ S2 \subseteq Markets
          BY <1>4, <3>2
        <5>. QED
          BY <5>1, MarketSets
      <4>. QED
        BY <1>5, <2>5, <4>1, <4>2, <4>3
    <3>3. CASE \E m \in req[r].todo : M2 = M \union {m} /\ req'[r].todo = req[r].todo \ {m}
      BY <2>6, <3>2, <3>3
    <3>4. CASE M2 = M /\ (req'[r].at \in {"row", "job"} => req'[r].todo = req[r].todo)
      BY <2>6, <2>7, <3>1, <3>4
    <3>. QED
      BY <1>3, <3>3, <3>4
  <2>9. Starting(s)' \subseteq Starting(s) /\ Extending(s)' \subseteq Extending(s)
    BY <2>1, <2>3
  <2>10. \A q \in Extending(s)' : req'[q].minutes = req[q].minutes /\ req'[q].max = req[q].max
    BY <2>1
  <2>11. faults' = 0 /\ BoughtOK(s) => AddedOf(s)' \subseteq AddedOf(s) /\ Load(s)' <= Load(s)
    BY <2>4, <2>8
  <2>12. Kept(s)
    BY <2>9, <2>10, <2>11 DEF Kept
  <2>13. SimOK(s)'
    BY <1>2, <2>12, StillOK
  <2>. QED
    BY <1>1, <2>13 DEF SimsInv
<1>7. CASE req[r].kind = "extend"
  <2>1. Starting(s)' = Starting(s) /\ \A q \in Starting(s) : req'[q] = req[q]
    BY <1>7 DEF Starting, GoesOn
  <2>2. S2 = S
    BY <1>3, <2>1 DEF Todo
  <2>3. req'[r].kind = "extend" /\ GoesOn(req[r], req'[r])
    BY <1>7 DEF GoesOn
  <2>4. /\ Extending(s)' \subseteq Extending(s) /\ r \in Extending(s)
        /\ \A q \in Extending(s)' : req'[q].minutes = req[q].minutes /\ req'[q].max = req[q].max
                                    /\ req'[q].added = req[q].added
    BY <1>7, <2>3 DEF Extending, GoesOn
  <2>5. ASSUME BoughtOK(s) PROVE AddedOf(s)' \subseteq AddedOf(s) /\ Load(s)' <= Load(s)
    <3>1. Extending(s) = {r} /\ Extending(s)' \subseteq {r}
      BY <2>4, <2>5 DEF BoughtOK
    <3>2. Adding(s) = {r} /\ Counted(s) = {r}
      BY <3>1 DEF Adding, Counted
    <3>3. r \in Extending(s)'
      BY <2>3 DEF Extending, GoesOn
    <3>4. Counted(s)' = {r}
      BY <3>1, <3>3, <1>7 DEF Counted, GoesOn
    <3>5. AddedOf(s)' \subseteq AddedOf(s)
      BY <2>4, <3>2, <3>3, <3>4 DEF AddedOf
    <3>6. Adding(s)' \subseteq {r} /\ (r \in Adding(s)' => req'[r].at \in {"row", "job"})
      BY <3>1 DEF Adding
    <3>7. A = req[r].todo /\ A2 \subseteq IF r \in Adding(s)' THEN req'[r].todo ELSE {}
      BY <1>3, <3>2, <3>6 DEF Todo
    <3>8. Load(s)' <= Load(s)
      <4>1. CASE M2 = M /\ A2 \subseteq A
        BY <1>4, <1>5, <2>2, <4>1, Fits
      <4>2. CASE \E m \in A : M2 \subseteq M \union {m} /\ A2 \subseteq A \ {m}
        <5>1. Cardinality(M2) + Cardinality(A2) <= Cardinality(M) + Cardinality(A)
          BY <1>4, <4>2, FitsOne
        <5>2. Cardinality(A) \in Nat /\ Cardinality(M) \in Nat /\ Cardinality(S) \in Nat
          BY <1>4, MarketSets
        <5>3. Cardinality(M2) \in Nat /\ Cardinality(A2) \in Nat
          <6>1. M2 \subseteq Markets /\ A2 \subseteq Markets
            BY <1>4, <4>2
          <6>. QED
            BY <6>1, MarketSets
        <5>. QED
          BY <1>5, <2>2, <5>1, <5>2, <5>3
      <4>3. CASE \E m \in req[r].todo : M2 = M \union {m} /\ req'[r].todo = req[r].todo \ {m}
        BY <3>7, <4>2, <4>3
      <4>4. CASE M2 = M /\ (req'[r].at \in {"row", "job"} => req'[r].todo = req[r].todo)
        BY <3>6, <3>7, <4>1, <4>4
      <4>. QED
        BY <1>3, <4>3, <4>4
    <3>. QED
      BY <3>5, <3>8
  <2>6. Starting(s)' \subseteq Starting(s) /\ Extending(s)' \subseteq Extending(s)
    BY <2>1, <2>4
  <2>7. \A q \in Extending(s)' : req'[q].minutes = req[q].minutes /\ req'[q].max = req[q].max
    BY <2>4
  <2>8. faults' = 0 /\ BoughtOK(s) => AddedOf(s)' \subseteq AddedOf(s) /\ Load(s)' <= Load(s)
    BY <2>5
  <2>9. Kept(s)
    BY <2>6, <2>7, <2>8 DEF Kept
  <2>10. SimOK(s)'
    BY <1>2, <2>9, StillOK
  <2>. QED
    BY <1>1, <2>10 DEF SimsInv
<1>. QED
  BY <1>6, <1>7 DEF SimKinds

\* A row of a batch goes from its markets to the rows; a simulation whose batch breaks off
\* is no longer alone and counts on nothing.
LEMMA RowSteady ==
    ASSUME SettledSets, SimsInv, DueInv, NEW r \in Requests, CreateRow(r)
    PROVE  SimsInv'
<1>0. RequestsInv /\ RowsInv
  BY DEF SettledSets
<1>1. PICK s \in Sims : /\ req[r].kind \in SimKinds /\ req[r].at = "row" /\ req[r].sim = s
                        /\ req[r].todo \subseteq Markets
                        /\ BreaksOff(r, s) \/ \E m \in req[r].todo : CreatesRow(r, s, m)
  BY <1>0, RowsCreated
<1>2. UNCHANGED faults
  BY DEF CreateRow
<1>3. CASE \E m \in req[r].todo : CreatesRow(r, s, m)
  <2>1. PICK m \in req[r].todo : CreatesRow(r, s, m)
    BY <1>3
  <2>2. /\ \A q \in Requests \ {r} : req'[q] = req[q]
        /\ GoesOn(req[r], req'[r]) /\ req'[r].at = "job" /\ req'[r].todo = req[r].todo \ {m}
    BY <1>0, <2>1, RowMoves DEF Turn
  <2>3. /\ UNCHANGED sims /\ \A t \in Sims \ {s} : MineOf(t)' = MineOf(t)
        /\ MineOf(s)' = MineOf(s) \union {m}
    BY <2>1 DEF CreatesRow
  <2>4. req'[r].kind # "none"
    BY <1>1, <2>2 DEF GoesOn, SimKinds
  <2>. QED
    BY <1>1, <1>2, <2>2, <2>3, <2>4, BatchSteady
<1>4. CASE BreaksOff(r, s)
  <2>1. req'[r].kind = "none" /\ \A q \in Requests \ {r} : req'[q] = req[q]
    BY <1>0, <1>4, AnswerFrees DEF BreaksOff
  <2>2. /\ sims'[s].alone = FALSE /\ sims'[s].status = sims[s].status
        /\ \A t \in Sims \ {s} : sims'[t] = sims[t]
    BY <1>0, <1>4, AloneAssigned DEF BreaksOff, RowsInv, OwnersInv
  <2>3. ASSUME NEW t \in Sims \ {s} PROVE SimOK(t)'
    <3>1. r \notin Starting(t) \union Extending(t) /\ r \notin Starting(t)' \union Extending(t)'
      BY <1>1, <2>1 DEF Starting, Extending
    <3>2. MineOf(t)' = MineOf(t)
      BY <1>4 DEF BreaksOff
    <3>. QED
      BY <1>2, <2>1, <2>2, <3>1, <3>2, SimsOfOthers DEF SimsInv
  <2>4. SimOK(s)'
    <3>1. Starting(s)' \subseteq Starting(s) /\ Extending(s)' \subseteq Extending(s)
      BY <2>1 DEF Starting, Extending
    <3>. QED
      BY <2>2, <3>1 DEF SimsInv, SimOK
  <2>. QED
    BY <2>3, <2>4 DEF SimsInv
<1>. QED
  BY <1>1, <1>3, <1>4

\* A job added changes nothing that is owed.
LEMMA JobSteady ==
    ASSUME SettledSets, SimsInv, NEW r \in Requests, AddJob(r)
    PROVE  SimsInv'
<1>1. JobMoved(req[r], req'[r]) /\ \A q \in Requests \ {r} : req'[q] = req[q]
  BY JobMoves DEF SettledSets, Turn
<1>2. UNCHANGED <<sims, rows, faults>>
  BY DEF AddJob
<1>3. PICK s : s = req[r].sim
  OBVIOUS
<1>4. s \in Sims
  <2>1. PICK x : x = req[r]
    OBVIOUS
  <2>2. RequestOK(x) /\ x.kind \in SimKinds /\ x.at = "job"
    BY <1>1, <2>1 DEF SettledSets, RequestsInv, JobMoved
  <2>. QED
    BY <1>3, <2>1, <2>2 DEF RequestOK, StartOK, ExtendOK, SimKinds
<1>5. \A t \in Sims : MineOf(t)' = MineOf(t)
  BY <1>2 DEF MineOf
<1>6. req[r].kind \in SimKinds /\ req[r].at = "job"
  BY <1>1 DEF JobMoved
<1>7. CASE req'[r].kind = "none" /\ req[r].kind = "start"
  <2>1. SettledSets /\ SimsInv
    OBVIOUS
  <2>2. req'[r].at \in {"row", "job"} => req'[r].todo = req[r].todo
    <3>1. PICK y : y = req'[r]
      OBVIOUS
    <3>2. RequestOK(y) /\ y.kind = "none"
      BY <1>7, <3>1 DEF SettledSets, RequestsInv
    <3>. QED
      BY <3>1, <3>2 DEF RequestOK
  <2>. QED
    BY <1>1, <1>2, <1>3, <1>4, <1>5, <1>6, <1>7, <2>2, BatchSteady
<1>8. CASE GoesOn(req[r], req'[r]) /\ req'[r].at = "row" /\ req'[r].todo = req[r].todo
  BY <1>1, <1>2, <1>3, <1>4, <1>5, <1>6, <1>8, BatchSteady
<1>9. CASE GoesOn(req[r], req'[r]) /\ req'[r].at = "update" /\ req[r].kind = "extend"
  BY <1>1, <1>2, <1>3, <1>4, <1>5, <1>6, <1>9, BatchSteady
<1>. QED
  BY <1>1, <1>7, <1>8, <1>9 DEF JobMoved

\* The markets an extension found are counted with it.
LEMMA ExistingSteady ==
    ASSUME SettledSets, SimsInv, NEW r \in Requests, ReadExisting(r)
    PROVE  SimsInv'
<1>1. /\ \A q \in Requests \ {r} : req'[q] = req[q]
      /\ req[r].kind = "extend" /\ req[r].at = "existing"
      /\ req'[r].kind = "extend" /\ req'[r].sim = req[r].sim
      /\ req'[r].minutes = req[r].minutes /\ req'[r].max = req[r].max
      /\ req'[r].at \in {"row", "update"} /\ req'[r].todo \subseteq Markets
      /\ req'[r].added = Cardinality(req'[r].todo)
  BY ExistingMoves DEF SettledSets, Turn
<1>2. UNCHANGED <<sims, rows, faults>>
  BY DEF ReadExisting
<1>3. ASSUME NEW s \in Sims, r \notin Extending(s) PROVE SimOK(s)'
  <2>1. r \notin Starting(s) \union Extending(s) /\ r \notin Starting(s)' \union Extending(s)'
    BY <1>1, <1>3 DEF Starting, Extending
  <2>2. MineOf(s)' = MineOf(s)
    BY <1>2 DEF MineOf
  <2>. QED
    BY <1>1, <1>2, <2>1, <2>2, SimsOfOthers DEF SimsInv
<1>4. ASSUME NEW s \in Sims, r \in Extending(s) PROVE SimOK(s)'
  <2>1. SimOK(s)
    BY DEF SimsInv
  <2>2. /\ Starting(s)' = Starting(s) /\ Extending(s)' = Extending(s)
        /\ \A q \in Starting(s) : req'[q] = req[q]
        /\ \A q \in Extending(s) : req'[q].minutes = req[q].minutes /\ req'[q].max = req[q].max
    BY <1>1 DEF Starting, Extending
  <2>3. ASSUME sims[s].alone, Exists(s) PROVE BoughtOK(s)' /\ (faults = 0 => OwedOK(s)')
    <3>1. BoughtOK(s) /\ (faults = 0 => OwedOK(s))
      BY <2>1, <2>3 DEF SimOK
    <3>2. BoughtOK(s)'
      BY <1>2, <2>2, <3>1 DEF BoughtOK
    <3>3. Extending(s) = {r}
      BY <1>4, <3>1 DEF BoughtOK
    <3>4. Counted(s) = {} /\ Adding(s) = {} /\ AddedOf(s) = {0}
      BY <1>1, <3>3 DEF Counted, Adding, AddedOf
    <3>5. Counted(s)' = {r}
      BY <1>1, <2>2, <3>3 DEF Counted
    <3>6. AddedOf(s)' = {Cardinality(req'[r].todo)}
      BY <1>1, <3>5 DEF AddedOf
    <3>7. Todo(Starting(s))' = Todo(Starting(s)) /\ MineOf(s)' = MineOf(s)
      BY <1>2, <2>2 DEF Todo, MineOf
    <3>8. Adding(s)' \subseteq {r}
      BY <2>2, <3>3 DEF Adding
    <3>9. PICK M, S, A2, T : M = MineOf(s) /\ S = Todo(Starting(s)) /\ A2 = Todo(Adding(s))' /\ T = req'[r].todo
      OBVIOUS
    <3>10. A2 \subseteq T
      BY <3>8, <3>9 DEF Todo
    <3>11. Todo(Adding(s)) = {} /\ Cardinality({}) = 0
      BY <3>4, FS_EmptySet DEF Todo
    <3>12. M \subseteq Markets /\ S \subseteq Markets /\ T \subseteq Markets
      BY <1>1, <3>9, Owing DEF SettledSets, OwedType
    <3>13. Cardinality(M) + Cardinality(S) + Cardinality(A2) <= Cardinality(M) + Cardinality(S) + Cardinality(T)
      BY <3>10, <3>12, Fits
    <3>14. /\ Load(s)' = Cardinality(M) + Cardinality(S) + Cardinality(A2)
           /\ Load(s) = Cardinality(M) + Cardinality(S) + 0
      BY <3>7, <3>9, <3>11 DEF Load
    <3>15. faults = 0 => Load(s) <= sims[s].max
      <4>1. sims[s].max \in Nat
        BY Loads DEF SettledSets
      <4>. QED
        BY <3>1, <3>4, <4>1 DEF OwedOK
    <3>16. ASSUME faults = 0 PROVE Load(s)' <= sims'[s].max + Cardinality(T)
      <4>1. Cardinality(M) \in Nat /\ Cardinality(S) \in Nat /\ Cardinality(T) \in Nat /\ Cardinality(A2) \in Nat
        BY <3>10, <3>12, MarketSets
      <4>2. sims[s].max \in Nat /\ sims'[s].max = sims[s].max
        BY <1>2, Loads DEF SettledSets
      <4>. QED
        BY <3>13, <3>14, <3>15, <3>16, <4>1, <4>2
    <3>. QED
      BY <3>2, <3>6, <3>9, <3>16 DEF OwedOK
  <2>4. Exists(s)' = Exists(s)
    BY <1>2 DEF Exists
  <2>. QED
    BY <1>2, <2>1, <2>2, <2>3, <2>4 DEF SimOK
<1>. QED
  BY <1>3, <1>4 DEF SimsInv

\* What was added is written to the simulation it was read from.
LEMMA UpdateSteady ==
    ASSUME SettledSets, SimsInv, NEW r \in Requests, UpdateSimulation(r)
    PROVE  SimsInv'
<1>0. RequestsInv /\ RowsInv
  BY DEF SettledSets
<1>1. PICK s \in Sims :
              /\ req[r].kind = "extend" /\ req[r].sim = s /\ req[r].at = "update"
              /\ req[r].added \in Nat /\ req[r].addMinutes \in Nat /\ req[r].max \in Nat /\ req[r].minutes \in Nat
              /\ sims' \in [Sims -> SimType]
              /\ \A t \in Sims \ {s} : sims'[t] = sims[t]
              /\ ~Exists(s) => sims'[s] = sims[s]
              /\ Exists(s) =>
                    /\ sims'[s].status = sims[s].status /\ sims'[s].alone = sims[s].alone
                    /\ sims'[s].minutes = req[r].minutes + req[r].addMinutes
                    /\ sims'[s].bought = sims[s].bought + req[r].addMinutes
                    /\ sims'[s].max = IF req[r].added > 0 THEN req[r].max + req[r].added ELSE sims[s].max
                    /\ sims'[s].boughtMax = sims[s].boughtMax + req[r].added
  BY <1>0, UpdatedSimulation
<1>2. req'[r].kind = "none" /\ \A q \in Requests \ {r} : req'[q] = req[q]
  BY <1>0, AnswerFrees DEF UpdateSimulation
<1>3. UNCHANGED <<rows, faults>>
  BY DEF UpdateSimulation
<1>4. ASSUME NEW t \in Sims \ {s} PROVE SimOK(t)'
  <2>1. r \notin Starting(t) \union Extending(t) /\ r \notin Starting(t)' \union Extending(t)'
    BY <1>1, <1>2 DEF Starting, Extending
  <2>2. MineOf(t)' = MineOf(t)
    BY <1>3 DEF MineOf
  <2>. QED
    BY <1>1, <1>2, <1>3, <2>1, <2>2, SimsOfOthers DEF SimsInv
<1>5. SimOK(s)'
  <2>1. SimOK(s) /\ Exists(s)' = Exists(s) /\ sims'[s].status = sims[s].status
    BY <1>1, SetsAssumption DEF SimsInv, Exists
  <2>2. /\ Starting(s)' = Starting(s) /\ Extending(s)' = Extending(s) \ {r} /\ r \in Extending(s)
        /\ \A q \in Starting(s) : req'[q] = req[q]
    BY <1>1, <1>2 DEF Starting, Extending
  <2>3. ASSUME sims'[s].alone, Exists(s) PROVE BoughtOK(s)' /\ (faults = 0 => OwedOK(s)')
    <3>1. BoughtOK(s) /\ (faults = 0 => OwedOK(s)) /\ sims[s].alone
      BY <1>1, <2>1, <2>3 DEF SimOK
    <3>2. Extending(s) = {r} /\ Extending(s)' = {}
      BY <2>2, <3>1 DEF BoughtOK
    <3>3. sims[s].max \in Nat /\ sims[s].minutes \in Nat /\ sims[s].bought \in Nat /\ sims[s].boughtMax \in Nat
      BY <1>0 DEF RowsInv, OwnersInv, SimType
    <3>4. /\ sims[s].minutes = sims[s].bought /\ sims[s].max = sims[s].boughtMax
          /\ req[r].minutes = sims[s].minutes /\ req[r].max = sims[s].max
      BY <2>2, <3>1 DEF BoughtOK
    <3>5. sims'[s].max = sims[s].max + req[r].added
      BY <1>1, <2>3, <3>3, <3>4
    <3>6. sims'[s].minutes = sims'[s].bought /\ sims'[s].max = sims'[s].boughtMax
      BY <1>1, <2>3, <3>4, <3>5
    <3>7. BoughtOK(s)'
      BY <3>2, <3>6 DEF BoughtOK
    <3>8. Counted(s) = {r} /\ Adding(s) = {} /\ Counted(s)' = {} /\ Adding(s)' = {}
      BY <1>1, <3>2 DEF Counted, Adding
    <3>9. AddedOf(s) = {req[r].added} /\ AddedOf(s)' = {0}
      BY <3>8 DEF AddedOf
    <3>10. MineOf(s)' = MineOf(s) /\ Todo(Starting(s))' = Todo(Starting(s)) /\ Todo(Adding(s))' = Todo(Adding(s))
      BY <1>3, <2>2, <3>8 DEF MineOf, Todo
    <3>11. Load(s)' = Load(s)
      BY <3>10 DEF Load
    <3>12. faults = 0 => Load(s) <= sims[s].max + req[r].added
      BY <3>1, <3>9 DEF OwedOK
    <3>13. faults = 0 => Load(s)' <= sims'[s].max + 0
      BY <1>1, <3>3, <3>5, <3>11, <3>12
    <3>14. faults = 0 => OwedOK(s)'
      BY <3>9, <3>13 DEF OwedOK
    <3>. QED
      BY <3>7, <3>14
  <2>. QED
    BY <1>3, <2>1, <2>2, <2>3 DEF SimOK
<1>. QED
  BY <1>4, <1>5 DEF SimsInv

\* A simulation that is stopped keeps what it was given; one that goes counts on nothing.
LEMMA EndUnwritten ==
    ASSUME RequestsInv, RowsInv, NEW r \in Requests, WriteStop(r) \/ WriteDelete(r)
    PROVE  \A s \in Sims : Unwritten(s)
<1>1. PICK s \in Sims :
              /\ req[r].sim = s
              /\ \A t \in Sims \ {s} : sims'[t] = sims[t]
              /\ ~Exists(s) => sims'[s] = sims[s]
              /\ Exists(s) /\ WriteDelete(r) => sims'[s].status = "gone"
              /\ Exists(s) /\ WriteStop(r) =>
                    /\ sims'[s].status \in Stopped
                    /\ sims'[s].alone = sims[s].alone /\ sims'[s].minutes = sims[s].minutes
                    /\ sims'[s].max = sims[s].max /\ sims'[s].bought = sims[s].bought
                    /\ sims'[s].boughtMax = sims[s].boughtMax
  BY EndedSimulation
<1>2. UNCHANGED faults
  BY DEF WriteStop, WriteDelete
<1>3. \A t \in Sims \ {s} : Unwritten(t)
  BY <1>1, <1>2, UnwrittenSame
<1>4. CASE ~Exists(s)
  BY <1>1, <1>2, <1>3, <1>4, UnwrittenSame
<1>5. CASE Exists(s) /\ WriteDelete(r)
  <2>1. sims'[s].status = "gone" /\ ~Exists(s)'
    BY <1>1, <1>5, SetsAssumption DEF Exists
  <2>2. Unwritten(s)
    BY <1>2, <2>1 DEF Unwritten
  <2>. QED
    BY <1>3, <2>2
<1>6. CASE Exists(s) /\ WriteStop(r)
  <2>1. sims'[s].status # "none"
    BY <1>1, <1>6 DEF Stopped
  <2>2. Unwritten(s)
    BY <1>1, <1>2, <1>6, <2>1 DEF Unwritten
  <2>. QED
    BY <1>3, <2>2
<1>. QED
  BY <1>4, <1>5, <1>6

----------------------------------------------------------------------------
(* The invariant holds at first and is kept by every step. *)

\* The loops, and what stopped simulations got, where no loop moves and simulations go
\* their way.
LEMMA LoopsKept ==
    ASSUME LoopsInv, LateInv, UNCHANGED <<loops, late, world>>, \A s \in Sims : StatusStep(s)
    PROVE  LoopsInv' /\ LateInv'
<1>1. LoopsInv'
  BY DEF LoopsInv
<1>. QED
  BY <1>1, LateRequests

\* Simulations that are not written.
LEMMA StatusSame ==
    ASSUME RowsInv, UNCHANGED sims
    PROVE  /\ sims' \in [Sims -> SimType]
           /\ \A s \in Sims : StatusStep(s) /\ (sims'[s].status = "gone" => sims[s].status = "gone")
BY DEF RowsInv, OwnersInv, StatusStep

\* Jobs that repeat: the one that is added takes the place of its market's.
LEMMA RepeatingKept ==
    ASSUME JobsInv, NEW r \in Requests, AddRepeating(r), UNCHANGED purse
    PROVE  JobsInv'
<1>1. PICK job, same : job = req[r].job /\ same = {j \in repeating : j.market = job.market}
  OBVIOUS
<1>2. \/ repeating' = (repeating \ same) \union {job}
      \/ UNCHANGED repeating
  BY <1>1 DEF AddRepeating
<1>. QED
  BY <1>1, <1>2 DEF JobsInv

\* The enqueue routes and trigger-all keep the invariant.
LEMMA EnqueueKeeps ==
    ASSUME Inv, NEW r \in Requests, EnqueueArrives(r) \/ EnqueueStep(r), UNCHANGED <<purse, fundVars>>
    PROVE  Inv'
<1>1. /\ RequestsInv /\ RowsInv /\ LoopsInv /\ LateInv
      /\ DueInv /\ SimsInv /\ FundInv /\ JobsInv
  BY DEF Inv
<1>2. RequestsInv' /\ Turn(r, EnqueueKinds)
  BY <1>1, EnqueueMoves
<1>3. UNCHANGED <<sims, loops, late, world, faults>>
  BY DEF EnqueueArrives, EnqueueStep, Enqueue, Unenqueue, Trigger, TriggerAll, AddRepeating, FindRow,
         WriteRow, AddNow, Discover, FindDue, enqueueSame
<1>4. /\ sims' \in [Sims -> SimType]
      /\ \A s \in Sims : StatusStep(s) /\ (sims'[s].status = "gone" => sims[s].status = "gone")
  BY <1>1, <1>3, StatusSame
<1>5. LoopsInv' /\ LateInv'
  BY <1>1, <1>3, <1>4, LoopsKept
<1>6. RowsInv' /\ DueInv' /\ \A t : MineOf(t)' \subseteq MineOf(t)
  <2>1. CASE WriteRow(r)
    BY <1>1, <2>1, WroteRow
  <2>2. CASE Unenqueue(r)
    BY <1>1, <2>2, UnenqueuedRows
  <2>3. CASE ~WriteRow(r) /\ ~Unenqueue(r)
    <3>1. UNCHANGED <<rows, made>>
      BY <2>3 DEF EnqueueArrives, EnqueueStep, Enqueue, Trigger, TriggerAll, AddRepeating, FindRow,
                  AddNow, Discover, FindDue
    <3>2. RowsInv' /\ DueInv' /\ \A t : MineOf(t)' = MineOf(t)
      BY <1>1, <1>3, <1>4, <3>1, SameRows
    <3>. QED
      BY <3>2
  <2>. QED
    BY <2>1, <2>2, <2>3
<1>7. SimsInv'
  <2>1. Undisturbed(SimKinds)
    BY <1>2, TurnUndisturbs DEF EnqueueKinds, SimKinds
  <2>2. \A s \in Sims : Unwritten(s)
    BY <1>3, UnwrittenSame
  <2>3. SettledSets
    BY <1>1, <1>2, <1>6 DEF SettledSets
  <2>. QED
    BY <1>1, <1>6, <2>1, <2>2, <2>3, SimsUndisturbed
<1>8. FundInv'
  <2>1. Undisturbed({"fund"})
    BY <1>2, TurnUndisturbs DEF EnqueueKinds
  <2>. QED
    BY <1>1, <2>1, FundFrame
<1>9. JobsInv'
  <2>1. CASE AddRepeating(r)
    BY <1>1, <2>1, RepeatingKept
  <2>2. CASE ~AddRepeating(r)
    <3>1. UNCHANGED repeating
      BY <2>2 DEF EnqueueArrives, EnqueueStep, Enqueue, Unenqueue, Trigger, TriggerAll, FindRow,
                  WriteRow, AddNow, Discover, FindDue
    <3>. QED
      BY <1>1, <3>1 DEF JobsInv
  <2>. QED
    BY <2>1, <2>2
<1>. QED
  BY <1>2, <1>5, <1>6, <1>7, <1>8, <1>9 DEF Inv

\* Starts and extensions.
SimSteps(r) ==
    \/ Start(r) \/ Extend(r) \/ ReadPurse(r) \/ Transfer(r) \/ ReceiptLost(r) \/ CreateSimulation(r)
    \/ CreateRow(r) \/ AddJob(r) \/ ReadExisting(r) \/ UpdateSimulation(r)

\* Starts and extensions move only themselves.
LEMMA SimMoves ==
    ASSUME RequestsInv, RowsInv, DueInv, NEW r \in Requests, SimSteps(r)
    PROVE  RequestsInv' /\ Turn(r, SimKinds)
<1>1. CASE Start(r) \/ Extend(r)
  BY <1>1, StartMoves, ExtendMoves
<1>2. CASE ReadPurse(r) \/ Transfer(r) \/ ReceiptLost(r)
  BY <1>2, PaymentMoves
<1>3. CASE CreateSimulation(r) \/ AddJob(r) \/ ReadExisting(r)
  BY <1>3, CreationMoves, JobMoves, ExistingMoves
<1>4. CASE CreateRow(r)
  <2>1. PICK s \in Sims : /\ req[r].kind \in SimKinds
                          /\ BreaksOff(r, s) \/ \E m \in req[r].todo : CreatesRow(r, s, m)
    BY <1>4, RowsCreated
  <2>2. CASE BreaksOff(r, s)
    <3>1. faults' \in Nat /\ Answer(r)
      BY <1>4, <2>2 DEF CreateRow, RequestsInv, BreaksOff
    <3>2. RequestsInv' /\ req'[r].kind = "none" /\ \A q \in Requests \ {r} : req'[q] = req[q]
      BY <3>1, AnswerFrees
    <3>. QED
      BY <2>1, <3>2 DEF Turn
  <2>3. CASE \E m \in req[r].todo : CreatesRow(r, s, m)
    BY <1>4, <2>3, RowMoves
  <2>. QED
    BY <2>1, <2>2, <2>3
<1>5. CASE UpdateSimulation(r)
  <2>1. faults' \in Nat /\ Answer(r) /\ req[r].kind = "extend"
    BY <1>5 DEF UpdateSimulation, RequestsInv, At
  <2>2. RequestsInv' /\ req'[r].kind = "none" /\ \A q \in Requests \ {r} : req'[q] = req[q]
    BY <2>1, AnswerFrees
  <2>. QED
    BY <2>1, <2>2 DEF Turn, SimKinds
<1>. QED
  BY <1>1, <1>2, <1>3, <1>4, <1>5 DEF SimSteps

\* Starts and extensions keep the invariant.
LEMMA SimStepKeeps ==
    ASSUME Inv, NEW r \in Requests, SimSteps(r)
    PROVE  Inv'
<1>1. /\ RequestsInv /\ RowsInv /\ LoopsInv /\ LateInv
      /\ DueInv /\ SimsInv /\ FundInv /\ JobsInv
  BY DEF Inv
<1>2. RequestsInv' /\ Turn(r, SimKinds)
  BY <1>1, SimMoves
<1>3. UNCHANGED <<loops, late, world, fundVars, repeating>>
  BY DEF SimSteps, Start, Extend, ReadPurse, Transfer, ReceiptLost, CreateSimulation, CreateRow, AddJob,
         ReadExisting, UpdateSimulation, workSame
<1>4. /\ sims' \in [Sims -> SimType]
      /\ \A s \in Sims : StatusStep(s) /\ (sims'[s].status = "gone" => sims[s].status = "gone")
  <2>1. CASE CreateSimulation(r) \/ CreateRow(r) \/ Extend(r) \/ UpdateSimulation(r)
    <3>1. sims' \in [Sims -> SimType] /\ \A s \in Sims : StatusStep(s)
      BY <1>1, <2>1, Statuses DEF SimWriters
    <3>2. CASE CreateSimulation(r)
      BY <1>1, <3>1, <3>2, CreatedSimulation
    <3>3. CASE UpdateSimulation(r)
      BY <1>1, <3>1, <3>3, UpdatedSimulation
    <3>4. CASE Extend(r)
      <4>1. PICK s \in Sims : /\ sims[s].status = "RUNNING"
                              /\ sims' = [sims EXCEPT ![s].alone =
                                             @ /\ \A q \in InFlight("extend") : req[q].sim # s]
        BY <1>1, <3>4, ExtendMoves
      <4>2. PICK b \in BOOLEAN : b = (sims[s].alone /\ \A q \in InFlight("extend") : req[q].sim # s)
        OBVIOUS
      <4>3. sims' = [sims EXCEPT ![s].alone = b] /\ sims \in [Sims -> SimType]
        BY <1>1, <4>1, <4>2 DEF RowsInv, OwnersInv
      <4>. QED
        BY <3>1, <4>3, AloneAssigned
    <3>5. CASE CreateRow(r)
      <4>1. PICK s \in Sims : UNCHANGED sims \/ sims' = [sims EXCEPT ![s].alone = FALSE]
        BY <1>1, <3>5, RowsCreated DEF BreaksOff, CreatesRow
      <4>. QED
        BY <1>1, <3>1, <4>1, AloneAssigned DEF RowsInv, OwnersInv
    <3>. QED
      BY <2>1, <3>2, <3>3, <3>4, <3>5
  <2>2. CASE UNCHANGED sims
    BY <1>1, <2>2, StatusSame
  <2>. QED
    BY <2>1, <2>2 DEF SimSteps, Start, ReadPurse, Transfer, ReceiptLost, AddJob, ReadExisting
<1>5. LoopsInv' /\ LateInv'
  BY <1>1, <1>3, <1>4, LoopsKept
<1>6. RowsInv' /\ DueInv'
  <2>1. CASE CreateRow(r)
    BY <1>1, <2>1, RowsCreated
  <2>2. CASE ~CreateRow(r)
    <3>1. UNCHANGED <<rows, made>>
      BY <2>2 DEF SimSteps, Start, Extend, ReadPurse, Transfer, ReceiptLost, CreateSimulation, AddJob,
                  ReadExisting, UpdateSimulation
    <3>. QED
      BY <1>1, <1>3, <1>4, <3>1, SameRows
  <2>. QED
    BY <2>1, <2>2
<1>7. SimsInv'
  <2>1. SettledSets
    BY <1>1, <1>2, <1>6 DEF SettledSets
  <2>2. CASE Start(r) \/ Extend(r)
    BY <1>1, <2>1, <2>2, StartSteady, ExtendSteady
  <2>3. CASE ReadPurse(r) \/ Transfer(r) \/ ReceiptLost(r)
    BY <1>1, <2>1, <2>3, PaymentSteady
  <2>4. CASE CreateSimulation(r) \/ AddJob(r)
    BY <1>1, <2>1, <2>4, CreationSteady, JobSteady
  <2>5. CASE ReadExisting(r) \/ UpdateSimulation(r)
    BY <1>1, <2>1, <2>5, ExistingSteady, UpdateSteady
  <2>6. CASE CreateRow(r)
    BY <1>1, <2>1, <2>6, RowSteady
  <2>. QED
    BY <2>2, <2>3, <2>4, <2>5, <2>6 DEF SimSteps
<1>8. FundInv'
  <2>1. Undisturbed({"fund"})
    BY <1>2, TurnUndisturbs DEF SimKinds
  <2>. QED
    BY <1>1, <1>3, <2>1, FundFrame
<1>9. JobsInv'
  <2>1. purse' \in Nat
    <3>1. CASE purse > 0 /\ purse' = purse - 1
      BY <1>1, <3>1 DEF JobsInv
    <3>2. CASE UNCHANGED purse
      BY <1>1, <3>2 DEF JobsInv
    <3>. QED
      BY <3>1, <3>2 DEF SimSteps, Start, Extend, ReadPurse, Transfer, ReceiptLost, CreateSimulation,
                        CreateRow, AddJob, ReadExisting, UpdateSimulation
  <2>. QED
    BY <1>1, <1>3, <2>1 DEF JobsInv
<1>. QED
  BY <1>2, <1>5, <1>6, <1>7, <1>8, <1>9 DEF Inv

\* Stops and deletions keep it.
LEMMA EndKeeps ==
    ASSUME Inv, NEW r \in Requests, Stop(r) \/ Delete(r) \/ WriteStop(r) \/ WriteDelete(r)
    PROVE  Inv'
<1>1. /\ RequestsInv /\ RowsInv /\ LoopsInv /\ LateInv
      /\ DueInv /\ SimsInv /\ FundInv /\ JobsInv
  BY DEF Inv
<1>2. RequestsInv' /\ Turn(r, EndKinds)
  BY <1>1, EndMoves
<1>3. UNCHANGED <<made, loops, late, world, fundVars, repeating, purse, faults>>
  BY DEF Stop, Delete, WriteStop, WriteDelete, workSame
<1>4. sims' \in [Sims -> SimType] /\ \A s \in Sims : StatusStep(s)
  <2>1. CASE WriteStop(r) \/ WriteDelete(r)
    BY <1>1, <2>1, Statuses DEF SimWriters
  <2>2. CASE UNCHANGED sims
    BY <1>1, <2>2, StatusSame
  <2>. QED
    BY <2>1, <2>2 DEF Stop, Delete
<1>5. LoopsInv' /\ LateInv'
  BY <1>1, <1>3, <1>4, LoopsKept
<1>6. RowsInv' /\ DueInv' /\ \A t : MineOf(t)' \subseteq MineOf(t)
  <2>1. CASE WriteDelete(r)
    BY <1>1, <2>1, DeletedRows
  <2>2. CASE WriteStop(r)
    <3>1. \A s \in Sims : sims'[s].status = "gone" => sims[s].status = "gone"
      <4>1. PICK s \in Sims :
                /\ \A t \in Sims \ {s} : sims'[t] = sims[t]
                /\ ~Exists(s) => sims'[s] = sims[s]
                /\ Exists(s) => sims'[s].status \in Stopped
        BY <1>1, <2>2, EndedSimulation
      <4>. QED
        BY <4>1 DEF Stopped
    <3>2. UNCHANGED rows
      BY <2>2 DEF WriteStop
    <3>3. RowsInv' /\ DueInv' /\ \A t : MineOf(t)' = MineOf(t)
      BY <1>1, <1>3, <1>4, <3>1, <3>2, SameRows
    <3>. QED
      BY <3>3
  <2>3. CASE UNCHANGED <<rows, sims>>
    <3>1. /\ sims' \in [Sims -> SimType]
          /\ \A s \in Sims : StatusStep(s) /\ (sims'[s].status = "gone" => sims[s].status = "gone")
      BY <1>1, <2>3, StatusSame
    <3>2. RowsInv' /\ DueInv' /\ \A t : MineOf(t)' = MineOf(t)
      BY <1>1, <1>3, <2>3, <3>1, SameRows
    <3>. QED
      BY <3>2
  <2>. QED
    BY <2>1, <2>2, <2>3 DEF Stop, Delete
<1>7. SimsInv'
  <2>1. Undisturbed(SimKinds)
    BY <1>2, TurnUndisturbs DEF EndKinds, SimKinds
  <2>2. \A s \in Sims : Unwritten(s)
    <3>1. CASE WriteStop(r) \/ WriteDelete(r)
      BY <1>1, <3>1, EndUnwritten
    <3>2. CASE UNCHANGED sims
      BY <1>3, <3>2, UnwrittenSame
    <3>. QED
      BY <3>1, <3>2 DEF Stop, Delete
  <2>3. SettledSets
    BY <1>1, <1>2, <1>6 DEF SettledSets
  <2>. QED
    BY <1>1, <1>6, <2>1, <2>2, <2>3, SimsUndisturbed
<1>8. FundInv'
  <2>1. Undisturbed({"fund"})
    BY <1>2, TurnUndisturbs DEF EndKinds
  <2>. QED
    BY <1>1, <1>3, <2>1, FundFrame
<1>9. JobsInv'
  BY <1>1, <1>3 DEF JobsInv
<1>. QED
  BY <1>2, <1>5, <1>6, <1>7, <1>8, <1>9 DEF Inv

\* Where rows, simulations and loops stay: what is left to see are the requests and the
\* fundings.
LEMMA ElsewhereKeeps ==
    ASSUME Inv, RequestsInv', FundInv', UNCHANGED <<rows, made, sims, loops, late, world, repeating, purse>>,
           \/ Undisturbed(SimKinds) /\ (faults' = 0 => faults = 0)
           \/ faults' # 0 /\ \A q \in Requests : req'[q] = req[q] \/ req'[q].kind = "none"
    PROVE  Inv'
<1>1. /\ RequestsInv /\ RowsInv /\ LoopsInv /\ LateInv
      /\ DueInv /\ SimsInv /\ FundInv /\ JobsInv
  BY DEF Inv
<1>2. /\ sims' \in [Sims -> SimType]
      /\ \A s \in Sims : StatusStep(s) /\ (sims'[s].status = "gone" => sims[s].status = "gone")
  BY <1>1, StatusSame
<1>3. LoopsInv' /\ LateInv'
  BY <1>1, <1>2, LoopsKept
<1>4. RowsInv' /\ DueInv' /\ \A t : MineOf(t)' = MineOf(t)
  BY <1>1, <1>2, SameRows
<1>5. SettledSets
  BY <1>1, <1>4 DEF SettledSets
<1>6. CASE Undisturbed(SimKinds) /\ (faults' = 0 => faults = 0)
  <2>1. \A s \in Sims : Unwritten(s) /\ MineOf(s)' \subseteq MineOf(s)
    BY <1>4, <1>6, UnwrittenSame
  <2>2. SimsInv'
    BY <1>1, <1>5, <1>6, <2>1, SimsUndisturbed
  <2>. QED
    BY <1>1, <1>3, <1>4, <2>2 DEF Inv, JobsInv
<1>7. CASE faults' # 0 /\ \A q \in Requests : req'[q] = req[q] \/ req'[q].kind = "none"
  <2>1. SimsInv'
    BY <1>1, <1>5, <1>7, SimsFail
  <2>. QED
    BY <1>1, <1>3, <1>4, <2>1 DEF Inv, JobsInv
<1>. QED
  BY <1>6, <1>7

\* Fundings and readings of the balance keep it.
LEMMA FundKeeps ==
    ASSUME Inv, NEW r \in Requests, FundSteps(r)
    PROVE  Inv'
<1>1. RequestsInv /\ FundInv
  BY DEF Inv
<1>2. RequestsInv' /\ Turn(r, FundKinds) /\ FundInv'
  BY <1>1, FundMoves, FundSteady
<1>3. UNCHANGED fundSame /\ (faults' = 0 => faults = 0)
  BY <1>1, FaultCounts DEF FundSteps, Fund, ReadLast, FundWallet, FundingFails, WriteLast,
                           WriteFunded, ReadBalance, WriteBalance, Rejects
<1>4. Undisturbed(SimKinds)
  BY <1>2, TurnUndisturbs DEF FundKinds, SimKinds
<1>5. UNCHANGED <<rows, made, sims, loops, late, world, repeating, purse>>
  BY <1>3 DEF fundSame
<1>. QED
  BY <1>2, <1>3, <1>4, <1>5, ElsewhereKeeps

\* Requests that fail keep it.
LEMMA FailsKeeps ==
    ASSUME Inv, NEW r \in Requests, RequestFails(r)
    PROVE  Inv'
<1>1. RequestsInv /\ FundInv
  BY DEF Inv
<1>2. /\ RequestsInv' /\ faults' # 0 /\ FundInv'
      /\ \A q \in Requests : req'[q] = req[q] \/ req'[q].kind = "none"
  BY <1>1, FailureMoves, FundElsewhere
<1>3. UNCHANGED <<rows, made, sims, loops, late, world, repeating, purse>>
  BY DEF RequestFails, loopVars
<1>. QED
  BY <1>2, <1>3, ElsewhereKeeps

\* A restart leaves no request.
LEMMA RestartKeeps ==
    ASSUME Inv, ServerRestart
    PROVE  Inv'
<1>1. RequestsInv /\ FundInv
  BY DEF Inv
<1>2. faults' \in Nat /\ faults' # 0
  BY <1>1, FaultCounts DEF ServerRestart
<1>3. PICK y : y = Free
  OBVIOUS
<1>4. y.kind = "none" /\ y.at = "none" /\ DOMAIN y = {"kind", "at"}
  BY <1>3 DEF Free
<1>5. DOMAIN req' = Requests /\ \A q \in Requests : req'[q] = y
  BY <1>3 DEF ServerRestart
<1>6. RequestOK(y)
  BY <1>4 DEF RequestOK
<1>7. RequestsInv'
  BY <1>2, <1>5, <1>6 DEF RequestsInv
<1>8. UNCHANGED <<rows, made, sims, loops, late, world, repeating, purse>>
  BY DEF ServerRestart, fundSame
<1>9. FundInv'
  BY <1>1, FundElsewhere
<1>. QED
  BY <1>2, <1>4, <1>5, <1>7, <1>8, <1>9, ElsewhereKeeps

\* What the worker does, and the rows that fall due.
LEMMA WorldKeeps ==
    ASSUME Inv, UNCHANGED <<req, purse, fundVars>>,
           \/ \E l \in Loops : WorkerStep(l) \/ WorkerFails(l)
           \/ WorkerCrash
           \/ FallsDue /\ UNCHANGED handlerVars
    PROVE  Inv'
<1>1. /\ RequestsInv /\ RowsInv /\ LoopsInv /\ LateInv
      /\ DueInv /\ SimsInv /\ FundInv /\ JobsInv
  BY DEF Inv
<1>2. faults' \in Nat /\ (faults' = 0 => faults = 0)
  <2>1. CASE Fault
    BY <1>1, <2>1, FaultCounts
  <2>2. CASE UNCHANGED handlerVars
    BY <1>1, <2>2 DEF handlerVars, RequestsInv
  <2>. QED
    BY <2>1, <2>2 DEF WorkerStep, WorkerFails, PlaceFails, JobFails, WorkerCrash
<1>3. RequestsInv'
  BY <1>1, <1>2 DEF RequestsInv
<1>4. /\ RowsInv' /\ LoopsInv' /\ LateInv' /\ DueInv' /\ \A t : MineOf(t)' = MineOf(t)
      /\ UNCHANGED <<sims, repeating>>
  <2>1. ASSUME NEW l \in Loops, WorkerStep(l) \/ WorkerFails(l)
        PROVE  /\ RowsInv' /\ LoopsInv' /\ LateInv' /\ DueInv' /\ \A t : MineOf(t)' = MineOf(t)
               /\ UNCHANGED <<sims, repeating>>
    <3>1. LoopStep(l) \/ PlaceFails(l) \/ JobFails(l)
      BY <2>1 DEF WorkerStep, WorkerFails
    <3>. QED
      BY <1>1, <3>1, WorkerMoves
  <2>2. CASE WorkerCrash
    BY <1>1, <2>2, CrashMoves
  <2>3. CASE FallsDue
    <3>1. RowsInv' /\ DueInv' /\ \A t : MineOf(t)' = MineOf(t)
      BY <1>1, <2>3, DueRows
    <3>2. UNCHANGED <<sims, loops, late, world, repeating>>
      BY <2>3 DEF FallsDue
    <3>3. \A s \in Sims : StatusStep(s)
      BY <3>2 DEF StatusStep
    <3>. QED
      BY <1>1, <3>1, <3>2, <3>3, LoopsKept
  <2>. QED
    BY <2>1, <2>2, <2>3
<1>5. SimsInv'
  <2>1. Undisturbed(SimKinds)
    BY DEF Undisturbed
  <2>2. \A s \in Sims : Unwritten(s) /\ MineOf(s)' \subseteq MineOf(s)
    BY <1>2, <1>4, UnwrittenSame
  <2>3. SettledSets
    BY <1>1, <1>3, <1>4 DEF SettledSets
  <2>. QED
    BY <1>1, <2>1, <2>2, <2>3, SimsUndisturbed
<1>6. FundInv'
  <2>1. Undisturbed({"fund"})
    BY DEF Undisturbed
  <2>. QED
    BY <1>1, <2>1, FundFrame
<1>7. JobsInv'
  BY <1>1, <1>4 DEF JobsInv
<1>. QED
  BY <1>3, <1>4, <1>5, <1>6, <1>7 DEF Inv

\* A job is added again, a week goes by, a stray call is carried out, or nothing happens.
LEMMA QuietKeeps ==
    ASSUME Inv,
           \/ Repeat /\ UNCHANGED <<handlerVars, purse, fundVars>>
           \/ WeekPasses \/ StrayCall
           \/ UNCHANGED vars
    PROVE  Inv'
<1>1. RequestsInv /\ FundInv
  BY DEF Inv
<1>2. UNCHANGED handlerVars /\ UNCHANGED <<rows, made, sims, loops, late, world, repeating, purse>>
  BY DEF Repeat, WeekPasses, StrayCall, fundSame, vars, loopVars
<1>3. RequestsInv'
  BY <1>1, <1>2 DEF RequestsInv, handlerVars
<1>4. Undisturbed(SimKinds) /\ Undisturbed({"fund"}) /\ UNCHANGED faults
  BY <1>2 DEF Undisturbed, handlerVars
<1>5. FundInv'
  <2>1. CASE WeekPasses \/ StrayCall
    BY <1>1, <2>1, FundElsewhere
  <2>2. CASE UNCHANGED fundVars
    BY <1>1, <1>4, <2>2, FundFrame
  <2>. QED
    BY <2>1, <2>2 DEF vars
<1>. QED
  BY <1>2, <1>3, <1>4, <1>5, ElsewhereKeeps

\* The invariant holds at first.
LEMMA InvFirst ==
    ASSUME Init
    PROVE  Inv
<1>1. PICK y : y = Free
  OBVIOUS
<1>2. y.kind = "none" /\ y.at = "none" /\ DOMAIN y = {"kind", "at"}
  BY <1>1 DEF Free
<1>3. DOMAIN req = Requests /\ \A q \in Requests : req[q] = y
  BY <1>1 DEF Init, HandlersInit
<1>4. RequestOK(y)
  BY <1>2 DEF RequestOK
<1>5. RequestsInv
  BY <1>3, <1>4 DEF RequestsInv, Init, HandlersInit
<1>6. PICK z : z = NoSim
  OBVIOUS
<1>7. /\ z \in SimType /\ z.status = "none" /\ z.alone = TRUE
      /\ sims \in [Sims -> SimType] /\ \A s \in Sims : sims[s] = z
  BY <1>6 DEF NoSim, SimType, Init
<1>8. RowsInv
  BY <1>7 DEF RowsInv, TableInv, OwnersInv, Init
<1>9. PICK x : x = Idle
  OBVIOUS
<1>10. x.at = "idle" /\ "at" \in DOMAIN x /\ DOMAIN loops = Loops /\ \A l \in Loops : loops[l] = x
  BY <1>9 DEF Idle, Init
<1>11. world.loops \subseteq Loops /\ world.open \subseteq Markets
  <2>1. traffic \in Traffics /\ world \in Worlds(traffic)
    BY DEF Init, HandlersInit
  <2>2. world \in [active : BOOLEAN, wallet : BOOLEAN, open : SUBSET Markets,
                   balance : [Chains -> Nat \union {NoRow}], ticks : Nat, loops : SUBSET Loops]
    BY <2>1, WorldAssumption
  <2>. QED
    BY <2>2
<1>12. LoopsInv
  BY <1>10, <1>11 DEF LoopsInv, LoopPlaces
<1>13. LateInv
  <2>1. ASSUME NEW s \in Sims PROVE LateOK(s)
    <3>1. late[s] = 0 /\ sims[s].status = "none" /\ Cardinality(world.loops) \in Nat
      BY <1>7, <1>12, LoopsCounted DEF Init
    <3>. QED
      BY <3>1 DEF LateOK, Stopped
  <2>. QED
    BY <2>1 DEF LateInv, Init
<1>14. DueInv
  BY DEF DueInv, Init
<1>15. SimsInv
  <2>1. ASSUME NEW s \in Sims PROVE SimOK(s)
    <3>1. Starting(s) = {} /\ Extending(s) = {}
      BY <1>2, <1>3 DEF Starting, Extending
    <3>2. ~Exists(s)
      BY <1>7, SetsAssumption DEF Exists
    <3>. QED
      BY <3>1, <3>2 DEF SimOK
  <2>. QED
    BY <2>1 DEF SimsInv
<1>16. FundInv
  BY DEF FundInv, Init
<1>17. JobsInv
  BY SimulationAssumption DEF JobsInv, Init
<1>. QED
  BY <1>5, <1>8, <1>12, <1>13, <1>14, <1>15, <1>16, <1>17 DEF Inv

\* Every step keeps the invariant.
LEMMA InvNext ==
    ASSUME Inv, [Next]_vars
    PROVE  Inv'
<1>1. ASSUME NEW r \in Requests, Arrives(r) \/ SimulationStep(r) \/ RequestFails(r) \/ ReceiptLost(r)
                                  \/ FundingFails(r)
      PROVE  Inv'
  <2>1. CASE (EnqueueArrives(r) \/ EnqueueStep(r)) /\ UNCHANGED <<purse, fundVars>>
    BY <2>1, EnqueueKeeps
  <2>2. CASE SimSteps(r)
    BY <2>2, SimStepKeeps
  <2>3. CASE Stop(r) \/ Delete(r) \/ WriteStop(r) \/ WriteDelete(r)
    BY <2>3, EndKeeps
  <2>4. CASE FundSteps(r)
    BY <2>4, FundKeeps
  <2>5. CASE RequestFails(r)
    BY <2>5, FailsKeeps
  <2>. QED
    BY <1>1, <2>1, <2>2, <2>3, <2>4, <2>5 DEF Arrives, SimulationStep, SimSteps, FundSteps
<1>2. ASSUME NEW l \in Loops, WorkerStep(l) \/ WorkerFails(l)
      PROVE  Inv'
  <2>1. UNCHANGED <<req, purse, fundVars>>
    BY <1>2 DEF WorkerStep, WorkerFails, handlerVars
  <2>. QED
    BY <1>2, <2>1, WorldKeeps
<1>3. CASE WorkerCrash /\ UNCHANGED <<req, purse, fundVars>>
  BY <1>3, WorldKeeps
<1>4. CASE FallsDue /\ UNCHANGED <<handlerVars, purse, fundVars>>
  <2>1. UNCHANGED <<req, purse, fundVars>>
    BY <1>4 DEF handlerVars
  <2>. QED
    BY <1>4, <2>1, WorldKeeps
<1>5. CASE (Repeat /\ UNCHANGED <<handlerVars, purse, fundVars>>) \/ WeekPasses \/ StrayCall
              \/ UNCHANGED vars
  BY <1>5, QuietKeeps
<1>6. CASE ServerRestart
  BY <1>6, RestartKeeps
<1>. QED
  BY <1>1, <1>2, <1>3, <1>4, <1>5, <1>6 DEF Next, Environment

\* The inductive invariant holds of every reachable state: what handlers, loops, rows and
\* simulations may be at once, whatever comes in and whatever fails.
THEOREM SimulationInvariant == Spec => []Inv
<1>1. Init => Inv
  BY InvFirst
<1>2. Inv /\ [Next]_vars => Inv'
  BY InvNext
<1>. QED
  BY <1>1, <1>2, PTL DEF Spec

----------------------------------------------------------------------------
(* The properties. *)

\* The values that the tables, the queue, the worker and the handlers can have
\* (simulate.routes.ts, agent-enqueue.routes.ts, agent-worker.ts).
THEOREM SimulationTypesHold == Spec => []SimulationTypeOK
<1>1. Inv => SimulationTypeOK
  <2>1. SUFFICES ASSUME Inv PROVE SimulationTypeOK
    OBVIOUS
  <2>2. /\ RowsInv /\ LoopsInv /\ FundInv /\ JobsInv
    BY <2>1 DEF Inv
  <2>3. \A row \in rows : /\ row.id \in 1..made /\ Exists(row.scope)
                          /\ row.status \in {"PENDING", "TRADED", "DISCARDED"}
    BY <2>2 DEF RowsInv, TableInv, OwnersInv, RowType
  <2>4. \A x, y \in rows : x.id = y.id => x = y
    BY <2>2 DEF RowsInv, TableInv
  <2>5. \A l \in Loops : loops[l].at \in {"idle", "status", "gather", "decide",
                             "discard", "find", "place", "funds", "submit", "traded"}
    BY <2>2 DEF LoopsInv, LoopPlaces, AtWorkPlaces
  <2>6. \A s \in Sims : sims[s].status \in Stopped \union {"none", "RUNNING", "gone"}
    BY <2>2 DEF RowsInv, OwnersInv, SimType
  <2>. QED
    BY <2>2, <2>3, <2>4, <2>5, <2>6 DEF SimulationTypeOK, JobsInv, FundInv
<1>. QED
  BY <1>1, SimulationInvariant, PTL

\* Once a simulation is stopped its orders dry up: no more of them are accepted than the
\* worker has loops, however many jobs are waiting, are triggered or run again.
THEOREM StoppedRunsDrain == Spec => []StoppedSimulationDrains
<1>1. Inv => StoppedSimulationDrains
  BY DEF Inv, LateInv, LateOK, StoppedSimulationDrains
<1>. QED
  BY <1>1, SimulationInvariant, PTL

\* nextRunAt keeps a market to one order for each time it falls due, whoever sends jobs
\* for it: unless two loops had it at once, a loop failed after its order, or main has two
\* rows of the market.
THEOREM OneOrderForEachDue == Spec => []OneOrderPerDue
<1>1. Inv => OneOrderPerDue
  BY DEF Inv, DueInv, DueOK, Only, OneOrderPerDue
<1>. QED
  BY <1>1, SimulationInvariant, PTL

\* A simulation has one row of each of its markets.
LEMMA RowsCounted ==
    ASSUME RowsInv, NEW s \in Sims
    PROVE  LET R == {row \in rows : row.scope = s /\ ~row.user}
           IN  IsFiniteSet(R) /\ Cardinality(R) <= Cardinality(MineOf(s))
<1>1. PICK R : R = {row \in rows : row.scope = s /\ ~row.user}
  OBVIOUS
<1>2. MineOf(s) = {row.market : row \in R} /\ MineOf(s) \subseteq Markets
  BY <1>1 DEF MineOf, RowsInv, TableInv, RowType
<1>3. s # "main"
  BY SetsAssumption
<1>4. PICK f : f = [row \in R |-> row.market]
  OBVIOUS
<1>5. f \in [R -> MineOf(s)]
  BY <1>2, <1>4
<1>6. \A x, y \in R : f[x] = f[y] => x = y
  BY <1>1, <1>3, <1>4 DEF RowsInv, TableInv
<1>7. f \in Injection(R, MineOf(s))
  BY <1>5, <1>6 DEF Injection, IsInjective
<1>8. IsFiniteSet(MineOf(s))
  BY <1>2, MarketSets
<1>. QED
  BY <1>1, <1>7, <1>8, FS_Injection

\* Every extension that was made counts, in minutes and in markets, and a run has no more
\* rows of its own than it has markets: unless two extensions of it overlapped, or one
\* failed before it was written.
THEOREM ExtensionsAllCount == Spec => []ExtensionsAddUp
<1>1. Inv => ExtensionsAddUp
  <2>1. SUFFICES ASSUME Inv, NEW s \in Sims, sims[s].alone, Exists(s)
                 PROVE  /\ sims[s].minutes = sims[s].bought
                        /\ sims[s].max = sims[s].boughtMax
                        /\ InFlight("extend") = {} /\ faults = 0 =>
                              Cardinality({row \in rows : row.scope = s /\ ~row.user}) <= sims[s].max
    BY DEF ExtensionsAddUp
  <2>2. RequestsInv /\ RowsInv /\ SimOK(s)
    BY <2>1 DEF Inv, SimsInv
  <2>3. BoughtOK(s) /\ (faults = 0 => OwedOK(s))
    BY <2>1, <2>2 DEF SimOK
  <2>4. ASSUME InFlight("extend") = {}, faults = 0
        PROVE  Cardinality({row \in rows : row.scope = s /\ ~row.user}) <= sims[s].max
    <3>1. Extending(s) = {}
      BY <2>4 DEF Extending, InFlight
    <3>2. AddedOf(s) = {0}
      BY <3>1 DEF AddedOf, Counted
    <3>3. Load(s) <= sims[s].max + 0
      BY <2>3, <2>4, <3>2 DEF OwedOK
    <3>4. PICK M, S, A, R : /\ M = MineOf(s) /\ S = Todo(Starting(s)) /\ A = Todo(Adding(s))
                            /\ R = {row \in rows : row.scope = s /\ ~row.user}
      OBVIOUS
    <3>5. M \subseteq Markets /\ S \subseteq Markets /\ A \subseteq Markets
      BY <2>2, <3>4, Owing DEF OwedType
    <3>6. Cardinality(M) \in Nat /\ Cardinality(S) \in Nat /\ Cardinality(A) \in Nat
      BY <3>5, MarketSets
    <3>7. IsFiniteSet(R) /\ Cardinality(R) <= Cardinality(M)
      BY <2>2, <3>4, RowsCounted
    <3>8. sims[s].max \in Nat
      BY <2>2 DEF RowsInv, OwnersInv, SimType
    <3>9. Load(s) = Cardinality(M) + Cardinality(S) + Cardinality(A)
      BY <3>4 DEF Load
    <3>10. Cardinality(R) \in Nat
      BY <3>7, FS_CardinalityType
    <3>. QED
      BY <3>3, <3>4, <3>6, <3>7, <3>8, <3>9, <3>10
  <2>. QED
    BY <2>3, <2>4 DEF BoughtOK
<1>. QED
  BY <1>1, SimulationInvariant, PTL

\* The chain is asked for test tokens once a week, and once more for each slip in it at
\* most: requests that overlap, a Redis error, one admin call of the two refused or unanswered,
\* a restart in the middle (utils/tenderly/funding.ts:179-225, simulate.routes.ts:310-350).
THEOREM FundedOnceAWeek == Spec => []FundedOncePerWeek
<1>1. Inv => FundedOncePerWeek
  BY DEF Inv, FundInv, FundedOncePerWeek
<1>. QED
  BY <1>1, SimulationInvariant, PTL
=============================================================================

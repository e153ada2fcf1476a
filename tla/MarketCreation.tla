--------------------------- MODULE MarketCreation ---------------------------
(***************************************************************************)
(* How a market gets from a draft to the chain and back:                   *)
(* services/cre-market-cron.ts, agent-market-creation.service.ts,          *)
(* cre-pending-markets.ts, routes/agent-markets-internal.routes.ts,        *)
(* platform-positions.service.ts, and POST and DELETE of markets.routes.ts *)
(*                                                                         *)
(* A trigger of the cron sends every draft to CRE under a question made    *)
(* unique by a suffix.  CRE creates it on the chain and calls back; a poll *)
(* every five seconds looks for it too.  Polls overlap, so do callbacks,   *)
(* and each reads, asks the chain, seeds and writes with awaits between.   *)
(*                                                                         *)
(* A question stands for its questionId and for the conditionId the chain  *)
(* makes of it.  Of the times 15 s and 120 s only the order is kept.  Left *)
(* out: volume and liquidity, texts and images, PATCH; all drafts fit into *)
(* one batch.                                                              *)
(***************************************************************************)
EXTENDS Naturals, SequencesExt

CONSTANTS
    Markets,        \* ids of Market rows
    Names,          \* what a market asks, without the suffix
    Runs,           \* how often the cron's interval fires
    Polls,          \* how many runs of runPoll may overlap
    Handlers,       \* requests that may overlap: callbacks and POST /api/markets
    NoMarket,       \* a question that was made for no draft
    Null,           \* an absent questionId, conditionId or row
    UserCondition,  \* the conditionId a user brings
    MaxRare,        \* bound on the rare events: a failing statement, a restart, a
                    \* row deleted or created by a user, a question CRE fetched
    PerJob,         \* agentMarketsPerJob: the drafts a run asks its agents for
    OpenWebUi       \* is there a third agent

ASSUME BoundsAssumption == Runs \in Nat /\ Polls \in Nat /\ MaxRare \in Nat
ASSUME AgentsAssumption == PerJob \in 1..50 /\ OpenWebUi \in BOOLEAN
ASSUME MarketsAssumption ==
    IsFiniteSet(Markets) /\ IsFiniteSet(Names) /\ NoMarket \notin Markets

\* The runs of the cron, each with a suffix of its own, and of runPoll.
Triggers == 1..Runs
Pollers == 1..Polls

\* What CRE is asked to create: a draft under a trigger's suffix, or a name
\* that CRE fetched for itself, of which no draft exists.
Question == (Triggers \X Markets \X Names) \union ({0} \X {NoMarket} \X Names)
DraftOf(q) == q[2]
NameOf(q) == q[3]
Fetched(n) == <<0, NoMarket, n>>

RowType == [name : Names, qid : Question \union {Null},
            cond : Question \union {UserCondition, Null}, seeded : BOOLEAN]

ASSUME NullAssumption ==
    /\ Null \notin Markets \union Question \union RowType
    /\ UserCondition \notin Question \union {Null}
ASSUME WorkersAssumption == Pollers \intersect Handlers = {}

VARIABLES
    rows,       \* Market rows: name, questionId, conditionId, liquiditySeeded
    positions,  \* the markets for which the platform's LONG rows were created
    pending,    \* cre-pending-markets.ts: the questions to poll for, oldest first
    age,        \* how long ago a run of the cron has added its questions there
    trigger,    \* where each run of the cron is
    received,   \* external: what CRE has been asked to create
    onChain,    \* external: what getMarket finds
    seeds,      \* external: questions whose seeding has been confirmed
    work,       \* where each poll and each request is
    gone,       \* history: deleted rows and their questions
    failed,     \* history: a statement has failed, or the server restarted
    rare        \* history: how many rare events there have been

externalVars == <<received, onChain, seeds>>
dbVars == <<rows, positions>>
vars == <<dbVars, pending, age, trigger, externalVars, work, gone, failed, rare>>

Workers == Pollers \union Handlers

Exists(m) == m # NoMarket /\ rows[m] # Null
Rows == {m \in Markets : rows[m] # Null}

\* Ids are not used again; when they run out nothing more is created.
Unborn == {m \in Markets : rows[m] = Null /\ m \notin gone}
FreshId == CHOOSE m \in Unborn : TRUE
RoomForRow == Unborn # {}

Row(n, q, c, s) == [name |-> n, qid |-> q, cond |-> c, seeded |-> s]

\* questionId and conditionId are unique columns.
Unused(q, m) == \A other \in Rows \ {m} : rows[other].qid # q /\ rows[other].cond # q

Rare == rare < MaxRare /\ rare' = rare + 1

----------------------------------------------------------------------------
(* The cron: triggerCreateMarketsFromBackend. *)

\* getDraftMarketsForCre: the rows without a questionId.
Drafts == {m \in Rows : rows[m].qid = Null}

\* The request to CRE.
Send(t) ==
    LET batch == {<<t, m, rows[m].name>> : m \in Drafts}
    IN  /\ trigger' = [trigger EXCEPT ![t].at = "asked", ![t].batch = batch]
        /\ received' = received \union batch

NotStarted == [at |-> "new", todo |-> << >>, made |-> 0, batch |-> {}]
Over == [NotStarted EXCEPT !.at = "done"]

\* No draft at all: the agents are asked for some, once.
TriggerReads(t) ==
    /\ \/ trigger[t].at = "reread"
       \/ trigger[t].at = "new" /\ \A earlier \in 1..(t - 1) : trigger[earlier].at # "new"
    /\ IF Drafts # {} THEN Send(t)
       ELSE /\ trigger' = [trigger EXCEPT ![t] =
                   IF @.at = "new" THEN [@ EXCEPT !.at = "agents"] ELSE Over]
            /\ UNCHANGED received
    /\ UNCHANGED <<dbVars, pending, onChain, seeds>>

\* How many of count markets Gemini, Grok and Open WebUI are asked for.
Shares(count) ==
    LET agents == IF OpenWebUi THEN 3 ELSE 2
        each == count \div agents
        rest == count % agents
        One(least) == IF count >= least THEN 1 ELSE 0
    IN  IF count > 3
        THEN <<each + (IF rest > 0 THEN 1 ELSE 0), each + (IF rest > 1 THEN 1 ELSE 0),
               IF OpenWebUi THEN each ELSE 0>>
        ELSE <<One(1), One(2), IF OpenWebUi THEN One(3) ELSE 0>>

\* What one agent may answer: none when it has no key, is limited or fails.
AgentAnswers == BoundedSeq(Names, PerJob)

\* What is kept of it: questions that can be read and are not of a past year, in the
\* agent's order and no more than its share.
Kept(share) == {s \in AgentAnswers : Len(s) <= share}

\* The demo questions, where they are switched on: three, and no more than asked for.
Demo ==
    LET count == CHOOSE k \in {3, PerJob, Cardinality(Names)} :
                     \A other \in {3, PerJob, Cardinality(Names)} : k <= other
    IN  SubSeq(SetToSeq(Names), 1, count)

\* generateAgentMarkets: all agents at once; the demo for want of any suggestion.
Suggestions ==
    LET share == Shares(PerJob)
    IN  {a \o b \o c : a \in Kept(share[1]), b \in Kept(share[2]), c \in Kept(share[3])} \union {Demo}

Generate(t) ==
    /\ trigger[t].at = "agents"
    /\ \E suggested \in Suggestions :
          trigger' = [trigger EXCEPT ![t].at = "drafting", ![t].todo = suggested]
    /\ UNCHANGED <<dbVars, pending, externalVars>>

\* createDraftMarketsFromAgents: a suggestion that is neither a market already
\* (its bare name hashed: only a fetched one has that questionId) nor a draft ...
Suggest(t) ==
    LET n == Head(trigger[t].todo)
    IN  /\ trigger[t].at = "drafting" /\ trigger[t].todo # << >>
        /\ trigger' = [trigger EXCEPT ![t] =
               IF \E m \in Rows : rows[m].qid = Fetched(n) \/ (rows[m].qid = Null /\ rows[m].name = n)
               THEN [@ EXCEPT !.todo = Tail(trigger[t].todo)] ELSE [@ EXCEPT !.at = "writing"]]
        /\ UNCHANGED <<dbVars, pending, externalVars>>

\* ... becomes a draft.
WriteDraft(t) ==
    /\ trigger[t].at = "writing" /\ RoomForRow
    /\ rows' = [rows EXCEPT ![FreshId] = Row(Head(trigger[t].todo), Null, Null, FALSE)]
    /\ trigger' = [trigger EXCEPT ![t].at = "drafting", ![t].todo = Tail(@), ![t].made = @ + 1]
    /\ UNCHANGED <<positions, pending, externalVars>>

\* No more suggestions: the drafts are read again if there are new ones.
EndDrafting(t) ==
    /\ trigger[t].at = "drafting" /\ trigger[t].todo = << >>
    /\ trigger' = [trigger EXCEPT ![t] =
           IF trigger[t].made > 0 THEN [@ EXCEPT !.at = "reread"] ELSE Over]
    /\ UNCHANGED <<dbVars, pending, externalVars>>

\* addPending, once CRE has accepted the request.
TriggerOk(t) ==
    /\ trigger[t].at = "asked"
    /\ pending' = pending \o SetToSeq(trigger[t].batch)
    /\ trigger' = [trigger EXCEPT ![t] = Over]
    /\ UNCHANGED <<dbVars, externalVars>>

\* A suggestion or a draft cannot be had (CRE is then asked without drafts), or the
\* request does not get there, is refused, or its answer is lost.
TriggerFails(t) ==
    /\ trigger[t].at # "done"
    /\ trigger' = [trigger EXCEPT ![t] = Over]
    /\ UNCHANGED <<dbVars, pending, externalVars>>

Cron(t) ==
    /\ \/ TriggerReads(t)
       \/ Generate(t) \/ Suggest(t)
       \/ WriteDraft(t) \/ EndDrafting(t) \/ TriggerOk(t) \/ TriggerFails(t)
    /\ UNCHANGED <<age, work, gone, failed, rare>>

----------------------------------------------------------------------------
(* The chain and CRE, and the passing of time. *)

\* CRE fetches suggestions of its own (GET /api/cre/agent-markets).
CreFetches(n) ==
    /\ Rare
    /\ received' = received \union {Fetched(n)}
    /\ UNCHANGED onChain

CreCreates(q) ==
    /\ q \in received
    /\ onChain' = onChain \union {q}
    /\ UNCHANGED <<received, rare>>

\* 15 s after addPending a question is due, 120 s after it is old.
Ages == <<"fresh", "due", "old">>
AgeOf(q) == age[q[1]]
AsOld(a, b) == a = b \/ a = "old" \/ b = "fresh"

\* What one run of the cron has added ages together, and not before what was there.
Age(t) ==
    LET older == IF age[t] = "fresh" THEN "due" ELSE "old"
        first == SelectInSeq(pending, LAMBDA q : q[1] = t)
    IN  /\ first > 0 /\ age[t] # "old"
        /\ \A i \in 1..(first - 1) : AsOld(AgeOf(pending[i]), older)
        /\ age' = [age EXCEPT ![t] = older]

World ==
    /\ \/ /\ (\E n \in Names : CreFetches(n)) \/ (\E q \in Question : CreCreates(q))
          /\ UNCHANGED age
       \/ (\E t \in Triggers : Age(t)) /\ UNCHANGED <<received, onChain, rare>>
    /\ UNCHANGED <<dbVars, pending, trigger, seeds, work, gone, failed>>

----------------------------------------------------------------------------
(* What polls and callbacks share. *)

Idle == [at |-> "idle", path |-> "none", q |-> Null, m |-> NoMarket,
         chain |-> FALSE, seeded |-> FALSE, todo |-> << >>]

\* Array.filter: the items that are in the set, in their order.
Only(items, S) ==
    LET kept[n \in 0..Len(items)] ==
            IF n = 0 THEN << >>
            ELSE IF items[n] \in S THEN Append(kept[n - 1], items[n]) ELSE kept[n - 1]
    IN  kept[Len(items)]

\* Whatever comes first is removed, as if items were done in their order.
WithoutFirst(q) == SubSeq(pending, 2, Len(pending))

\* removePending
Without(q) == Only(pending, ToSet(pending) \ {q})

\* Items of more than two minutes are dropped.
Unexpired(items) == Only(items, {q \in ToSet(items) : AgeOf(q) # "old"})

\* A request is over; a poll goes on with its next item, or drops what is old.
Leave(w, items) ==
    LET over == w \in Handlers \/ work[w].todo = << >>
    IN  /\ work' = [work EXCEPT ![w] =
               IF over THEN Idle ELSE [Idle EXCEPT !.at = "next", !.todo = work[w].todo]]
        /\ pending' = IF over /\ w \in Pollers THEN Unexpired(items) ELSE items

GiveUp(w) == Leave(w, pending)

\* The work on a question is complete: not to poll for any more, or answered 201.
Succeed(w) ==
    IF w \in Pollers THEN Leave(w, Without(work[w].q))
    ELSE work' = [work EXCEPT ![w] = [Idle EXCEPT !.at = "created"]] /\ UNCHANGED pending

\* needsChainData of a poll; a callback looks at the questionId only.
NeedsChainData(w, m) == rows[m].qid = Null \/ (w \in Pollers /\ rows[m].cond = Null)

\* The draft is looked up: filled in, marked with its questionId when a callback
\* has not found it on the chain, or else a market of this condition is sought.
ReadDraft(w) ==
    LET q == work[w].q
        m == DraftOf(q)
    IN  /\ work[w].at = "draft"
        /\ work' = [work EXCEPT ![w] =
               IF Exists(m) /\ NeedsChainData(w, m)
               THEN [@ EXCEPT !.at = IF work[w].chain THEN "fill" ELSE "mark", !.m = m,
                              !.path = "fill", !.seeded = rows[m].seeded]
               ELSE IF work[w].chain THEN [@ EXCEPT !.at = "existing"]
               ELSE Idle]
        /\ UNCHANGED <<dbVars, pending, seeds>>

\* market.update with conditionId and questionId, whatever they are by now.
FillDraft(w) ==
    LET q == work[w].q
        m == work[w].m
    IN  /\ work[w].at = "fill"
        /\ IF Exists(m) /\ Unused(q, m)
           THEN /\ rows' = [rows EXCEPT ![m] = [@ EXCEPT !.qid = q, !.cond = q]]
                /\ work' = [work EXCEPT ![w].at = "positions"]
                /\ UNCHANGED <<pending>>
           ELSE GiveUp(w) /\ UNCHANGED rows
        /\ UNCHANGED <<positions, seeds>>

\* Rows that only ask the same.
ExistingByName(q) == {m \in Rows : rows[m].name = NameOf(q)}

Existing(q) == {m \in Rows : rows[m].cond = q}

\* market.findFirst of the condition.
FindExisting(w) ==
    /\ work[w].at = "existing"
    /\ IF Existing(work[w].q) # {} THEN Succeed(w)
       ELSE /\ work' = [work EXCEPT ![w] = [@ EXCEPT !.path = "create",
                           !.at = IF w \in Pollers THEN "create" ELSE "seed"]]
            /\ UNCHANGED <<pending>>
    /\ UNCHANGED <<dbVars, seeds>>

\* market.create
CreateRow(w) ==
    LET q == work[w].q
    IN  /\ work[w].at = "create" /\ RoomForRow
        /\ IF Unused(q, NoMarket)
           THEN /\ rows' = [rows EXCEPT ![FreshId] =
                        Row(NameOf(q), q, q, w \in Handlers /\ work[w].seeded)]
                /\ work' = [work EXCEPT ![w].at = "positions", ![w].m = FreshId]
                /\ UNCHANGED <<pending>>
           ELSE GiveUp(w) /\ UNCHANGED rows
        /\ UNCHANGED <<positions, seeds>>

\* What comes after the platform's positions: a callback that created the row has
\* seeded it before, and a poll does not seed what was seeded when it looked.
AfterPositions(w) ==
    IF w \in Handlers THEN (IF work[w].path = "fill" THEN "seed" ELSE "end")
    ELSE IF work[w].path = "fill" /\ work[w].seeded THEN "flag" ELSE "seed"

\* Positions that are not created for a market without a draft.
DraftPositions(w) == IF work[w].path = "fill" THEN {work[w].m} ELSE {}

\* createPlatformPositionsForMarket: a LONG row for each outcome.
MarketPositions(w) == {work[w].m}

AddPositions(w) ==
    LET m == work[w].m
        next == AfterPositions(w)
    IN  /\ work[w].at = "positions"
        /\ IF ~Exists(m) THEN GiveUp(w) /\ UNCHANGED positions
           ELSE /\ positions' = positions \union MarketPositions(w)
                /\ IF next = "end" THEN Succeed(w)
                   ELSE /\ work' = [work EXCEPT ![w].at = next,
                                       ![w].seeded = @ /\ next # "flag"]
                        /\ UNCHANGED <<pending>>
        /\ UNCHANGED <<rows, seeds>>

\* seedMarketLiquidityOnChain: confirmed, or not (which a transaction that takes
\* more than 30 s is said to be even if it takes effect).
SeedOnChain(w) ==
    /\ work[w].at = "seed"
    /\ \E ok \in BOOLEAN :
           /\ seeds' = IF ok THEN seeds \union {work[w].q} ELSE seeds
           /\ work' = [work EXCEPT ![w] = [@ EXCEPT !.seeded = ok,
                          !.at = IF w \in Handlers /\ work[w].path = "create" THEN "create" ELSE "flag"]]
    /\ UNCHANGED <<dbVars, pending>>

\* A flag written without looking at what became of the seeding.
AlwaysSeeded(w) == TRUE

SeededFlag(w) == work[w].seeded

\* market.update with liquiditySeeded, the last step.
WriteFlag(w) ==
    LET m == work[w].m
    IN  /\ work[w].at = "flag"
        /\ IF Exists(m)
           THEN rows' = [rows EXCEPT ![m].seeded = SeededFlag(w)] /\ Succeed(w)
           ELSE GiveUp(w) /\ UNCHANGED rows
        /\ UNCHANGED <<positions, seeds>>
----------------------------------------------------------------------------
(* runPoll. *)

\* getPendingToPoll.  With nothing to poll for the run is over at once.
PollStart(p) ==
    /\ work[p].at = "idle"
    /\ \A other \in 1..(p - 1) : work[other].at # "idle"
    /\ LET due == Only(pending, {q \in ToSet(pending) : AgeOf(q) = "due"})
       IN  IF due = << >> THEN pending' = Unexpired(pending) /\ UNCHANGED work
           ELSE /\ work' = [work EXCEPT ![p] = [Idle EXCEPT !.at = "next", !.todo = due]]
                /\ UNCHANGED pending
    /\ UNCHANGED <<dbVars, seeds>>

\* An answer of the chain that is taken for a market whatever it says.
AnyAnswer(q) == TRUE

\* getMarket's conditionId is not zero.
ChainHas(q) == q \in onChain

\* The next item, if the chain has it ...
PollFinds(p) ==
    /\ work[p].at = "next"
    /\ LET q == Head(work[p].todo)
       IN  /\ ChainHas(q)
           /\ work' = [work EXCEPT ![p].at = "draft", ![p].q = q, ![p].chain = TRUE,
                                   ![p].todo = Tail(@)]
    /\ UNCHANGED <<dbVars, pending, seeds>>

\* ... or not yet, or the chain gives no answer.
PollMisses(p) ==
    /\ work[p].at = "next"
    /\ IF Tail(work[p].todo) = << >>
       THEN work' = [work EXCEPT ![p] = Idle] /\ pending' = Unexpired(pending)
       ELSE work' = [work EXCEPT ![p].todo = Tail(@)] /\ UNCHANGED pending
    /\ UNCHANGED <<dbVars, seeds>>

----------------------------------------------------------------------------
(* Requests. *)

\* No request, or one that has been answered.
Free(h) == work[h].at \in {"idle", "created"}

\* CRE reports a market it has been asked for.
Report(h, q) ==
    /\ Free(h)
    /\ q \in received
    /\ work' = [work EXCEPT ![h] = [Idle EXCEPT !.at = "chain", !.q = q]]
    /\ UNCHANGED <<dbVars, pending, seeds>>

\* getMarketFromChainWithRetry: found, or given up after ten times.
AskChain(h) ==
    LET next == IF DraftOf(work[h].q) # NoMarket THEN "draft" ELSE "existing"
    IN  /\ work[h].at = "chain"
        /\ \/ /\ ChainHas(work[h].q)
              /\ work' = [work EXCEPT ![h] = [@ EXCEPT !.chain = TRUE, !.at = next]]
           \/ work' = [work EXCEPT ![h] = IF next = "draft" THEN [@ EXCEPT !.at = next] ELSE Idle]
        /\ UNCHANGED <<dbVars, pending, seeds>>

\* market.update with the questionId alone; a poll will do the rest.
MarkDraft(h) ==
    LET q == work[h].q
        m == work[h].m
    IN  /\ work[h].at = "mark"
        /\ IF Exists(m) /\ Unused(q, m)
           THEN rows' = [rows EXCEPT ![m].qid = q] /\ Succeed(h)
           ELSE GiveUp(h) /\ UNCHANGED rows
        /\ UNCHANGED <<positions, seeds>>

\* POST /api/markets: a market with its conditionId and no questionId, then its
\* platform positions.
UserCreates(h, n) ==
    /\ Free(h) /\ RoomForRow
    /\ \A m \in Rows : rows[m].cond # UserCondition
    /\ rows' = [rows EXCEPT ![FreshId] = Row(n, Null, UserCondition, FALSE)]
    /\ work' = [work EXCEPT ![h] = [Idle EXCEPT !.at = "positions", !.path = "user", !.m = FreshId]]
    /\ UNCHANGED <<positions, pending, seeds>>

Shared(w) ==
    \/ ReadDraft(w) \/ FillDraft(w) \/ FindExisting(w) \/ CreateRow(w)
    \/ AddPositions(w) \/ SeedOnChain(w) \/ WriteFlag(w)

Poll(p) ==
    /\ PollStart(p) \/ PollFinds(p) \/ PollMisses(p) \/ Shared(p)
    /\ UNCHANGED <<age, trigger, received, onChain, gone, failed, rare>>

Handle(h) ==
    /\ AskChain(h) \/ MarkDraft(h) \/ Shared(h)
    /\ UNCHANGED <<age, trigger, received, onChain, gone, failed, rare>>

Request(h) ==
    /\ \/ (\E q \in Question : Report(h, q)) /\ UNCHANGED rare
       \/ (\E n \in Names : UserCreates(h, n)) /\ Rare
    /\ UNCHANGED <<age, trigger, received, onChain, gone, failed>>

\* A deletion that leaves the positions behind.
KeptPositions(m) == positions

\* onDelete: Cascade
OtherPositions(m) == positions \ {m}

\* DELETE /api/markets/:id, with the positions.
Delete(m) ==
    /\ Rare
    /\ Exists(m)
    /\ rows' = [rows EXCEPT ![m] = Null]
    /\ positions' = OtherPositions(m)
    /\ gone' = gone \union ({m, rows[m].qid} \ {Null})
    /\ UNCHANGED <<pending, age, trigger, externalVars, work, failed>>

----------------------------------------------------------------------------
(* Faults. *)

Fault == Rare /\ failed' = TRUE

\* A statement rejects, or the position ids cannot be read.  A poll that was about
\* to fill a draft forgets the item when the ids are missing.
Reject(w) ==
    /\ Fault
    /\ work[w].at \notin {"idle", "next"}
    /\ \/ GiveUp(w)
       \/ w \in Pollers /\ work[w].at = "fill" /\ Succeed(w)
    /\ UNCHANGED <<dbVars, age, trigger, externalVars, gone>>

\* What to poll for is kept in memory only.
Restart ==
    /\ Fault
    /\ pending' = << >>
    /\ work' = [w \in Workers |-> Idle]
    /\ trigger' = [t \in Triggers |->
           IF trigger[t].at = "new" THEN NotStarted ELSE Over]
    /\ UNCHANGED <<dbVars, age, externalVars, gone>>
----------------------------------------------------------------------------
Init ==
    /\ rows = [m \in Markets |-> Null]
    /\ positions = {}
    /\ pending = << >>
    /\ age = [t \in Triggers |-> "fresh"]
    /\ trigger = [t \in Triggers |-> NotStarted]
    /\ received = {} /\ onChain = {} /\ seeds = {}
    /\ work = [w \in Workers |-> Idle]
    /\ gone = {} /\ failed = FALSE /\ rare = 0

Next ==
    \/ \E t \in Triggers : Cron(t)
    \/ \E p \in Pollers : Poll(p)
    \/ \E h \in Handlers : Handle(h) \/ Request(h)
    \/ \E m \in Markets : Delete(m)
    \/ World
    \/ Restart
    \/ \E w \in Workers : Reject(w)

Spec == Init /\ [][Next]_vars

----------------------------------------------------------------------------
(* Properties. *)

\* Every variable keeps its type; no question is waited for twice; a run drafts no
\* more markets than it was to, whatever its agents answer.
TypeOK ==
    /\ \A m \in Rows : rows[m] \in RowType
    /\ positions \subseteq Rows
    /\ ToSet(pending) \subseteq received /\ IsInjective(pending)
    /\ age \in [Triggers -> ToSet(Ages)]
    /\ \A w \in Workers :
        /\ work[w].q \in Question \union {Null}
        /\ work[w].m \in Markets \union {NoMarket}
        /\ ToSet(work[w].todo) \subseteq Question
    /\ onChain \subseteq received
    /\ seeds \subseteq Question
    /\ \A t \in Triggers : trigger[t].made \in 0..PerJob
    /\ failed \in BOOLEAN /\ rare \in 0..MaxRare

\* The questions a draft has been sent under, and whether there were several.
SentTwice(m) == m # NoMarket /\ Cardinality({q \in received : DraftOf(q) = m}) > 1

\* A market that has a conditionId of CRE's is on the chain under it, and its
\* questionId is the one the condition was made of, whoever wrote them last; of a
\* draft sent twice a callback may have written the other questionId.
ConditionIsOnChain ==
    \A m \in Rows : rows[m].cond \in Question =>
        /\ rows[m].cond \in onChain
        /\ rows[m].qid = rows[m].cond \/ SentTwice(m)

\* Nobody is in the middle of anything.
Quiet == \A w \in Workers : work[w].at \in {"idle", "created"}

\* A market that can be traded (it has a conditionId) has been given its platform
\* positions by whoever gave it the conditionId, once everyone is done.
MarketHasItsPositions ==
    (Quiet /\ ~failed) => \A m \in Rows : rows[m].cond # Null => m \in positions

\* liquiditySeeded is never claimed of a market for which nothing was seeded,
\* under the questionId it has or another one of the same draft.
SeededMeansSeeded ==
    \A m \in Rows : rows[m].seeded =>
        \E q \in seeds : rows[m].qid = q \/ DraftOf(q) = m

\* The question has its market, had one that was deleted, or lost its draft to
\* another question: a draft sent twice keeps the last writer's.
Recorded(q) ==
    \/ \E m \in Rows : rows[m].qid = q
    \/ q \in gone \/ DraftOf(q) \in gone
    \/ SentTwice(DraftOf(q))

\* A callback that is answered 201 has a market in the database.
AnsweredIsRecorded ==
    [][\A h \in Handlers, q \in Question :
        (work[h].q = q /\ work'[h].at = "created") => Recorded(q)']_vars

\* cre-pending-markets.ts:3, "When the market exists on-chain, we persist it to the
\* DB": a question younger than two minutes leaves the waiting list only when it has
\* its market (or, the position ids being unreadable, for good).
LeavesRecorded ==
    [][\A q \in ToSet(pending) \ ToSet(pending') :
        AgeOf(q) # "old" => Recorded(q)' \/ failed']_vars

\* agent-markets-internal.routes.ts:8, "if getMarket is not yet visible we still
\* store questionId+createMarketTxHash and the pending poll fills conditionId
\* later": for a draft that only has its questionId there is a poll to come or one at
\* work (CRE's answer to the cron, without which nobody polls, not being lost).
MarkedIsPolled ==
    \A m \in Rows : (rows[m].qid # Null /\ rows[m].cond = Null) =>
        \/ rows[m].qid \in ToSet(pending) \/ failed
        \/ AgeOf(rows[m].qid) = "fresh"
        \/ \E w \in Workers : rows[m].qid \in {work[w].q} \union ToSet(work[w].todo)
=============================================================================

----------------------------- MODULE Settlement -----------------------------
(***************************************************************************)
(* Settling a market, /api/internal/settlement of                          *)
(* src/src/routes/settlement-internal.routes.ts: CRE's cron asks for the   *)
(* markets that are due, has two agents deliberate on one                  *)
(* (settlement.service.ts, settlement-deliberation.service.ts), reports    *)
(* their verdict on the chain and says so.                                 *)
(***************************************************************************)
EXTENDS Handlers, Sequences

CONSTANTS
    Settled,        \* markets past their resolution date
    Verdicts        \* outcome arrays a model may answer

ASSUME VerdictsAssumption == \A v \in Verdicts : v \in Seq({0, 1})

VARIABLES
    market,         \* Market rows: status, number of outcomes, is there a questionId
    logs,           \* MarketSettlementLog rows
    due,            \* the markets the cron of CRE was told of and has not gone through
    verdicts,       \* the answers of settlement/run that CRE may report
    payouts,        \* what the chain has been told: None or an outcome array
    told,           \* history: status a market had before its settlement was written
    patched         \* history: <<m, "status">>: m was patched while a settlement request
                    \* was at work, <<m, "outcomes">>: after one had read its outcomes

settlementVars == <<market, logs, due, verdicts, payouts, told, patched>>

None == << >>
Statuses == {"OPEN", "RESOLVING", "CLOSED", "DISPUTED"}
NoMarket == [status |-> "gone", outcomes |-> 0]

SettlementInit ==
    /\ market = [m \in Settled |-> [status |-> "OPEN", outcomes |-> 2]]
    /\ logs = {} /\ due = {} /\ verdicts = {}
    /\ payouts = [m \in Settled |-> None]
    /\ told = {} /\ patched = {}

\* GET due: OPEN ones; those just being deliberated about are among them.
FindMarketsDue(r) ==
    /\ Arrive(r, "due")
    /\ due' = {m \in Settled : market[m].status = "OPEN"}
    /\ Answer(r)
    /\ UNCHANGED <<market, logs, verdicts, payouts, told, patched, faults>>

\* POST run: 404, 409 unless OPEN, 400 without outcomes.
RunSettlement(r) ==
    /\ Arrive(r, "settle")
    /\ \E m \in due :
          /\ due' = due \ {m}
          /\ IF market[m].status = "OPEN" /\ market[m].outcomes > 0
             THEN Become(r, [kind |-> "settle", at |-> "opinions", market |-> m,
                             outcomes |-> market[m].outcomes])
             ELSE Answer(r)
    /\ UNCHANGED <<market, logs, verdicts, payouts, told, patched, faults>>

\* Two opinions, each by one call of a model; then each agent sees the other's.
Opinions(r) ==
    /\ At(r, "settle", "opinions")
    /\ Goto(r, "review")
    /\ UNCHANGED <<settlementVars, traffic, faults>>

Consensus(a, b) == a = b

\* The final verdicts of both.
Review(r) ==
    /\ At(r, "settle", "review")
    /\ \E a, b \in Verdicts :
          Become(r, With(req[r], [at |-> "log", verdict |-> IF Consensus(a, b) THEN a ELSE None]))
    /\ UNCHANGED <<settlementVars, traffic, faults>>

\* Consensus alone.
Agreed(x) == x.verdict # None

\* Consensus on one entry for each outcome, at least one of them 1.
CanResolve(x) ==
    /\ x.verdict # None
    /\ Len(x.verdict) = x.outcomes
    /\ \E i \in DOMAIN x.verdict : x.verdict[i] = 1

\* deliberateAndPersist: the log is written; of a market deleted meanwhile it cannot be.
\* The payouts are the verdict.
LogAndAnswer(r) ==
    LET x == req[r]
    IN  /\ At(r, "settle", "log")
        /\ IF market[x.market].status = "gone" THEN UNCHANGED <<logs, verdicts>>
           ELSE /\ logs' = logs \union {[market |-> x.market, verdict |-> x.verdict]}
                /\ verdicts' = IF CanResolve(x)
                               THEN verdicts \union {[market |-> x.market, payouts |-> x.verdict]}
                               ELSE verdicts
        /\ Answer(r)
        /\ UNCHANGED <<market, due, payouts, told, patched, traffic, faults>>

\* CRE writes the report; the chain takes the first for a market (external).
WriteReport ==
    /\ \E v \in verdicts :
          /\ verdicts' = verdicts \ {v}
          /\ payouts' = IF payouts[v.market] = None
                        THEN [payouts EXCEPT ![v.market] = v.payouts] ELSE payouts
    /\ UNCHANGED <<market, logs, due, told, patched, handlerVars>>

\* A callback that does not look.
AnyStatus(m) == market[m].status # "gone"

\* 404; of a market that is not OPEN it says that it was not.
IsOpen(m) == market[m].status = "OPEN"

\* POST resolved, after the report (CRE may repeat it).
Resolved(r) ==
    /\ Arrive(r, "resolved")
    /\ \E m \in Settled :
          /\ payouts[m] # None
          /\ IF IsOpen(m) THEN Become(r, [kind |-> "resolved", at |-> "close", market |-> m])
             ELSE Answer(r)
    /\ UNCHANGED <<settlementVars, faults>>

\* CLOSED, whatever it is by now.
CloseMarket(r) ==
    LET m == req[r].market
    IN  /\ At(r, "resolved", "close")
        /\ IF market[m].status = "gone" THEN UNCHANGED <<market, told>>
           ELSE /\ market' = [market EXCEPT ![m].status = "CLOSED"]
                /\ told' = told \union {[market |-> m, was |-> market[m].status]}
        /\ Answer(r)
        /\ UNCHANGED <<logs, due, verdicts, payouts, patched, traffic, faults>>

\* Requests at work on a market.
Settling(m) == {r \in Requests : "market" \in DOMAIN req[r] /\ req[r].kind \in {"settle", "resolved"}
                                 /\ req[r].market = m}

Decided(m) == payouts[m] # None \/ \E v \in verdicts : v.market = m

\* PATCH /api/markets/:id: status and outcomes among other things, each alone.
PatchMarket(r) ==
    /\ Arrive(r, "patchMarket")
    /\ \E m \in Settled :
          /\ market[m].status # "gone"
          /\ \/ /\ \E status \in Statuses : market' = [market EXCEPT ![m].status = status]
                /\ patched' = IF Settling(m) = {} THEN patched ELSE patched \union {<<m, "status">>}
             \/ /\ \E n \in 2..3 : market' = [market EXCEPT ![m].outcomes = n]
                /\ patched' = IF Settling(m) = {} /\ ~Decided(m) THEN patched
                              ELSE patched \union {<<m, "outcomes">>}
    /\ Answer(r)
    /\ UNCHANGED <<logs, due, verdicts, payouts, told, faults>>

\* DELETE /api/markets/:id: the logs go with it.
DeleteMarket(r) ==
    /\ Arrive(r, "deleteMarket")
    /\ \E m \in Settled :
          /\ market' = [market EXCEPT ![m] = NoMarket]
          /\ logs' = {log \in logs : log.market # m}
    /\ Answer(r)
    /\ UNCHANGED <<due, verdicts, payouts, told, patched, faults>>

SettlementArrives(r) ==
    \/ FindMarketsDue(r) \/ RunSettlement(r) \/ Resolved(r) \/ PatchMarket(r) \/ DeleteMarket(r)

SettlementStep(r) == Opinions(r) \/ Review(r) \/ LogAndAnswer(r) \/ CloseMarket(r)

\* The model's service or the database fails: 500, nothing is written.
SettlementFails(r) ==
    /\ req[r].kind \in {"settle", "resolved"}
    /\ Rejects(r)
    /\ UNCHANGED settlementVars

----------------------------------------------------------------------------
SettlementTypeOK ==
    /\ \A m \in Settled : market[m].status \in Statuses \union {"gone"} /\ market[m].outcomes \in Nat
    /\ logs \subseteq [market : Settled, verdict : Verdicts \union {None}]
    /\ due \subseteq Settled

\* What the chain is told to pay is a verdict both agents gave, that is in the log for as
\* long as the market is there, and pays somebody: no disagreement, no array without
\* a 1, none of another length.  (settlement.service.ts:75-89.)
PaidAsDecided ==
    \A m \in Settled :
        payouts[m] # None =>
            /\ \E i \in DOMAIN payouts[m] : payouts[m][i] = 1
            /\ market[m].status # "gone" =>
                 /\ [market |-> m, verdict |-> payouts[m]] \in logs
                 /\ <<m, "outcomes">> \in patched \/ Len(payouts[m]) = market[m].outcomes

\* The callback closes an OPEN market only: one that its owner has disputed stays so,
\* unless that happened while the callback was at work.  Closing twice does no harm.  (settlement-internal.routes.ts:138-149.)
OnlyOpenIsClosed == \A t \in told : t.was \in {"OPEN", "CLOSED"} \/ <<t.market, "status">> \in patched
=============================================================================

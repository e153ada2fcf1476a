---------------------------- MODULE BackendProofs ----------------------------
(***************************************************************************)
(* Proofs about Backend for any number of requests at work, any mix of     *)
(* requests and faults, and any agents, sockets, markets and orders.       *)
(*                                                                         *)
(* First, where a request can be (ReqOK), and that a handler's step moves  *)
(* its own request only: so each part of the state is looked at under the  *)
(* steps of its own handlers, and under an end of the process.             *)
(***************************************************************************)
EXTENDS Backend, FiniteSetTheorems, TLAPS

----------------------------------------------------------------------------
(* Where requests are. *)

WalletKinds == {"create", "register", "createWallet", "walletResult", "agentKeys", "claim"}
LedgerKinds == {"deposit", "withdraw", "spend", "sync"}
PricingKinds == {"quote", "quoteResult"}
SettlementKinds == {"settle", "resolved"}
TradeKinds == {"market", "tradeResult"}

\* The awaits of each handler.
WalletPlace(x) ==
    \/ x.kind = "create" /\ x.at \in {"insert", "ask", "generate"}
    \/ x.kind = "register" /\ x.at \in {"insert", "ask"}
    \/ x.kind = "createWallet" /\ x.at \in {"ask", "generate"}
    \/ x.kind = "walletResult" /\ x.at = "store"
    \/ x.kind = "agentKeys" /\ x.at \in {"onboard", "store"}
    \/ x.kind = "claim" /\ x.at \in {"find", "user", "insert", "ask", "mark"}

LedgerPlace(x) ==
    \/ x.kind \in {"deposit", "withdraw"} /\ x.at = "upsert"
    \/ x.kind = "spend" /\ x.at = "write"
    \/ x.kind = "sync" /\ x.at \in {"chain", "agent", "compare", "row"}

PricingPlace(x) ==
    \/ x.kind = "quote" /\ x.at \in {"fetch", "track"}
    \/ x.kind = "quoteResult" /\ x.at = "publish"

SettlementPlace(x) ==
    \/ x.kind = "settle" /\ x.at \in {"opinions", "review", "log"}
    \/ x.kind = "resolved" /\ x.at = "close"

TradePlace(x) ==
    \/ x.kind = "market" /\ x.at \in {"cre", "enqueue"}
    \/ x.kind = "tradeResult" /\ x.at \in {"look", "merge", "publish"}

Idle(x) == x.kind = "none" /\ x.at = "none"

Place(x) ==
    \/ Idle(x) \/ WalletPlace(x) \/ LedgerPlace(x) \/ PricingPlace(x) \/ SettlementPlace(x)
    \/ TradePlace(x)

\* A request has a place and the two fields that tell it; only the handlers of agents and
\* wallets hold an agent or a registration.
Placed(x) ==
    /\ "kind" \in DOMAIN x /\ "at" \in DOMAIN x /\ Place(x)
    /\ x.kind \in WalletKinds \/ {"agent", "reg"} \intersect DOMAIN x = {}

ReqOK ==
    /\ DOMAIN req = Requests
    /\ req = [r \in Requests |-> req[r]]
    /\ \A r \in Requests : Placed(req[r])

\* One request moves, from and to a handler of these kinds.
Turn(r, K) ==
    /\ r \in Requests
    /\ \A q \in Requests \ {r} : req'[q] = req[q]
    /\ req[r].kind \in K \union {"none"}
    /\ req'[r].kind \in K \union {"none"}

\* Requests of these kinds stay as and where they are.
Undisturbed(K) ==
    \A q \in Requests : (req[q].kind \in K \/ req'[q].kind \in K) => req'[q] = req[q]

\* An assignment to one request.
LEMMA Assigned ==
    ASSUME ReqOK, NEW r \in Requests, NEW y, req' = [req EXCEPT ![r] = y]
    PROVE  /\ req'[r] = y
           /\ \A q \in Requests \ {r} : req'[q] = req[q]
           /\ Placed(y) => ReqOK'
<1>1. /\ DOMAIN req' = Requests
      /\ req'[r] = y /\ \A q \in Requests \ {r} : req'[q] = req[q]
  BY DEF ReqOK
<1>2. req' = [q \in Requests |-> req'[q]]
  BY <1>1 DEF ReqOK
<1>3. Placed(y) => \A q \in Requests : Placed(req'[q])
  BY <1>1 DEF ReqOK
<1>. QED
  BY <1>1, <1>2, <1>3 DEF ReqOK

\* An answer leaves the request free, whatever it was.
LEMMA Answers ==
    ASSUME ReqOK, NEW r \in Requests, Answer(r)
    PROVE  ReqOK' /\ req'[r] = Free /\ Free.kind = "none" /\ \A q \in Requests \ {r} : req'[q] = req[q]
<1>1. Placed(Free) /\ Free.kind = "none"
  BY DEF Placed, Place, Idle, Free
<1>. QED
  BY <1>1, Assigned DEF Answer

\* The request goes to another await.
LEMMA Goes ==
    ASSUME ReqOK, NEW r \in Requests, NEW at, Goto(r, at)
    PROVE  /\ req'[r].kind = req[r].kind /\ req'[r].at = at
           /\ DOMAIN req'[r] = DOMAIN req[r]
           /\ \A field \in DOMAIN req[r] \ {"at"} : req'[r][field] = req[r][field]
           /\ \A q \in Requests \ {r} : req'[q] = req[q]
           /\ Placed(req'[r]) => ReqOK'
<1>1. "kind" \in DOMAIN req[r] /\ "at" \in DOMAIN req[r]
  BY DEF ReqOK, Placed
<1>. DEFINE y == [req[r] EXCEPT !.at = at]
<1>2. req' = [req EXCEPT ![r] = y]
  BY DEF Goto, ReqOK
<1>3. /\ y.kind = req[r].kind /\ y.at = at /\ DOMAIN y = DOMAIN req[r]
      /\ \A field \in DOMAIN req[r] \ {"at"} : y[field] = req[r][field]
  BY <1>1
<1>. HIDE DEF y
<1>4. req'[r] = y /\ \A q \in Requests \ {r} : req'[q] = req[q]
  BY <1>2, Assigned
<1>5. Placed(y) => ReqOK'
  BY <1>2, Assigned
<1>. QED
  BY <1>3, <1>4, <1>5

\* It goes on with further locals.
LEMMA Withs ==
    ASSUME NEW x, NEW l
    PROVE  /\ DOMAIN With(x, l) = DOMAIN x \union DOMAIN l
           /\ \A field \in DOMAIN l : With(x, l)[field] = l[field]
           /\ \A field \in DOMAIN x \ DOMAIN l : With(x, l)[field] = x[field]
BY DEF With

\* Its kind stays.
LEMMA Continues ==
    ASSUME NEW x, NEW l, Placed(x), "kind" \notin DOMAIN l
    PROVE  /\ "kind" \in DOMAIN With(x, l) /\ "at" \in DOMAIN With(x, l)
           /\ With(x, l).kind = x.kind
           /\ "at" \in DOMAIN l => With(x, l).at = l.at
           /\ DOMAIN With(x, l) = DOMAIN x \union DOMAIN l
<1>1. "kind" \in DOMAIN x /\ "at" \in DOMAIN x
  BY DEF Placed
<1>2. "kind" \in DOMAIN x \ DOMAIN l
  BY <1>1
<1>3. DOMAIN With(x, l) = DOMAIN x \union DOMAIN l
  BY Withs
<1>4. With(x, l)["kind"] = x["kind"]
  BY <1>2, Withs
<1>5. "at" \in DOMAIN l => With(x, l)["at"] = l["at"]
  BY DEF With
<1>. QED
  BY <1>1, <1>3, <1>4, <1>5

----------------------------------------------------------------------------
(* One request moves at a time. *)

\* A request that comes finds a place that is free.
LEMMA ArrivesFree ==
    ASSUME NEW r, NEW kind, Arrive(r, kind)
    PROVE  req[r] = Free /\ req[r].kind = "none"
BY DEF Arrive, Busy, Free

\* The handlers of agents and wallets.
LEMMA WalletTurn ==
    ASSUME ReqOK, NEW r \in Requests, WalletArrives(r) \/ WalletStep(r) \/ WalletFails(r)
    PROVE  Turn(r, WalletKinds) /\ ReqOK'
<1>1. Placed(req[r])
  BY DEF ReqOK
<1>2. ASSUME req[r].kind \in WalletKinds \union {"none"}, Answer(r)
      PROVE  Turn(r, WalletKinds) /\ ReqOK'
  BY <1>2, Answers DEF Turn
<1>3. ASSUME NEW y, req' = [req EXCEPT ![r] = y], Placed(y), y.kind \in WalletKinds,
             req[r].kind \in WalletKinds \union {"none"}
      PROVE  Turn(r, WalletKinds) /\ ReqOK'
  BY <1>3, Assigned DEF Turn
<1>4. ASSUME NEW at, Goto(r, at), req[r].kind \in WalletKinds,
             \A x : (x.kind = req[r].kind /\ x.at = at) => WalletPlace(x)
      PROVE  Turn(r, WalletKinds) /\ ReqOK'
  <2>1. Placed(req'[r])
    BY <1>1, <1>4, Goes DEF Placed, Place
  <2>. QED
    BY <1>4, <2>1, Goes DEF Turn
<1>5. ASSUME WalletArrives(r)
      PROVE  req[r].kind \in WalletKinds \union {"none"}
  BY <1>5, ArrivesFree DEF WalletArrives, CreateAgent, Register, CreateWallet, PatchAgent, DeleteAgent,
       WalletResult, AgentKeys, RegisterSdkAgent, Claim
<1>6. CASE CreateAgent(r)
  <2>1. PICK public, key :
            Become(r, [kind |-> "create", at |-> "insert", row |-> Row(Pending, public, key)])
    BY <1>6 DEF CreateAgent
  <2>2. PICK y : y = [kind |-> "create", at |-> "insert", row |-> Row(Pending, public, key)]
    OBVIOUS
  <2>3. Placed(y) /\ y.kind = "create"
    BY <2>2 DEF Placed, Place, WalletPlace, WalletKinds
  <2>. QED
    BY <1>3, <1>5, <1>6, <2>1, <2>2, <2>3 DEF Become, WalletArrives, WalletKinds
<1>7. CASE Register(r)
  <2>1. \/ Answer(r)
        \/ \E u, w : Become(r, [kind |-> "register", at |-> "insert", user |-> u, row |-> w])
    BY <1>7 DEF Register
  <2>2. ASSUME NEW u, NEW w, Become(r, [kind |-> "register", at |-> "insert", user |-> u, row |-> w])
        PROVE  Turn(r, WalletKinds) /\ ReqOK'
    <3>1. PICK y : y = [kind |-> "register", at |-> "insert", user |-> u, row |-> w]
      OBVIOUS
    <3>2. Placed(y) /\ y.kind = "register"
      BY <3>1 DEF Placed, Place, WalletPlace, WalletKinds
    <3>. QED
      BY <1>3, <1>5, <1>7, <2>2, <3>1, <3>2 DEF Become, WalletArrives, WalletKinds
  <2>. QED
    BY <1>2, <1>5, <1>7, <2>1, <2>2 DEF WalletArrives
<1>8. CASE CreateWallet(r)
  <2>1. \/ Answer(r)
        \/ \E a \in Agents, at \in {"ask", "generate"} :
              Become(r, [kind |-> "createWallet", agent |-> a, at |-> at])
    <3>. DEFINE go == IF cre THEN "ask" ELSE "generate"
    <3>1. \E a \in Agents :
             Answer(r) \/ Become(r, [kind |-> "createWallet", agent |-> a, at |-> go])
      BY <1>8 DEF CreateWallet
    <3>2. go \in {"ask", "generate"}
      OBVIOUS
    <3>. HIDE DEF go
    <3>. QED
      BY <3>1, <3>2
  <2>2. ASSUME NEW a, NEW at \in {"ask", "generate"},
               Become(r, [kind |-> "createWallet", agent |-> a, at |-> at])
        PROVE  Turn(r, WalletKinds) /\ ReqOK'
    <3>1. PICK y : y = [kind |-> "createWallet", agent |-> a, at |-> at]
      OBVIOUS
    <3>2. Placed(y) /\ y.kind = "createWallet"
      BY <3>1 DEF Placed, Place, WalletPlace, WalletKinds
    <3>. QED
      BY <1>3, <1>5, <1>8, <2>2, <3>1, <3>2 DEF Become, WalletArrives, WalletKinds
  <2>. QED
    BY <1>2, <1>5, <1>8, <2>1, <2>2 DEF WalletArrives
<1>9. CASE PatchAgent(r) \/ DeleteAgent(r) \/ RegisterSdkAgent(r)
  BY <1>2, <1>5, <1>9 DEF WalletArrives, PatchAgent, DeleteAgent, RegisterSdkAgent
<1>10. CASE WalletResult(r)
  <2>1. \/ Answer(r)
        \/ \E a, k, s, p : Become(r, [kind |-> "walletResult", at |-> "store", agent |-> a,
                                      pair |-> k, sealed |-> s, public |-> p])
    BY <1>10 DEF WalletResult
  <2>2. ASSUME NEW a, NEW k, NEW s, NEW p,
               Become(r, [kind |-> "walletResult", at |-> "store", agent |-> a,
                          pair |-> k, sealed |-> s, public |-> p])
        PROVE  Turn(r, WalletKinds) /\ ReqOK'
    <3>1. PICK y : y = [kind |-> "walletResult", at |-> "store", agent |-> a,
                        pair |-> k, sealed |-> s, public |-> p]
      OBVIOUS
    <3>2. Placed(y) /\ y.kind = "walletResult"
      BY <3>1 DEF Placed, Place, WalletPlace, WalletKinds
    <3>. QED
      BY <1>3, <1>5, <1>10, <2>2, <3>1, <3>2 DEF Become, WalletArrives, WalletKinds
  <2>. QED
    BY <1>2, <1>5, <1>10, <2>1, <2>2 DEF WalletArrives
<1>11. CASE AgentKeys(r)
  <2>1. \/ Answer(r)
        \/ \E a, k : Become(r, [kind |-> "agentKeys", at |-> "onboard", agent |-> a, pair |-> k])
    BY <1>11 DEF AgentKeys
  <2>2. ASSUME NEW a, NEW k, Become(r, [kind |-> "agentKeys", at |-> "onboard", agent |-> a, pair |-> k])
        PROVE  Turn(r, WalletKinds) /\ ReqOK'
    <3>1. PICK y : y = [kind |-> "agentKeys", at |-> "onboard", agent |-> a, pair |-> k]
      OBVIOUS
    <3>2. Placed(y) /\ y.kind = "agentKeys"
      BY <3>1 DEF Placed, Place, WalletPlace, WalletKinds
    <3>. QED
      BY <1>3, <1>5, <1>11, <2>2, <3>1, <3>2 DEF Become, WalletArrives, WalletKinds
  <2>. QED
    BY <1>2, <1>5, <1>11, <2>1, <2>2 DEF WalletArrives
<1>12. CASE Claim(r)
  <2>1. \/ Answer(r)
        \/ \E g, u, w : Become(r, [kind |-> "claim", at |-> "find", reg |-> g, user |-> u, row |-> w])
    BY <1>12 DEF Claim
  <2>2. ASSUME NEW g, NEW u, NEW w,
               Become(r, [kind |-> "claim", at |-> "find", reg |-> g, user |-> u, row |-> w])
        PROVE  Turn(r, WalletKinds) /\ ReqOK'
    <3>1. PICK y : y = [kind |-> "claim", at |-> "find", reg |-> g, user |-> u, row |-> w]
      OBVIOUS
    <3>2. Placed(y) /\ y.kind = "claim"
      BY <3>1 DEF Placed, Place, WalletPlace, WalletKinds
    <3>. QED
      BY <1>3, <1>5, <1>12, <2>2, <3>1, <3>2 DEF Become, WalletArrives, WalletKinds
  <2>. QED
    BY <1>2, <1>5, <1>12, <2>1, <2>2 DEF WalletArrives
<1>13. CASE InsertAgent(r)
  <2>. DEFINE at == AfterInsert(req[r])
  <2>1. /\ req[r].kind \in {"create", "register", "claim"}
        /\ \/ Answer(r)
           \/ at # "done" /\ \E a : Become(r, With(req[r], [at |-> at, agent |-> a]))
    BY <1>13 DEF InsertAgent
  <2>2. ASSUME NEW a, at # "done", Become(r, With(req[r], [at |-> at, agent |-> a]))
        PROVE  Turn(r, WalletKinds) /\ ReqOK'
    <3>1. \/ req[r].kind = "create" /\ at \in {"ask", "generate"}
          \/ req[r].kind = "register" /\ at = "ask"
          \/ req[r].kind = "claim" /\ at \in {"ask", "mark"}
      BY <2>1, <2>2 DEF AfterInsert
    <3>. HIDE DEF at
    <3>2. PICK l : l = [at |-> at, agent |-> a]
      OBVIOUS
    <3>3. PICK y : y = With(req[r], l)
      OBVIOUS
    <3>4. y.kind = req[r].kind /\ y.at = at /\ "kind" \in DOMAIN y /\ "at" \in DOMAIN y
      BY <1>1, <3>2, <3>3, Continues
    <3>5. Placed(y)
      BY <3>1, <3>4 DEF Placed, Place, WalletPlace, WalletKinds
    <3>. QED
      BY <1>3, <2>1, <2>2, <3>2, <3>3, <3>4, <3>5 DEF Become, WalletKinds
  <2>. QED
    BY <1>2, <2>1, <2>2 DEF WalletKinds
<1>14. CASE AskCRE(r)
  <2>1. req[r].kind \in {"create", "register", "createWallet", "claim"}
    BY <1>1, <1>14 DEF AskCRE, Placed, Place, Idle, WalletPlace, LedgerPlace, PricingPlace,
                        SettlementPlace, TradePlace
  <2>2. CASE req[r].kind = "claim" /\ Goto(r, "mark")
    BY <1>4, <2>2 DEF WalletPlace, WalletKinds
  <2>. QED
    BY <1>2, <1>14, <2>1, <2>2 DEF AskCRE, WalletKinds
<1>15. CASE GenerateKeys(r)
  <2>1. req[r].kind \in {"create", "createWallet"}
    BY <1>1, <1>15 DEF GenerateKeys, Placed, Place, Idle, WalletPlace, LedgerPlace, PricingPlace,
                        SettlementPlace, TradePlace
  <2>. QED
    BY <1>2, <1>15, <2>1 DEF GenerateKeys, WalletKinds
<1>16. CASE StoreResult(r) \/ StoreKeys(r) \/ MarkClaimed(r)
  BY <1>2, <1>16 DEF StoreResult, StoreKeys, MarkClaimed, At, WalletKinds
<1>17. CASE Onboard(r)
  BY <1>4, <1>17 DEF Onboard, At, WalletKinds, WalletPlace
<1>18. CASE FindUser(r)
  <2>1. Goto(r, "insert") \/ Goto(r, "user")
    BY <1>18 DEF FindUser
  <2>. QED
    BY <1>4, <1>18, <2>1 DEF FindUser, At, WalletKinds, WalletPlace
<1>19. CASE CreateUser(r)
  BY <1>2, <1>4, <1>19 DEF CreateUser, At, WalletKinds, WalletPlace
<1>20. CASE WalletFails(r)
  BY <1>2, <1>20 DEF WalletFails, Rejects, WalletKinds, walletKinds
<1>. QED
  BY <1>6, <1>7, <1>8, <1>9, <1>10, <1>11, <1>12, <1>13, <1>14, <1>15, <1>16, <1>17, <1>18, <1>19, <1>20
     DEF WalletArrives, WalletStep

\* The handlers of balances.
LEMMA LedgerTurn ==
    ASSUME ReqOK, NEW r \in Requests, LedgerArrives(r) \/ LedgerStep(r) \/ LedgerFails(r)
    PROVE  Turn(r, LedgerKinds) /\ ReqOK'
<1>1. Placed(req[r])
  BY DEF ReqOK
<1>2. ASSUME req[r].kind \in LedgerKinds \union {"none"}, Answer(r)
      PROVE  Turn(r, LedgerKinds) /\ ReqOK'
  BY <1>2, Answers DEF Turn
<1>3. ASSUME NEW y, req' = [req EXCEPT ![r] = y], Placed(y), y.kind \in LedgerKinds,
             req[r].kind \in LedgerKinds \union {"none"}
      PROVE  Turn(r, LedgerKinds) /\ ReqOK'
  BY <1>3, Assigned DEF Turn
<1>4. CASE Deposit(r)
  <2>1. PICK y : \E n : y = [kind |-> "deposit", at |-> "upsert", amount |-> n] /\ Become(r, y)
    BY <1>4 DEF Deposit
  <2>2. Placed(y) /\ y.kind = "deposit"
    BY <2>1 DEF Placed, Place, LedgerPlace
  <2>. QED
    BY <1>3, <1>4, <2>1, <2>2, ArrivesFree DEF Deposit, Become, LedgerKinds
<1>5. CASE Withdraw(r)
  <2>1. \/ Answer(r)
        \/ \E n, v : Become(r, [kind |-> "withdraw", at |-> "upsert", amount |-> n, read |-> v])
    BY <1>5 DEF Withdraw
  <2>2. ASSUME NEW n, NEW v,
               Become(r, [kind |-> "withdraw", at |-> "upsert", amount |-> n, read |-> v])
        PROVE  Turn(r, LedgerKinds) /\ ReqOK'
    <3>1. PICK y : y = [kind |-> "withdraw", at |-> "upsert", amount |-> n, read |-> v]
      OBVIOUS
    <3>2. Placed(y) /\ y.kind = "withdraw"
      BY <3>1 DEF Placed, Place, LedgerPlace
    <3>. QED
      BY <1>3, <1>5, <2>2, <3>1, <3>2, ArrivesFree DEF Withdraw, Become, LedgerKinds
  <2>. QED
    BY <1>2, <1>5, <2>1, <2>2, ArrivesFree DEF Withdraw
<1>6. CASE Spend(r)
  <2>1. PICK n, v : Become(r, [kind |-> "spend", at |-> "write", amount |-> n, read |-> v])
    BY <1>6 DEF Spend
  <2>2. PICK y : y = [kind |-> "spend", at |-> "write", amount |-> n, read |-> v]
    OBVIOUS
  <2>3. Placed(y) /\ y.kind = "spend"
    BY <2>2 DEF Placed, Place, LedgerPlace
  <2>. QED
    BY <1>3, <1>6, <2>1, <2>2, <2>3, ArrivesFree DEF Spend, Become, LedgerKinds
<1>7. CASE Sync(r)
  <2>1. PICK c, v : Become(r, [kind |-> "sync", at |-> "chain", chain |-> c, was |-> v])
    BY <1>7 DEF Sync
  <2>2. PICK y : y = [kind |-> "sync", at |-> "chain", chain |-> c, was |-> v]
    OBVIOUS
  <2>3. Placed(y) /\ y.kind = "sync"
    BY <2>2 DEF Placed, Place, LedgerPlace
  <2>. QED
    BY <1>3, <1>7, <2>1, <2>2, <2>3, ArrivesFree DEF Sync, Become, LedgerKinds
<1>8. CASE PutIn(r) \/ TakeOut(r) \/ WriteTokens(r) \/ WriteRowOf(r)
  BY <1>2, <1>8 DEF PutIn, TakeOut, WriteTokens, WriteRowOf, At, LedgerKinds
<1>9. ASSUME NEW at \in {"agent", "compare", "row"}, Goto(r, at), req[r].kind = "sync"
      PROVE  Turn(r, LedgerKinds) /\ ReqOK'
  <2>1. Placed(req'[r])
    BY <1>1, <1>9, Goes DEF Placed, Place, LedgerPlace
  <2>. QED
    BY <1>9, <2>1, Goes DEF Turn, LedgerKinds
<1>10. CASE WriteAgent(r) \/ CompareRow(r)
  BY <1>2, <1>9, <1>10 DEF WriteAgent, CompareRow, At, LedgerKinds
<1>11. CASE ReadChain(r)
  <2>. DEFINE x == With(req[r], [found |-> money[req[r].chain]])
  <2>1. /\ req[r].kind = "sync"
        /\ \/ Answer(r)
           \/ \E at \in {"agent", "compare"} : Become(r, [x EXCEPT !.at = at])
    BY <1>11 DEF ReadChain, At
  <2>2. /\ "kind" \in DOMAIN x /\ "at" \in DOMAIN x /\ x.kind = req[r].kind
        /\ DOMAIN x = DOMAIN req[r] \union {"found"}
    BY <1>1, Continues
  <2>. HIDE DEF x
  <2>3. ASSUME NEW at \in {"agent", "compare"}, Become(r, [x EXCEPT !.at = at])
        PROVE  Turn(r, LedgerKinds) /\ ReqOK'
    <3>1. PICK y : y = [x EXCEPT !.at = at]
      OBVIOUS
    <3>2. DOMAIN y = DOMAIN x /\ y.kind = x.kind /\ y.at = at
      BY <2>2, <3>1
    <3>3. Placed(y)
      <4>1. {"agent", "reg"} \intersect DOMAIN req[r] = {}
        BY <1>1, <2>1 DEF Placed, WalletKinds
      <4>2. {"agent", "reg"} \intersect DOMAIN y = {}
        BY <2>2, <3>2, <4>1
      <4>3. Place(y)
        BY <1>1, <2>1, <2>2, <3>2 DEF Placed, Place, LedgerPlace
      <4>. QED
        BY <2>2, <3>2, <4>2, <4>3 DEF Placed
    <3>. QED
      BY <1>3, <2>1, <2>2, <2>3, <3>1, <3>2, <3>3 DEF Become, LedgerKinds
  <2>. QED
    BY <1>2, <2>1, <2>3 DEF LedgerKinds
<1>12. CASE LedgerFails(r)
  BY <1>2, <1>12 DEF LedgerFails, Rejects, LedgerKinds
<1>. QED
  BY <1>4, <1>5, <1>6, <1>7, <1>8, <1>10, <1>11, <1>12 DEF LedgerArrives, LedgerStep

\* The handlers of quotes.
LEMMA PricingTurn ==
    ASSUME ReqOK, NEW r \in Requests, PricingArrives(r) \/ PricingStep(r) \/ PricingFails(r)
    PROVE  Turn(r, PricingKinds) /\ ReqOK'
<1>1. Placed(req[r])
  BY DEF ReqOK
<1>2. ASSUME req[r].kind \in PricingKinds \union {"none"}, Answer(r)
      PROVE  Turn(r, PricingKinds) /\ ReqOK'
  BY <1>2, Answers DEF Turn
<1>3. ASSUME NEW y, req' = [req EXCEPT ![r] = y], Placed(y), y.kind \in PricingKinds,
             req[r].kind = "none"
      PROVE  Turn(r, PricingKinds) /\ ReqOK'
  BY <1>3, Assigned DEF Turn
<1>4. CASE RequestPricing(r)
  <2>1. Arrive(r, "quote")
    BY <1>4 DEF RequestPricing
  <2>2. PICK i, m, u : Become(r, [kind |-> "quote", at |-> "fetch", id |-> i, market |-> m, user |-> u])
    BY <1>4 DEF RequestPricing
  <2>3. PICK y : y = [kind |-> "quote", at |-> "fetch", id |-> i, market |-> m, user |-> u]
    OBVIOUS
  <2>4. Placed(y) /\ y.kind = "quote"
    BY <2>3 DEF Placed, Place, PricingPlace
  <2>. QED
    BY <1>3, <2>1, <2>2, <2>3, <2>4, ArrivesFree DEF Become, PricingKinds
<1>5. CASE PricingCallback(r)
  <2>1. Arrive(r, "quoteResult")
    BY <1>5 DEF PricingCallback
  <2>2. PICK i : Become(r, [kind |-> "quoteResult", at |-> "publish", id |-> i])
    BY <1>5 DEF PricingCallback
  <2>3. PICK y : y = [kind |-> "quoteResult", at |-> "publish", id |-> i]
    OBVIOUS
  <2>4. Placed(y) /\ y.kind = "quoteResult"
    BY <2>3 DEF Placed, Place, PricingPlace
  <2>. QED
    BY <1>3, <2>1, <2>2, <2>3, <2>4, ArrivesFree DEF Become, PricingKinds
<1>6. CASE FetchQuote(r)
  <2>1. req[r].kind = "quote" /\ (Goto(r, "track") \/ Answer(r))
    BY <1>6 DEF FetchQuote, At
  <2>2. CASE Goto(r, "track")
    <3>1. Placed(req'[r])
      BY <1>1, <2>1, <2>2, Goes DEF Placed, Place, PricingPlace
    <3>. QED
      BY <2>1, <2>2, <3>1, Goes DEF Turn, PricingKinds
  <2>. QED
    BY <1>2, <2>1, <2>2 DEF PricingKinds
<1>7. CASE TrackQuote(r) \/ PublishQuote(r)
  BY <1>2, <1>7 DEF TrackQuote, PublishQuote, At, PricingKinds
<1>8. CASE PricingFails(r)
  BY <1>2, <1>8 DEF PricingFails, Rejects, PricingKinds
<1>. QED
  BY <1>4, <1>5, <1>6, <1>7, <1>8 DEF PricingArrives, PricingStep

\* The handlers of settlement.
LEMMA SettlementTurn ==
    ASSUME ReqOK, NEW r \in Requests, SettlementArrives(r) \/ SettlementStep(r) \/ SettlementFails(r)
    PROVE  Turn(r, SettlementKinds) /\ ReqOK'
<1>1. Placed(req[r])
  BY DEF ReqOK
<1>2. ASSUME req[r].kind \in SettlementKinds \union {"none"}, Answer(r)
      PROVE  Turn(r, SettlementKinds) /\ ReqOK'
  BY <1>2, Answers DEF Turn
<1>3. ASSUME NEW y, req' = [req EXCEPT ![r] = y], Placed(y), y.kind \in SettlementKinds,
             req[r].kind \in SettlementKinds \union {"none"}
      PROVE  Turn(r, SettlementKinds) /\ ReqOK'
  BY <1>3, Assigned DEF Turn
<1>4. CASE FindMarketsDue(r) \/ PatchMarket(r) \/ DeleteMarket(r)
  BY <1>2, <1>4, ArrivesFree DEF FindMarketsDue, PatchMarket, DeleteMarket
<1>5. CASE RunSettlement(r)
  <2>1. Arrive(r, "settle")
    BY <1>5 DEF RunSettlement
  <2>2. \/ Answer(r)
        \/ \E m, n : Become(r, [kind |-> "settle", at |-> "opinions", market |-> m, outcomes |-> n])
    BY <1>5 DEF RunSettlement
  <2>3. ASSUME NEW m, NEW n,
               Become(r, [kind |-> "settle", at |-> "opinions", market |-> m, outcomes |-> n])
        PROVE  Turn(r, SettlementKinds) /\ ReqOK'
    <3>1. PICK y : y = [kind |-> "settle", at |-> "opinions", market |-> m, outcomes |-> n]
      OBVIOUS
    <3>2. Placed(y) /\ y.kind = "settle"
      BY <3>1 DEF Placed, Place, SettlementPlace
    <3>. QED
      BY <1>3, <2>1, <2>3, <3>1, <3>2, ArrivesFree DEF Become, SettlementKinds
  <2>. QED
    BY <1>2, <2>1, <2>2, <2>3, ArrivesFree
<1>6. CASE Resolved(r)
  <2>1. Arrive(r, "resolved")
    BY <1>6 DEF Resolved
  <2>2. \/ Answer(r)
        \/ \E m : Become(r, [kind |-> "resolved", at |-> "close", market |-> m])
    BY <1>6 DEF Resolved
  <2>3. ASSUME NEW m, Become(r, [kind |-> "resolved", at |-> "close", market |-> m])
        PROVE  Turn(r, SettlementKinds) /\ ReqOK'
    <3>1. PICK y : y = [kind |-> "resolved", at |-> "close", market |-> m]
      OBVIOUS
    <3>2. Placed(y) /\ y.kind = "resolved"
      BY <3>1 DEF Placed, Place, SettlementPlace
    <3>. QED
      BY <1>3, <2>1, <2>3, <3>1, <3>2, ArrivesFree DEF Become, SettlementKinds
  <2>. QED
    BY <1>2, <2>1, <2>2, <2>3, ArrivesFree
<1>7. CASE Opinions(r)
  <2>1. req[r].kind = "settle" /\ Goto(r, "review")
    BY <1>7 DEF Opinions, At
  <2>2. Placed(req'[r])
    BY <1>1, <2>1, Goes DEF Placed, Place, SettlementPlace
  <2>. QED
    BY <2>1, <2>2, Goes DEF Turn, SettlementKinds
<1>8. CASE Review(r)
  <2>1. PICK v : Become(r, With(req[r], [at |-> "log", verdict |-> v]))
    BY <1>8 DEF Review
  <2>2. PICK l : l = [at |-> "log", verdict |-> v]
    OBVIOUS
  <2>3. PICK y : y = With(req[r], l)
    OBVIOUS
  <2>4. /\ y.kind = req[r].kind /\ y.at = "log" /\ "kind" \in DOMAIN y /\ "at" \in DOMAIN y
        /\ DOMAIN y = DOMAIN req[r] \union {"at", "verdict"}
    BY <1>1, <2>2, <2>3, Continues
  <2>5. Placed(y) /\ req[r].kind = "settle"
    <3>1. req[r].kind = "settle"
      BY <1>8 DEF Review, At
    <3>2. {"agent", "reg"} \intersect DOMAIN y = {}
      BY <1>1, <2>4, <3>1 DEF Placed, WalletKinds
    <3>3. Place(y)
      BY <2>4, <3>1 DEF Place, SettlementPlace
    <3>. QED
      BY <2>4, <3>1, <3>2, <3>3 DEF Placed
  <2>. QED
    BY <1>3, <2>1, <2>2, <2>3, <2>4, <2>5 DEF Become, SettlementKinds
<1>9. CASE LogAndAnswer(r) \/ CloseMarket(r)
  BY <1>2, <1>9 DEF LogAndAnswer, CloseMarket, At, SettlementKinds
<1>10. CASE SettlementFails(r)
  BY <1>2, <1>10 DEF SettlementFails, Rejects, SettlementKinds
<1>. QED
  BY <1>4, <1>5, <1>6, <1>7, <1>8, <1>9, <1>10 DEF SettlementArrives, SettlementStep

\* The handlers of CRE's trades.
LEMMA TradesTurn ==
    ASSUME ReqOK, NEW r \in Requests, TradesArrive(r) \/ TradesStep(r) \/ TradesFail(r)
    PROVE  Turn(r, TradeKinds) /\ ReqOK'
<1>1. Placed(req[r])
  BY DEF ReqOK
<1>2. ASSUME req[r].kind \in TradeKinds, Answer(r)
      PROVE  Turn(r, TradeKinds) /\ ReqOK'
  BY <1>2, Answers DEF Turn
<1>3. ASSUME NEW y, req' = [req EXCEPT ![r] = y], Placed(y), y.kind \in TradeKinds,
             req[r].kind \in TradeKinds \union {"none"}
      PROVE  Turn(r, TradeKinds) /\ ReqOK'
  BY <1>3, Assigned DEF Turn
<1>4. CASE TakeMarketOrder(r)
  <2>1. Arrive(r, "market")
    BY <1>4 DEF TakeMarketOrder
  <2>2. PICK o : Become(r, [kind |-> "market", at |-> "cre", order |-> o])
    BY <1>4 DEF TakeMarketOrder
  <2>3. PICK y : y = [kind |-> "market", at |-> "cre", order |-> o]
    OBVIOUS
  <2>4. Placed(y) /\ y.kind = "market"
    BY <2>3 DEF Placed, Place, TradePlace
  <2>. QED
    BY <1>3, <2>1, <2>2, <2>3, <2>4, ArrivesFree DEF Become, TradeKinds
<1>5. CASE TradeCallback(r)
  <2>1. Arrive(r, "tradeResult")
    BY <1>5 DEF TradeCallback
  <2>2. PICK o, f : Become(r, [kind |-> "tradeResult", at |-> "look", order |-> o, body |-> f,
                                 tries |-> 3])
    BY <1>5 DEF TradeCallback
  <2>3. PICK y : y = [kind |-> "tradeResult", at |-> "look", order |-> o, body |-> f, tries |-> 3]
    OBVIOUS
  <2>4. Placed(y) /\ y.kind = "tradeResult"
    BY <2>3 DEF Placed, Place, TradePlace
  <2>. QED
    BY <1>3, <2>1, <2>2, <2>3, <2>4, ArrivesFree DEF Become, TradeKinds
<1>6. CASE ExecuteMarketOrder(r)
  <2>1. req[r].kind = "market" /\ (Goto(r, "enqueue") \/ Answer(r))
    BY <1>6 DEF ExecuteMarketOrder, At, Rejects
  <2>2. CASE Goto(r, "enqueue")
    <3>1. Placed(req'[r])
      BY <1>1, <2>1, <2>2, Goes DEF Placed, Place, TradePlace
    <3>. QED
      BY <2>1, <2>2, <3>1, Goes DEF Turn, TradeKinds
  <2>. QED
    BY <1>2, <2>1, <2>2 DEF TradeKinds
<1>7. CASE EnqueueOrder(r) \/ PublishPayload(r)
  BY <1>2, <1>7 DEF EnqueueOrder, PublishPayload, At, TradeKinds
<1>10. CASE UpdatePayload(r)
  <2>1. req[r].kind = "tradeResult" /\ Goto(r, "publish")
    BY <1>10 DEF UpdatePayload, At
  <2>2. Placed(req'[r])
    BY <1>1, <2>1, Goes DEF Placed, Place, TradePlace
  <2>. QED
    BY <2>1, <2>2, Goes DEF Turn, TradeKinds
<1>8. CASE FindOrder(r)
  <2>1. /\ req[r].kind = "tradeResult" /\ req[r].at = "look"
        /\ \/ Answer(r)
           \/ Become(r, With(req[r], [at |-> "merge", read |-> payload[req[r].order]]))
           \/ Become(r, [req[r] EXCEPT !.tries = @ - 1])
    BY <1>8 DEF FindOrder, At
  <2>2. CASE Become(r, With(req[r], [at |-> "merge", read |-> payload[req[r].order]]))
    <3>1. PICK l : l = [at |-> "merge", read |-> payload[req[r].order]]
      OBVIOUS
    <3>2. PICK y : y = With(req[r], l)
      OBVIOUS
    <3>3. /\ y.kind = req[r].kind /\ y.at = "merge" /\ "kind" \in DOMAIN y /\ "at" \in DOMAIN y
          /\ DOMAIN y = DOMAIN req[r] \union {"at", "read"}
      BY <1>1, <3>1, <3>2, Continues
    <3>4. Placed(y)
      <4>1. {"agent", "reg"} \intersect DOMAIN y = {}
        BY <1>1, <2>1, <3>3 DEF Placed, WalletKinds
      <4>2. Place(y)
        BY <2>1, <3>3 DEF Place, TradePlace
      <4>. QED
        BY <3>3, <4>1, <4>2 DEF Placed
    <3>. QED
      BY <1>3, <2>1, <2>2, <3>1, <3>2, <3>3, <3>4 DEF Become, TradeKinds
  <2>3. CASE Become(r, [req[r] EXCEPT !.tries = @ - 1])
    <3>1. PICK y : y = [req[r] EXCEPT !.tries = @ - 1]
      OBVIOUS
    <3>2. y.kind = req[r].kind /\ y.at = "look" /\ DOMAIN y = DOMAIN req[r]
      BY <1>1, <2>1, <3>1 DEF Placed
    <3>3. Placed(y)
      <4>1. {"agent", "reg"} \intersect DOMAIN y = {}
        BY <1>1, <2>1, <3>2 DEF Placed, WalletKinds
      <4>2. Place(y)
        BY <2>1, <3>2 DEF Place, TradePlace
      <4>. QED
        BY <1>1, <3>2, <4>1, <4>2 DEF Placed
    <3>. QED
      BY <1>3, <2>1, <2>3, <3>1, <3>2, <3>3 DEF Become, TradeKinds
  <2>. QED
    BY <1>2, <2>1, <2>2, <2>3 DEF TradeKinds
<1>9. CASE TradesFail(r)
  BY <1>2, <1>9 DEF TradesFail, Rejects, TradeKinds
<1>. QED
  BY <1>4, <1>5, <1>6, <1>7, <1>8, <1>9, <1>10 DEF TradesArrive, TradesStep

----------------------------------------------------------------------------
(* The steps of the whole, by the part they belong to. *)

WalletMoves(r) == WalletArrives(r) \/ WalletStep(r) \/ WalletFails(r)
LedgerMoves(r) == LedgerArrives(r) \/ LedgerStep(r) \/ LedgerFails(r)
PricingMoves(r) == PricingArrives(r) \/ PricingStep(r) \/ PricingFails(r)
SettlementMoves(r) == SettlementArrives(r) \/ SettlementStep(r) \/ SettlementFails(r)
TradesMove(r) == TradesArrive(r) \/ TradesStep(r) \/ TradesFail(r)

\* What comes by itself, from clients, or from outside.
ByItself == Timers \/ Outside \/ \E s \in Sockets : Socket(s) \/ SocketBeats(s)

AllFree == req' = [r \in Requests |-> Free]

\* A step is one of a handler of one part, which leaves the other parts alone; or it is of
\* no request; or the process starts again.
LEMMA OneMoves ==
    ASSUME Next
    PROVE  \/ \E r \in Requests : WalletMoves(r) /\ UNCHANGED <<ledger, quotes, settle, trades>>
           \/ \E r \in Requests : LedgerMoves(r) /\ UNCHANGED <<wallet, quotes, settle, trades>>
           \/ \E r \in Requests : PricingMoves(r) /\ UNCHANGED <<wallet, ledger, settle, trades>>
           \/ \E r \in Requests : SettlementMoves(r) /\ UNCHANGED <<wallet, ledger, quotes, trades>>
           \/ \E r \in Requests : TradesMove(r) /\ UNCHANGED <<wallet, ledger, quotes, settle>>
           \/ ByItself \/ ServerRestart
<1>1. ASSUME NEW r \in Requests, Arrives(r) \/ HandlerStep(r) \/ RequestFails(r)
      PROVE  \/ WalletMoves(r) /\ UNCHANGED <<ledger, quotes, settle, trades>>
             \/ LedgerMoves(r) /\ UNCHANGED <<wallet, quotes, settle, trades>>
             \/ PricingMoves(r) /\ UNCHANGED <<wallet, ledger, settle, trades>>
             \/ SettlementMoves(r) /\ UNCHANGED <<wallet, ledger, quotes, trades>>
             \/ TradesMove(r) /\ UNCHANGED <<wallet, ledger, quotes, settle>>
  <2>1. CASE Arrives(r)
    BY <2>1 DEF Arrives, WalletMoves, LedgerMoves, PricingMoves, SettlementMoves, TradesMove
  <2>2. CASE HandlerStep(r)
    BY <2>2 DEF HandlerStep, WalletMoves, LedgerMoves, PricingMoves, SettlementMoves, TradesMove
  <2>3. CASE RequestFails(r)
    BY <2>3 DEF RequestFails, WalletMoves, LedgerMoves, PricingMoves, SettlementMoves, TradesMove
  <2>. QED
    BY <1>1, <2>1, <2>2, <2>3
<1>. QED
  BY <1>1 DEF Next, ByItself

\* What comes by itself moves no request.
LEMMA NoneMoves ==
    ASSUME ByItself
    PROVE  req' = req
<1>1. CASE Timers
  BY <1>1 DEF Timers, QuoteTimer, Deliver, ConnectBinance, PersistOrder, handlerVars
<1>2. CASE Outside
  <2>1. ASSUME RoomStep PROVE req' = req
    BY <2>1 DEF RoomStep, Announce, BroadcastPrice, FeedCloses
  <2>. QED
    BY <1>2, <2>1 DEF Outside, MoneyMoves, WriteReport, handlerVars
<1>3. ASSUME NEW s \in Sockets, Socket(s) \/ SocketBeats(s)
      PROVE  req' = req
  BY <1>3 DEF Socket, SocketBeats, SocketStep, SocketTimer, AddSocket, Subscribe, Unsubscribe,
       Pong, Leave, Heartbeat, RemoveSocket, handlerVars
<1>. QED
  BY <1>1, <1>2, <1>3 DEF ByItself

\* At the start no request is at work, and where requests are is kept by every step.
LEMMA RequestsKeepTheirPlace ==
    /\ Init => ReqOK
    /\ ReqOK /\ [Next]_vars => ReqOK'
<1>1. Placed(Free)
  BY DEF Placed, Place, Idle, Free
<1>2. Init => ReqOK
  <2>1. SUFFICES ASSUME Init PROVE ReqOK
    OBVIOUS
  <2>2. req = [r \in Requests |-> Free]
    BY <2>1 DEF Init, HandlersInit
  <2>. QED
    BY <1>1, <2>2 DEF ReqOK
<1>3. ASSUME ReqOK, UNCHANGED req
      PROVE  ReqOK'
  BY <1>3 DEF ReqOK, Requests, Placed, Place, Idle, WalletPlace, LedgerPlace, PricingPlace,
        SettlementPlace, TradePlace
<1>4. ASSUME ReqOK, AllFree
      PROVE  ReqOK'
  <2>1. DOMAIN req' = Requests /\ \A r \in Requests : req'[r] = Free
    BY <1>4 DEF AllFree
  <2>2. req' = [r \in Requests |-> req'[r]]
    BY <1>4 DEF AllFree
  <2>. QED
    BY <1>1, <2>1, <2>2 DEF ReqOK
<1>5. ASSUME ReqOK, Next
      PROVE  ReqOK'
  <2>1. CASE \E r \in Requests : WalletMoves(r)
    BY <1>5, <2>1, WalletTurn DEF WalletMoves
  <2>2. CASE \E r \in Requests : LedgerMoves(r)
    BY <1>5, <2>2, LedgerTurn DEF LedgerMoves
  <2>3. CASE \E r \in Requests : PricingMoves(r)
    BY <1>5, <2>3, PricingTurn DEF PricingMoves
  <2>4. CASE \E r \in Requests : SettlementMoves(r)
    BY <1>5, <2>4, SettlementTurn DEF SettlementMoves
  <2>5. CASE \E r \in Requests : TradesMove(r)
    BY <1>5, <2>5, TradesTurn DEF TradesMove
  <2>6. CASE ByItself
    BY <1>3, <1>5, <2>6, NoneMoves
  <2>7. CASE ServerRestart
    BY <1>4, <1>5, <2>7 DEF ServerRestart, AllFree
  <2>. QED
    BY <1>5, <2>1, <2>2, <2>3, <2>4, <2>5, <2>6, <2>7, OneMoves
<1>6. ReqOK /\ [Next]_vars => ReqOK'
  BY <1>3, <1>5 DEF vars, handlerVars
<1>. QED
  BY <1>2, <1>6

\* A request that moves among some handlers leaves those of all other handlers alone.
LEMMA OthersRest ==
    ASSUME NEW K, NEW L, NEW r, Turn(r, K), K \intersect L = {}, "none" \notin L
    PROVE  Undisturbed(L)
BY DEF Turn, Undisturbed

LEMMA KindsDiffer ==
    /\ "none" \notin WalletKinds /\ "none" \notin LedgerKinds /\ "none" \notin SettlementKinds
    /\ "none" \notin TradeKinds /\ "none" \notin PricingKinds
    /\ WalletKinds \intersect LedgerKinds = {} /\ WalletKinds \intersect SettlementKinds = {}
    /\ WalletKinds \intersect TradeKinds = {} /\ WalletKinds \intersect PricingKinds = {}
    /\ LedgerKinds \intersect SettlementKinds = {} /\ LedgerKinds \intersect TradeKinds = {}
    /\ LedgerKinds \intersect PricingKinds = {} /\ SettlementKinds \intersect TradeKinds = {}
    /\ SettlementKinds \intersect PricingKinds = {} /\ TradeKinds \intersect PricingKinds = {}
BY DEF WalletKinds, LedgerKinds, SettlementKinds, TradeKinds, PricingKinds

----------------------------------------------------------------------------
(* Balances. *)

\* A step of the whole, as the balances see it.
LEMMA LedgerFrame ==
    ASSUME ReqOK, [Next]_vars
    PROVE  \/ \E r \in Requests : LedgerMoves(r) /\ Turn(r, LedgerKinds)
           \/ MoneyMoves
           \/ UNCHANGED ledgerVars /\ Undisturbed(LedgerKinds)
           \/ LedgerStops /\ AllFree
<1>1. ASSUME UNCHANGED vars
      PROVE  UNCHANGED ledgerVars /\ Undisturbed(LedgerKinds)
  BY <1>1 DEF vars, handlerVars, Undisturbed
<1>2. CASE \E r \in Requests : WalletMoves(r) /\ UNCHANGED <<ledger, quotes, settle, trades>>
  BY <1>2, WalletTurn, OthersRest, KindsDiffer DEF WalletMoves, ledger
<1>3. CASE \E r \in Requests : LedgerMoves(r)
  BY <1>3, LedgerTurn DEF LedgerMoves
<1>4. CASE \E r \in Requests : PricingMoves(r) /\ UNCHANGED <<wallet, ledger, settle, trades>>
  BY <1>4, PricingTurn, OthersRest, KindsDiffer DEF PricingMoves, ledger
<1>5. CASE \E r \in Requests : SettlementMoves(r) /\ UNCHANGED <<wallet, ledger, quotes, trades>>
  BY <1>5, SettlementTurn, OthersRest, KindsDiffer DEF SettlementMoves, ledger
<1>6. CASE \E r \in Requests : TradesMove(r) /\ UNCHANGED <<wallet, ledger, quotes, settle>>
  BY <1>6, TradesTurn, OthersRest, KindsDiffer DEF TradesMove, ledger
<1>7. CASE ByItself
  <2>1. req' = req
    BY <1>7, NoneMoves
  <2>2. UNCHANGED ledgerVars \/ MoneyMoves
    BY <1>7 DEF ByItself, Timers, Outside, Socket, SocketBeats, ledger
  <2>. QED
    BY <2>1, <2>2 DEF Undisturbed
<1>8. CASE ServerRestart
  BY <1>8 DEF ServerRestart, AllFree
<1>. QED
  BY <1>1, <1>2, <1>3, <1>4, <1>5, <1>6, <1>7, <1>8, OneMoves

\* What the handlers of balances have in hand.
LedgerLocals(x) ==
    /\ x.kind \in {"deposit", "withdraw", "spend"} => x.amount \in Nat \ {0}
    /\ x.kind = "spend" => x.read \in {NoMoney, 0}
    /\ x.kind = "sync" =>
          /\ {"chain", "was"} \subseteq DOMAIN x
          /\ x.chain \in SyncChains /\ x.was \in Nat
          /\ x.at # "chain" => "found" \in DOMAIN x /\ x.found \in Nat
          /\ IF x.chain = "main" THEN x.at # "compare" ELSE x.at # "agent"

LedgerLocalsOK == \A q \in Requests : LedgerLocals(req[q])

Withdrawing(q) == req[q].kind = "withdraw"

\* The row is there while something is being taken out, and has enough for the only
\* withdrawal at work.
VaultInv ==
    /\ VaultAddsUp
    /\ drawnTwice \in BOOLEAN
    /\ \A q \in Requests : Withdrawing(q) => vault \in Int
    /\ ~drawnTwice =>
          /\ OrZero(vault) >= 0
          /\ \A q \in Requests : Withdrawing(q) => OrZero(vault) >= req[q].amount
          /\ \A p, q \in Requests : Withdrawing(p) /\ Withdrawing(q) => p = q

Syncing(q, c) == req[q].kind = "sync" /\ req[q].chain = c

\* A chain that is synchronized is seen as it is, and whoever is about to write its row
\* has found what is there.
SyncedInv ==
    \A c \in synced :
        \/ c = "main" /\ torn
        \/ /\ Seen(c) = money[c]
           /\ \A q \in Requests : Syncing(q, c) => req[q].at = "chain" \/ req[q].found = money[c]

\* As long as the main chain was never synchronized twice at once nor by half: one at
\* most is at it, which knows the agent's balance; and the row has that balance, unless
\* it is about to be written.
MainInv ==
    ~torn =>
        /\ \A p, q \in Requests : Syncing(p, "main") /\ Syncing(q, "main") => p = q
        /\ \A q \in Requests : Syncing(q, "main") =>
              /\ req[q].at = "chain" => req[q].was = agentBalance
              /\ req[q].at = "row" => req[q].found = agentBalance
        /\ \/ chainBalance["main"] \in {NoMoney, agentBalance}
           \/ \E q \in Requests : Syncing(q, "main") /\ req[q].at = "row"

LedgerInv ==
    /\ ReqOK /\ LedgerTypeOK /\ torn \in BOOLEAN
    /\ LedgerLocalsOK /\ VaultInv /\ SyncedInv /\ MainInv

\* What a handler of balances has in hand it keeps, or has taken from what was there.
LEMMA LedgerTypes ==
    ASSUME LedgerInv, [Next]_vars
    PROVE  LedgerTypeOK' /\ LedgerLocalsOK' /\ (torn \in BOOLEAN)' /\ (drawnTwice \in BOOLEAN)'
<1>. USE LedgerAssumption
<1>. DEFINE OK == LedgerTypeOK' /\ LedgerLocalsOK' /\ (torn \in BOOLEAN)' /\ (drawnTwice \in BOOLEAN)'
<1>0. /\ ReqOK /\ LedgerTypeOK /\ torn \in BOOLEAN /\ drawnTwice \in BOOLEAN
      /\ \A q \in Requests : LedgerLocals(req[q])
      /\ \A q \in Requests : Withdrawing(q) => vault \in Int
  BY DEF LedgerInv, LedgerLocalsOK, VaultInv
<1>1. ASSUME UNCHANGED req
      PROVE  LedgerLocalsOK'
  BY <1>0, <1>1 DEF LedgerLocalsOK, LedgerLocals
<1>2. ASSUME NEW r \in Requests, NEW y, Become(r, y), LedgerLocals(y)
      PROVE  LedgerLocalsOK'
  <2>1. \A q \in Requests : LedgerLocals(req'[q])
    BY <1>0, <1>2, Assigned DEF Become
  <2>. QED
    BY <2>1 DEF LedgerLocalsOK, LedgerLocals
<1>3. ASSUME NEW r \in Requests, Answer(r)
      PROVE  LedgerLocalsOK'
  <2>1. LedgerLocals(Free)
    BY DEF LedgerLocals, Free
  <2>. QED
    BY <1>2, <1>3, <2>1 DEF Become, Answer
<1>4. ASSUME AllFree
      PROVE  LedgerLocalsOK'
  BY <1>4 DEF LedgerLocalsOK, LedgerLocals, Free, AllFree
<1>5. ASSUME Undisturbed(LedgerKinds)
      PROVE  LedgerLocalsOK'
  <2>1. ASSUME NEW q \in Requests
        PROVE  LedgerLocals(req'[q])
    <3>1. CASE req'[q].kind \in LedgerKinds
      BY <1>0, <1>5, <3>1 DEF Undisturbed
    <3>2. CASE req'[q].kind \notin LedgerKinds
      BY <3>2 DEF LedgerLocals, LedgerKinds
    <3>. QED
      BY <3>1, <3>2
  <2>. QED
    BY <2>1 DEF LedgerLocalsOK, LedgerLocals
<1>6. ASSUME NEW r \in Requests, LedgerMoves(r)
      PROVE  OK
  <2>1. CASE Deposit(r)
    <3>1. PICK n \in Amounts : Become(r, [kind |-> "deposit", at |-> "upsert", amount |-> n])
      BY <2>1 DEF Deposit
    <3>2. LedgerLocals([kind |-> "deposit", at |-> "upsert", amount |-> n])
      BY DEF LedgerLocals
    <3>3. LedgerLocalsOK'
      BY <1>2, <3>1, <3>2
    <3>. QED
      BY <1>0, <2>1, <3>3 DEF Deposit, LedgerTypeOK, vaultSame
  <2>2. CASE PutIn(r)
    <3>1. req[r].amount \in Nat
      BY <1>0, <2>2 DEF PutIn, At, LedgerLocals
    <3>2. LedgerLocalsOK'
      BY <1>3, <2>2 DEF PutIn
    <3>. QED
      BY <1>0, <2>2, <3>1, <3>2 DEF PutIn, LedgerTypeOK, vaultSame
  <2>3. CASE Withdraw(r)
    <3>1. \E n \in Amounts :
            \/ Answer(r)
            \/ Become(r, [kind |-> "withdraw", at |-> "upsert", amount |-> n, read |-> vault])
      BY <2>3 DEF Withdraw
    <3>2. \A n \in Amounts :
            LedgerLocals([kind |-> "withdraw", at |-> "upsert", amount |-> n, read |-> vault])
      BY DEF LedgerLocals
    <3>3. LedgerLocalsOK'
      BY <1>2, <1>3, <3>1, <3>2
    <3>. QED
      BY <1>0, <2>3, <3>3 DEF Withdraw, LedgerTypeOK, vaultSame
  <2>4. CASE TakeOut(r)
    <3>1. req[r].amount \in Nat /\ vault \in Int
      BY <1>0, <2>4 DEF TakeOut, At, LedgerLocals, Withdrawing
    <3>2. LedgerLocalsOK'
      BY <1>3, <2>4 DEF TakeOut
    <3>3. vault' \in Int /\ paidOut' \in Nat
      BY <1>0, <2>4, <3>1 DEF TakeOut, Incremented, LedgerTypeOK
    <3>. QED
      BY <1>0, <2>4, <3>2, <3>3 DEF TakeOut, LedgerTypeOK, vaultSame
  <2>5. CASE Spend(r)
    <3>1. PICK n \in Amounts :
            Become(r, [kind |-> "spend", at |-> "write", amount |-> n, read |-> tokens])
      BY <2>5 DEF Spend
    <3>2. LedgerLocals([kind |-> "spend", at |-> "write", amount |-> n, read |-> tokens])
      BY <1>0 DEF LedgerLocals, LedgerTypeOK
    <3>3. LedgerLocalsOK'
      BY <1>2, <3>1, <3>2
    <3>. QED
      BY <1>0, <2>5, <3>3 DEF Spend, LedgerTypeOK, ledgerVars
  <2>6. CASE WriteTokens(r)
    <3>1. req[r].read \in {NoMoney, 0} /\ req[r].amount \in Nat \ {0}
      BY <1>0, <2>6 DEF WriteTokens, At, LedgerLocals
    <3>2. tokens' \in {NoMoney, 0}
      BY <1>0, <2>6, <3>1 DEF WriteTokens, LedgerTypeOK
    <3>3. LedgerLocalsOK'
      BY <1>3, <2>6 DEF WriteTokens
    <3>. QED
      BY <1>0, <2>6, <3>2, <3>3 DEF WriteTokens, LedgerTypeOK
  <2>7. CASE Sync(r)
    <3>1. PICK c \in SyncChains :
            /\ Become(r, [kind |-> "sync", at |-> "chain", chain |-> c, was |-> agentBalance])
            /\ torn' = (torn \/ (c = "main" /\ \E q \in InFlight("sync") : req[q].chain = "main"))
      BY <2>7 DEF Sync
    <3>2. LedgerLocals([kind |-> "sync", at |-> "chain", chain |-> c, was |-> agentBalance])
      BY <1>0 DEF LedgerLocals, LedgerTypeOK
    <3>3. LedgerLocalsOK'
      BY <1>2, <3>1, <3>2
    <3>. QED
      BY <1>0, <2>7, <3>1, <3>3 DEF Sync, LedgerTypeOK, syncSame
  <2>8. ASSUME NEW at, Goto(r, at), req[r].kind = "sync", req[r].at # "chain",
               IF req[r].chain = "main" THEN at # "compare" ELSE at # "agent"
        PROVE  LedgerLocalsOK'
    <3>1. LedgerLocals(req[r]) /\ "at" \in DOMAIN req[r]
      BY <1>0 DEF ReqOK, Placed
    <3>2. LedgerLocals([req[r] EXCEPT !.at = at])
      BY <2>8, <3>1 DEF LedgerLocals
    <3>. QED
      BY <1>2, <2>8, <3>2 DEF Become, Goto
  <2>9. CASE ReadChain(r)
    <3>1. LedgerLocals(req[r]) /\ Placed(req[r]) /\ req[r].kind = "sync"
      BY <1>0, <2>9 DEF ReqOK, ReadChain, At
    <3>2. money[req[r].chain] \in Nat
      BY <1>0, <3>1 DEF LedgerLocals, LedgerTypeOK
    <3>3. PICK l : l = [found |-> money[req[r].chain]]
      OBVIOUS
    <3>4. PICK x : x = With(req[r], l)
      OBVIOUS
    <3>5. /\ {"chain", "was", "found", "at", "kind"} \subseteq DOMAIN x
          /\ x.kind = "sync" /\ x.chain = req[r].chain /\ x.was = req[r].was
          /\ x.found = money[req[r].chain]
      BY <3>1, <3>3, <3>4 DEF With, LedgerLocals, Placed
    <3>6. \/ Answer(r)
          \/ Become(r, [x EXCEPT !.at = IF x.chain = "main" THEN "agent" ELSE "compare"])
      BY <2>9, <3>3, <3>4 DEF ReadChain
    <3>7. LedgerLocals([x EXCEPT !.at = IF x.chain = "main" THEN "agent" ELSE "compare"])
      <4>1. PICK y : y = [x EXCEPT !.at = IF x.chain = "main" THEN "agent" ELSE "compare"]
        OBVIOUS
      <4>2. /\ DOMAIN y = DOMAIN x /\ y.kind = "sync" /\ y.chain = x.chain /\ y.was = x.was
            /\ y.found = x.found /\ y.at = IF x.chain = "main" THEN "agent" ELSE "compare"
        BY <3>5, <4>1
      <4>3. LedgerLocals(y)
        BY <3>1, <3>2, <3>5, <4>2 DEF LedgerLocals
      <4>. QED
        BY <4>1, <4>3
    <3>8. LedgerLocalsOK'
      BY <1>2, <1>3, <3>6, <3>7
    <3>9. synced' \subseteq SyncChains
      BY <1>0, <2>9 DEF ReadChain, LedgerTypeOK, SyncChains
    <3>. QED
      BY <1>0, <2>9, <3>8, <3>9 DEF ReadChain, LedgerTypeOK, syncSame
  <2>10. CASE WriteAgent(r)
    <3>1. req[r].found \in Nat /\ req[r].chain = "main"
      BY <1>0, <2>10 DEF WriteAgent, At, LedgerLocals
    <3>2. LedgerLocalsOK'
      BY <2>8, <2>10 DEF WriteAgent, At
    <3>. QED
      BY <1>0, <2>10, <3>1, <3>2 DEF WriteAgent, LedgerTypeOK, syncSame
  <2>11. CASE CompareRow(r)
    <3>1. LedgerLocalsOK'
      BY <1>3, <2>8, <2>11 DEF CompareRow, At
    <3>2. req[r].chain \in SyncChains
      BY <1>0, <2>11 DEF CompareRow, At, LedgerLocals
    <3>3. synced' \subseteq SyncChains
      BY <1>0, <2>11, <3>2 DEF CompareRow, LedgerTypeOK, Fresh
    <3>. QED
      BY <1>0, <2>11, <3>1, <3>3 DEF CompareRow, LedgerTypeOK, syncSame
  <2>12. CASE WriteRowOf(r)
    <3>1. req[r].chain \in SyncChains /\ req[r].found \in Nat
      BY <1>0, <2>12 DEF WriteRowOf, At, LedgerLocals
    <3>2. synced' \subseteq SyncChains
      BY <1>0, <2>12, <3>1 DEF WriteRowOf, LedgerTypeOK, Fresh
    <3>3. chainBalance' \in [SyncChains -> Nat \union {NoMoney}]
      BY <1>0, <2>12, <3>1 DEF WriteRowOf, LedgerTypeOK
    <3>4. LedgerLocalsOK'
      BY <1>3, <2>12 DEF WriteRowOf
    <3>. QED
      BY <1>0, <2>12, <3>2, <3>3, <3>4 DEF WriteRowOf, LedgerTypeOK, syncSame
  <2>13. CASE LedgerFails(r)
    <3>1. LedgerLocalsOK'
      BY <1>3, <2>13 DEF LedgerFails, Rejects
    <3>. QED
      BY <1>0, <2>13, <3>1 DEF LedgerFails, HalfDone, LedgerTypeOK, syncSame
  <2>. QED
    BY <1>6, <2>1, <2>2, <2>3, <2>4, <2>5, <2>6, <2>7, <2>9, <2>10, <2>11, <2>12, <2>13
       DEF LedgerMoves, LedgerArrives, LedgerStep
<1>7. CASE MoneyMoves
  <2>1. LedgerLocalsOK'
    BY <1>1, <1>7 DEF MoneyMoves
  <2>2. money' \in [SyncChains -> Nat]
    BY <1>0, <1>7 DEF MoneyMoves, LedgerTypeOK
  <2>3. synced' \subseteq SyncChains
    BY <1>0, <1>7 DEF MoneyMoves, LedgerTypeOK
  <2>. QED
    BY <1>0, <1>7, <2>1, <2>2, <2>3 DEF MoneyMoves, LedgerTypeOK, syncSame
<1>8. CASE UNCHANGED ledgerVars /\ Undisturbed(LedgerKinds)
  BY <1>0, <1>5, <1>8 DEF ledgerVars, LedgerTypeOK
<1>9. CASE LedgerStops /\ AllFree
  BY <1>0, <1>4, <1>9 DEF LedgerStops, HalfDone, LedgerTypeOK, syncSame
<1>. QED
  BY <1>0, <1>6, <1>7, <1>8, <1>9, LedgerFrame

\* The vault: money is taken out of what is there.
LEMMA VaultKept ==
    ASSUME LedgerInv, [Next]_vars, (drawnTwice \in BOOLEAN)'
    PROVE  VaultInv'
<1>. USE LedgerAssumption
<1>0. /\ ReqOK /\ LedgerTypeOK /\ VaultInv
      /\ \A q \in Requests : LedgerLocals(req[q])
  BY DEF LedgerInv, LedgerLocalsOK
<1>1. ASSUME UNCHANGED <<vault, paidIn, paidOut>>, drawnTwice => drawnTwice',
             \A q \in Requests : req'[q].kind = "withdraw" => req'[q] = req[q]
      PROVE  VaultInv'
  <2>1. VaultAddsUp' /\ OrZero(vault)' = OrZero(vault)
    BY <1>0, <1>1 DEF VaultInv, VaultAddsUp, OrZero
  <2>2. \A q \in Requests : Withdrawing(q)' => Withdrawing(q) /\ req'[q].amount = req[q].amount
    BY <1>1 DEF Withdrawing
  <2>. QED
    BY <1>0, <1>1, <2>1, <2>2 DEF VaultInv
<1>2. ASSUME NEW r \in Requests, LedgerMoves(r), Turn(r, LedgerKinds)
      PROVE  VaultInv'
  <2>1. CASE PutIn(r)
    <3>1. req[r].amount \in Nat /\ req[r].kind = "deposit"
      BY <1>0, <2>1 DEF PutIn, At, LedgerLocals
    <3>2. req'[r].kind = "none" /\ \A q \in Requests \ {r} : req'[q] = req[q]
      BY <1>0, <2>1, Answers DEF PutIn
    <3>3. OrZero(vault)' = OrZero(vault) + req[r].amount /\ vault' \in Int
      BY <1>0, <2>1, <3>1 DEF PutIn, OrZero, LedgerTypeOK
    <3>4. VaultAddsUp'
      BY <1>0, <2>1, <3>1, <3>3 DEF PutIn, VaultInv, VaultAddsUp, LedgerTypeOK
    <3>5. \A q \in Requests : Withdrawing(q)' => Withdrawing(q) /\ req'[q].amount = req[q].amount
      BY <3>2 DEF Withdrawing
    <3>6. OrZero(vault) \in Int
      BY <1>0 DEF OrZero, LedgerTypeOK
    <3>7. \A q \in Requests : Withdrawing(q) => req[q].amount \in Nat
      BY <1>0 DEF Withdrawing, LedgerLocals
    <3>8. UNCHANGED drawnTwice
      BY <2>1 DEF PutIn
    <3>9. ~drawnTwice => OrZero(vault)' >= OrZero(vault)
      BY <3>1, <3>3, <3>6
    <3>10. ASSUME ~drawnTwice
           PROVE  /\ OrZero(vault)' >= 0
                  /\ \A q \in Requests : Withdrawing(q)' => OrZero(vault)' >= req'[q].amount
                  /\ \A p, q \in Requests : Withdrawing(p)' /\ Withdrawing(q)' => p = q
      <4>1. /\ OrZero(vault) >= 0
            /\ \A q \in Requests : Withdrawing(q) => OrZero(vault) >= req[q].amount
            /\ \A p, q \in Requests : Withdrawing(p) /\ Withdrawing(q) => p = q
        BY <1>0, <3>10 DEF VaultInv
      <4>2. OrZero(vault)' >= 0
        BY <3>1, <3>3, <3>6, <4>1
      <4>3. \A q \in Requests : Withdrawing(q) => OrZero(vault)' >= req[q].amount
        BY <3>1, <3>3, <3>6, <3>7, <4>1
      <4>. QED
        BY <3>5, <4>1, <4>2, <4>3
    <3>. QED
      BY <3>3, <3>4, <3>8, <3>10 DEF VaultInv
  <2>2. CASE Withdraw(r)
    <3>1. PICK n \in Amounts :
            \/ Answer(r)
            \/ /\ ~(OrZero(vault) < n)
               /\ Become(r, [kind |-> "withdraw", at |-> "upsert", amount |-> n, read |-> vault])
      BY <2>2 DEF Withdraw
    <3>2. UNCHANGED <<vault, paidIn, paidOut>> /\ drawnTwice' = (drawnTwice \/ InFlight("withdraw") # {})
      BY <2>2 DEF Withdraw
    <3>3. CASE Answer(r)
      BY <1>0, <1>1, <3>2, <3>3, Answers
    <3>4. CASE /\ ~(OrZero(vault) < n)
               /\ Become(r, [kind |-> "withdraw", at |-> "upsert", amount |-> n, read |-> vault])
      <4>1. /\ req'[r].kind = "withdraw" /\ req'[r].amount = n
            /\ \A q \in Requests \ {r} : req'[q] = req[q]
        <5>1. PICK y : y = [kind |-> "withdraw", at |-> "upsert", amount |-> n, read |-> vault]
          OBVIOUS
        <5>2. req' = [req EXCEPT ![r] = y] /\ y.kind = "withdraw" /\ y.amount = n
          BY <3>4, <5>1 DEF Become
        <5>. QED
          BY <1>0, <5>2, Assigned
      <4>2. vault \in Int /\ OrZero(vault) = vault /\ vault >= n /\ n > 0 /\ n \in Nat
        BY <1>0, <3>4 DEF OrZero, LedgerTypeOK
      <4>3. ~drawnTwice' => ~drawnTwice /\ \A q \in Requests : ~Withdrawing(q)
        BY <3>2 DEF InFlight, Withdrawing
      <4>4. ~drawnTwice' => \A q \in Requests : Withdrawing(q)' => q = r
        BY <4>1, <4>3 DEF Withdrawing
      <4>5. VaultAddsUp' /\ OrZero(vault)' = vault /\ vault' \in Int
        BY <1>0, <3>2, <4>2 DEF VaultInv, VaultAddsUp, OrZero
      <4>6. OrZero(vault)' >= 0 /\ OrZero(vault)' >= req'[r].amount
        BY <4>1, <4>2, <4>5
      <4>. QED
        BY <4>4, <4>5, <4>6 DEF VaultInv
    <3>. QED
      BY <3>1, <3>3, <3>4
  <2>3. CASE TakeOut(r)
    <3>1. Withdrawing(r) /\ vault \in Int /\ req[r].amount \in Nat
      BY <1>0, <2>3 DEF TakeOut, At, LedgerLocals, Withdrawing, VaultInv
    <3>2. /\ vault' = vault - req[r].amount /\ paidOut' = paidOut + req[r].amount
          /\ UNCHANGED <<paidIn, drawnTwice>>
      BY <2>3, <3>1 DEF TakeOut, Incremented
    <3>3. req'[r].kind = "none" /\ \A q \in Requests \ {r} : req'[q] = req[q]
      BY <1>0, <2>3, Answers DEF TakeOut
    <3>4. OrZero(vault) = vault /\ OrZero(vault)' = vault' /\ vault' \in Int
      BY <3>1, <3>2 DEF OrZero
    <3>5. VaultAddsUp'
      BY <1>0, <3>1, <3>2, <3>4 DEF VaultInv, VaultAddsUp, LedgerTypeOK
    <3>6. ~drawnTwice => OrZero(vault)' >= 0
      BY <1>0, <3>1, <3>2, <3>4 DEF VaultInv
    <3>7. ~drawnTwice => \A q \in Requests : ~Withdrawing(q)'
      BY <1>0, <3>1, <3>3 DEF VaultInv, Withdrawing
    <3>. QED
      BY <3>2, <3>4, <3>5, <3>6, <3>7 DEF VaultInv
  <2>4. CASE Deposit(r) \/ Spend(r) \/ Sync(r)
    <3>1. \E y : Become(r, y) /\ y.kind # "withdraw"
      <4>1. CASE Deposit(r)
        <5>1. PICK n \in Amounts : Become(r, [kind |-> "deposit", at |-> "upsert", amount |-> n])
          BY <4>1 DEF Deposit
        <5>. QED
          BY <5>1
      <4>2. CASE Spend(r)
        <5>1. PICK n \in Amounts :
                Become(r, [kind |-> "spend", at |-> "write", amount |-> n, read |-> tokens])
          BY <4>2 DEF Spend
        <5>. QED
          BY <5>1
      <4>3. CASE Sync(r)
        <5>1. PICK c \in SyncChains :
                Become(r, [kind |-> "sync", at |-> "chain", chain |-> c, was |-> agentBalance])
          BY <4>3 DEF Sync
        <5>. QED
          BY <5>1
      <4>. QED
        BY <2>4, <4>1, <4>2, <4>3
    <3>2. req'[r].kind # "withdraw"
      BY <1>0, <3>1, Assigned DEF Become
    <3>. QED
      BY <1>1, <1>2, <2>4, <3>2 DEF Turn, Deposit, Spend, Sync, ledgerVars, syncSame
  <2>5. CASE WriteTokens(r) \/ LedgerFails(r)
    <3>1. req'[r].kind = "none"
      BY <1>0, <2>5, Answers DEF WriteTokens, LedgerFails, Rejects
    <3>. QED
      BY <1>1, <1>2, <2>5, <3>1 DEF Turn, WriteTokens, LedgerFails, syncSame
  <2>6. CASE ReadChain(r) \/ WriteAgent(r) \/ CompareRow(r) \/ WriteRowOf(r)
    <3>1. req[r].kind = "sync" /\ "kind" \in DOMAIN req[r]
      BY <1>0, <2>6 DEF ReadChain, WriteAgent, CompareRow, WriteRowOf, At, ReqOK, Placed
    <3>2. req'[r].kind # "withdraw"
      <4>1. CASE Answer(r)
        BY <1>0, <4>1, Answers
      <4>2. CASE \E at : Goto(r, at)
        BY <1>0, <3>1, <4>2, Goes
      <4>3. CASE ReadChain(r) /\ ~Answer(r)
        <5>1. PICK l : l = [found |-> money[req[r].chain]]
          OBVIOUS
        <5>2. PICK x : x = With(req[r], l)
          OBVIOUS
        <5>3. x.kind = "sync" /\ "kind" \in DOMAIN x
          BY <1>0, <3>1, <5>1, <5>2, Continues DEF ReqOK
        <5>4. \E at : Become(r, [x EXCEPT !.at = at])
          BY <4>3, <5>1, <5>2 DEF ReadChain
        <5>5. PICK y : Become(r, y) /\ y.kind = "sync"
          BY <5>3, <5>4
        <5>. QED
          BY <1>0, <5>5, Assigned DEF Become
      <4>. QED
        BY <2>6, <4>1, <4>2, <4>3 DEF WriteAgent, CompareRow, WriteRowOf
    <3>. QED
      BY <1>1, <1>2, <2>6, <3>2 DEF Turn, ReadChain, WriteAgent, CompareRow, WriteRowOf, syncSame
  <2>. QED
    BY <1>2, <2>1, <2>2, <2>3, <2>4, <2>5, <2>6 DEF LedgerMoves, LedgerArrives, LedgerStep
<1>3. CASE MoneyMoves
  BY <1>1, <1>3 DEF MoneyMoves, syncSame
<1>4. CASE UNCHANGED ledgerVars /\ Undisturbed(LedgerKinds)
  <2>1. \A q \in Requests : req'[q].kind = "withdraw" => req'[q] = req[q]
    BY <1>4 DEF Undisturbed, LedgerKinds
  <2>. QED
    BY <1>1, <1>4, <2>1 DEF ledgerVars
<1>5. CASE LedgerStops /\ AllFree
  BY <1>1, <1>5 DEF LedgerStops, AllFree, Free, syncSame
<1>. QED
  BY <1>0, <1>2, <1>3, <1>4, <1>5, LedgerFrame

\* The copies of an agent's balance.
LEMMA SyncKept ==
    ASSUME LedgerInv, [Next]_vars, (torn \in BOOLEAN)'
    PROVE  SyncedInv' /\ MainInv'
<1>. USE LedgerAssumption
<1>0. /\ ReqOK /\ LedgerTypeOK /\ SyncedInv /\ MainInv /\ torn \in BOOLEAN
      /\ \A q \in Requests : LedgerLocals(req[q]) /\ Placed(req[q])
  BY DEF LedgerInv, LedgerLocalsOK, ReqOK
<1>1. ASSUME UNCHANGED <<money, agentBalance, chainBalance, synced>>, torn => torn',
             \A q \in Requests : req'[q].kind = "sync" => req'[q] = req[q]
      PROVE  SyncedInv'
  <2>1. \A c : Seen(c)' = Seen(c)
    BY <1>1 DEF Seen, OrZero
  <2>2. \A q \in Requests, c \in synced : Syncing(q, c)' => Syncing(q, c) /\ req'[q] = req[q]
    BY <1>1 DEF Syncing
  <2>. QED
    BY <1>0, <1>1, <2>1, <2>2 DEF SyncedInv
<1>2. ASSUME UNCHANGED agentBalance, chainBalance'["main"] = chainBalance["main"], torn => torn',
             \A q \in Requests : Syncing(q, "main")' => req'[q] = req[q],
             ~torn' => \A q \in Requests : Syncing(q, "main") /\ req[q].at = "row" => req'[q] = req[q]
      PROVE  MainInv'
  <2>1. SUFFICES ASSUME ~torn'
                 PROVE  /\ \A p, q \in Requests : Syncing(p, "main")' /\ Syncing(q, "main")' => p = q
                        /\ \A q \in Requests : Syncing(q, "main")' =>
                              /\ req'[q].at = "chain" => req'[q].was = agentBalance'
                              /\ req'[q].at = "row" => req'[q].found = agentBalance'
                        /\ \/ chainBalance'["main"] \in {NoMoney, agentBalance'}
                           \/ \E q \in Requests : Syncing(q, "main")' /\ req'[q].at = "row"
    BY DEF MainInv
  <2>2. /\ \A p, q \in Requests : Syncing(p, "main") /\ Syncing(q, "main") => p = q
        /\ \A q \in Requests : Syncing(q, "main") =>
              /\ req[q].at = "chain" => req[q].was = agentBalance
              /\ req[q].at = "row" => req[q].found = agentBalance
        /\ \/ chainBalance["main"] \in {NoMoney, agentBalance}
           \/ \E q \in Requests : Syncing(q, "main") /\ req[q].at = "row"
    BY <1>0, <1>2, <2>1 DEF MainInv
  <2>3. \A q \in Requests : Syncing(q, "main")' => Syncing(q, "main") /\ req'[q] = req[q]
    BY <1>2 DEF Syncing
  <2>4. \A q \in Requests : Syncing(q, "main") /\ req[q].at = "row" => Syncing(q, "main")' /\ req'[q].at = "row"
    BY <1>2, <2>1 DEF Syncing
  <2>. QED
    BY <1>2, <2>2, <2>3, <2>4
<1>3. ASSUME NEW r \in Requests, LedgerMoves(r), Turn(r, LedgerKinds)
      PROVE  SyncedInv' /\ MainInv'
  <2>0. /\ \A q \in Requests \ {r} : req'[q] = req[q]
        /\ Placed(req[r]) /\ "kind" \in DOMAIN req[r] /\ LedgerLocals(req[r])
    BY <1>0, <1>3 DEF Turn, Placed
  <2>1. CASE Sync(r)
    <3>1. PICK c0 \in SyncChains :
            /\ Become(r, [kind |-> "sync", at |-> "chain", chain |-> c0, was |-> agentBalance])
            /\ torn' = (torn \/ (c0 = "main" /\ \E q \in InFlight("sync") : req[q].chain = "main"))
      BY <2>1 DEF Sync
    <3>2. PICK y : y = [kind |-> "sync", at |-> "chain", chain |-> c0, was |-> agentBalance]
      OBVIOUS
    <3>3. req'[r] = y /\ y.kind = "sync" /\ y.at = "chain" /\ y.chain = c0 /\ y.was = agentBalance
      BY <1>0, <3>1, <3>2, Assigned DEF Become
    <3>4. req[r].kind = "none" /\ UNCHANGED <<money, agentBalance, chainBalance, synced>>
      BY <2>1, ArrivesFree DEF Sync
    <3>5. \A c : Seen(c)' = Seen(c)
      BY <3>4 DEF Seen, OrZero
    <3>6. SyncedInv'
      <4>1. \A q \in Requests, c \in synced :
               Syncing(q, c)' => req'[q].at = "chain" \/ (Syncing(q, c) /\ req'[q] = req[q])
        BY <2>0, <3>3 DEF Syncing
      <4>. QED
        BY <1>0, <3>1, <3>4, <3>5, <4>1 DEF SyncedInv
    <3>7. MainInv'
      <4>1. CASE torn'
        BY <4>1 DEF MainInv
      <4>2. CASE ~torn'
        <5>1. ~torn /\ (c0 # "main" \/ \A q \in Requests : ~Syncing(q, "main"))
          BY <3>1, <4>2 DEF InFlight, Syncing
        <5>2. \A q \in Requests \ {r} : Syncing(q, "main")' = Syncing(q, "main")
          BY <2>0 DEF Syncing
        <5>3. ~Syncing(r, "main") /\ (Syncing(r, "main")' => c0 = "main")
          BY <3>3, <3>4 DEF Syncing
        <5>4. \A p, q \in Requests : Syncing(p, "main")' /\ Syncing(q, "main")' => p = q
          BY <1>0, <5>1, <5>2, <5>3 DEF MainInv
        <5>5. \A q \in Requests : Syncing(q, "main")' =>
                 /\ req'[q].at = "chain" => req'[q].was = agentBalance'
                 /\ req'[q].at = "row" => req'[q].found = agentBalance'
          BY <1>0, <2>0, <3>3, <3>4, <5>1, <5>2 DEF MainInv
        <5>6. \/ chainBalance'["main"] \in {NoMoney, agentBalance'}
              \/ \E q \in Requests : Syncing(q, "main")' /\ req'[q].at = "row"
          BY <1>0, <2>0, <3>4, <5>1, <5>2, <5>3 DEF MainInv
        <5>. QED
          BY <5>4, <5>5, <5>6 DEF MainInv
      <4>. QED
        BY <4>1, <4>2
    <3>. QED
      BY <3>6, <3>7
  <2>2. CASE ReadChain(r)
    <3>1. /\ req[r].kind = "sync" /\ req[r].at = "chain" /\ req[r].chain \in SyncChains
          /\ UNCHANGED <<money, agentBalance, chainBalance, torn>>
      BY <2>0, <2>2 DEF ReadChain, At, LedgerLocals
    <3>2. PICK l : l = [found |-> money[req[r].chain]]
      OBVIOUS
    <3>3. PICK x : x = With(req[r], l)
      OBVIOUS
    <3>4. /\ {"chain", "was", "found", "at", "kind"} \subseteq DOMAIN x
          /\ x.kind = "sync" /\ x.chain = req[r].chain /\ x.was = req[r].was
          /\ x.found = money[req[r].chain]
      BY <2>0, <3>1, <3>2, <3>3 DEF With, LedgerLocals, Placed
    <3>5. \/ x.chain = "main" /\ x.found = x.was /\ Answer(r) /\ synced' = synced \union {"main"}
          \/ /\ Become(r, [x EXCEPT !.at = IF x.chain = "main" THEN "agent" ELSE "compare"])
             /\ UNCHANGED synced
      BY <2>2, <3>2, <3>3 DEF ReadChain
    <3>6. \A c : Seen(c)' = Seen(c)
      BY <3>1 DEF Seen, OrZero
    <3>7. CASE x.chain = "main" /\ x.found = x.was /\ Answer(r) /\ synced' = synced \union {"main"}
      <4>1. req'[r].kind = "none"
        BY <1>0, <3>7, Answers
      <4>2. \A c : \A q \in Requests : Syncing(q, c)' => q # r /\ Syncing(q, c) /\ req'[q] = req[q]
        BY <2>0, <4>1 DEF Syncing
      <4>3. MainInv'
        BY <1>2, <2>0, <3>1, <4>2 DEF Syncing
      <4>4. ASSUME ~torn
            PROVE  Seen("main") = money["main"] /\ \A q \in Requests : ~Syncing(q, "main")'
        <5>1. Syncing(r, "main")
          BY <3>1, <3>4, <3>7 DEF Syncing
        <5>2. \A q \in Requests : Syncing(q, "main") => q = r
          BY <1>0, <4>4, <5>1 DEF MainInv
        <5>3. req[r].was = agentBalance
          BY <1>0, <3>1, <4>4, <5>1 DEF MainInv
        <5>4. chainBalance["main"] \in {NoMoney, agentBalance}
          BY <1>0, <3>1, <4>4, <5>2 DEF MainInv
        <5>5. agentBalance # NoMoney
          BY <1>0 DEF LedgerTypeOK
        <5>6. Seen("main") = agentBalance
          BY <5>4, <5>5 DEF Seen, OrZero
        <5>7. money["main"] = agentBalance
          BY <3>4, <3>7, <5>3
        <5>. QED
          BY <4>2, <5>2, <5>6, <5>7
      <4>5. SyncedInv'
        <5>1. ASSUME NEW c \in synced'
              PROVE  \/ c = "main" /\ torn'
                     \/ /\ Seen(c)' = money'[c]
                        /\ \A q \in Requests :
                              Syncing(q, c)' => req'[q].at = "chain" \/ req'[q].found = money'[c]
          <6>1. CASE c = "main"
            BY <3>1, <3>6, <4>4, <6>1
          <6>2. CASE c # "main"
            BY <1>0, <3>1, <3>6, <3>7, <4>2, <6>2 DEF SyncedInv
          <6>. QED
            BY <6>1, <6>2
        <5>. QED
          BY <5>1 DEF SyncedInv
      <4>. QED
        BY <4>3, <4>5
    <3>8. CASE /\ Become(r, [x EXCEPT !.at = IF x.chain = "main" THEN "agent" ELSE "compare"])
               /\ UNCHANGED synced
      <4>1. PICK y : y = [x EXCEPT !.at = IF x.chain = "main" THEN "agent" ELSE "compare"]
        OBVIOUS
      <4>2. y.kind = "sync" /\ y.chain = x.chain /\ y.found = x.found /\ y.at \in {"agent", "compare"}
        BY <3>4, <4>1
      <4>3. req'[r] = y
        BY <1>0, <3>8, <4>1, Assigned DEF Become
      <4>4. \A c : \A q \in Requests : Syncing(q, c)' = Syncing(q, c)
        BY <2>0, <3>1, <3>4, <4>2, <4>3 DEF Syncing
      <4>5. \A c : \A q \in Requests : Syncing(q, c)' =>
               \/ q # r /\ req'[q] = req[q]
               \/ q = r /\ req'[q].found = money[c] /\ req'[q].at \in {"agent", "compare"}
        BY <2>0, <3>4, <4>2, <4>3 DEF Syncing
      <4>6. SyncedInv'
        BY <1>0, <3>1, <3>6, <3>8, <4>4, <4>5 DEF SyncedInv
      <4>7. MainInv'
        <5>1. CASE torn
          BY <3>1, <5>1 DEF MainInv
        <5>2. CASE ~torn
          <6>1. \A p, q \in Requests : Syncing(p, "main")' /\ Syncing(q, "main")' => p = q
            BY <1>0, <4>4, <5>2 DEF MainInv
          <6>2. \A q \in Requests : Syncing(q, "main")' =>
                   /\ req'[q].at = "chain" => req'[q].was = agentBalance'
                   /\ req'[q].at = "row" => req'[q].found = agentBalance'
            BY <1>0, <3>1, <4>4, <4>5, <5>2 DEF MainInv
          <6>3. \/ chainBalance'["main"] \in {NoMoney, agentBalance'}
                \/ \E q \in Requests : Syncing(q, "main")' /\ req'[q].at = "row"
            BY <1>0, <2>0, <3>1, <4>4, <5>2 DEF MainInv
          <6>. QED
            BY <6>1, <6>2, <6>3 DEF MainInv
        <5>. QED
          BY <1>0, <5>1, <5>2
      <4>. QED
        BY <4>6, <4>7
    <3>. QED
      BY <3>5, <3>7, <3>8
  <2>3. CASE WriteAgent(r)
    <3>1. /\ req[r].kind = "sync" /\ req[r].at = "agent" /\ req[r].chain = "main"
          /\ "found" \in DOMAIN req[r] /\ "chain" \in DOMAIN req[r]
          /\ agentBalance' = req[r].found /\ Goto(r, "row")
          /\ UNCHANGED <<money, chainBalance, synced, torn>>
      BY <2>0, <2>3 DEF WriteAgent, At, LedgerLocals
    <3>2. /\ req'[r].kind = "sync" /\ req'[r].at = "row"
          /\ req'[r].chain = "main" /\ req'[r].found = req[r].found
      BY <1>0, <3>1, Goes
    <3>3. \A c : \A q \in Requests : Syncing(q, c)' = Syncing(q, c)
      BY <2>0, <3>1, <3>2 DEF Syncing
    <3>4. \A c : \A q \in Requests : Syncing(q, c)' => req'[q] = req[q] \/ (q = r /\ c = "main")
      BY <2>0, <3>2 DEF Syncing
    <3>5. Syncing(r, "main") /\ Syncing(r, "main")'
      BY <3>1, <3>2 DEF Syncing
    <3>6. SyncedInv'
      <4>1. ASSUME NEW c \in synced'
            PROVE  \/ c = "main" /\ torn'
                   \/ /\ Seen(c)' = money'[c]
                      /\ \A q \in Requests :
                            Syncing(q, c)' => req'[q].at = "chain" \/ req'[q].found = money'[c]
        <5>1. CASE c = "main" /\ torn
          BY <3>1, <5>1
        <5>2. CASE c = "main" /\ ~torn
          <6>1. /\ Seen("main") = money["main"]
                /\ \A q \in Requests :
                      Syncing(q, "main") => req[q].at = "chain" \/ req[q].found = money["main"]
            BY <1>0, <3>1, <4>1, <5>2 DEF SyncedInv
          <6>2. req[r].found = money["main"]
            BY <3>1, <3>5, <6>1
          <6>3. Seen("main")' = money'["main"]
            BY <3>1, <6>1, <6>2 DEF Seen, OrZero
          <6>4. \A q \in Requests :
                   Syncing(q, "main")' => req'[q].at = "chain" \/ req'[q].found = money["main"]
            BY <2>0, <3>2, <3>3, <6>1, <6>2
          <6>. QED
            BY <3>1, <5>2, <6>3, <6>4
        <5>3. CASE c # "main"
          <6>1. Seen(c)' = Seen(c)
            BY <3>1, <5>3 DEF Seen, OrZero
          <6>. QED
            BY <1>0, <3>1, <3>3, <3>4, <4>1, <5>3, <6>1 DEF SyncedInv
        <5>. QED
          BY <1>0, <5>1, <5>2, <5>3
      <4>. QED
        BY <4>1 DEF SyncedInv
    <3>7. MainInv'
      <4>1. ASSUME ~torn
            PROVE  \A q \in Requests : Syncing(q, "main")' => q = r
        BY <1>0, <3>3, <3>5, <4>1 DEF MainInv
      <4>2. \E q \in Requests : Syncing(q, "main")' /\ req'[q].at = "row"
        BY <3>2, <3>5
      <4>. QED
        BY <3>1, <3>2, <4>1, <4>2 DEF MainInv
    <3>. QED
      BY <3>6, <3>7
  <2>4. CASE CompareRow(r)
    <3>1. /\ req[r].kind = "sync" /\ req[r].at = "compare" /\ req[r].chain \in SyncChains \ {"main"}
          /\ "found" \in DOMAIN req[r] /\ "chain" \in DOMAIN req[r]
          /\ UNCHANGED <<money, agentBalance, chainBalance, torn>>
      BY <2>0, <2>4 DEF CompareRow, At, LedgerLocals
    <3>2. \/ req[r].found = Seen(req[r].chain) /\ Answer(r) /\ synced' = Fresh(req[r])
          \/ Goto(r, "row") /\ UNCHANGED synced
      BY <2>4 DEF CompareRow
    <3>3. \A c : Seen(c)' = Seen(c)
      BY <3>1 DEF Seen, OrZero
    <3>4. CASE req[r].found = Seen(req[r].chain) /\ Answer(r) /\ synced' = Fresh(req[r])
      <4>1. req'[r].kind = "none"
        BY <1>0, <3>4, Answers
      <4>2. \A c : \A q \in Requests : Syncing(q, c)' => q # r /\ Syncing(q, c) /\ req'[q] = req[q]
        BY <2>0, <4>1 DEF Syncing
      <4>3. MainInv'
        BY <1>2, <2>0, <3>1, <4>2 DEF Syncing
      <4>4. SyncedInv'
        <5>1. ASSUME NEW c \in synced'
              PROVE  \/ c = "main" /\ torn'
                     \/ /\ Seen(c)' = money'[c]
                        /\ \A q \in Requests :
                              Syncing(q, c)' => req'[q].at = "chain" \/ req'[q].found = money'[c]
          <6>1. CASE c = req[r].chain
            <7>1. /\ req[r].found = money[c]
                  /\ \A q \in InFlight("sync") : req[q] = req[r] \/ req[q].chain # c
              BY <3>4, <5>1, <6>1 DEF Fresh
            <7>2. \A q \in Requests : Syncing(q, c) => req[q].found = money[c]
              BY <7>1 DEF InFlight, Syncing
            <7>. QED
              BY <3>1, <3>3, <3>4, <4>2, <6>1, <7>1, <7>2
          <6>2. CASE c # req[r].chain
            <7>1. c \in synced
              BY <3>4, <5>1, <6>2 DEF Fresh
            <7>. QED
              BY <1>0, <3>1, <3>3, <4>2, <7>1 DEF SyncedInv
          <6>. QED
            BY <6>1, <6>2
        <5>. QED
          BY <5>1 DEF SyncedInv
      <4>. QED
        BY <4>3, <4>4
    <3>5. CASE Goto(r, "row") /\ UNCHANGED synced
      <4>1. /\ req'[r].kind = "sync" /\ req'[r].at = "row"
            /\ req'[r].chain = req[r].chain /\ req'[r].found = req[r].found
        BY <1>0, <3>1, <3>5, Goes
      <4>2. \A c : \A q \in Requests : Syncing(q, c)' = Syncing(q, c)
        BY <2>0, <3>1, <4>1 DEF Syncing
      <4>3. \A q \in Requests : Syncing(q, "main")' => q # r /\ req'[q] = req[q]
        BY <2>0, <3>1, <4>1 DEF Syncing
      <4>4. MainInv'
        BY <1>2, <3>1, <4>2, <4>3
      <4>5. \A c : \A q \in Requests : Syncing(q, c)' =>
               \/ req'[q] = req[q]
               \/ req'[q].found = req[q].found /\ req[q].at # "chain"
        BY <2>0, <3>1, <4>1
      <4>6. SyncedInv'
        BY <1>0, <3>1, <3>3, <3>5, <4>2, <4>5 DEF SyncedInv
      <4>. QED
        BY <4>4, <4>6
    <3>. QED
      BY <3>2, <3>4, <3>5
  <2>5. CASE WriteRowOf(r)
    <3>1. /\ req[r].kind = "sync" /\ req[r].at = "row" /\ req[r].chain \in SyncChains
          /\ req[r].found \in Nat
          /\ chainBalance' = [chainBalance EXCEPT ![req[r].chain] = req[r].found]
          /\ synced' = Fresh(req[r])
          /\ Answer(r) /\ UNCHANGED <<money, agentBalance, torn>>
      BY <2>0, <2>5 DEF WriteRowOf, At, LedgerLocals
    <3>2. req'[r].kind = "none"
      BY <1>0, <3>1, Answers
    <3>3. \A c : \A q \in Requests : Syncing(q, c)' => q # r /\ Syncing(q, c) /\ req'[q] = req[q]
      BY <2>0, <3>2 DEF Syncing
    <3>4. /\ chainBalance'[req[r].chain] = req[r].found
          /\ \A c \in SyncChains \ {req[r].chain} : chainBalance'[c] = chainBalance[c]
      BY <1>0, <3>1 DEF LedgerTypeOK
    <3>5. SyncedInv'
      <4>1. ASSUME NEW c \in synced'
            PROVE  \/ c = "main" /\ torn'
                   \/ /\ Seen(c)' = money'[c]
                      /\ \A q \in Requests :
                            Syncing(q, c)' => req'[q].at = "chain" \/ req'[q].found = money'[c]
        <5>1. CASE c = req[r].chain
          <6>1. /\ req[r].found = money[c]
                /\ \A q \in InFlight("sync") : req[q] = req[r] \/ req[q].chain # c
            BY <3>1, <4>1, <5>1 DEF Fresh
          <6>2. \A q \in Requests : Syncing(q, c) => req[q].found = money[c]
            BY <6>1 DEF InFlight, Syncing
          <6>3. Seen(c)' = req[r].found
            BY <3>1, <3>4, <5>1 DEF Seen, OrZero
          <6>. QED
            BY <3>1, <3>3, <6>1, <6>2, <6>3
        <5>2. CASE c # req[r].chain
          <6>1. c \in synced /\ c \in SyncChains
            BY <1>0, <3>1, <4>1, <5>2 DEF Fresh, LedgerTypeOK
          <6>2. Seen(c)' = Seen(c)
            BY <3>1, <3>4, <5>2, <6>1 DEF Seen, OrZero
          <6>. QED
            BY <1>0, <3>1, <3>3, <6>1, <6>2 DEF SyncedInv
        <5>. QED
          BY <5>1, <5>2
      <4>. QED
        BY <4>1 DEF SyncedInv
    <3>6. CASE req[r].chain = "main"
      <4>1. Syncing(r, "main")
        BY <3>1, <3>6 DEF Syncing
      <4>2. ~torn => (\A q \in Requests : Syncing(q, "main") => q = r) /\ req[r].found = agentBalance
        BY <1>0, <3>1, <4>1 DEF MainInv
      <4>3. ~torn => \A q \in Requests : ~Syncing(q, "main")'
        BY <3>3, <4>2
      <4>4. ~torn => chainBalance'["main"] = agentBalance'
        BY <3>1, <3>4, <3>6, <4>2
      <4>. QED
        BY <3>1, <3>5, <4>3, <4>4 DEF MainInv
    <3>7. CASE req[r].chain # "main"
      <4>1. ~Syncing(r, "main") /\ chainBalance'["main"] = chainBalance["main"]
        BY <3>1, <3>4, <3>7 DEF Syncing, SyncChains
      <4>2. MainInv'
        BY <1>2, <2>0, <3>1, <3>3, <4>1
      <4>. QED
        BY <3>5, <4>2
    <3>. QED
      BY <3>6, <3>7
  <2>6. CASE LedgerFails(r)
    <3>1. req'[r].kind = "none" /\ torn' = (torn \/ HalfDone(r))
          /\ UNCHANGED <<money, agentBalance, chainBalance, synced>>
      BY <1>0, <2>6, Answers DEF LedgerFails, Rejects
    <3>2. \A q \in Requests : req'[q].kind = "sync" => req'[q] = req[q]
      BY <2>0, <3>1
    <3>3. ~torn' => \A q \in Requests : Syncing(q, "main") /\ req[q].at = "row" => req'[q] = req[q]
      BY <2>0, <3>1 DEF Syncing, HalfDone
    <3>. QED
      BY <1>1, <1>2, <3>1, <3>2, <3>3 DEF Syncing
  <2>7. CASE Deposit(r) \/ Withdraw(r) \/ Spend(r) \/ PutIn(r) \/ TakeOut(r) \/ WriteTokens(r)
    <3>1. UNCHANGED <<money, agentBalance, chainBalance, synced, torn>>
      BY <2>7 DEF Deposit, Withdraw, Spend, PutIn, TakeOut, WriteTokens, vaultSame, ledgerVars
    <3>2. req[r].kind # "sync"
      BY <2>7, ArrivesFree DEF Deposit, Withdraw, Spend, PutIn, TakeOut, WriteTokens, At
    <3>3. req'[r].kind # "sync"
      <4>1. CASE Answer(r)
        BY <1>0, <4>1, Answers
      <4>2. CASE Deposit(r)
        <5>1. PICK n \in Amounts : Become(r, [kind |-> "deposit", at |-> "upsert", amount |-> n])
          BY <4>2 DEF Deposit
        <5>2. PICK y : Become(r, y) /\ y.kind = "deposit"
          BY <5>1
        <5>. QED
          BY <1>0, <5>2, Assigned DEF Become
      <4>3. CASE Spend(r)
        <5>1. PICK n \in Amounts :
                Become(r, [kind |-> "spend", at |-> "write", amount |-> n, read |-> tokens])
          BY <4>3 DEF Spend
        <5>2. PICK y : Become(r, y) /\ y.kind = "spend"
          BY <5>1
        <5>. QED
          BY <1>0, <5>2, Assigned DEF Become
      <4>4. CASE Withdraw(r) /\ ~Answer(r)
        <5>1. PICK n \in Amounts :
                Become(r, [kind |-> "withdraw", at |-> "upsert", amount |-> n, read |-> vault])
          BY <4>4 DEF Withdraw
        <5>2. PICK y : Become(r, y) /\ y.kind = "withdraw"
          BY <5>1
        <5>. QED
          BY <1>0, <5>2, Assigned DEF Become
      <4>. QED
        BY <2>7, <4>1, <4>2, <4>3, <4>4 DEF PutIn, TakeOut, WriteTokens
    <3>4. \A q \in Requests : (req'[q].kind = "sync" \/ req[q].kind = "sync") => req'[q] = req[q]
      BY <2>0, <3>2, <3>3
    <3>. QED
      BY <1>1, <1>2, <3>1, <3>4 DEF Syncing
  <2>. QED
    BY <1>3, <2>1, <2>2, <2>3, <2>4, <2>5, <2>6, <2>7 DEF LedgerMoves, LedgerArrives, LedgerStep
<1>4. CASE MoneyMoves
  <2>1. PICK c0 \in SyncChains, n \in Amounts :
          money' = [money EXCEPT ![c0] = n] /\ synced' = synced \ {c0}
    BY <1>4 DEF MoneyMoves
  <2>2. UNCHANGED <<agentBalance, chainBalance, torn, req>>
    BY <1>4 DEF MoneyMoves
  <2>3. \A c \in SyncChains \ {c0} : money'[c] = money[c] /\ Seen(c)' = Seen(c)
    BY <1>0, <2>1, <2>2 DEF LedgerTypeOK, Seen, OrZero
  <2>4. SyncedInv'
    <3>1. \A c \in synced' : c \in synced /\ c \in SyncChains \ {c0}
      BY <1>0, <2>1 DEF LedgerTypeOK
    <3>2. \A q \in Requests, c \in SyncChains : Syncing(q, c)' = Syncing(q, c)
      BY <2>2 DEF Syncing
    <3>. QED
      BY <1>0, <2>2, <2>3, <3>1, <3>2 DEF SyncedInv
  <2>5. MainInv'
    BY <1>2, <2>2
  <2>. QED
    BY <2>4, <2>5
<1>5. CASE UNCHANGED ledgerVars /\ Undisturbed(LedgerKinds)
  <2>1. \A q \in Requests : (req'[q].kind = "sync" \/ req[q].kind = "sync") => req'[q] = req[q]
    BY <1>5 DEF Undisturbed, LedgerKinds
  <2>. QED
    BY <1>1, <1>2, <1>5, <2>1 DEF ledgerVars, Syncing
<1>6. CASE LedgerStops /\ AllFree
  <2>1. /\ UNCHANGED <<money, agentBalance, chainBalance, synced>>
        /\ torn' = (torn \/ \E r \in Requests : HalfDone(r))
        /\ \A q \in Requests : req'[q].kind = "none"
    BY <1>6 DEF LedgerStops, AllFree, Free
  <2>2. ~torn' => \A q \in Requests : ~(Syncing(q, "main") /\ req[q].at = "row")
    BY <2>1 DEF Syncing, HalfDone
  <2>. QED
    BY <1>1, <1>2, <2>1, <2>2 DEF Syncing
<1>. QED
  BY <1>0, <1>3, <1>4, <1>5, <1>6, LedgerFrame

\* The invariant of the balances holds of every state.
THEOREM LedgerInvariant == Spec => []LedgerInv
<1>1. Init => LedgerInv
  <2>1. SUFFICES ASSUME Init PROVE LedgerInv
    OBVIOUS
  <2>2. ReqOK /\ \A q \in Requests : req[q] = Free
    BY <2>1, RequestsKeepTheirPlace DEF Init, HandlersInit
  <2>3. LedgerTypeOK /\ torn \in BOOLEAN /\ drawnTwice \in BOOLEAN
    BY <2>1 DEF Init, LedgerInit, LedgerTypeOK
  <2>4. LedgerLocalsOK
    BY <2>2 DEF LedgerLocalsOK, LedgerLocals, Free
  <2>5. \A q \in Requests : ~Withdrawing(q) /\ \A c : ~Syncing(q, c)
    BY <2>2 DEF Withdrawing, Syncing, Free
  <2>6. VaultInv
    <3>1. OrZero(vault) = 0 /\ paidIn = 0 /\ paidOut = 0 /\ drawnTwice = FALSE
      BY <2>1 DEF Init, LedgerInit, OrZero
    <3>2. VaultAddsUp /\ OrZero(vault) >= 0
      BY <3>1 DEF VaultAddsUp
    <3>. QED
      BY <2>5, <3>1, <3>2 DEF VaultInv
  <2>7. SyncedInv /\ MainInv
    BY <2>1, <2>5 DEF Init, LedgerInit, SyncedInv, MainInv, SyncChains
  <2>. QED
    BY <2>2, <2>3, <2>4, <2>6, <2>7 DEF LedgerInv
<1>2. LedgerInv /\ [Next]_vars => LedgerInv'
  BY RequestsKeepTheirPlace, LedgerTypes, VaultKept, SyncKept DEF LedgerInv
<1>. QED
  BY <1>1, <1>2, PTL DEF Spec

\* LedgersAgree, for any number of requests at work: the vault has what was paid in less
\* what was paid out, is never overdrawn but by two withdrawals at once, and what the
\* worker is told of a balance that was synchronized is what the chain has.
THEOREM LedgersAlwaysAgree == Spec => []LedgersAgree
<1>1. LedgerInv => LedgersAgree
  BY DEF LedgerInv, VaultInv, SyncedInv, LedgersAgree, VaultIsCovered, SyncedIsSeen
<1>. QED
  BY <1>1, LedgerInvariant, PTL

----------------------------------------------------------------------------
(* Settlement. *)

\* A step of the whole, as settlement sees it.
LEMMA SettlementFrame ==
    ASSUME ReqOK, [Next]_vars
    PROVE  \/ \E r \in Requests : SettlementMoves(r) /\ Turn(r, SettlementKinds)
           \/ WriteReport
           \/ UNCHANGED settlementVars /\ Undisturbed(SettlementKinds)
           \/ UNCHANGED settlementVars /\ AllFree
<1>1. ASSUME UNCHANGED vars
      PROVE  UNCHANGED settlementVars /\ Undisturbed(SettlementKinds)
  BY <1>1 DEF vars, handlerVars, Undisturbed
<1>2. CASE \E r \in Requests : WalletMoves(r) /\ UNCHANGED <<ledger, quotes, settle, trades>>
  BY <1>2, WalletTurn, OthersRest, KindsDiffer DEF WalletMoves, settle
<1>3. CASE \E r \in Requests : LedgerMoves(r) /\ UNCHANGED <<wallet, quotes, settle, trades>>
  BY <1>3, LedgerTurn, OthersRest, KindsDiffer DEF LedgerMoves, settle
<1>4. CASE \E r \in Requests : PricingMoves(r) /\ UNCHANGED <<wallet, ledger, settle, trades>>
  BY <1>4, PricingTurn, OthersRest, KindsDiffer DEF PricingMoves, settle
<1>5. CASE \E r \in Requests : SettlementMoves(r)
  BY <1>5, SettlementTurn DEF SettlementMoves
<1>6. CASE \E r \in Requests : TradesMove(r) /\ UNCHANGED <<wallet, ledger, quotes, settle>>
  <2>1. SettlementKinds \intersect TradeKinds = {} /\ TradeKinds \intersect SettlementKinds = {}
    BY KindsDiffer
  <2>. QED
    BY <1>6, <2>1, TradesTurn, OthersRest, KindsDiffer DEF TradesMove, settle
<1>7. CASE ByItself
  <2>1. req' = req
    BY <1>7, NoneMoves
  <2>2. UNCHANGED settlementVars \/ WriteReport
    BY <1>7 DEF ByItself, Timers, Outside, Socket, SocketBeats, settle
  <2>. QED
    BY <2>1, <2>2 DEF Undisturbed
<1>8. CASE ServerRestart
  BY <1>8 DEF ServerRestart, AllFree
<1>. QED
  BY <1>1, <1>2, <1>3, <1>4, <1>5, <1>6, <1>7, <1>8, OneMoves

\* What the handlers of settlement have in hand.
SettlementLocals(x) ==
    x.kind \in {"settle", "resolved"} =>
        /\ {"kind", "at", "market"} \subseteq DOMAIN x /\ x.market \in Settled
        /\ x.kind = "settle" => "outcomes" \in DOMAIN x
        /\ x.at = "log" => x.verdict \in Verdicts \union {None}

SettlementTypes ==
    /\ market \in [Settled -> [status : Statuses \union {"gone"}, outcomes : Nat]]
    /\ logs \subseteq [market : Settled, verdict : Verdicts \union {None}]
    /\ due \subseteq Settled
    /\ verdicts \subseteq [market : Settled, payouts : Verdicts \ {None}]
    /\ payouts \in [Settled -> Verdicts \union {None}]
    /\ \A q \in Requests : SettlementLocals(req[q])

\* A verdict the chain may be told, or has been told, for m.
Payable(m, verdict) ==
    /\ \E i \in DOMAIN verdict : verdict[i] = 1
    /\ market[m].status # "gone" =>
          /\ [market |-> m, verdict |-> verdict] \in logs
          /\ <<m, "outcomes">> \in patched \/ Len(verdict) = market[m].outcomes

\* CRE may report it, or has.
Reported(m, verdict) ==
    /\ verdict # None
    /\ payouts[m] = verdict \/ [market |-> m, payouts |-> verdict] \in verdicts

\* What CRE was answered and what it has told the chain; and the outcomes a deliberation
\* has in hand are those of its market, unless they were patched since.
VerdictsInv ==
    /\ \A m \in Settled, v \in Verdicts : Reported(m, v) => Payable(m, v)
    /\ \A q \in Requests :
          req[q].kind = "settle" =>
              \/ market[req[q].market].status = "gone"
              \/ <<req[q].market, "outcomes">> \in patched
              \/ req[q].outcomes = market[req[q].market].outcomes

\* A market that a callback is about to close is open, or was closed by another or deleted,
\* or patched meanwhile.
ClosingInv ==
    /\ OnlyOpenIsClosed
    /\ \A q \in Requests :
          req[q].kind = "resolved" =>
              \/ market[req[q].market].status \in {"OPEN", "CLOSED", "gone"}
              \/ <<req[q].market, "status">> \in patched

SettlementInv == ReqOK /\ SettlementTypes /\ VerdictsInv /\ ClosingInv

\* The two ways in which an owner patches a market.
PatchesStatus(m) ==
    /\ \E status \in Statuses : market' = [market EXCEPT ![m].status = status]
    /\ patched' = IF Settling(m) = {} THEN patched ELSE patched \union {<<m, "status">>}
PatchesOutcomes(m) ==
    /\ \E n \in 2..3 : market' = [market EXCEPT ![m].outcomes = n]
    /\ patched' = IF Settling(m) = {} /\ ~Decided(m) THEN patched
                  ELSE patched \union {<<m, "outcomes">>}

\* One step keeps what is reported, told and closed in order.
LEMMA SettlementKept ==
    ASSUME SettlementInv, [Next]_vars
    PROVE  SettlementTypes' /\ VerdictsInv' /\ ClosingInv'
<1>. USE VerdictsAssumption
<1>. DEFINE OK == SettlementTypes' /\ VerdictsInv' /\ ClosingInv'
<1>0. /\ ReqOK /\ SettlementTypes /\ VerdictsInv /\ ClosingInv
      /\ \A q \in Requests : SettlementLocals(req[q]) /\ Placed(req[q])
  BY DEF SettlementInv, SettlementTypes, ReqOK
<1>1. ASSUME UNCHANGED settlementVars,
             \A q \in Requests : req'[q].kind \in SettlementKinds => req'[q] = req[q]
      PROVE  OK
  <2>1. \A q \in Requests : SettlementLocals(req'[q])
    BY <1>0, <1>1 DEF SettlementLocals, SettlementKinds
  <2>2. SettlementTypes'
    BY <1>0, <1>1, <2>1 DEF SettlementTypes, settlementVars, SettlementLocals
  <2>3. \A m, v : Payable(m, v)' = Payable(m, v) /\ Reported(m, v)' = Reported(m, v)
    BY <1>1 DEF Payable, Reported, settlementVars
  <2>4. VerdictsInv'
    BY <1>0, <1>1, <2>3 DEF VerdictsInv, settlementVars, SettlementKinds
  <2>5. ClosingInv'
    BY <1>0, <1>1 DEF ClosingInv, OnlyOpenIsClosed, settlementVars, SettlementKinds
  <2>. QED
    BY <2>2, <2>4, <2>5
<1>2. ASSUME NEW r \in Requests, SettlementMoves(r), Turn(r, SettlementKinds)
      PROVE  OK
  <2>0. /\ \A q \in Requests \ {r} : req'[q] = req[q]
        /\ Placed(req[r]) /\ SettlementLocals(req[r])
    BY <1>0, <1>2 DEF Turn
  <2>1. ASSUME NEW y, Become(r, y)
        PROVE  req'[r] = y
    BY <1>0, <2>1, Assigned DEF Become
  <2>2. ASSUME Answer(r)
        PROVE  req'[r] = Free /\ req'[r].kind = "none"
    BY <1>0, <2>2, Answers
  <2>3. ASSUME SettlementLocals(req'[r])
        PROVE  \A q \in Requests : SettlementLocals(req[q])'
    <3>1. \A q \in Requests : SettlementLocals(req'[q])
      BY <1>0, <2>0, <2>3
    <3>. QED
      BY <3>1 DEF SettlementLocals
  <2>4. SettlementLocals(Free)
    BY DEF SettlementLocals, Free
  <2>5. CASE FindMarketsDue(r)
    <3>1. /\ due' \subseteq Settled /\ Answer(r)
          /\ UNCHANGED <<market, logs, verdicts, payouts, told, patched>>
      BY <2>5 DEF FindMarketsDue
    <3>2. SettlementTypes'
      BY <1>0, <2>2, <2>3, <2>4, <3>1 DEF SettlementTypes
    <3>3. \A m, v : Payable(m, v)' = Payable(m, v) /\ Reported(m, v)' = Reported(m, v)
      BY <3>1 DEF Payable, Reported
    <3>4. VerdictsInv' /\ ClosingInv'
      BY <1>0, <2>0, <2>2, <3>1, <3>3 DEF VerdictsInv, ClosingInv, OnlyOpenIsClosed
    <3>. QED
      BY <3>2, <3>4
  <2>6. CASE RunSettlement(r)
    <3>1. PICK m \in due :
            /\ due' = due \ {m}
            /\ \/ Become(r, [kind |-> "settle", at |-> "opinions", market |-> m,
                             outcomes |-> market[m].outcomes])
               \/ Answer(r)
      BY <2>6 DEF RunSettlement
    <3>2. UNCHANGED <<market, logs, verdicts, payouts, told, patched>> /\ due' \subseteq Settled
          /\ m \in Settled
      BY <1>0, <2>6, <3>1 DEF RunSettlement, SettlementTypes
    <3>3. PICK y : y = [kind |-> "settle", at |-> "opinions", market |-> m,
                        outcomes |-> market[m].outcomes]
      OBVIOUS
    <3>4. /\ SettlementLocals(y) /\ y.kind = "settle" /\ y.market = m
          /\ y.outcomes = market[m].outcomes
      BY <3>2, <3>3 DEF SettlementLocals
    <3>5. req'[r] = y \/ req'[r] = Free
      BY <2>1, <2>2, <3>1, <3>3
    <3>6. SettlementTypes'
      BY <1>0, <2>3, <2>4, <3>2, <3>4, <3>5 DEF SettlementTypes
    <3>7. \A n, v : Payable(n, v)' = Payable(n, v) /\ Reported(n, v)' = Reported(n, v)
      BY <3>2 DEF Payable, Reported
    <3>8. req'[r].kind = "settle" => req'[r].outcomes = market[req'[r].market].outcomes
      BY <3>4, <3>5 DEF Free
    <3>9. VerdictsInv'
      BY <1>0, <2>0, <3>2, <3>7, <3>8 DEF VerdictsInv
    <3>10. req'[r].kind # "resolved"
      BY <3>4, <3>5 DEF Free
    <3>11. ClosingInv'
      BY <1>0, <2>0, <3>2, <3>10 DEF ClosingInv, OnlyOpenIsClosed
    <3>. QED
      BY <3>6, <3>9, <3>11
  <2>7. CASE Resolved(r)
    <3>1. PICK m \in Settled :
             \/ IsOpen(m) /\ Become(r, [kind |-> "resolved", at |-> "close", market |-> m])
             \/ Answer(r)
      BY <2>7 DEF Resolved
    <3>2. UNCHANGED <<market, logs, due, verdicts, payouts, told, patched>>
      BY <2>7 DEF Resolved, settlementVars
    <3>3. PICK y : y = [kind |-> "resolved", at |-> "close", market |-> m]
      OBVIOUS
    <3>4. SettlementLocals(y) /\ y.kind = "resolved" /\ y.market = m
      BY <3>3 DEF SettlementLocals
    <3>5. (req'[r] = y /\ market[m].status = "OPEN") \/ req'[r] = Free
      BY <2>1, <2>2, <3>1, <3>3 DEF IsOpen
    <3>6. SettlementTypes'
      BY <1>0, <2>3, <2>4, <3>2, <3>4, <3>5 DEF SettlementTypes
    <3>7. \A n, v : Payable(n, v)' = Payable(n, v) /\ Reported(n, v)' = Reported(n, v)
      BY <3>2 DEF Payable, Reported
    <3>8. req'[r].kind # "settle"
      BY <3>4, <3>5 DEF Free
    <3>9. VerdictsInv'
      BY <1>0, <2>0, <3>2, <3>7, <3>8 DEF VerdictsInv
    <3>10. req'[r].kind = "resolved" => market[req'[r].market].status = "OPEN"
      BY <3>4, <3>5 DEF Free
    <3>11. ClosingInv'
      BY <1>0, <2>0, <3>2, <3>10 DEF ClosingInv, OnlyOpenIsClosed
    <3>. QED
      BY <3>6, <3>9, <3>11
  <2>8. CASE PatchMarket(r)
    <3>1. PICK m \in Settled :
            /\ market[m].status # "gone"
            /\ \/ PatchesStatus(m)
               \/ PatchesOutcomes(m)
      BY <2>8 DEF PatchMarket, PatchesStatus, PatchesOutcomes
    <3>2. /\ UNCHANGED <<logs, due, verdicts, payouts, told>>
          /\ req'[r].kind = "none" /\ req'[r] = Free
      BY <2>2, <2>8 DEF PatchMarket
    <3>3. market[m] \in [status : Statuses \union {"gone"}, outcomes : Nat]
      BY <1>0 DEF SettlementTypes
    <3>4. /\ market' \in [Settled -> [status : Statuses \union {"gone"}, outcomes : Nat]]
          /\ \A n \in Settled \ {m} : market'[n] = market[n]
          /\ market'[m].status # "gone" /\ patched \subseteq patched'
          /\ \/ /\ market'[m].outcomes = market[m].outcomes
                /\ (Settling(m) = {}) \/ <<m, "status">> \in patched'
             \/ /\ market'[m].status = market[m].status
                /\ (Settling(m) = {} /\ ~Decided(m)) \/ <<m, "outcomes">> \in patched'
      <4>1. CASE PatchesStatus(m)
        <5>1. PICK status \in Statuses : market' = [market EXCEPT ![m].status = status]
          BY <4>1 DEF PatchesStatus
        <5>2. PICK row : row = [market[m] EXCEPT !.status = status]
          OBVIOUS
        <5>3. /\ row \in [status : Statuses \union {"gone"}, outcomes : Nat]
              /\ row.outcomes = market[m].outcomes /\ row.status # "gone"
          BY <3>3, <5>2 DEF Statuses
        <5>4. market' = [market EXCEPT ![m] = row]
          BY <1>0, <5>1, <5>2 DEF SettlementTypes
        <5>5. market'[m] = row
          BY <1>0, <5>4 DEF SettlementTypes
        <5>6. market' \in [Settled -> [status : Statuses \union {"gone"}, outcomes : Nat]]
          BY <1>0, <5>3, <5>4 DEF SettlementTypes
        <5>7. \A n \in Settled \ {m} : market'[n] = market[n]
          BY <1>0, <5>4 DEF SettlementTypes
        <5>8. patched \subseteq patched' /\ (Settling(m) = {} \/ <<m, "status">> \in patched')
          BY <4>1 DEF PatchesStatus
        <5>. QED
          BY <5>3, <5>5, <5>6, <5>7, <5>8
      <4>2. CASE PatchesOutcomes(m)
        <5>1. PICK n \in 2..3 : market' = [market EXCEPT ![m].outcomes = n]
          BY <4>2 DEF PatchesOutcomes
        <5>2. PICK row : row = [market[m] EXCEPT !.outcomes = n]
          OBVIOUS
        <5>3. /\ row \in [status : Statuses \union {"gone"}, outcomes : Nat]
              /\ row.status = market[m].status
          BY <3>3, <5>2
        <5>4. market' = [market EXCEPT ![m] = row]
          BY <1>0, <5>1, <5>2 DEF SettlementTypes
        <5>5. market'[m] = row
          BY <1>0, <5>4 DEF SettlementTypes
        <5>6. market' \in [Settled -> [status : Statuses \union {"gone"}, outcomes : Nat]]
          BY <1>0, <5>3, <5>4 DEF SettlementTypes
        <5>7. \A k \in Settled \ {m} : market'[k] = market[k]
          BY <1>0, <5>4 DEF SettlementTypes
        <5>8. patched \subseteq patched'
              /\ ((Settling(m) = {} /\ ~Decided(m)) \/ <<m, "outcomes">> \in patched')
          BY <4>2 DEF PatchesOutcomes
        <5>. QED
          BY <3>1, <5>3, <5>5, <5>6, <5>7, <5>8
      <4>. QED
        BY <3>1, <4>1, <4>2
    <3>5. SettlementTypes'
      BY <1>0, <2>3, <2>4, <3>2, <3>4 DEF SettlementTypes
    <3>7. \A q \in Requests : req[q].kind \in {"settle", "resolved"} /\ req[q].market = m => q \in Settling(m)
      BY <1>0 DEF SettlementLocals, Settling
    <3>9. ASSUME NEW n \in Settled, NEW v \in Verdicts, Reported(n, v)'
          PROVE  Payable(n, v)'
      <4>1. Reported(n, v) /\ Payable(n, v) /\ (n = m => Decided(m))
        BY <1>0, <3>2, <3>9 DEF VerdictsInv, Reported, Decided
      <4>2. CASE n # m
        BY <3>2, <3>4, <4>1, <4>2 DEF Payable
      <4>3. CASE n = m
        BY <3>1, <3>2, <3>4, <4>1, <4>3 DEF Payable
      <4>. QED
        BY <4>2, <4>3
    <3>10. VerdictsInv'
      <4>5. ASSUME NEW q \in Requests, req'[q].kind = "settle"
            PROVE  \/ market'[req'[q].market].status = "gone"
                   \/ <<req'[q].market, "outcomes">> \in patched'
                   \/ req'[q].outcomes = market'[req'[q].market].outcomes
        <5>1. req'[q] = req[q] /\ req[q].market \in Settled
          BY <1>0, <2>0, <3>2, <4>5 DEF SettlementLocals
        <5>2. \/ market[req[q].market].status = "gone"
              \/ <<req[q].market, "outcomes">> \in patched
              \/ req[q].outcomes = market[req[q].market].outcomes
          BY <1>0, <4>5, <5>1 DEF VerdictsInv
        <5>3. CASE req[q].market # m
          BY <3>4, <5>1, <5>2, <5>3
        <5>4. CASE req[q].market = m
          <6>1. Settling(m) # {}
            BY <3>7, <4>5, <5>1, <5>4
          <6>. QED
            BY <3>1, <3>4, <5>1, <5>2, <5>4, <6>1
        <5>. QED
          BY <5>3, <5>4
      <4>. QED
        BY <3>9, <4>5 DEF VerdictsInv
    <3>11. ClosingInv'
      <4>1. OnlyOpenIsClosed'
        BY <1>0, <3>2, <3>4 DEF ClosingInv, OnlyOpenIsClosed
      <4>2. ASSUME NEW q \in Requests, req'[q].kind = "resolved"
            PROVE  \/ market'[req'[q].market].status \in {"OPEN", "CLOSED", "gone"}
                   \/ <<req'[q].market, "status">> \in patched'
        <5>1. req'[q] = req[q] /\ req[q].market \in Settled
          BY <1>0, <2>0, <3>2, <4>2 DEF SettlementLocals
        <5>2. \/ market[req[q].market].status \in {"OPEN", "CLOSED", "gone"}
              \/ <<req[q].market, "status">> \in patched
          BY <1>0, <4>2, <5>1 DEF ClosingInv
        <5>3. CASE req[q].market # m
          BY <3>4, <5>1, <5>2, <5>3
        <5>4. CASE req[q].market = m
          <6>1. Settling(m) # {}
            BY <3>7, <4>2, <5>1, <5>4
          <6>. QED
            BY <3>4, <5>1, <5>2, <5>4, <6>1
        <5>. QED
          BY <5>3, <5>4
      <4>. QED
        BY <4>1, <4>2 DEF ClosingInv
    <3>. QED
      BY <3>5, <3>10, <3>11
  <2>9. CASE DeleteMarket(r)
    <3>1. PICK m \in Settled :
            /\ market' = [market EXCEPT ![m] = NoMarket]
            /\ logs' = {log \in logs : log.market # m}
      BY <2>9 DEF DeleteMarket
    <3>2. /\ UNCHANGED <<due, verdicts, payouts, told, patched>>
          /\ req'[r].kind = "none" /\ req'[r] = Free
      BY <2>2, <2>9 DEF DeleteMarket
    <3>3. market' \in [Settled -> [status : Statuses \union {"gone"}, outcomes : Nat]]
      BY <1>0, <3>1 DEF SettlementTypes, NoMarket
    <3>4. SettlementTypes'
      BY <1>0, <2>3, <2>4, <3>1, <3>2, <3>3 DEF SettlementTypes
    <3>5. market'[m].status = "gone" /\ \A n \in Settled \ {m} : market'[n] = market[n]
      BY <1>0, <3>1 DEF SettlementTypes, NoMarket
    <3>6. ASSUME NEW n \in Settled, NEW v \in Verdicts, Reported(n, v)'
          PROVE  Payable(n, v)'
      <4>1. Payable(n, v)
        BY <1>0, <3>2, <3>6 DEF VerdictsInv, Reported
      <4>. QED
        BY <3>1, <3>2, <3>5, <4>1 DEF Payable
    <3>7. VerdictsInv'
      <4>1. ASSUME NEW q \in Requests, req'[q].kind = "settle"
            PROVE  \/ market'[req'[q].market].status = "gone"
                   \/ <<req'[q].market, "outcomes">> \in patched'
                   \/ req'[q].outcomes = market'[req'[q].market].outcomes
        <5>1. req'[q] = req[q] /\ req[q].market \in Settled
          BY <1>0, <2>0, <3>2, <4>1 DEF SettlementLocals
        <5>. QED
          BY <1>0, <3>2, <3>5, <4>1, <5>1 DEF VerdictsInv
      <4>. QED
        BY <3>6, <4>1 DEF VerdictsInv
    <3>8. ClosingInv'
      <4>1. \A q \in Requests : req[q].kind = "resolved" => req[q].market \in Settled
        BY <1>0 DEF SettlementLocals
      <4>. QED
        BY <1>0, <2>0, <3>2, <3>5, <4>1 DEF ClosingInv, OnlyOpenIsClosed
    <3>. QED
      BY <3>4, <3>7, <3>8
  <2>10. CASE Opinions(r) \/ Review(r)
    <3>1. /\ UNCHANGED <<market, logs, due, verdicts, payouts, told, patched>>
          /\ req[r].kind = "settle" /\ {"kind", "at", "market", "outcomes"} \subseteq DOMAIN req[r]
          /\ req[r].market \in Settled
      BY <2>0, <2>10 DEF Opinions, Review, At, settlementVars, SettlementLocals
    <3>2. /\ req'[r].kind = "settle" /\ req'[r].market = req[r].market
          /\ req'[r].outcomes = req[r].outcomes
          /\ {"kind", "at", "market", "outcomes"} \subseteq DOMAIN req'[r]
          /\ req'[r].at = "log" => req'[r].verdict \in Verdicts \union {None}
      <4>1. CASE Opinions(r)
        BY <1>0, <3>1, <4>1, Goes DEF Opinions
      <4>2. CASE Review(r)
        <5>1. PICK v \in Verdicts \union {None} :
                Become(r, With(req[r], [at |-> "log", verdict |-> v]))
          BY <4>2 DEF Review
        <5>2. PICK l : l = [at |-> "log", verdict |-> v]
          OBVIOUS
        <5>3. PICK y : y = With(req[r], l)
          OBVIOUS
        <5>4. req'[r] = y
          BY <2>1, <5>1, <5>2, <5>3
        <5>5. /\ y.kind = "settle" /\ y.market = req[r].market /\ y.outcomes = req[r].outcomes
              /\ y.verdict = v /\ {"kind", "at", "market", "outcomes"} \subseteq DOMAIN y
          BY <3>1, <5>2, <5>3 DEF With
        <5>. QED
          BY <5>4, <5>5
      <4>. QED
        BY <2>10, <4>1, <4>2
    <3>3. SettlementLocals(req'[r])
      BY <3>1, <3>2 DEF SettlementLocals
    <3>4. SettlementTypes'
      BY <1>0, <2>3, <3>1, <3>3 DEF SettlementTypes
    <3>5. \A m, v : Payable(m, v)' = Payable(m, v) /\ Reported(m, v)' = Reported(m, v)
      BY <3>1 DEF Payable, Reported
    <3>6. VerdictsInv'
      <4>1. \/ market[req'[r].market].status = "gone"
            \/ <<req'[r].market, "outcomes">> \in patched
            \/ req'[r].outcomes = market[req'[r].market].outcomes
        BY <1>0, <3>1, <3>2 DEF VerdictsInv
      <4>. QED
        BY <1>0, <2>0, <3>1, <3>5, <4>1 DEF VerdictsInv
    <3>7. ClosingInv'
      BY <1>0, <2>0, <3>1, <3>2 DEF ClosingInv, OnlyOpenIsClosed
    <3>. QED
      BY <3>4, <3>6, <3>7
  <2>11. CASE LogAndAnswer(r)
    <3>. PICK m, verdict : m = req[r].market /\ verdict = req[r].verdict
      OBVIOUS
    <3>1. /\ req[r].kind = "settle" /\ m \in Settled /\ verdict \in Verdicts \union {None}
          /\ UNCHANGED <<market, due, payouts, told, patched>>
          /\ req'[r].kind = "none" /\ req'[r] = Free
      BY <2>0, <2>2, <2>11 DEF LogAndAnswer, At, SettlementLocals
    <3>2. \/ UNCHANGED <<logs, verdicts>>
          \/ /\ logs' = logs \union {[market |-> m, verdict |-> verdict]}
             /\ \/ UNCHANGED verdicts
                \/ /\ verdicts' = verdicts \union {[market |-> m, payouts |-> verdict]}
                   /\ CanResolve(req[r]) /\ market[m].status # "gone"
      BY <2>11 DEF LogAndAnswer
    <3>3. CanResolve(req[r]) => /\ verdict \in Verdicts \ {None}
                                /\ Len(verdict) = req[r].outcomes
                                /\ \E i \in DOMAIN verdict : verdict[i] = 1
      BY <3>1 DEF CanResolve
    <3>4. SettlementTypes'
      <4>1. logs' \subseteq [market : Settled, verdict : Verdicts \union {None}]
        BY <1>0, <3>1, <3>2 DEF SettlementTypes
      <4>2. verdicts' \subseteq [market : Settled, payouts : Verdicts \ {None}]
        BY <1>0, <3>1, <3>2, <3>3 DEF SettlementTypes
      <4>. QED
        BY <1>0, <2>3, <2>4, <3>1, <4>1, <4>2 DEF SettlementTypes
    <3>5. \A n, v : Payable(n, v) => Payable(n, v)'
      BY <3>1, <3>2 DEF Payable
    <3>6. ASSUME CanResolve(req[r]), market[m].status # "gone",
                 logs' = logs \union {[market |-> m, verdict |-> verdict]}
          PROVE  Payable(m, verdict)'
      <4>1. <<m, "outcomes">> \in patched \/ req[r].outcomes = market[m].outcomes
        BY <1>0, <3>1, <3>6 DEF VerdictsInv
      <4>. QED
        BY <3>1, <3>3, <3>6, <4>1 DEF Payable
    <3>7. ASSUME NEW n \in Settled, NEW v \in Verdicts, Reported(n, v)'
          PROVE  Payable(n, v)'
      <4>1. CASE Reported(n, v)
        BY <1>0, <3>5, <4>1 DEF VerdictsInv
      <4>2. CASE ~Reported(n, v)
        <5>1. /\ [market |-> n, payouts |-> v] \in verdicts'
              /\ [market |-> n, payouts |-> v] \notin verdicts
          BY <3>1, <3>7, <4>2 DEF Reported
        <5>2. /\ [market |-> n, payouts |-> v] = [market |-> m, payouts |-> verdict]
              /\ CanResolve(req[r]) /\ market[m].status # "gone"
              /\ logs' = logs \union {[market |-> m, verdict |-> verdict]}
          BY <3>2, <5>1
        <5>3. n = m /\ v = verdict
          BY <5>2
        <5>. QED
          BY <3>6, <5>2, <5>3
      <4>. QED
        BY <4>1, <4>2
    <3>8. VerdictsInv'
      <4>2. \A q \in Requests : req'[q].kind = "settle" => req'[q] = req[q]
        BY <2>0, <3>1
      <4>. QED
        BY <1>0, <3>1, <3>7, <4>2 DEF VerdictsInv
    <3>9. ClosingInv'
      BY <1>0, <2>0, <3>1 DEF ClosingInv, OnlyOpenIsClosed
    <3>. QED
      BY <3>4, <3>8, <3>9
  <2>12. CASE CloseMarket(r)
    <3>. PICK m : m = req[r].market
      OBVIOUS
    <3>1. /\ req[r].kind = "resolved" /\ m \in Settled
          /\ UNCHANGED <<logs, due, verdicts, payouts, patched>>
          /\ req'[r].kind = "none" /\ req'[r] = Free
      BY <2>0, <2>2, <2>12 DEF CloseMarket, At, SettlementLocals
    <3>2. \/ UNCHANGED <<market, told>>
          \/ /\ market[m].status # "gone"
             /\ market' = [market EXCEPT ![m].status = "CLOSED"]
             /\ told' = told \union {[market |-> m, was |-> market[m].status]}
      BY <2>12 DEF CloseMarket
    <3>3. market[m] \in [status : Statuses \union {"gone"}, outcomes : Nat]
      BY <1>0, <3>1 DEF SettlementTypes
    <3>4. /\ market' \in [Settled -> [status : Statuses \union {"gone"}, outcomes : Nat]]
          /\ \A n \in Settled : /\ market'[n].outcomes = market[n].outcomes
                                /\ market'[n].status \in {market[n].status, "CLOSED"}
                                /\ market'[n].status = "gone" <=> market[n].status = "gone"
      <4>1. CASE UNCHANGED market
        BY <1>0, <4>1 DEF SettlementTypes
      <4>2. CASE market[m].status # "gone" /\ market' = [market EXCEPT ![m].status = "CLOSED"]
        <5>1. PICK row : row = [market[m] EXCEPT !.status = "CLOSED"]
          OBVIOUS
        <5>2. /\ row \in [status : Statuses \union {"gone"}, outcomes : Nat]
              /\ row.outcomes = market[m].outcomes /\ row.status = "CLOSED"
          BY <3>3, <5>1 DEF Statuses
        <5>3. market' = [market EXCEPT ![m] = row]
          BY <1>0, <4>2, <5>1 DEF SettlementTypes
        <5>4. market'[m] = row /\ \A n \in Settled \ {m} : market'[n] = market[n]
          BY <1>0, <3>1, <5>3 DEF SettlementTypes
        <5>5. market' \in [Settled -> [status : Statuses \union {"gone"}, outcomes : Nat]]
          BY <1>0, <5>2, <5>3 DEF SettlementTypes
        <5>. QED
          BY <4>2, <5>2, <5>4, <5>5
      <4>. QED
        BY <3>2, <4>1, <4>2
    <3>5. SettlementTypes'
      BY <1>0, <2>3, <2>4, <3>1, <3>4 DEF SettlementTypes
    <3>7. ASSUME NEW n \in Settled, NEW v \in Verdicts, Reported(n, v)'
          PROVE  Payable(n, v)'
      <4>1. Payable(n, v)
        BY <1>0, <3>1, <3>7 DEF VerdictsInv, Reported
      <4>. QED
        BY <3>1, <3>4, <4>1 DEF Payable
    <3>8. VerdictsInv'
      <4>1. ASSUME NEW q \in Requests, req'[q].kind = "settle"
            PROVE  \/ market'[req'[q].market].status = "gone"
                   \/ <<req'[q].market, "outcomes">> \in patched'
                   \/ req'[q].outcomes = market'[req'[q].market].outcomes
        <5>1. req'[q] = req[q] /\ req[q].market \in Settled
          BY <1>0, <2>0, <3>1, <4>1 DEF SettlementLocals
        <5>. QED
          BY <1>0, <3>1, <3>4, <4>1, <5>1 DEF VerdictsInv
      <4>. QED
        BY <3>7, <4>1 DEF VerdictsInv
    <3>9. ClosingInv'
      <4>1. \/ market[m].status \in {"OPEN", "CLOSED", "gone"}
            \/ <<m, "status">> \in patched
        BY <1>0, <3>1 DEF ClosingInv
      <4>2. OnlyOpenIsClosed'
        <5>1. ASSUME NEW t \in told'
              PROVE  t.was \in {"OPEN", "CLOSED"} \/ <<t.market, "status">> \in patched'
          <6>1. CASE t \in told
            BY <1>0, <3>1, <6>1 DEF ClosingInv, OnlyOpenIsClosed
          <6>2. CASE t \notin told
            <7>1. t = [market |-> m, was |-> market[m].status] /\ market[m].status # "gone"
              BY <3>2, <5>1, <6>2
            <7>. QED
              BY <3>1, <4>1, <7>1
          <6>. QED
            BY <6>1, <6>2
        <5>. QED
          BY <5>1 DEF OnlyOpenIsClosed
      <4>3. \A q \in Requests : req'[q].kind = "resolved" => req'[q] = req[q] /\ req[q].market \in Settled
        BY <1>0, <2>0, <3>1 DEF SettlementLocals
      <4>4. ASSUME NEW q \in Requests, req'[q].kind = "resolved"
            PROVE  \/ market'[req'[q].market].status \in {"OPEN", "CLOSED", "gone"}
                   \/ <<req'[q].market, "status">> \in patched'
        BY <1>0, <3>1, <3>4, <4>3, <4>4 DEF ClosingInv
      <4>. QED
        BY <4>2, <4>4 DEF ClosingInv
    <3>. QED
      BY <3>5, <3>8, <3>9
  <2>13. CASE SettlementFails(r)
    <3>1. UNCHANGED settlementVars /\ req'[r].kind = "none"
      BY <2>2, <2>13 DEF SettlementFails, Rejects
    <3>. QED
      BY <1>1, <2>0, <3>1 DEF SettlementKinds
  <2>. QED
    BY <1>2, <2>5, <2>6, <2>7, <2>8, <2>9, <2>10, <2>11, <2>12, <2>13
       DEF SettlementMoves, SettlementArrives, SettlementStep
<1>3. CASE WriteReport
  <2>1. PICK v \in verdicts :
          /\ verdicts' = verdicts \ {v}
          /\ payouts' = IF payouts[v.market] = None
                        THEN [payouts EXCEPT ![v.market] = v.payouts] ELSE payouts
    BY <1>3 DEF WriteReport
  <2>2. UNCHANGED <<market, logs, due, told, patched, req>>
    BY <1>3 DEF WriteReport, handlerVars
  <2>3. /\ v.market \in Settled /\ v.payouts \in Verdicts \ {None}
        /\ v = [market |-> v.market, payouts |-> v.payouts]
    BY <1>0 DEF SettlementTypes
  <2>4. SettlementTypes'
    <3>1. payouts' \in [Settled -> Verdicts \union {None}]
      BY <1>0, <2>1, <2>3 DEF SettlementTypes
    <3>. QED
      BY <1>0, <2>1, <2>2, <3>1 DEF SettlementTypes, SettlementLocals
  <2>5. ASSUME NEW n \in Settled, NEW w \in Verdicts, Reported(n, w)'
        PROVE  Payable(n, w)'
    <3>1. Reported(n, w)
      BY <1>0, <2>1, <2>3, <2>5 DEF Reported, SettlementTypes
    <3>. QED
      BY <1>0, <2>2, <3>1 DEF VerdictsInv, Payable
  <2>6. VerdictsInv'
    BY <1>0, <2>2, <2>5 DEF VerdictsInv
  <2>7. ClosingInv'
    BY <1>0, <2>2 DEF ClosingInv, OnlyOpenIsClosed
  <2>. QED
    BY <2>4, <2>6, <2>7
<1>4. CASE UNCHANGED settlementVars /\ Undisturbed(SettlementKinds)
  BY <1>1, <1>4 DEF Undisturbed
<1>5. CASE UNCHANGED settlementVars /\ AllFree
  BY <1>1, <1>5 DEF AllFree, Free, SettlementKinds
<1>. QED
  BY <1>0, <1>2, <1>3, <1>4, <1>5, SettlementFrame

\* The invariant of settlement holds of every state.
THEOREM SettlementInvariant == Spec => []SettlementInv
<1>1. Init => SettlementInv
  <2>1. SUFFICES ASSUME Init PROVE SettlementInv
    OBVIOUS
  <2>2. ReqOK /\ \A q \in Requests : req[q] = Free
    BY <2>1, RequestsKeepTheirPlace DEF Init, HandlersInit
  <2>3. \A q \in Requests : req[q].kind = "none"
    BY <2>2 DEF Free
  <2>4. \A q \in Requests : SettlementLocals(req[q])
    BY <2>3 DEF SettlementLocals
  <2>5. SettlementTypes
    BY <2>1, <2>4 DEF Init, SettlementInit, SettlementTypes, Statuses
  <2>6. VerdictsInv /\ ClosingInv
    BY <2>1, <2>3 DEF Init, SettlementInit, VerdictsInv, Reported, ClosingInv, OnlyOpenIsClosed
  <2>. QED
    BY <2>2, <2>5, <2>6 DEF SettlementInv
<1>2. SettlementInv /\ [Next]_vars => SettlementInv'
  BY RequestsKeepTheirPlace, SettlementKept DEF SettlementInv
<1>. QED
  BY <1>1, <1>2, PTL DEF Spec

----------------------------------------------------------------------------
(* CRE's word on trades. *)

\* A step of the whole, as the trades of CRE see it.
LEMMA TradesFrame ==
    ASSUME ReqOK, [Next]_vars
    PROVE  \/ \E r \in Requests : TradesMove(r) /\ Turn(r, TradeKinds)
           \/ PersistOrder
           \/ UNCHANGED tradeVars /\ Undisturbed(TradeKinds)
           \/ UNCHANGED tradeVars /\ AllFree
<1>1. ASSUME UNCHANGED vars
      PROVE  UNCHANGED tradeVars /\ Undisturbed(TradeKinds)
  BY <1>1 DEF vars, handlerVars, Undisturbed
<1>2. CASE \E r \in Requests : WalletMoves(r) /\ UNCHANGED <<ledger, quotes, settle, trades>>
  BY <1>2, WalletTurn, OthersRest, KindsDiffer DEF WalletMoves, trades
<1>3. CASE \E r \in Requests : LedgerMoves(r) /\ UNCHANGED <<wallet, quotes, settle, trades>>
  BY <1>3, LedgerTurn, OthersRest, KindsDiffer DEF LedgerMoves, trades
<1>4. CASE \E r \in Requests : PricingMoves(r) /\ UNCHANGED <<wallet, ledger, settle, trades>>
  <2>1. PricingKinds \intersect TradeKinds = {}
    BY KindsDiffer
  <2>. QED
    BY <1>4, <2>1, PricingTurn, OthersRest, KindsDiffer DEF PricingMoves, trades
<1>5. CASE \E r \in Requests : SettlementMoves(r) /\ UNCHANGED <<wallet, ledger, quotes, trades>>
  BY <1>5, SettlementTurn, OthersRest, KindsDiffer DEF SettlementMoves, trades
<1>6. CASE \E r \in Requests : TradesMove(r)
  BY <1>6, TradesTurn DEF TradesMove
<1>7. CASE ByItself
  <2>1. req' = req
    BY <1>7, NoneMoves
  <2>2. UNCHANGED tradeVars \/ PersistOrder
    BY <1>7 DEF ByItself, Timers, Outside, Socket, SocketBeats, trades
  <2>. QED
    BY <2>1, <2>2 DEF Undisturbed
<1>8. CASE ServerRestart
  BY <1>8 DEF ServerRestart, AllFree
<1>. QED
  BY <1>1, <1>2, <1>3, <1>4, <1>5, <1>6, <1>7, <1>8, OneMoves

\* Laying fields over others, twice.
LEMMA WithTwice ==
    ASSUME NEW x, NEW y, NEW z
    PROVE  With(With(x, y), z) = With(x, With(y, z))
BY DEF With

\* The rows a quote makes, and those callbacks make of them.
LEMMA RowsOfQuotes ==
    /\ Quote \in Payloads /\ NoOrderRow \notin Payloads
    /\ With(Quote, NoOrderRow) = Quote
    /\ \A row \in Payloads, body \in Reports : With(row, body) \in Payloads
<1>1. Quote \in [QuoteFields \union {} -> Values \union {"quoted"}]
  BY DEF Quote
<1>2. Quote \in Payloads
  BY <1>1 DEF Payloads
<1>3. NoOrderRow \notin Payloads
  <2>1. DOMAIN NoOrderRow = {}
    BY DEF NoOrderRow
  <2>2. \A row \in Payloads : "tradeCostUsdc" \in DOMAIN row
    BY DEF Payloads, QuoteFields
  <2>. QED
    BY <2>1, <2>2
<1>4. With(Quote, NoOrderRow) = Quote
  BY DEF With, Quote, NoOrderRow
<1>5. ASSUME NEW row \in Payloads, NEW body \in Reports
      PROVE  With(row, body) \in Payloads
  <2>1. PICK F \in SUBSET Hashes : row \in [QuoteFields \union F -> Values \union {"quoted"}]
    BY DEF Payloads
  <2>2. PICK G \in SUBSET Hashes, v \in Values :
            body = Report(G, v)
    BY DEF Reports
  <2>3. PICK D, W : D = QuoteFields \union (F \union G) /\ W = Values \union {"quoted"}
    OBVIOUS
  <2>4. /\ DOMAIN row \union DOMAIN body = D
        /\ \A field \in DOMAIN row : row[field] \in W
        /\ \A field \in DOMAIN body : body[field] \in W
    BY <2>1, <2>2, <2>3 DEF QuoteFields, Report
  <2>5. With(row, body) \in [D -> W]
    BY <2>4 DEF With
  <2>. QED
    BY <2>3, <2>5 DEF Payloads
<1>. QED
  BY <1>2, <1>3, <1>4, <1>5

\* What the handlers of CRE's trades have in hand: an order about to get its job was
\* executed, what a callback has read is a row.
TradeLocals(x) ==
    /\ x.kind = "market" => x.order \in MarketOrders /\ {"kind", "at", "order"} \subseteq DOMAIN x
    /\ x.kind = "tradeResult" =>
          /\ {"kind", "at", "order", "body", "tries"} \subseteq DOMAIN x
          /\ x.order \in MarketOrders /\ x.body \in Reports
          /\ x.at = "merge" => x.read \in Payloads

TradeTypes ==
    /\ jobs \subseteq executed /\ executed \subseteq MarketOrders
    /\ payload \in [MarketOrders -> Payloads \union {NoOrderRow}]
    /\ DOMAIN reported = MarketOrders
    /\ \A q \in Requests : TradeLocals(req[q])
    /\ \A q \in Requests : req[q].kind = "market" /\ req[q].at = "enqueue" => req[q].order \in executed

\* It has read the row of the order and is about to write it.
Reads(q, o) == req[q].kind = "tradeResult" /\ req[q].at = "merge" /\ req[q].order = o

\* Nothing is reported of an order without a row.  Where callbacks have not crossed, one
\* at most has read the row, and it is what the row still has.
PayloadInv ==
    /\ \A o \in MarketOrders : payload[o] = NoOrderRow => reported[o] = NoOrderRow
    /\ ReportedIsKept
    /\ \A o \in MarketOrders \ crossed :
          /\ \A p, q \in Requests : Reads(p, o) /\ Reads(q, o) => p = q
          /\ \A q \in Requests : Reads(q, o) => req[q].read = payload[o]

TradesInv == ReqOK /\ TradeTypes /\ PayloadInv

\* One step keeps what was reported.
LEMMA TradesKept ==
    ASSUME TradesInv, [Next]_vars
    PROVE  TradeTypes' /\ PayloadInv'
<1>. DEFINE OK == TradeTypes' /\ PayloadInv'
<1>0. /\ ReqOK /\ TradeTypes /\ PayloadInv
      /\ \A q \in Requests : TradeLocals(req[q]) /\ Placed(req[q])
  BY DEF TradesInv, TradeTypes, ReqOK
<1>1. ASSUME UNCHANGED tradeVars,
             \A q \in Requests : req'[q].kind \in TradeKinds => req'[q] = req[q]
      PROVE  OK
  <2>1. \A q \in Requests : TradeLocals(req'[q])
    BY <1>0, <1>1 DEF TradeLocals, TradeKinds
  <2>2. TradeTypes'
    BY <1>0, <1>1, <2>1 DEF TradeTypes, tradeVars, TradeLocals, TradeKinds
  <2>3. \A o : \A q \in Requests : Reads(q, o)' => Reads(q, o) /\ req'[q] = req[q]
    BY <1>1 DEF Reads, TradeKinds
  <2>4. PayloadInv'
    BY <1>0, <1>1, <2>3 DEF PayloadInv, ReportedIsKept, tradeVars
  <2>. QED
    BY <2>2, <2>4
<1>2. ASSUME NEW r \in Requests, TradesMove(r), Turn(r, TradeKinds)
      PROVE  OK
  <2>0. /\ \A q \in Requests \ {r} : req'[q] = req[q]
        /\ Placed(req[r]) /\ TradeLocals(req[r])
    BY <1>0, <1>2 DEF Turn
  <2>1. ASSUME NEW y, Become(r, y)
        PROVE  req'[r] = y
    BY <1>0, <2>1, Assigned DEF Become
  <2>2. ASSUME Answer(r)
        PROVE  req'[r] = Free /\ req'[r].kind = "none"
    BY <1>0, <2>2, Answers
  <2>3. ASSUME TradeLocals(req'[r])
        PROVE  \A q \in Requests : TradeLocals(req[q])'
    <3>1. \A q \in Requests : TradeLocals(req'[q])
      BY <1>0, <2>0, <2>3
    <3>. QED
      BY <3>1 DEF TradeLocals
  <2>4. TradeLocals(Free)
    BY DEF TradeLocals, Free
  <2>5. CASE TakeMarketOrder(r)
    <3>1. PICK o \in MarketOrders : Become(r, [kind |-> "market", at |-> "cre", order |-> o])
      BY <2>5 DEF TakeMarketOrder
    <3>2. PICK y : y = [kind |-> "market", at |-> "cre", order |-> o]
      OBVIOUS
    <3>3. req'[r] = y /\ TradeLocals(y) /\ y.kind = "market" /\ y.at = "cre"
      BY <2>1, <3>1, <3>2 DEF TradeLocals
    <3>4. UNCHANGED <<jobs, payload, executed, reported, crossed>>
      BY <2>5 DEF TakeMarketOrder, tradeVars
    <3>5. TradeTypes'
      BY <1>0, <2>0, <2>3, <3>3, <3>4 DEF TradeTypes
    <3>6. \A o2 : \A q \in Requests : Reads(q, o2)' => Reads(q, o2) /\ req'[q] = req[q]
      BY <2>0, <3>3 DEF Reads
    <3>7. PayloadInv'
      BY <1>0, <3>4, <3>6 DEF PayloadInv, ReportedIsKept
    <3>. QED
      BY <3>5, <3>7
  <2>6. CASE ExecuteMarketOrder(r)
    <3>1. PICK call \in CreCalls :
            /\ executed' = AfterCall(req[r].order, call)
            /\ IF call.ok THEN Goto(r, "enqueue") ELSE Rejects(r)
      BY <2>6 DEF ExecuteMarketOrder
    <3>2. /\ req[r].kind = "market" /\ req[r].order \in MarketOrders
          /\ {"kind", "at", "order"} \subseteq DOMAIN req[r]
          /\ UNCHANGED <<jobs, payload, reported, crossed>>
      BY <2>0, <2>6 DEF ExecuteMarketOrder, At, TradeLocals
    <3>3. executed \subseteq executed' /\ executed' \subseteq MarketOrders
      BY <1>0, <3>1, <3>2 DEF AfterCall, TradeTypes
    <3>4. \/ /\ Goto(r, "enqueue") /\ req[r].order \in executed'
          \/ Answer(r)
      BY <3>1 DEF CreCalls, AfterCall, Rejects
    <3>5. \/ /\ req'[r].kind = "market" /\ req'[r].order = req[r].order
             /\ {"kind", "at", "order"} \subseteq DOMAIN req'[r] /\ req[r].order \in executed'
          \/ req'[r] = Free
      <4>1. CASE Goto(r, "enqueue") /\ req[r].order \in executed'
        BY <1>0, <3>2, <4>1, Goes
      <4>. QED
        BY <2>2, <3>4, <4>1
    <3>6. TradeLocals(req'[r]) /\ req'[r].kind # "tradeResult"
      BY <3>2, <3>5 DEF TradeLocals, Free
    <3>7. req'[r].kind = "market" => req'[r].order \in executed'
      BY <3>5 DEF Free
    <3>8. TradeTypes'
      BY <1>0, <2>0, <2>3, <3>2, <3>3, <3>6, <3>7 DEF TradeTypes
    <3>9. \A o : \A q \in Requests : Reads(q, o)' => Reads(q, o) /\ req'[q] = req[q]
      BY <2>0, <3>6 DEF Reads
    <3>10. PayloadInv'
      BY <1>0, <3>2, <3>9 DEF PayloadInv, ReportedIsKept
    <3>. QED
      BY <3>8, <3>10
  <2>7. CASE EnqueueOrder(r)
    <3>1. /\ req[r].kind = "market" /\ req[r].order \in executed
          /\ jobs' = jobs \union {req[r].order}
          /\ UNCHANGED <<payload, executed, reported, crossed>>
          /\ req'[r] = Free /\ req'[r].kind = "none"
      BY <1>0, <2>2, <2>7 DEF EnqueueOrder, At, TradeTypes
    <3>2. TradeTypes'
      BY <1>0, <2>0, <2>3, <2>4, <3>1 DEF TradeTypes
    <3>3. \A o : \A q \in Requests : Reads(q, o)' => Reads(q, o) /\ req'[q] = req[q]
      BY <2>0, <3>1 DEF Reads
    <3>4. PayloadInv'
      BY <1>0, <3>1, <3>3 DEF PayloadInv, ReportedIsKept
    <3>. QED
      BY <3>2, <3>4
  <2>8. CASE TradeCallback(r)
    <3>1. PICK o \in executed, f \in Reports :
            Become(r, [kind |-> "tradeResult", at |-> "look", order |-> o, body |-> f, tries |-> 3])
      BY <2>8 DEF TradeCallback
    <3>2. PICK y : y = [kind |-> "tradeResult", at |-> "look", order |-> o, body |-> f, tries |-> 3]
      OBVIOUS
    <3>3. /\ req'[r] = y /\ TradeLocals(y) /\ y.kind = "tradeResult" /\ y.at = "look" /\ y.order = o
          /\ o \in MarketOrders
      BY <1>0, <2>1, <3>1, <3>2 DEF TradeLocals, TradeTypes
    <3>4. UNCHANGED <<jobs, payload, executed, reported, crossed>>
      BY <2>8 DEF TradeCallback, tradeVars
    <3>5. TradeTypes'
      BY <1>0, <2>0, <2>3, <3>3, <3>4 DEF TradeTypes
    <3>6. \A o2 : \A q \in Requests : Reads(q, o2)' => Reads(q, o2) /\ req'[q] = req[q]
      BY <2>0, <3>3 DEF Reads
    <3>7. PayloadInv'
      BY <1>0, <3>4, <3>6 DEF PayloadInv, ReportedIsKept
    <3>. QED
      BY <3>5, <3>7
  <2>9. CASE FindOrder(r)
    <3>. PICK o : o = req[r].order
      OBVIOUS
    <3>1. /\ req[r].kind = "tradeResult" /\ req[r].at = "look"
          /\ {"kind", "at", "order", "body", "tries"} \subseteq DOMAIN req[r]
          /\ o \in MarketOrders /\ req[r].body \in Reports
          /\ UNCHANGED <<jobs, payload, executed, reported>>
      BY <2>0, <2>9 DEF FindOrder, At, TradeLocals
    <3>2. \/ /\ payload[o] # NoOrderRow
             /\ Become(r, With(req[r], [at |-> "merge", read |-> payload[o]]))
             /\ o \in crossed' \/ \A q \in Requests : ~Reads(q, o)
             /\ crossed \subseteq crossed'
          \/ (Become(r, [req[r] EXCEPT !.tries = @ - 1]) \/ Answer(r)) /\ UNCHANGED crossed
      BY <2>9 DEF FindOrder, InFlight, Reads
    <3>3. /\ TradeLocals(req'[r])
          /\ req'[r].kind = "tradeResult" =>
                req'[r].order = o /\ (req'[r].at = "merge" => req'[r].read = payload[o])
          /\ req'[r].kind # "market" /\ crossed \subseteq crossed'
          /\ \/ o \in crossed' \/ (\A q \in Requests : ~Reads(q, o))
             \/ (req'[r].kind # "tradeResult" \/ req'[r].at # "merge")
      <4>1. CASE /\ payload[o] # NoOrderRow
                 /\ Become(r, With(req[r], [at |-> "merge", read |-> payload[o]]))
                 /\ o \in crossed' \/ \A q \in Requests : ~Reads(q, o)
                 /\ crossed \subseteq crossed'
        <5>1. PICK l : l = [at |-> "merge", read |-> payload[o]]
          OBVIOUS
        <5>2. PICK y : y = With(req[r], l)
          OBVIOUS
        <5>3. /\ {"kind", "at", "order", "body", "tries"} \subseteq DOMAIN y
              /\ y.kind = "tradeResult" /\ y.order = o /\ y.body = req[r].body
              /\ y.at = "merge" /\ y.read = payload[o]
          BY <3>1, <5>1, <5>2 DEF With
        <5>4. req'[r] = y
          BY <2>1, <4>1, <5>1, <5>2
        <5>5. payload[o] \in Payloads
          BY <1>0, <3>1, <4>1 DEF TradeTypes
        <5>. QED
          BY <3>1, <4>1, <5>3, <5>4, <5>5 DEF TradeLocals
      <4>2. CASE Become(r, [req[r] EXCEPT !.tries = @ - 1]) /\ UNCHANGED crossed
        <5>1. PICK y : y = [req[r] EXCEPT !.tries = @ - 1]
          OBVIOUS
        <5>2. /\ {"kind", "at", "order", "body", "tries"} \subseteq DOMAIN y
              /\ y.kind = "tradeResult" /\ y.order = o /\ y.body = req[r].body /\ y.at = "look"
          BY <3>1, <5>1
        <5>3. req'[r] = y
          BY <2>1, <4>2, <5>1
        <5>. QED
          BY <3>1, <4>2, <5>2, <5>3 DEF TradeLocals
      <4>3. CASE Answer(r) /\ UNCHANGED crossed
        BY <2>2, <2>4, <4>3
      <4>. QED
        BY <3>2, <4>1, <4>2, <4>3
    <3>4. TradeTypes'
      BY <1>0, <2>0, <2>3, <3>1, <3>3 DEF TradeTypes
    <3>5. \A o2 : \A q \in Requests \ {r} : Reads(q, o2)' => Reads(q, o2) /\ req'[q] = req[q]
      BY <2>0 DEF Reads
    <3>6. \A o2 : Reads(r, o2)' => o2 = o /\ req'[r].read = payload[o]
      BY <3>3 DEF Reads
    <3>7. Reads(r, o)' => o \in crossed' \/ \A q \in Requests : ~Reads(q, o)
      BY <3>3 DEF Reads
    <3>8. ASSUME NEW o2 \in MarketOrders \ crossed'
          PROVE  /\ \A p, q \in Requests : Reads(p, o2)' /\ Reads(q, o2)' => p = q
                 /\ \A q \in Requests : Reads(q, o2)' => req'[q].read = payload'[o2]
      <4>1. o2 \in MarketOrders \ crossed /\ payload' = payload
        BY <3>1, <3>3
      <4>2. CASE Reads(r, o2)'
        BY <3>5, <3>6, <3>7, <4>1, <4>2
      <4>3. CASE ~Reads(r, o2)'
        BY <1>0, <3>5, <4>1, <4>3 DEF PayloadInv
      <4>. QED
        BY <4>2, <4>3
    <3>9. ReportedIsKept'
      BY <1>0, <3>1, <3>3 DEF PayloadInv, ReportedIsKept
    <3>10. PayloadInv'
      BY <1>0, <3>1, <3>8, <3>9 DEF PayloadInv
    <3>. QED
      BY <3>4, <3>10
  <2>10. CASE UpdatePayload(r)
    <3>. PICK o, f, read : o = req[r].order /\ f = req[r].body /\ read = req[r].read
      OBVIOUS
    <3>1. /\ req[r].kind = "tradeResult" /\ req[r].at = "merge" /\ o \in MarketOrders
          /\ f \in Reports /\ read \in Payloads
          /\ UNCHANGED <<jobs, executed, crossed>>
          /\ payload' = [payload EXCEPT ![o] = With(read, f)]
          /\ reported' = [reported EXCEPT ![o] = With(@, f)]
          /\ Goto(r, "publish")
      BY <2>0, <2>10 DEF UpdatePayload, Merged, At, TradeLocals
    <3>2. /\ req'[r].kind = "tradeResult" /\ req'[r].at = "publish" /\ TradeLocals(req'[r])
      <4>1. {"kind", "at", "order", "body", "tries"} \subseteq DOMAIN req[r]
        BY <2>0, <3>1 DEF TradeLocals
      <4>2. /\ req'[r].kind = "tradeResult" /\ req'[r].at = "publish"
            /\ req'[r].order = o /\ req'[r].body = f /\ DOMAIN req'[r] = DOMAIN req[r]
        BY <1>0, <3>1, <4>1, Goes
      <4>. QED
        BY <3>1, <4>1, <4>2 DEF TradeLocals
    <3>3. TradeTypes'
      <4>1. payload' \in [MarketOrders -> Payloads \union {NoOrderRow}]
        BY <1>0, <3>1, RowsOfQuotes DEF TradeTypes
      <4>2. DOMAIN reported' = MarketOrders
        BY <1>0, <3>1 DEF TradeTypes
      <4>. QED
        BY <1>0, <2>0, <2>3, <3>1, <3>2, <4>1, <4>2 DEF TradeTypes
    <3>4. /\ payload'[o] = With(read, f) /\ reported'[o] = With(reported[o], f)
          /\ \A o2 \in MarketOrders \ {o} : payload'[o2] = payload[o2] /\ reported'[o2] = reported[o2]
      BY <1>0, <3>1 DEF TradeTypes
    <3>5. \A o2 : \A q \in Requests : Reads(q, o2)' => q # r /\ Reads(q, o2) /\ req'[q] = req[q]
      BY <2>0, <3>2 DEF Reads
    <3>6. Reads(r, o)
      BY <3>1 DEF Reads
    <3>7. o \notin crossed => /\ read = payload[o]
                              /\ \A q \in Requests : ~Reads(q, o)'
      BY <1>0, <3>1, <3>5, <3>6 DEF PayloadInv
    <3>8. o \notin crossed => payload'[o] = With(Quote, reported'[o])
      <4>1. o \notin crossed => read = With(Quote, reported[o])
        BY <1>0, <3>1, <3>7, RowsOfQuotes DEF PayloadInv, ReportedIsKept
      <4>. QED
        BY <3>4, <4>1, WithTwice
    <3>9. ReportedIsKept'
      BY <1>0, <3>1, <3>4, <3>8 DEF PayloadInv, ReportedIsKept
    <3>10. \A o2 \in MarketOrders : payload'[o2] = NoOrderRow => reported'[o2] = NoOrderRow
      <4>1. payload'[o] # NoOrderRow
        BY <3>1, <3>4, RowsOfQuotes
      <4>. QED
        BY <1>0, <3>4, <4>1 DEF PayloadInv
    <3>11. ASSUME NEW o2 \in MarketOrders \ crossed'
           PROVE  /\ \A p, q \in Requests : Reads(p, o2)' /\ Reads(q, o2)' => p = q
                  /\ \A q \in Requests : Reads(q, o2)' => req'[q].read = payload'[o2]
      <4>1. CASE o2 = o
        BY <3>1, <3>7, <4>1
      <4>2. CASE o2 # o
        BY <1>0, <3>1, <3>4, <3>5, <4>2 DEF PayloadInv
      <4>. QED
        BY <4>1, <4>2
    <3>12. PayloadInv'
      BY <3>9, <3>10, <3>11 DEF PayloadInv
    <3>. QED
      BY <3>3, <3>12
  <2>12. CASE PublishPayload(r)
    <3>1. UNCHANGED tradeVars /\ req'[r].kind = "none"
      BY <2>2, <2>12 DEF PublishPayload
    <3>. QED
      BY <1>1, <2>0, <3>1 DEF TradeKinds
  <2>11. CASE TradesFail(r)
    <3>1. UNCHANGED tradeVars /\ req'[r].kind = "none"
      BY <2>2, <2>11 DEF TradesFail, Rejects
    <3>. QED
      BY <1>1, <2>0, <3>1 DEF TradeKinds
  <2>. QED
    BY <1>2, <2>5, <2>6, <2>7, <2>8, <2>9, <2>10, <2>11, <2>12 DEF TradesMove, TradesArrive, TradesStep
<1>3. CASE PersistOrder
  <2>1. PICK o \in jobs :
          /\ payload' = [payload EXCEPT ![o] = UpsertedPayload(o)]
          /\ jobs' = jobs \ {o} \/ UNCHANGED jobs
    BY <1>3 DEF PersistOrder
  <2>2. UNCHANGED <<executed, reported, crossed, req>> /\ o \in MarketOrders /\ jobs' \subseteq jobs
    BY <1>0, <1>3, <2>1 DEF PersistOrder, TradeTypes
  <2>3. /\ payload'[o] = IF payload[o] = NoOrderRow THEN Quote ELSE payload[o]
        /\ \A o2 \in MarketOrders \ {o} : payload'[o2] = payload[o2]
        /\ payload' \in [MarketOrders -> Payloads \union {NoOrderRow}]
    BY <1>0, <2>1, <2>2, RowsOfQuotes DEF TradeTypes, UpsertedPayload
  <2>4. TradeTypes'
    BY <1>0, <2>2, <2>3 DEF TradeTypes, TradeLocals
  <2>5. \A o2 : \A q \in Requests : Reads(q, o2)' = Reads(q, o2)
    BY <2>2 DEF Reads
  <2>6. Quote # NoOrderRow /\ With(Quote, NoOrderRow) = Quote
    BY RowsOfQuotes
  <2>7. ASSUME NEW o2 \in MarketOrders, payload[o2] # NoOrderRow
        PROVE  payload'[o2] = payload[o2]
    BY <2>3, <2>7
  <2>8. \A o2 \in MarketOrders : payload'[o2] = NoOrderRow => reported'[o2] = NoOrderRow
    BY <1>0, <2>2, <2>3, <2>6 DEF PayloadInv
  <2>9. ReportedIsKept'
    <3>1. \A o2 \in MarketOrders \ crossed :
              payload'[o2] = NoOrderRow \/ payload'[o2] = With(Quote, reported[o2])
      BY <1>0, <2>2, <2>3, <2>6, <2>7 DEF PayloadInv, ReportedIsKept
    <3>. QED
      BY <2>2, <3>1 DEF ReportedIsKept
  <2>10. \A q \in Requests : req[q].kind = "tradeResult" /\ req[q].at = "merge" => req[q].read # NoOrderRow
    BY <1>0, RowsOfQuotes DEF TradeLocals
  <2>11. ASSUME NEW o2 \in MarketOrders \ crossed, NEW q \in Requests, Reads(q, o2)
         PROVE  req[q].read = payload'[o2]
    <3>1. req[q].read = payload[o2] /\ payload[o2] # NoOrderRow
      BY <1>0, <2>10, <2>11 DEF PayloadInv, Reads
    <3>. QED
      BY <2>7, <3>1
  <2>12. PayloadInv'
    BY <1>0, <2>2, <2>5, <2>8, <2>9, <2>11 DEF PayloadInv
  <2>. QED
    BY <2>4, <2>12
<1>4. CASE UNCHANGED tradeVars /\ Undisturbed(TradeKinds)
  BY <1>1, <1>4 DEF Undisturbed
<1>5. CASE UNCHANGED tradeVars /\ AllFree
  BY <1>1, <1>5 DEF AllFree, Free, TradeKinds
<1>. QED
  BY <1>0, <1>2, <1>3, <1>4, <1>5, TradesFrame

\* The invariant of CRE's trades holds of every state.
THEOREM TradesInvariant == Spec => []TradesInv
<1>1. Init => TradesInv
  <2>1. SUFFICES ASSUME Init PROVE TradesInv
    OBVIOUS
  <2>2. ReqOK /\ \A q \in Requests : req[q] = Free
    BY <2>1, RequestsKeepTheirPlace DEF Init, HandlersInit
  <2>3. \A q \in Requests : req[q].kind = "none"
    BY <2>2 DEF Free
  <2>4. \A q \in Requests : TradeLocals(req[q])
    BY <2>3 DEF TradeLocals
  <2>5. TradeTypes
    BY <2>1, <2>3, <2>4 DEF Init, TradesInit, TradeTypes
  <2>6. PayloadInv
    BY <2>1, <2>3 DEF Init, TradesInit, PayloadInv, ReportedIsKept, Reads
  <2>. QED
    BY <2>2, <2>5, <2>6 DEF TradesInv
<1>2. TradesInv /\ [Next]_vars => TradesInv'
  BY RequestsKeepTheirPlace, TradesKept DEF TradesInv
<1>. QED
  BY <1>1, <1>2, PTL DEF Spec

\* CREReportsAreKept, for any number of requests at work: the chain is told what both agents
\* decided and what pays somebody, a market that is not open is not closed by a callback,
\* and what a callback brought stays with its order.
THEOREM WhatCREReportsIsKept == Spec => []CREReportsAreKept
<1>1. SettlementInv => PaidAsDecided /\ OnlyOpenIsClosed
  <2>1. ASSUME SettlementInv, NEW m \in Settled, payouts[m] # None
        PROVE  Payable(m, payouts[m])
    BY <2>1 DEF SettlementInv, SettlementTypes, VerdictsInv, Reported
  <2>. QED
    BY <2>1 DEF PaidAsDecided, Payable, SettlementInv, ClosingInv
<1>2. TradesInv => ReportedIsKept
  BY DEF TradesInv, PayloadInv
<1>. QED
  BY <1>1, <1>2, SettlementInvariant, TradesInvariant, PTL DEF CREReportsAreKept

----------------------------------------------------------------------------
(* Agents and wallets. *)

\* A step of the whole, as the wallets see it.
LEMMA WalletFrame ==
    ASSUME ReqOK, [Next]_vars
    PROVE  \/ \E r \in Requests : WalletMoves(r) /\ Turn(r, WalletKinds)
           \/ UNCHANGED walletVars /\ Undisturbed(WalletKinds)
           \/ WalletStops /\ AllFree
<1>1. ASSUME UNCHANGED vars
      PROVE  UNCHANGED walletVars /\ Undisturbed(WalletKinds)
  BY <1>1 DEF vars, handlerVars, Undisturbed
<1>2. CASE \E r \in Requests : WalletMoves(r)
  BY <1>2, WalletTurn DEF WalletMoves
<1>3. CASE \E r \in Requests : LedgerMoves(r) /\ UNCHANGED <<wallet, quotes, settle, trades>>
  <2>1. LedgerKinds \intersect WalletKinds = {}
    BY KindsDiffer
  <2>. QED
    BY <1>3, <2>1, LedgerTurn, OthersRest, KindsDiffer DEF LedgerMoves, wallet
<1>4. CASE \E r \in Requests : PricingMoves(r) /\ UNCHANGED <<wallet, ledger, settle, trades>>
  <2>1. PricingKinds \intersect WalletKinds = {}
    BY KindsDiffer
  <2>. QED
    BY <1>4, <2>1, PricingTurn, OthersRest, KindsDiffer DEF PricingMoves, wallet
<1>5. CASE \E r \in Requests : SettlementMoves(r) /\ UNCHANGED <<wallet, ledger, quotes, trades>>
  <2>1. SettlementKinds \intersect WalletKinds = {}
    BY KindsDiffer
  <2>. QED
    BY <1>5, <2>1, SettlementTurn, OthersRest, KindsDiffer DEF SettlementMoves, wallet
<1>6. CASE \E r \in Requests : TradesMove(r) /\ UNCHANGED <<wallet, ledger, quotes, settle>>
  <2>1. TradeKinds \intersect WalletKinds = {}
    BY KindsDiffer
  <2>. QED
    BY <1>6, <2>1, TradesTurn, OthersRest, KindsDiffer DEF TradesMove, wallet
<1>7. CASE ByItself
  <2>1. req' = req
    BY <1>7, NoneMoves
  <2>2. UNCHANGED walletVars
    BY <1>7 DEF ByItself, Timers, Outside, Socket, SocketBeats, wallet
  <2>. QED
    BY <2>1, <2>2 DEF Undisturbed
<1>8. CASE ServerRestart
  BY <1>8 DEF ServerRestart, AllFree
<1>. QED
  BY <1>1, <1>2, <1>3, <1>4, <1>5, <1>6, <1>7, <1>8, OneMoves

\* Rows of agents as far as keys have been made.
AgentRows(statuses) == [status : statuses, address : 0..keys, public : 0..keys, key : 0..keys]

HasAgent(x) == "agent" \in DOMAIN x
HasReg(x) == "reg" \in DOMAIN x

\* What the handlers of agents and wallets have in hand: the row they are to insert, the
\* agent they are for, the pair they bring, the registration they claim.
WalletLocals(x) ==
    /\ x.kind \in {"create", "register", "claim"} =>
          "row" \in DOMAIN x /\ x.row \in AgentRows({"there"})
    /\ x.kind = "create" => x.row.address = Pending
    /\ x.kind \in {"register", "claim"} =>
          "user" \in DOMAIN x /\ x.user \in Users /\ x.row.address = x.row.key
    /\ x.kind = "claim" =>
          /\ HasReg(x) /\ x.reg \in Regs
          /\ reg[x.reg].status # "none" /\ x.row = Wallet(reg[x.reg].key)
    /\ HasReg(x) => x.kind = "claim"
    /\ x.kind \in WalletKinds =>
          (HasAgent(x) <=> x.at \in {"ask", "generate", "mark", "onboard", "store"})
    /\ HasAgent(x) => x.agent \in Agents /\ agent[x.agent].status # "none"
    /\ x.kind \in {"walletResult", "agentKeys"} => "pair" \in DOMAIN x /\ x.pair \in 1..keys
    /\ x.kind = "walletResult" =>
          /\ {"sealed", "public"} \subseteq DOMAIN x
          /\ x.sealed \in BOOLEAN /\ x.public \in 0..keys

AgentTypes ==
    /\ agent \in [Agents -> AgentRows({"none", "there", "gone"})]
    /\ \A a \in Agents : agent[a].status # "there" => agent[a].key = Pending

RegTypes == reg \in [Regs -> [status : {"none", "UNCLAIMED", "CLAIMED"}, key : 0..keys]]

SetTypes ==
    /\ users \subseteq Users /\ asked \subseteq Agents /\ mixed \subseteq Agents \union Regs
    /\ keys \in Nat /\ cre \in BOOLEAN

HistoryTypes ==
    /\ onboarded \in [Agents -> SUBSET (Nat \ {0})]
    /\ claimants \in [Regs -> SUBSET Agents]
    /\ \A a \in Agents : agent[a].status = "none" => onboarded[a] = {}
    /\ \A g \in Regs : \A a \in claimants[g] : agent[a].status # "none"

WalletTypes ==
    /\ AgentTypes /\ RegTypes /\ SetTypes /\ HistoryTypes
    /\ \A q \in Requests : WalletLocals(req[q])

For(q, a) == HasAgent(req[q]) /\ req[q].agent = a

\* An agent for which no two handlers were at work at once, none failed, and whose owner
\* did not set the key: one handler at most has it in hand; its address and key are one
\* pair; who brings a wallet finds none; and what onboarding has funded is the wallet the
\* agent has, or the one that is about to be stored.
Funded(a) ==
    IF agent[a].address # Pending THEN \A k \in onboarded[a] : agent[a] = Wallet(k)
    ELSE \/ onboarded[a] = {}
         \/ \E q \in Requests : /\ For(q, a) /\ req[q].kind = "agentKeys" /\ req[q].at = "store"
                                /\ onboarded[a] \subseteq {req[q].pair}

OneWallet(a) ==
    /\ agent[a].address = Pending => agent[a].key = Pending
    /\ Complete(a) => agent[a].address = agent[a].key
    /\ \A q \in Requests : For(q, a) =>
          /\ req[q].kind \in {"walletResult", "agentKeys"} => agent[a].address = Pending
          /\ req[q].at = "generate" => agent[a].key = Pending
    /\ Funded(a)

AgentOK(a) ==
    /\ \A p, q \in Requests : For(p, a) /\ For(q, a) => p = q
    /\ There(a) => OneWallet(a)

AgentInv == \A a \in Agents \ mixed : AgentOK(a)

Claiming(q, g) == HasReg(req[q]) /\ req[q].reg = g

\* A registration for which no two claims were at work at once and none failed: one claim at
\* most is; before it has inserted an agent there is none, after that one; and the
\* agent has the registration's wallet.
ClaimOK(g) ==
    /\ \A p, q \in Requests : Claiming(p, g) /\ Claiming(q, g) => p = q
    /\ reg[g].status = "CLAIMED" =>
          (\E a \in Agents : claimants[g] = {a}) /\ \A q \in Requests : ~Claiming(q, g)
    /\ reg[g].status # "CLAIMED" =>
          \/ claimants[g] = {} /\ \A q \in Requests : Claiming(q, g) => ~HasAgent(req[q])
          \/ \E q \in Requests :
                Claiming(q, g) /\ HasAgent(req[q]) /\ claimants[g] = {req[q].agent}
    /\ \A a \in claimants[g] \ mixed :
          There(a) /\ reg[g].key # Pending => agent[a] = Wallet(reg[g].key)

ClaimInv == \A g \in Regs \ mixed : ClaimOK(g)

WalletInv == ReqOK /\ WalletTypes /\ AgentInv /\ ClaimInv

\* What a step may do that leaves what handlers have in hand true: keys are added, no
\* agent or registration vanishes, and a registration keeps its key.
Grows ==
    /\ keys' \in Nat /\ keys <= keys'
    /\ \A a \in Agents : agent[a].status # "none" => agent'[a].status # "none"
    /\ \A g \in Regs : reg[g].status # "none" => reg'[g].status # "none" /\ reg'[g].key = reg[g].key

\* It stays true of a request that stays, and of one that goes on with what it has.
LEMMA LocalsStay ==
    ASSUME WalletTypes, Grows, NEW q \in Requests, req'[q] = req[q]
    PROVE  WalletLocals(req[q])'
<1>. USE DEF Pending
<1>1. keys \in Nat /\ keys' \in Nat /\ keys <= keys'
  BY DEF WalletTypes, SetTypes, Grows
<1>2. 0..keys \subseteq 0..keys' /\ 1..keys \subseteq 1..keys'
  BY <1>1
<1>. PICK x : x = req[q]
  OBVIOUS
<1>3. WalletLocals(x)
  BY DEF WalletTypes
<1>4. x.kind \in {"create", "register", "claim"} =>
          "row" \in DOMAIN x /\ x.row \in AgentRows({"there"})'
  BY <1>2, <1>3 DEF WalletLocals, AgentRows
<1>5. x.kind = "claim" =>
          /\ HasReg(x) /\ x.reg \in Regs
          /\ reg'[x.reg].status # "none" /\ x.row = Wallet(reg'[x.reg].key)
  <2>1. x.kind = "claim" => HasReg(x) /\ x.reg \in Regs /\ reg[x.reg].status # "none" /\ x.row = Wallet(reg[x.reg].key)
    BY <1>3 DEF WalletLocals
  <2>. QED
    BY <2>1 DEF Grows
<1>6. HasAgent(x) => x.agent \in Agents /\ agent'[x.agent].status # "none"
  <2>1. HasAgent(x) => x.agent \in Agents /\ agent[x.agent].status # "none"
    BY <1>3 DEF WalletLocals
  <2>. QED
    BY <2>1 DEF Grows
<1>7. /\ x.kind \in {"walletResult", "agentKeys"} => "pair" \in DOMAIN x /\ x.pair \in 1..keys'
      /\ x.kind = "walletResult" =>
            {"sealed", "public"} \subseteq DOMAIN x /\ x.sealed \in BOOLEAN /\ x.public \in 0..keys'
  BY <1>2, <1>3 DEF WalletLocals
<1>8. /\ x.kind = "create" => x.row.address = Pending
      /\ x.kind \in {"register", "claim"} => "user" \in DOMAIN x /\ x.user \in Users /\ x.row.address = x.row.key
      /\ HasReg(x) => x.kind = "claim"
      /\ x.kind \in WalletKinds => (HasAgent(x) <=> x.at \in {"ask", "generate", "mark", "onboard", "store"})
  BY <1>3 DEF WalletLocals
<1>9. WalletLocals(x)'
  BY <1>4, <1>5, <1>6, <1>7, <1>8 DEF WalletLocals
<1>. QED
  BY <1>9 DEF WalletLocals, HasAgent, HasReg

\* The rows that were rows are rows.
LEMMA RowsGrow ==
    ASSUME WalletTypes, keys' \in Nat, keys <= keys'
    PROVE  /\ \A S : AgentRows(S) \subseteq AgentRows(S)'
           /\ agent' = agent => AgentTypes'
           /\ reg' = reg => RegTypes'
<1>1. keys \in Nat /\ keys' \in Nat /\ keys <= keys'
  BY DEF WalletTypes, SetTypes
<1>2. 0..keys \subseteq 0..keys'
  BY <1>1
<1>3. \A S : AgentRows(S) \subseteq AgentRows(S)'
  BY <1>2 DEF AgentRows
<1>4. agent' = agent => AgentTypes'
  BY <1>3 DEF WalletTypes, AgentTypes, Pending
<1>5. reg' = reg => RegTypes'
  BY <1>2 DEF WalletTypes, RegTypes
<1>. QED
  BY <1>3, <1>4, <1>5

\* Types and locals are kept by the handlers of agents and wallets.
LEMMA WalletMovesTypes ==
    ASSUME ReqOK, WalletTypes, NEW r \in Requests, WalletMoves(r), Turn(r, WalletKinds), ReqOK'
    PROVE  WalletTypes'
<1>0. /\ AgentTypes /\ RegTypes /\ SetTypes /\ HistoryTypes /\ keys \in Nat
      /\ WalletLocals(req[r]) /\ Placed(req[r])
  BY DEF WalletTypes, SetTypes, ReqOK
<1>1. ASSUME Grows, WalletLocals(req[r])', AgentTypes', RegTypes', SetTypes', HistoryTypes'
      PROVE  WalletTypes'
  <2>1. \A q \in Requests : WalletLocals(req[q])'
    BY <1>1, LocalsStay DEF Turn
  <2>. QED
    BY <1>1, <2>1 DEF WalletTypes, Requests
<1>2. ASSUME Answer(r)
      PROVE  WalletLocals(req[r])'
  <2>1. req'[r] = Free
    BY <1>2, Answers
  <2>. QED
    BY <2>1 DEF WalletLocals, Free, HasAgent, HasReg, WalletKinds
<1>3. ASSUME Grows, UNCHANGED <<onboarded, claimants>>
      PROVE  HistoryTypes'
  BY <1>0, <1>3 DEF HistoryTypes, Grows
<1>4. ASSUME keys' \in {keys, keys + 1}, agent' = agent, reg' = reg
      PROVE  Grows /\ AgentTypes' /\ RegTypes'
  <2>1. keys' \in Nat /\ keys <= keys'
    BY <1>0, <1>4
  <2>. QED
    BY <1>4, <2>1, RowsGrow DEF Grows
<1>5. ASSUME keys' \in {keys, keys + 1}, UNCHANGED <<cre, users, asked>>, mixed' \subseteq Agents \union Regs
      PROVE  SetTypes'
  BY <1>0, <1>5 DEF SetTypes
<1>6. ASSUME NEW y, Become(r, y)
      PROVE  req'[r] = y
  BY <1>6, Assigned DEF Become
<1>7. mixed \subseteq Agents \union Regs
  BY <1>0 DEF SetTypes
<1>8. \A S : AgentRows(S) \subseteq AgentRows(S)'
  <2>1. keys' = keys \/ keys' = keys + 1
    <3>1. CASE WalletArrives(r)
      BY <3>1 DEF WalletArrives, CreateAgent, Register, CreateWallet, PatchAgent,
           DeleteAgent, WalletResult, AgentKeys, RegisterSdkAgent, Claim
    <3>2. CASE WalletStep(r)
      BY <3>2 DEF WalletStep, InsertAgent, AskCRE, GenerateKeys, StoreResult, Onboard, StoreKeys,
           FindUser, CreateUser, MarkClaimed
    <3>3. CASE WalletFails(r)
      BY <3>3 DEF WalletFails
    <3>. QED
      BY <3>1, <3>2, <3>3 DEF WalletMoves
  <2>2. keys' \in Nat /\ keys <= keys'
    BY <1>0, <2>1
  <2>. QED
    BY <2>2, RowsGrow
<1>10. CASE CreateAgent(r)
  <2>1. PICK public \in {Pending, keys + 1}, key \in {Pending, keys + 1} :
            Become(r, [kind |-> "create", at |-> "insert", row |-> Row(Pending, public, key)])
    BY <1>10 DEF CreateAgent
  <2>2. PICK y : y = [kind |-> "create", at |-> "insert", row |-> Row(Pending, public, key)]
    OBVIOUS
  <2>3. keys' = keys + 1
    BY <1>10 DEF CreateAgent
  <2>4. y.row \in AgentRows({"there"})'
    BY <1>0, <2>1, <2>2, <2>3 DEF AgentRows, Row, Pending
  <2>5. WalletLocals(y)'
    BY <2>2, <2>4 DEF WalletLocals, HasAgent, HasReg, WalletKinds, Row, Pending
  <2>6. WalletLocals(req[r])'
    BY <1>6, <2>1, <2>2, <2>5 DEF WalletLocals, HasAgent, HasReg
  <2>. QED
    BY <1>1, <1>3, <1>4, <1>5, <1>7, <1>10, <2>6 DEF CreateAgent
<1>11. CASE Register(r)
  <2>1. \/ Answer(r) /\ keys' = keys
        \/ /\ keys' = keys + 1
           /\ \E u \in Users, w \in {Row(0, 0, 0), Wallet(keys + 1)} :
                 Become(r, [kind |-> "register", at |-> "insert", user |-> u, row |-> w])
    BY <1>11 DEF Register
  <2>2. ASSUME keys' = keys + 1, NEW u \in Users, NEW w \in {Row(0, 0, 0), Wallet(keys + 1)},
               Become(r, [kind |-> "register", at |-> "insert", user |-> u, row |-> w])
        PROVE  WalletLocals(req[r])'
    <3>1. PICK y : y = [kind |-> "register", at |-> "insert", user |-> u, row |-> w]
      OBVIOUS
    <3>2. w \in AgentRows({"there"})' /\ w.address = w.key
      BY <1>0, <2>2 DEF AgentRows, Row, Wallet
    <3>3. WalletLocals(y)'
      BY <3>1, <3>2 DEF WalletLocals, HasAgent, HasReg, WalletKinds
    <3>. QED
      BY <1>6, <2>2, <3>1, <3>3 DEF WalletLocals, HasAgent, HasReg
  <2>3. WalletLocals(req[r])'
    BY <1>2, <2>1, <2>2
  <2>. QED
    BY <1>1, <1>3, <1>4, <1>5, <1>7, <1>11, <2>1, <2>3 DEF Register
<1>12. CASE CreateWallet(r)
  <2>. DEFINE go == IF cre THEN "ask" ELSE "generate"
  <2>1. \E a \in Agents : /\ There(a)
                          /\ \/ Answer(r) /\ UNCHANGED mixed
                             \/ /\ Become(r, [kind |-> "createWallet", agent |-> a, at |-> go])
                                /\ mixed' \subseteq mixed \union {a}
    BY <1>12 DEF CreateWallet, Meets
  <2>2. go \in {"ask", "generate"}
    OBVIOUS
  <2>. HIDE DEF go
  <2>3. ASSUME NEW a \in Agents, There(a), Become(r, [kind |-> "createWallet", agent |-> a, at |-> go])
        PROVE  WalletLocals(req[r])'
    <3>1. PICK y : y = [kind |-> "createWallet", agent |-> a, at |-> go]
      OBVIOUS
    <3>2. agent'[a].status # "none"
      BY <1>12, <2>3 DEF CreateWallet, There
    <3>3. WalletLocals(y)'
      BY <2>2, <3>1, <3>2 DEF WalletLocals, HasAgent, HasReg, WalletKinds
    <3>. QED
      BY <1>6, <2>3, <3>1, <3>3 DEF WalletLocals, HasAgent, HasReg
  <2>4. WalletLocals(req[r])' /\ mixed' \subseteq Agents \union Regs
    BY <1>2, <1>7, <2>1, <2>3
  <2>. QED
    BY <1>1, <1>3, <1>4, <1>5, <1>12, <2>4 DEF CreateWallet
<1>9. ASSUME NEW a \in Agents, NEW row, row \in AgentRows({"there", "gone"})', agent' = [agent EXCEPT ![a] = row],
             row.status # "there" => row.key = Pending, reg' = reg, keys' \in {keys, keys + 1}
      PROVE  AgentTypes' /\ RegTypes' /\ Grows
  <2>1. agent \in [Agents -> AgentRows({"none", "there", "gone"})']
    BY <1>0, <1>8 DEF AgentTypes
  <2>2. row \in AgentRows({"none", "there", "gone"})' /\ row.status # "none"
    BY <1>9 DEF AgentRows
  <2>3. agent' \in [Agents -> AgentRows({"none", "there", "gone"})']
    BY <1>9, <2>1, <2>2
  <2>4. \A b \in Agents : agent'[b] = IF b = a THEN row ELSE agent[b]
    BY <1>9, <2>1
  <2>5. keys' \in Nat /\ keys <= keys'
    BY <1>0, <1>9
  <2>6. AgentTypes'
    BY <1>0, <1>9, <2>3, <2>4 DEF AgentTypes, Pending
  <2>7. Grows
    BY <1>9, <2>2, <2>4, <2>5 DEF Grows
  <2>. QED
    BY <1>9, <2>5, <2>6, <2>7, RowsGrow
<1>g. ASSUME NEW at, Goto(r, at), UNCHANGED <<keys, agent, reg>>,
             req[r].at \in {"ask", "generate", "mark", "onboard", "store"}
               <=> at \in {"ask", "generate", "mark", "onboard", "store"}
      PROVE  WalletLocals(req[r])'
  <2>. PICK x : x = req[r]
    OBVIOUS
  <2>. PICK y : y = req'[r]
    OBVIOUS
  <2>1. /\ y.kind = x.kind /\ y.at = at /\ DOMAIN y = DOMAIN x
        /\ \A field \in DOMAIN x \ {"at"} : y[field] = x[field]
    BY <1>g, Goes
  <2>2. WalletLocals(x)'
    BY <1>0, <1>g DEF WalletLocals, AgentRows
  <2>3. /\ HasAgent(x) => y.agent = x.agent
        /\ HasReg(x) => y.reg = x.reg
        /\ "row" \in DOMAIN x => y.row = x.row
        /\ "user" \in DOMAIN x => y.user = x.user
        /\ "pair" \in DOMAIN x => y.pair = x.pair
        /\ "sealed" \in DOMAIN x => y.sealed = x.sealed
        /\ "public" \in DOMAIN x => y.public = x.public
    BY <2>1 DEF HasAgent, HasReg
  <2>4. HasAgent(x) <=> HasAgent(y)
    BY <2>1 DEF HasAgent
  <2>5. HasReg(x) <=> HasReg(y)
    BY <2>1 DEF HasReg
  <2>6. y.kind \in WalletKinds =>
          (HasAgent(y) <=> y.at \in {"ask", "generate", "mark", "onboard", "store"})
    BY <1>0, <1>g, <2>1, <2>4 DEF WalletLocals
  <2>7. "row" \in DOMAIN x => y.row = x.row /\ "row" \in DOMAIN y
    BY <2>1, <2>3
  <2>8. WalletLocals(y)'
    BY <2>1, <2>2, <2>3, <2>4, <2>5, <2>6, <2>7, SMTT(30) DEF WalletLocals
  <2>. QED
    BY <2>8 DEF WalletLocals, HasAgent, HasReg
<1>13. CASE PatchAgent(r)
  <2>1. PICK a \in Agents : There(a) /\ agent' = [agent EXCEPT ![a].key = keys + 1] /\ mixed' = mixed \union {a}
    BY <1>13 DEF PatchAgent
  <2>2. keys' = keys + 1 /\ reg' = reg
    BY <1>13 DEF PatchAgent
  <2>3. PICK row : row = [agent[a] EXCEPT !.key = keys + 1]
    OBVIOUS
  <2>4. agent' = [agent EXCEPT ![a] = row]
    BY <1>0, <2>1, <2>3 DEF AgentTypes
  <2>5. agent[a] \in AgentRows({"there"})
    BY <1>0, <2>1 DEF AgentTypes, AgentRows, There
  <2>6. row \in AgentRows({"there", "gone"})' /\ row.status = "there"
    BY <1>0, <2>2, <2>3, <2>5 DEF AgentRows
  <2>. QED
    BY <1>1, <1>2, <1>3, <1>5, <1>7, <1>9, <1>13, <2>1, <2>2, <2>4, <2>6 DEF PatchAgent
<1>14. CASE DeleteAgent(r)
  <2>1. PICK a \in Agents : There(a) /\ agent' = [agent EXCEPT ![a] = [NoAgent EXCEPT !.status = "gone"]]
    BY <1>14 DEF DeleteAgent
  <2>2. PICK row : row = [NoAgent EXCEPT !.status = "gone"]
    OBVIOUS
  <2>3. row.key = Pending /\ row \in AgentRows({"there", "gone"})'
    BY <1>0, <1>14, <2>2 DEF DeleteAgent, NoAgent, AgentRows, Pending
  <2>. QED
    BY <1>1, <1>2, <1>3, <1>5, <1>7, <1>9, <1>14, <2>1, <2>2, <2>3 DEF DeleteAgent
<1>15. CASE WalletResult(r)
  <2>1. keys' = keys + 1 /\ asked \subseteq Agents
    BY <1>0, <1>15 DEF WalletResult, SetTypes
  <2>2. \E a \in asked, sealed \in BOOLEAN :
          \/ Answer(r) /\ UNCHANGED mixed
          \/ /\ There(a) /\ mixed' \subseteq mixed \union {a}
             /\ Become(r, [kind |-> "walletResult", at |-> "store", agent |-> a,
                            pair |-> keys + 1, sealed |-> sealed, public |-> agent[a].public])
    BY <1>15 DEF WalletResult, Meets, TakesWallet
  <2>3. ASSUME NEW a \in Agents, NEW sealed \in BOOLEAN, There(a),
               Become(r, [kind |-> "walletResult", at |-> "store", agent |-> a,
                          pair |-> keys + 1, sealed |-> sealed, public |-> agent[a].public])
        PROVE  WalletLocals(req[r])'
    <3>1. PICK y : y = [kind |-> "walletResult", at |-> "store", agent |-> a,
                        pair |-> keys + 1, sealed |-> sealed, public |-> agent[a].public]
      OBVIOUS
    <3>2. agent'[a].status # "none" /\ agent[a].public \in 0..keys' /\ keys + 1 \in 1..keys'
      BY <1>0, <1>15, <2>1, <2>3 DEF WalletResult, There, AgentTypes, AgentRows
    <3>3. WalletLocals(y)'
      BY <3>1, <3>2 DEF WalletLocals, HasAgent, HasReg, WalletKinds
    <3>. QED
      BY <1>6, <2>3, <3>1, <3>3 DEF WalletLocals, HasAgent, HasReg
  <2>4. WalletLocals(req[r])' /\ mixed' \subseteq Agents \union Regs
    BY <1>2, <1>7, <2>1, <2>2, <2>3
  <2>. QED
    BY <1>1, <1>3, <1>4, <1>5, <1>15, <2>4 DEF WalletResult
<1>16. CASE AgentKeys(r)
  <2>1. keys' = keys + 1 /\ asked \subseteq Agents
    BY <1>0, <1>16 DEF AgentKeys, SetTypes
  <2>2. \E a \in asked :
          \/ Answer(r) /\ UNCHANGED mixed
          \/ /\ There(a) /\ mixed' \subseteq mixed \union {a}
             /\ Become(r, [kind |-> "agentKeys", at |-> "onboard", agent |-> a, pair |-> keys + 1])
    BY <1>16 DEF AgentKeys, Meets, TakesWallet
  <2>3. ASSUME NEW a \in Agents, There(a),
               Become(r, [kind |-> "agentKeys", at |-> "onboard", agent |-> a, pair |-> keys + 1])
        PROVE  WalletLocals(req[r])'
    <3>1. PICK y : y = [kind |-> "agentKeys", at |-> "onboard", agent |-> a, pair |-> keys + 1]
      OBVIOUS
    <3>2. agent'[a].status # "none" /\ keys + 1 \in 1..keys'
      BY <1>0, <1>16, <2>1, <2>3 DEF AgentKeys, There
    <3>3. WalletLocals(y)'
      BY <3>1, <3>2 DEF WalletLocals, HasAgent, HasReg, WalletKinds
    <3>. QED
      BY <1>6, <2>3, <3>1, <3>3 DEF WalletLocals, HasAgent, HasReg
  <2>4. WalletLocals(req[r])' /\ mixed' \subseteq Agents \union Regs
    BY <1>2, <1>7, <2>1, <2>2, <2>3
  <2>. QED
    BY <1>1, <1>3, <1>4, <1>5, <1>16, <2>4 DEF AgentKeys
<1>17. CASE RegisterSdkAgent(r)
  <2>1. PICK g \in Regs, k \in {Pending, keys + 1} :
          /\ reg[g].status = "none"
          /\ reg' = [reg EXCEPT ![g] = [NoReg EXCEPT !.status = "UNCLAIMED", !.key = k]]
    BY <1>17 DEF RegisterSdkAgent
  <2>2. keys' = keys + 1 /\ UNCHANGED <<agent, cre, users, asked, mixed, onboarded, claimants>>
    BY <1>17 DEF RegisterSdkAgent
  <2>3. PICK row : row = [NoReg EXCEPT !.status = "UNCLAIMED", !.key = k]
    OBVIOUS
  <2>. row = [status |-> "UNCLAIMED", key |-> k]
    BY <2>3 DEF NoReg
  <2>4. row.status = "UNCLAIMED" /\ row \in [status : {"none", "UNCLAIMED", "CLAIMED"}, key : 0..keys']
    BY <1>0, <2>1, <2>2 DEF Pending
  <2>5. reg \in [Regs -> [status : {"none", "UNCLAIMED", "CLAIMED"}, key : 0..keys']]
    <3>1. 0..keys \subseteq 0..keys'
      BY <1>0, <2>2
    <3>. QED
      BY <1>0, <3>1 DEF RegTypes
  <2>6. RegTypes'
    <3>1. reg' \in [Regs -> [status : {"none", "UNCLAIMED", "CLAIMED"}, key : 0..keys']]
      BY <2>1, <2>3, <2>4, <2>5
    <3>. QED
      BY <3>1 DEF RegTypes
  <2>7. Grows
    BY <1>0, <2>1, <2>2, <2>3, <2>4, <2>5 DEF Grows
  <2>8. AgentTypes'
    BY <1>0, <2>2, RowsGrow
  <2>. QED
    BY <1>1, <1>2, <1>3, <1>5, <1>7, <1>17, <2>2, <2>6, <2>7, <2>8 DEF RegisterSdkAgent
<1>18. CASE Claim(r)
  <2>1. \E g \in Regs, u \in Users :
          \/ Answer(r) /\ UNCHANGED mixed
          \/ /\ reg[g].status = "UNCLAIMED" /\ mixed' \subseteq mixed \union {g}
             /\ Become(r, [kind |-> "claim", at |-> "find", reg |-> g, user |-> u, row |-> Wallet(reg[g].key)])
    BY <1>18 DEF Claim, Meets, MayClaim
  <2>2. ASSUME NEW g \in Regs, NEW u \in Users, reg[g].status = "UNCLAIMED",
               Become(r, [kind |-> "claim", at |-> "find", reg |-> g, user |-> u, row |-> Wallet(reg[g].key)])
        PROVE  WalletLocals(req[r])'
    <3>1. PICK y : y = [kind |-> "claim", at |-> "find", reg |-> g, user |-> u, row |-> Wallet(reg[g].key)]
      OBVIOUS
    <3>2. reg'[g].status # "none" /\ reg' = reg /\ keys' = keys
      BY <1>18, <2>2 DEF Claim
    <3>3. y.row \in AgentRows({"there"})' /\ y.row.address = y.row.key
      BY <1>0, <3>1, <3>2 DEF RegTypes, AgentRows, Wallet, Row
    <3>4. WalletLocals(y)'
      BY <3>1, <3>2, <3>3 DEF WalletLocals, HasAgent, HasReg, WalletKinds
    <3>. QED
      BY <1>6, <2>2, <3>1, <3>4 DEF WalletLocals, HasAgent, HasReg
  <2>3. WalletLocals(req[r])' /\ mixed' \subseteq Agents \union Regs
    BY <1>2, <1>7, <2>1, <2>2
  <2>. QED
    BY <1>1, <1>3, <1>4, <1>5, <1>18, <2>3 DEF Claim
<1>20. CASE AskCRE(r)
  <2>1. HasAgent(req[r]) /\ req[r].agent \in Agents
    <3>1. req[r].kind \in WalletKinds
      BY <1>0, <1>20 DEF AskCRE, Placed, Place, Idle, WalletPlace, LedgerPlace, PricingPlace,
                        SettlementPlace, TradePlace, WalletKinds
    <3>. QED
      BY <1>0, <1>20, <3>1 DEF AskCRE, WalletLocals
  <2>2. WalletLocals(req[r])'
    BY <1>2, <1>g, <1>20 DEF AskCRE
  <2>3. SetTypes'
    BY <1>0, <1>20, <2>1 DEF AskCRE, SetTypes
  <2>. QED
    BY <1>1, <1>3, <1>4, <1>20, <2>2, <2>3 DEF AskCRE
<1>21. CASE GenerateKeys(r)
  <2>1. keys' = keys + 1 /\ reg' = reg
    BY <1>21 DEF GenerateKeys
  <2>2. req[r].agent \in Agents
    <3>1. req[r].kind \in WalletKinds
      BY <1>0, <1>21 DEF GenerateKeys, Placed, Place, Idle, WalletPlace, LedgerPlace, PricingPlace,
                        SettlementPlace, TradePlace, WalletKinds
    <3>. QED
      BY <1>0, <1>21, <3>1 DEF GenerateKeys, WalletLocals
  <2>3. PICK row : row = Wallet(keys + 1)
    OBVIOUS
  <2>4. row.status = "there" /\ row \in AgentRows({"there", "gone"})'
    BY <1>0, <2>1, <2>3 DEF AgentRows, Wallet, Row
  <2>5. AgentTypes' /\ RegTypes' /\ Grows
    BY <1>4, <1>9, <1>21, <2>1, <2>2, <2>3, <2>4 DEF GenerateKeys
  <2>. QED
    BY <1>1, <1>2, <1>3, <1>5, <1>7, <1>21, <2>5 DEF GenerateKeys
<1>22. CASE StoreResult(r)
  <2>. PICK a : a = req[r].agent
    OBVIOUS
  <2>1. a \in Agents /\ req[r].pair \in 0..keys /\ req[r].public \in 0..keys
    BY <1>0, <1>22 DEF StoreResult, At, WalletLocals, WalletKinds
  <2>2. keys' = keys /\ reg' = reg
    BY <1>22 DEF StoreResult
  <2>3. PICK row : row = Row(req[r].pair, IF req[r].public = Pending THEN req[r].pair ELSE agent[a].public,
                             IF req[r].sealed THEN req[r].pair ELSE agent[a].key)
    OBVIOUS
  <2>4. agent' = agent \/ agent' = [agent EXCEPT ![a] = row]
    BY <1>0, <1>22, <2>1, <2>3 DEF StoreResult, AgentTypes
  <2>5. row.status = "there" /\ row \in AgentRows({"there", "gone"})'
    BY <1>0, <2>1, <2>2, <2>3 DEF AgentRows, Row, AgentTypes
  <2>6. AgentTypes' /\ RegTypes' /\ Grows
    BY <1>4, <1>9, <2>1, <2>2, <2>4, <2>5
  <2>. QED
    BY <1>1, <1>2, <1>3, <1>5, <1>7, <1>22, <2>6 DEF StoreResult
<1>23. CASE Onboard(r)
  <2>1. WalletLocals(req[r])'
    BY <1>g, <1>23 DEF Onboard, At
  <2>2. /\ req[r].agent \in Agents /\ agent[req[r].agent].status # "none"
        /\ req[r].pair \in Nat \ {0}
    BY <1>0, <1>23 DEF Onboard, At, WalletLocals, WalletKinds
  <2>3. Grows /\ AgentTypes' /\ RegTypes' /\ agent' = agent
    BY <1>4, <1>23 DEF Onboard
  <2>4. SetTypes'
    BY <1>5, <1>7, <1>23 DEF Onboard
  <2>5. HistoryTypes'
    <3>1. CASE UNCHANGED onboarded
      BY <1>3, <1>23, <2>3, <3>1 DEF Onboard
    <3>2. CASE onboarded' = [onboarded EXCEPT ![req[r].agent] = @ \union {req[r].pair}]
      <4>1. onboarded' \in [Agents -> SUBSET (Nat \ {0})]
        BY <1>0, <2>2, <3>2 DEF HistoryTypes
      <4>2. \A a \in Agents : agent'[a].status = "none" => onboarded'[a] = {}
        BY <1>0, <2>2, <2>3, <3>2 DEF HistoryTypes
      <4>. QED
        BY <1>0, <1>23, <2>3, <4>1, <4>2 DEF HistoryTypes, Onboard
    <3>. QED
      BY <1>23, <3>1, <3>2 DEF Onboard
  <2>. QED
    BY <1>1, <2>1, <2>3, <2>4, <2>5
<1>24. CASE StoreKeys(r)
  <2>. PICK a : a = req[r].agent
    OBVIOUS
  <2>1. a \in Agents /\ req[r].pair \in 0..keys
    BY <1>0, <1>24 DEF StoreKeys, At, WalletLocals, WalletKinds
  <2>2. keys' = keys /\ reg' = reg
    BY <1>24 DEF StoreKeys
  <2>3. PICK row : row = Wallet(req[r].pair)
    OBVIOUS
  <2>4. agent' = [agent EXCEPT ![a] = row]
    BY <1>24, <2>3 DEF StoreKeys
  <2>5. row.status = "there" /\ row \in AgentRows({"there", "gone"})'
    BY <1>0, <2>1, <2>2, <2>3 DEF AgentRows, Row, Wallet
  <2>6. AgentTypes' /\ RegTypes' /\ Grows
    BY <1>9, <2>1, <2>2, <2>4, <2>5
  <2>. QED
    BY <1>1, <1>2, <1>3, <1>5, <1>7, <1>24, <2>6 DEF StoreKeys
<1>25. CASE FindUser(r)
  <2>1. Goto(r, "insert") \/ Goto(r, "user")
    BY <1>25 DEF FindUser
  <2>2. WalletLocals(req[r])'
    BY <1>g, <1>25, <2>1 DEF FindUser, At
  <2>. QED
    BY <1>1, <1>3, <1>4, <1>5, <1>7, <1>25, <2>2 DEF FindUser
<1>26. CASE CreateUser(r)
  <2>1. req[r].user \in Users
    BY <1>0, <1>26 DEF CreateUser, At, WalletLocals
  <2>2. WalletLocals(req[r])'
    BY <1>2, <1>g, <1>26 DEF CreateUser, At
  <2>3. SetTypes'
    BY <1>0, <1>26, <2>1 DEF CreateUser, SetTypes
  <2>. QED
    BY <1>1, <1>3, <1>4, <1>26, <2>2, <2>3 DEF CreateUser
<1>27. CASE MarkClaimed(r)
  <2>. PICK g : g = req[r].reg
    OBVIOUS
  <2>1. g \in Regs
    BY <1>0, <1>27 DEF MarkClaimed, At, WalletLocals
  <2>2. PICK row : row = [reg[g] EXCEPT !.status = "CLAIMED"]
    OBVIOUS
  <2>3. /\ row \in [status : {"none", "UNCLAIMED", "CLAIMED"}, key : 0..keys]
        /\ row.key = reg[g].key /\ row.status = "CLAIMED"
    BY <1>0, <2>1, <2>2 DEF RegTypes
  <2>4. reg' = reg \/ reg' = [reg EXCEPT ![g] = row]
    BY <1>0, <1>27, <2>1, <2>2 DEF MarkClaimed, RegTypes
  <2>5. keys' = keys /\ agent' = agent /\ mixed' \subseteq Agents \union Regs
    BY <1>7, <1>27, <2>1 DEF MarkClaimed
  <2>6. RegTypes'
    <3>1. reg' \in [Regs -> [status : {"none", "UNCLAIMED", "CLAIMED"}, key : 0..keys]]
      BY <1>0, <2>1, <2>3, <2>4 DEF RegTypes
    <3>. QED
      BY <2>5, <3>1 DEF RegTypes
  <2>7. Grows
    BY <1>0, <2>1, <2>3, <2>4, <2>5 DEF Grows, RegTypes
  <2>8. AgentTypes'
    BY <1>0, <2>5, RowsGrow
  <2>. QED
    BY <1>1, <1>2, <1>3, <1>5, <1>27, <2>5, <2>6, <2>7, <2>8 DEF MarkClaimed
<1>28. CASE WalletFails(r)
  <2>1. About({r}) \subseteq Agents \union Regs
    BY <1>0 DEF About, WalletLocals, HasAgent, HasReg
  <2>2. Answer(r) /\ UNCHANGED <<cre, agent, reg, users, keys, asked, onboarded, claimants>>
    BY <1>28 DEF WalletFails, Rejects
  <2>3. mixed' \subseteq Agents \union Regs
    BY <1>7, <1>28, <2>1 DEF WalletFails
  <2>. QED
    BY <1>1, <1>2, <1>3, <1>4, <1>5, <2>2, <2>3
<1>19. CASE InsertAgent(r)
  <2>. PICK x : x = req[r]
    OBVIOUS
  <2>. DEFINE fresh == {a \in Agents : agent[a].status = "none"}
  <2>. PICK a : a = CHOOSE b \in fresh : TRUE
    OBVIOUS
  <2>1. x.kind \in {"create", "register", "claim"} /\ x.at = "insert"
    BY <1>19 DEF InsertAgent
  <2>2. a \in Agents /\ agent[a].status = "none"
    BY <1>19 DEF InsertAgent
  <2>3. keys' = keys /\ UNCHANGED <<cre, reg, asked, onboarded>>
    BY <1>19 DEF InsertAgent
  <2>4. WalletLocals(x) /\ x.row \in AgentRows({"there"})
    BY <1>0, <2>1 DEF WalletLocals
  <2>5. CASE Answer(r) /\ UNCHANGED <<agent, users, claimants, mixed>>
    BY <1>1, <1>2, <1>3, <1>4, <1>5, <1>7, <2>3, <2>5
  <2>6. CASE ~(x.kind = "register" /\ x.user \in users)
    <3>1. /\ agent' = [agent EXCEPT ![a] = x.row]
          /\ users' = IF x.kind = "register" THEN users \union {x.user} ELSE users
          /\ claimants' = IF x.kind # "claim" THEN claimants
                          ELSE [claimants EXCEPT ![x.reg] = @ \union {a}]
          /\ mixed' \subseteq mixed \union {a}
          /\ IF AfterInsert(x) = "done" THEN Answer(r)
             ELSE Become(r, With(x, [at |-> AfterInsert(x), agent |-> a]))
      BY <1>19, <2>6 DEF InsertAgent
    <3>2. x.row \in AgentRows({"there", "gone"})' /\ x.row.status = "there"
      BY <2>3, <2>4 DEF AgentRows
    <3>3. AgentTypes' /\ RegTypes' /\ Grows
      BY <1>9, <2>2, <2>3, <3>1, <3>2
    <3>4. SetTypes'
      BY <1>0, <2>1, <2>2, <2>3, <2>4, <3>1 DEF SetTypes, WalletLocals
    <3>5. agent'[a].status = "there"
      BY <1>0, <2>2, <3>1, <3>2 DEF AgentTypes
    <3>6. HistoryTypes'
      <4>1. claimants' \in [Regs -> SUBSET Agents]
        BY <1>0, <2>2, <2>4, <3>1 DEF HistoryTypes, WalletLocals
      <4>2. \A b \in Agents : agent'[b].status = "none" => agent[b].status = "none"
        BY <3>3 DEF Grows
      <4>3. \A b \in Agents : agent'[b].status = "none" => onboarded'[b] = {}
        BY <1>0, <2>3, <4>2 DEF HistoryTypes
      <4>4. \A g \in Regs : claimants'[g] \subseteq claimants[g] \union {a}
        BY <1>0, <3>1 DEF HistoryTypes
      <4>5. \A g \in Regs : \A b \in claimants'[g] : agent'[b].status # "none"
        BY <1>0, <3>3, <3>5, <4>4 DEF HistoryTypes, Grows
      <4>. QED
        BY <1>0, <2>3, <4>1, <4>3, <4>5 DEF HistoryTypes
    <3>7. ASSUME NEW at, at = AfterInsert(x), at # "done", Become(r, With(x, [at |-> at, agent |-> a]))
          PROVE  WalletLocals(req[r])'
      <4>1. at \in {"ask", "generate", "mark"}
        BY <2>1, <3>7 DEF AfterInsert
      <4>2. PICK l : l = [at |-> at, agent |-> a]
        OBVIOUS
      <4>3. PICK y : y = With(x, l)
        OBVIOUS
      <4>4. DOMAIN l = {"at", "agent"} /\ l.at = at /\ l.agent = a
        BY <4>2
      <4>5. /\ DOMAIN y = DOMAIN x \union {"at", "agent"}
            /\ \A field \in DOMAIN x \ {"at", "agent"} : y[field] = x[field]
        BY <4>3, <4>4 DEF With
      <4>6. y["at"] = l["at"] /\ y["agent"] = l["agent"]
        BY <4>3, <4>4 DEF With
      <4>7. "kind" \in DOMAIN x
        BY <1>0 DEF Placed
      <4>8. /\ y.kind = x.kind /\ y.at = at /\ y.agent = a /\ HasAgent(y)
            /\ y.row = x.row /\ "row" \in DOMAIN y
            /\ HasReg(x) <=> HasReg(y)
            /\ HasReg(x) => y.reg = x.reg
            /\ "user" \in DOMAIN x => y.user = x.user /\ "user" \in DOMAIN y
        BY <2>1, <2>4, <4>4, <4>5, <4>6, <4>7 DEF WalletLocals, HasAgent, HasReg
      <4>9. WalletLocals(x)'
        <5>1. req[r] = x
          OBVIOUS
        <5>2. x.row \in AgentRows({"there"})'
          BY <1>8, <2>4
        <5>3. ~HasAgent(x)
          BY <2>1, <2>4 DEF WalletLocals, WalletKinds
        <5>4. x.kind = "claim" => reg'[x.reg] = reg[x.reg]
          BY <2>3
        <5>. QED
          BY <2>1, <2>3, <2>4, <5>2, <5>3, <5>4 DEF WalletLocals, WalletKinds
      <4>10. WalletLocals(y)'
        BY <2>1, <2>2, <3>5, <4>1, <4>8, <4>9 DEF WalletLocals
      <4>. QED
        BY <1>6, <3>7, <4>2, <4>3, <4>10 DEF WalletLocals, HasAgent, HasReg
    <3>8. WalletLocals(req[r])'
      BY <1>2, <3>1, <3>7
    <3>. QED
      BY <1>1, <3>3, <3>4, <3>6, <3>8
  <2>. QED
    BY <1>19, <2>5, <2>6 DEF InsertAgent
<1>. QED
  BY <1>10, <1>11, <1>12, <1>13, <1>14, <1>15, <1>16, <1>17, <1>18, <1>19, <1>20, <1>21, <1>22, <1>23, <1>24,
     <1>25, <1>26, <1>27, <1>28 DEF WalletMoves, WalletArrives, WalletStep

\* The same, for every step.
LEMMA WalletTypesKept ==
    ASSUME ReqOK, WalletTypes, [Next]_vars, ReqOK'
    PROVE  WalletTypes' /\ mixed \subseteq mixed'
<1>0. /\ AgentTypes /\ RegTypes /\ SetTypes /\ HistoryTypes /\ keys \in Nat
      /\ \A q \in Requests : WalletLocals(req[q]) /\ Placed(req[q])
  BY DEF WalletTypes, SetTypes, ReqOK
<1>1. ASSUME UNCHANGED <<cre, agent, reg, users, keys, asked, onboarded, claimants>>,
             mixed' \subseteq Agents \union Regs, \A q \in Requests : WalletLocals(req'[q])
      PROVE  WalletTypes'
  <2>1. SetTypes' /\ RegTypes' /\ HistoryTypes'
    BY <1>0, <1>1 DEF SetTypes, RegTypes, HistoryTypes
  <2>2. AgentTypes'
    BY <1>0, <1>1 DEF AgentTypes, AgentRows, Pending
  <2>3. \A q \in Requests : WalletLocals(req[q])'
    BY <1>1 DEF WalletLocals, AgentRows, HasAgent, HasReg
  <2>. QED
    BY <2>1, <2>2, <2>3 DEF WalletTypes, Requests
<1>2. CASE \E r \in Requests : WalletMoves(r) /\ Turn(r, WalletKinds)
  <2>1. PICK r \in Requests : WalletMoves(r) /\ Turn(r, WalletKinds)
    BY <1>2
  <2>2. mixed \subseteq mixed'
    <3>1. CASE WalletArrives(r)
      BY <3>1 DEF WalletArrives, CreateAgent, Register, CreateWallet, PatchAgent,
           DeleteAgent, WalletResult, AgentKeys, RegisterSdkAgent, Claim, Meets
    <3>2. CASE WalletStep(r)
      BY <3>2 DEF WalletStep, InsertAgent, AskCRE, GenerateKeys, StoreResult, Onboard, StoreKeys,
           FindUser, CreateUser, MarkClaimed
    <3>3. CASE WalletFails(r)
      BY <3>3 DEF WalletFails
    <3>. QED
      BY <2>1, <3>1, <3>2, <3>3 DEF WalletMoves
  <2>. QED
    BY <2>1, <2>2, WalletMovesTypes
<1>3. CASE UNCHANGED walletVars /\ Undisturbed(WalletKinds)
  <2>1. ASSUME NEW q \in Requests
        PROVE  WalletLocals(req'[q])
    <3>1. CASE req'[q].kind \in WalletKinds
      BY <1>0, <1>3, <3>1 DEF Undisturbed
    <3>2. CASE req'[q].kind \notin WalletKinds
      <4>1. {"agent", "reg"} \intersect DOMAIN req'[q] = {}
        BY <3>2 DEF ReqOK, Placed
      <4>. QED
        BY <3>2, <4>1 DEF WalletLocals, HasAgent, HasReg, WalletKinds
    <3>. QED
      BY <3>1, <3>2
  <2>. QED
    BY <1>0, <1>1, <1>3, <2>1 DEF walletVars, SetTypes
<1>4. CASE WalletStops /\ AllFree
  <2>1. \A q \in Requests : req'[q] = Free
    BY <1>4 DEF AllFree
  <2>2. WalletLocals(Free)
    BY DEF WalletLocals, Free, HasAgent, HasReg, WalletKinds
  <2>3. About(Requests) \subseteq Agents \union Regs
    BY <1>0 DEF About, WalletLocals, HasAgent, HasReg
  <2>. QED
    BY <1>0, <1>1, <1>4, <2>1, <2>2, <2>3 DEF WalletStops, SetTypes
<1>. QED
  BY <1>2, <1>3, <1>4, WalletFrame

\* A step that does not touch an agent and its wallet, nor gives it another handler.
AgentRests(a) ==
    /\ agent'[a] = agent[a] /\ onboarded'[a] = onboarded[a]
    /\ \A q \in Requests :
          /\ For(q, a)' => /\ For(q, a) /\ req'[q].kind = req[q].kind
                           /\ req'[q].at = req[q].at \/ req'[q].at # "generate"
          /\ For(q, a) /\ req[q].kind = "agentKeys" /\ req[q].at = "store" => req'[q] = req[q]

LEMMA RestingAgent ==
    ASSUME NEW a \in Agents, AgentOK(a), AgentRests(a)
    PROVE  AgentOK(a)'
<1>1. \A p, q \in Requests : For(p, a)' /\ For(q, a)' => p = q
  BY DEF AgentOK, AgentRests
<1>2. ASSUME There(a)'
      PROVE  OneWallet(a)'
  <2>1. OneWallet(a)
    BY <1>2 DEF AgentOK, AgentRests, There
  <2>2. /\ agent'[a].address = Pending => agent'[a].key = Pending
        /\ Complete(a)' => agent'[a].address = agent'[a].key
    BY <2>1 DEF OneWallet, AgentRests, Complete, Pending
  <2>3. \A q \in Requests : For(q, a)' =>
          /\ req'[q].kind \in {"walletResult", "agentKeys"} => agent'[a].address = Pending
          /\ req'[q].at = "generate" => agent'[a].key = Pending
    BY <2>1 DEF OneWallet, AgentRests
  <2>4. Funded(a)'
    <3>1. \A q \in Requests : For(q, a) /\ req[q].kind = "agentKeys" /\ req[q].at = "store" =>
             For(q, a)' /\ req'[q] = req[q]
      BY DEF AgentRests, For, HasAgent
    <3>2. Funded(a)
      BY <2>1 DEF OneWallet
    <3>3. CASE agent[a].address # Pending
      BY <3>2, <3>3 DEF Funded, AgentRests, Wallet, Row, Pending
    <3>4. CASE agent[a].address = Pending
      BY <3>1, <3>2, <3>4 DEF Funded, AgentRests, Pending, Requests
    <3>. QED
      BY <3>3, <3>4
  <2>. QED
    BY <2>2, <2>3, <2>4 DEF OneWallet, Pending, Requests
<1>. QED
  BY <1>1, <1>2 DEF AgentOK, Requests

\* An agent is in the hands of the handlers of agents and wallets only.
LEMMA OnlyWalletKinds ==
    ASSUME ReqOK, NEW q \in Requests, NEW a, For(q, a)
    PROVE  req[q].kind \in WalletKinds
BY DEF ReqOK, Placed, For, HasAgent

\* The handlers of agents and wallets leave every agent with one wallet.
LEMMA WalletMovesAgents ==
    ASSUME ReqOK, WalletTypes, AgentInv, NEW r \in Requests, WalletMoves(r), Turn(r, WalletKinds),
           ReqOK', WalletTypes', mixed \subseteq mixed'
    PROVE  AgentInv'
<1>0. /\ AgentTypes /\ HistoryTypes /\ keys \in Nat
      /\ WalletLocals(req[r]) /\ Placed(req[r])
      /\ \A q \in Requests \ {r} : req'[q] = req[q]
  BY DEF WalletTypes, SetTypes, ReqOK, Turn
<1>1. ASSUME NEW a \in Agents, a \notin mixed, agent'[a] = agent[a], onboarded'[a] = onboarded[a],
             For(r, a)' => /\ For(r, a) /\ req'[r].kind = req[r].kind
                           /\ req'[r].at = req[r].at \/ req'[r].at # "generate",
             ~(For(r, a) /\ req[r].kind = "agentKeys" /\ req[r].at = "store")
      PROVE  AgentOK(a)'
  <2>1. \A q \in Requests \ {r} : For(q, a)' <=> For(q, a)
    BY <1>0 DEF For, HasAgent
  <2>2. AgentRests(a)
    BY <1>0, <1>1, <2>1 DEF AgentRests
  <2>. QED
    BY <1>1, <2>2, RestingAgent DEF AgentInv
<1>2. ASSUME Answer(r)
      PROVE  \A a : ~For(r, a)'
  <2>1. req'[r] = Free
    BY <1>2, Answers
  <2>. QED
    BY <2>1 DEF For, HasAgent, Free
<1>3. ASSUME req[r] = Free
      PROVE  \A a : ~For(r, a)
  BY <1>3 DEF For, HasAgent, Free
<1>4. ASSUME NEW y, Become(r, y)
      PROVE  req'[r] = y
  BY <1>4, Assigned DEF Become
<1>5. ASSUME NEW y, Become(r, y), ~HasAgent(y)
      PROVE  \A a : ~For(r, a)'
  BY <1>4, <1>5 DEF For, HasAgent
<1>6. ASSUME UNCHANGED <<agent, onboarded>>, \A a : ~For(r, a)', req[r] = Free
      PROVE  AgentInv'
  <2>1. \A a \in Agents \ mixed' : AgentOK(a)'
    BY <1>1, <1>3, <1>6
  <2>. QED
    BY <2>1 DEF AgentInv
\* An arrival in whose hands an agent is that is in no other's.
<1>7. ASSUME UNCHANGED <<agent, onboarded>>, req[r] = Free,
             NEW a \in Agents, For(r, a)', Meets("agent", a), There(a),
             req'[r].kind \in {"walletResult", "agentKeys"} => agent[a].address = Pending,
             req'[r].at = "generate" => ~Complete(a)
      PROVE  AgentInv'
  <2>1. \A b \in Agents \ mixed' : b # a => ~For(r, b)'
    BY <1>7 DEF For
  <2>2. \A b \in Agents \ mixed' : b # a => AgentOK(b)'
    BY <1>1, <1>3, <1>7, <2>1
  <2>3. ASSUME a \notin mixed'
        PROVE  AgentOK(a)'
    <3>1. \A q \in Requests : ~For(q, a)
      BY <1>7, <2>3 DEF Meets, Holding, For, HasAgent
    <3>2. \A q \in Requests : For(q, a)' => q = r
      <4>1. \A q \in Requests \ {r} : ~For(q, a)'
        BY <1>0, <3>1 DEF For, HasAgent
      <4>. QED
        BY <4>1
    <3>3. OneWallet(a)
      BY <1>7, <2>3 DEF AgentInv, AgentOK
    <3>4. /\ agent[a].address = Pending => agent[a].key = Pending
          /\ Complete(a) => agent[a].address = agent[a].key
          /\ Funded(a)
      BY <3>3 DEF OneWallet
    <3>5. req'[r].at = "generate" => agent[a].key = Pending
      BY <1>7, <3>4 DEF Complete
    <3>6. Funded(a)'
      BY <1>7, <3>1, <3>4 DEF Funded, Wallet, Row, Pending
    <3>. QED
      BY <1>7, <3>2, <3>4, <3>5, <3>6 DEF AgentOK, OneWallet, Complete, Pending
  <2>. QED
    BY <2>2, <2>3 DEF AgentInv
<1>10. CASE CreateAgent(r)
  <2>1. PICK public, key :
            Become(r, [kind |-> "create", at |-> "insert", row |-> Row(Pending, public, key)])
    BY <1>10 DEF CreateAgent
  <2>2. PICK y : y = [kind |-> "create", at |-> "insert", row |-> Row(Pending, public, key)]
    OBVIOUS
  <2>3. \A a : ~For(r, a)'
    BY <1>5, <2>1, <2>2 DEF HasAgent
  <2>. QED
    BY <1>6, <1>10, <2>3, ArrivesFree DEF CreateAgent
<1>11. CASE Register(r)
  <2>1. Answer(r) \/ \E u, w : Become(r, [kind |-> "register", at |-> "insert", user |-> u, row |-> w])
    BY <1>11 DEF Register
  <2>2. \A a : ~For(r, a)'
    <3>1. ASSUME NEW u, NEW w, Become(r, [kind |-> "register", at |-> "insert", user |-> u, row |-> w])
          PROVE  \A a : ~For(r, a)'
      <4>1. PICK y : y = [kind |-> "register", at |-> "insert", user |-> u, row |-> w]
        OBVIOUS
      <4>. QED
        BY <1>5, <3>1, <4>1 DEF HasAgent
    <3>. QED
      BY <1>2, <2>1, <3>1
  <2>. QED
    BY <1>6, <1>11, <2>2, ArrivesFree DEF Register
<1>12. CASE RegisterSdkAgent(r)
  BY <1>2, <1>6, <1>12, ArrivesFree DEF RegisterSdkAgent
<1>13. CASE Claim(r)
  <2>1. Answer(r) \/ \E g, u, w : Become(r, [kind |-> "claim", at |-> "find", reg |-> g, user |-> u, row |-> w])
    BY <1>13 DEF Claim
  <2>2. \A a : ~For(r, a)'
    <3>1. ASSUME NEW g, NEW u, NEW w,
                 Become(r, [kind |-> "claim", at |-> "find", reg |-> g, user |-> u, row |-> w])
          PROVE  \A a : ~For(r, a)'
      <4>1. PICK y : y = [kind |-> "claim", at |-> "find", reg |-> g, user |-> u, row |-> w]
        OBVIOUS
      <4>. QED
        BY <1>5, <3>1, <4>1 DEF HasAgent
    <3>. QED
      BY <1>2, <2>1, <3>1
  <2>. QED
    BY <1>6, <1>13, <2>2, ArrivesFree DEF Claim
<1>14. CASE CreateWallet(r)
  <2>. DEFINE go == IF cre THEN "ask" ELSE "generate"
  <2>1. \E a \in Agents : /\ There(a)
                          /\ \/ Answer(r)
                             \/ /\ ~Complete(a) /\ Meets("agent", a)
                                /\ Become(r, [kind |-> "createWallet", agent |-> a, at |-> go])
    BY <1>14 DEF CreateWallet
  <2>. HIDE DEF go
  <2>2. UNCHANGED <<agent, onboarded>> /\ req[r] = Free
    BY <1>14, ArrivesFree DEF CreateWallet
  <2>3. ASSUME NEW a \in Agents, There(a), ~Complete(a), Meets("agent", a),
               Become(r, [kind |-> "createWallet", agent |-> a, at |-> go])
        PROVE  AgentInv'
    <3>1. PICK y : y = [kind |-> "createWallet", agent |-> a, at |-> go]
      OBVIOUS
    <3>2. req'[r] = y
      BY <1>4, <2>3, <3>1
    <3>3. For(r, a)' /\ req'[r].kind = "createWallet"
      BY <3>1, <3>2 DEF For, HasAgent
    <3>. QED
      BY <1>7, <2>2, <2>3, <3>3
  <2>. QED
    BY <1>2, <1>6, <2>1, <2>2, <2>3
<1>15. CASE WalletResult(r)
  <2>1. asked \subseteq Agents
    BY DEF WalletTypes, SetTypes
  <2>2. \E a \in asked, sealed \in BOOLEAN :
          \/ Answer(r)
          \/ /\ There(a) /\ agent[a].address = Pending /\ Meets("agent", a)
             /\ Become(r, [kind |-> "walletResult", at |-> "store", agent |-> a,
                            pair |-> keys + 1, sealed |-> sealed, public |-> agent[a].public])
    BY <1>15 DEF WalletResult, TakesWallet
  <2>3. UNCHANGED <<agent, onboarded>> /\ req[r] = Free
    BY <1>15, ArrivesFree DEF WalletResult
  <2>4. ASSUME NEW a \in Agents, NEW sealed, There(a), agent[a].address = Pending, Meets("agent", a),
               Become(r, [kind |-> "walletResult", at |-> "store", agent |-> a,
                          pair |-> keys + 1, sealed |-> sealed, public |-> agent[a].public])
        PROVE  AgentInv'
    <3>1. PICK y : y = [kind |-> "walletResult", at |-> "store", agent |-> a,
                        pair |-> keys + 1, sealed |-> sealed, public |-> agent[a].public]
      OBVIOUS
    <3>2. req'[r] = y
      BY <1>4, <2>4, <3>1
    <3>3. For(r, a)' /\ req'[r].at = "store"
      BY <3>1, <3>2 DEF For, HasAgent
    <3>. QED
      BY <1>7, <2>3, <2>4, <3>3
  <2>. QED
    BY <1>2, <1>6, <2>1, <2>2, <2>3, <2>4
<1>16. CASE AgentKeys(r)
  <2>1. asked \subseteq Agents
    BY DEF WalletTypes, SetTypes
  <2>2. \E a \in asked :
          \/ Answer(r)
          \/ /\ There(a) /\ agent[a].address = Pending /\ Meets("agent", a)
             /\ Become(r, [kind |-> "agentKeys", at |-> "onboard", agent |-> a, pair |-> keys + 1])
    BY <1>16 DEF AgentKeys, TakesWallet
  <2>3. UNCHANGED <<agent, onboarded>> /\ req[r] = Free
    BY <1>16, ArrivesFree DEF AgentKeys
  <2>4. ASSUME NEW a \in Agents, There(a), agent[a].address = Pending, Meets("agent", a),
               Become(r, [kind |-> "agentKeys", at |-> "onboard", agent |-> a, pair |-> keys + 1])
        PROVE  AgentInv'
    <3>1. PICK y : y = [kind |-> "agentKeys", at |-> "onboard", agent |-> a, pair |-> keys + 1]
      OBVIOUS
    <3>2. req'[r] = y
      BY <1>4, <2>4, <3>1
    <3>3. For(r, a)' /\ req'[r].at = "onboard"
      BY <3>1, <3>2 DEF For, HasAgent
    <3>. QED
      BY <1>7, <2>3, <2>4, <3>3
  <2>. QED
    BY <1>2, <1>6, <2>1, <2>2, <2>3, <2>4
<1>17. CASE PatchAgent(r)
  <2>1. PICK a \in Agents : There(a) /\ agent' = [agent EXCEPT ![a].key = keys + 1] /\ mixed' = mixed \union {a}
    BY <1>17 DEF PatchAgent
  <2>2. Answer(r) /\ UNCHANGED onboarded /\ req[r] = Free
    BY <1>17, ArrivesFree DEF PatchAgent
  <2>3. \A b \in Agents \ mixed' : agent'[b] = agent[b]
    BY <1>0, <2>1 DEF AgentTypes
  <2>4. \A b \in Agents \ mixed' : AgentOK(b)'
    BY <1>1, <1>2, <1>3, <2>2, <2>3
  <2>. QED
    BY <2>4 DEF AgentInv
<1>18. CASE DeleteAgent(r)
  <2>1. PICK a \in Agents : agent' = [agent EXCEPT ![a] = [NoAgent EXCEPT !.status = "gone"]]
    BY <1>18 DEF DeleteAgent
  <2>2. Answer(r) /\ UNCHANGED onboarded /\ req[r] = Free
    BY <1>18, ArrivesFree DEF DeleteAgent
  <2>3. \A b \in Agents \ {a} : agent'[b] = agent[b]
    BY <1>0, <2>1 DEF AgentTypes
  <2>4. \A b \in Agents \ mixed' : b # a => AgentOK(b)'
    BY <1>1, <1>2, <1>3, <2>2, <2>3
  <2>5. ~There(a)'
    BY <1>0, <2>1 DEF AgentTypes, There, NoAgent
  <2>6. \A q \in Requests : For(q, a)' => For(q, a)
    BY <1>0, <1>2, <2>2 DEF For, HasAgent
  <2>7. a \notin mixed' => AgentOK(a)'
    BY <2>5, <2>6 DEF AgentInv, AgentOK
  <2>. QED
    BY <2>4, <2>7 DEF AgentInv
\* Who writes what it brought, or made, holds the agent alone.
<1>20. ASSUME NEW a \in Agents, For(r, a), Answer(r), UNCHANGED onboarded, ~(There(a) /\ ~There(a)'),
              \A b \in Agents \ {a} : agent'[b] = agent[b],
              a \notin mixed /\ There(a)' =>
                 /\ agent'[a].address # Pending
                 /\ Complete(a)' => agent'[a].address = agent'[a].key
                 /\ \A k \in onboarded[a] : agent'[a] = Wallet(k)
       PROVE  AgentInv'
  <2>1. \A b : ~For(r, b)'
    BY <1>2, <1>20
  <2>2. \A b \in Agents \ mixed' : b # a => ~For(r, b)
    BY <1>20 DEF For
  <2>3. \A b \in Agents \ mixed' : b # a => AgentOK(b)'
    BY <1>1, <1>20, <2>1, <2>2
  <2>4. ASSUME a \notin mixed'
        PROVE  AgentOK(a)'
    <3>1. \A p, q \in Requests : For(p, a) /\ For(q, a) => p = q
      BY <2>4 DEF AgentInv, AgentOK
    <3>2. \A q \in Requests : ~For(q, a)'
      <4>1. ASSUME NEW q \in Requests \ {r} PROVE ~For(q, a)'
        <5>1. For(q, a)' <=> For(q, a)
          BY <1>0, <4>1 DEF For, HasAgent
        <5>. QED
          BY <1>20, <3>1, <4>1, <5>1
      <4>. QED
        BY <2>1, <4>1
    <3>3. There(a)' => OneWallet(a)'
      BY <1>20, <2>4, <3>2 DEF OneWallet, Funded, Wallet, Row, Pending
    <3>. QED
      BY <3>2, <3>3 DEF AgentOK
  <2>. QED
    BY <2>3, <2>4 DEF AgentInv
<1>21. ASSUME NEW a \in Agents, a \notin mixed, For(r, a), There(a)
       PROVE  /\ OneWallet(a)
              /\ \A q \in Requests : For(q, a) => q = r
              /\ \A k \in onboarded[a] : k \in Nat \ {0}
  BY <1>0, <1>21 DEF AgentInv, AgentOK, HistoryTypes
<1>22. CASE AskCRE(r)
  <2>1. UNCHANGED <<agent, onboarded>> /\ req[r].at = "ask"
    BY <1>22 DEF AskCRE
  <2>2. CASE Answer(r)
    <3>1. \A a \in Agents \ mixed' : AgentOK(a)'
      BY <1>1, <1>2, <2>1, <2>2
    <3>. QED
      BY <3>1 DEF AgentInv
  <2>3. CASE Goto(r, "mark")
    <3>1. ASSUME NEW a
          PROVE  For(r, a)' => For(r, a) /\ req'[r].kind = req[r].kind /\ req'[r].at # "generate"
      BY <2>3, Goes DEF For, HasAgent
    <3>2. \A a \in Agents \ mixed' : AgentOK(a)'
      BY <1>1, <2>1, <3>1
    <3>. QED
      BY <3>2 DEF AgentInv
  <2>. QED
    BY <1>22, <2>2, <2>3 DEF AskCRE
<1>23. CASE GenerateKeys(r)
  <2>. PICK a : a = req[r].agent
    OBVIOUS
  <2>1. req[r].kind \in {"create", "createWallet"} /\ req[r].at = "generate"
    BY <1>0, <1>23 DEF GenerateKeys, Placed, Place, Idle, WalletPlace, LedgerPlace, PricingPlace,
                      SettlementPlace, TradePlace
  <2>2. For(r, a) /\ a \in Agents
    BY <1>0, <2>1 DEF WalletLocals, For, WalletKinds
  <2>3. /\ agent' = IF There(a) THEN [agent EXCEPT ![a] = Wallet(keys + 1)] ELSE agent
        /\ Answer(r) /\ UNCHANGED onboarded
    BY <1>23 DEF GenerateKeys
  <2>4. \A b \in Agents \ {a} : agent'[b] = agent[b]
    BY <1>0, <2>3 DEF AgentTypes
  <2>5. There(a)' <=> There(a)
    BY <1>0, <2>2, <2>3 DEF There, AgentTypes, Wallet, Row
  <2>6. ASSUME a \notin mixed, There(a)
        PROVE  agent'[a] = Wallet(keys + 1) /\ keys + 1 # Pending /\ onboarded[a] = {}
    <3>1. OneWallet(a) /\ agent[a].key = Pending
      BY <1>21, <2>1, <2>2, <2>6 DEF OneWallet
    <3>2. \A k \in onboarded[a] : agent[a] # Wallet(k)
      BY <1>21, <2>2, <2>6, <3>1 DEF Wallet, Row, Pending
    <3>3. \A q \in Requests : For(q, a) => req[q].kind # "agentKeys"
      BY <1>21, <2>1, <2>2, <2>6
    <3>4. onboarded[a] = {}
      BY <3>1, <3>2, <3>3 DEF OneWallet, Funded
    <3>. QED
      BY <1>0, <2>2, <2>3, <2>6, <3>4 DEF AgentTypes, Pending
  <2>7. ASSUME a \notin mixed, There(a)'
        PROVE  /\ agent'[a].address # Pending
               /\ Complete(a)' => agent'[a].address = agent'[a].key
               /\ \A k \in onboarded[a] : agent'[a] = Wallet(k)
    BY <2>5, <2>6, <2>7 DEF Wallet, Row
  <2>. QED
    BY <1>20, <2>2, <2>3, <2>4, <2>5, <2>7
<1>24. CASE StoreResult(r)
  <2>. PICK a : a = req[r].agent
    OBVIOUS
  <2>1. For(r, a) /\ a \in Agents /\ req[r].pair \in 1..keys /\ req[r].kind = "walletResult"
    BY <1>0, <1>24 DEF StoreResult, At, WalletLocals, For, WalletKinds
  <2>2. PICK row : row = Row(req[r].pair, IF req[r].public = Pending THEN req[r].pair ELSE agent[a].public,
                             IF req[r].sealed THEN req[r].pair ELSE agent[a].key)
    OBVIOUS
  <2>3. /\ agent' = IF There(a) THEN [agent EXCEPT ![a] = row] ELSE agent
        /\ Answer(r) /\ UNCHANGED onboarded
    BY <1>0, <1>24, <2>1, <2>2 DEF StoreResult, AgentTypes
  <2>4. \A b \in Agents \ {a} : agent'[b] = agent[b]
    BY <1>0, <2>3 DEF AgentTypes
  <2>5. There(a)' <=> There(a)
    BY <1>0, <2>1, <2>2, <2>3 DEF There, AgentTypes, Row
  <2>6. ASSUME a \notin mixed, There(a)
        PROVE  agent'[a] = row /\ agent[a].key = Pending /\ onboarded[a] = {}
    <3>1. OneWallet(a) /\ agent[a].address = Pending /\ agent[a].key = Pending
      BY <1>21, <2>1, <2>6 DEF OneWallet
    <3>2. \A q \in Requests : For(q, a) => req[q].kind # "agentKeys"
      BY <1>21, <2>1, <2>6
    <3>3. onboarded[a] = {}
      BY <3>1, <3>2 DEF OneWallet, Funded
    <3>. QED
      BY <1>0, <2>1, <2>3, <2>6, <3>1, <3>3 DEF AgentTypes
  <2>7. ASSUME a \notin mixed, There(a)'
        PROVE  /\ agent'[a].address # Pending
               /\ Complete(a)' => agent'[a].address = agent'[a].key
               /\ \A k \in onboarded[a] : agent'[a] = Wallet(k)
    BY <1>0, <2>1, <2>2, <2>5, <2>6, <2>7 DEF Row, Complete, Pending
  <2>. QED
    BY <1>20, <2>1, <2>3, <2>4, <2>5, <2>7
<1>25. CASE StoreKeys(r)
  <2>. PICK a : a = req[r].agent
    OBVIOUS
  <2>1. /\ For(r, a) /\ a \in Agents /\ req[r].pair \in 1..keys
        /\ req[r].kind = "agentKeys" /\ There(a)
    BY <1>0, <1>25 DEF StoreKeys, At, WalletLocals, For, WalletKinds
  <2>2. agent' = [agent EXCEPT ![a] = Wallet(req[r].pair)] /\ Answer(r) /\ UNCHANGED onboarded
    BY <1>25 DEF StoreKeys
  <2>3. agent'[a] = Wallet(req[r].pair) /\ \A b \in Agents \ {a} : agent'[b] = agent[b]
    BY <1>0, <2>1, <2>2 DEF AgentTypes
  <2>4. There(a)'
    BY <2>3 DEF There, Wallet, Row
  <2>5. ASSUME a \notin mixed
        PROVE  onboarded[a] \subseteq {req[r].pair}
    <3>1. OneWallet(a) /\ agent[a].address = Pending
      BY <1>21, <2>1, <2>5 DEF OneWallet
    <3>. QED
      BY <1>21, <2>1, <2>5, <3>1 DEF OneWallet, Funded
  <2>6. ASSUME a \notin mixed
        PROVE  /\ agent'[a].address # Pending
               /\ Complete(a)' => agent'[a].address = agent'[a].key
               /\ \A k \in onboarded[a] : agent'[a] = Wallet(k)
    BY <1>0, <2>1, <2>3, <2>5, <2>6 DEF Wallet, Row, Pending
  <2>. QED
    BY <1>20, <2>1, <2>2, <2>3, <2>4, <2>6
<1>26. CASE Onboard(r)
  <2>. PICK a : a = req[r].agent
    OBVIOUS
  <2>1. /\ For(r, a) /\ a \in Agents /\ "pair" \in DOMAIN req[r]
        /\ req[r].kind = "agentKeys" /\ req[r].at = "onboard"
    BY <1>0, <1>26 DEF Onboard, At, WalletLocals, For, WalletKinds
  <2>2. Goto(r, "store") /\ UNCHANGED agent
    BY <1>26 DEF Onboard
  <2>3. /\ req'[r].kind = "agentKeys" /\ req'[r].at = "store" /\ req'[r].pair = req[r].pair
        /\ \A b : For(r, b)' <=> For(r, b)
    BY <2>1, <2>2, Goes DEF For, HasAgent
  <2>4. onboarded' = onboarded \/ onboarded' = [onboarded EXCEPT ![a] = @ \union {req[r].pair}]
    BY <1>26 DEF Onboard
  <2>5. /\ \A b \in Agents \ {a} : onboarded'[b] = onboarded[b]
        /\ onboarded'[a] \subseteq onboarded[a] \union {req[r].pair}
    BY <1>0, <2>1, <2>4 DEF HistoryTypes
  <2>6. \A b \in Agents \ mixed' : b # a => AgentOK(b)'
    <3>1. \A b : b # a => ~For(r, b) /\ ~For(r, b)'
      BY <2>1, <2>3 DEF For
    <3>. QED
      BY <1>1, <2>2, <2>5, <3>1
  <2>7. ASSUME a \notin mixed'
        PROVE  AgentOK(a)'
    <3>1. \A q \in Requests : For(q, a)' <=> For(q, a)
      <4>1. \A q \in Requests \ {r} : For(q, a)' <=> For(q, a)
        BY <1>0 DEF For, HasAgent
      <4>. QED
        BY <2>3, <4>1
    <3>2. \A p, q \in Requests : For(p, a)' /\ For(q, a)' => p = q
      <4>1. \A p, q \in Requests : For(p, a) /\ For(q, a) => p = q
        BY <2>1, <2>7 DEF AgentInv, AgentOK
      <4>. QED
        BY <3>1, <4>1
    <3>3. ASSUME There(a)
          PROVE  OneWallet(a)'
      <4>1. OneWallet(a) /\ \A q \in Requests : For(q, a) => q = r
        BY <1>21, <2>1, <2>7, <3>3
      <4>2. agent[a].address = Pending /\ agent[a].key = Pending
        BY <2>1, <4>1 DEF OneWallet
      <4>3. onboarded[a] = {}
        BY <2>1, <4>1, <4>2 DEF OneWallet, Funded
      <4>4. Funded(a)'
        <5>1. For(r, a)' /\ onboarded'[a] \subseteq {req'[r].pair}
          BY <2>1, <2>3, <2>5, <4>3
        <5>. QED
          BY <2>2, <2>3, <4>2, <5>1 DEF Funded, Pending, Requests
      <4>. QED
        BY <2>2, <4>2, <4>4 DEF OneWallet, Complete, Pending
    <3>. QED
      BY <2>2, <3>2, <3>3 DEF AgentOK, There
  <2>. QED
    BY <2>6, <2>7 DEF AgentInv
<1>27. CASE FindUser(r) \/ CreateUser(r)
  <2>1. UNCHANGED <<agent, onboarded>> /\ req[r].kind = "claim" /\ req[r].at \in {"find", "user"}
    BY <1>27 DEF FindUser, CreateUser, At
  <2>2. \A a : ~For(r, a)
    BY <1>0, <2>1 DEF WalletLocals, WalletKinds, For
  <2>3. \A a : ~For(r, a)'
    <3>1. Answer(r) \/ Goto(r, "insert") \/ Goto(r, "user")
      BY <1>27 DEF FindUser, CreateUser
    <3>2. ASSUME NEW at, Goto(r, at) PROVE \A a : ~For(r, a)'
      BY <2>2, <3>2, Goes DEF For, HasAgent
    <3>. QED
      BY <1>2, <3>1, <3>2
  <2>4. \A a \in Agents \ mixed' : AgentOK(a)'
    BY <1>1, <2>1, <2>2, <2>3
  <2>. QED
    BY <2>4 DEF AgentInv
<1>28. CASE MarkClaimed(r) \/ WalletFails(r)
  <2>1. UNCHANGED <<agent, onboarded>> /\ Answer(r) /\ req[r].kind # "agentKeys"
    BY <1>28 DEF MarkClaimed, WalletFails, Rejects, At
  <2>2. \A a \in Agents \ mixed' : AgentOK(a)'
    BY <1>1, <1>2, <2>1
  <2>. QED
    BY <2>2 DEF AgentInv
<1>29. CASE InsertAgent(r)
  <2>. PICK x : x = req[r]
    OBVIOUS
  <2>. DEFINE fresh == {a \in Agents : agent[a].status = "none"}
  <2>. PICK a : a = CHOOSE b \in fresh : TRUE
    OBVIOUS
  <2>1. /\ x.kind \in {"create", "register", "claim"} /\ x.at = "insert"
        /\ a \in Agents /\ agent[a].status = "none" /\ UNCHANGED onboarded
    BY <1>29 DEF InsertAgent
  <2>2. WalletLocals(x) /\ x.row \in AgentRows({"there"}) /\ \A b : ~For(r, b)
    BY <1>0, <2>1 DEF WalletLocals, WalletKinds, For
  <2>3. CASE Answer(r) /\ UNCHANGED agent
    <3>1. \A b \in Agents \ mixed' : AgentOK(b)'
      BY <1>1, <1>2, <2>1, <2>2, <2>3
    <3>. QED
      BY <3>1 DEF AgentInv
  <2>4. CASE ~(x.kind = "register" /\ x.user \in users)
    <3>1. /\ agent' = [agent EXCEPT ![a] = x.row]
          /\ mixed' = IF x.kind = "create" /\ x.row.key # Pending THEN mixed \union {a} ELSE mixed
          /\ IF AfterInsert(x) = "done" THEN Answer(r)
             ELSE Become(r, With(x, [at |-> AfterInsert(x), agent |-> a]))
      BY <1>29, <2>4 DEF InsertAgent
    <3>2. agent'[a] = x.row /\ \A b \in Agents \ {a} : agent'[b] = agent[b]
      BY <1>0, <2>1, <3>1 DEF AgentTypes
    <3>3. /\ \A b : For(r, b)' => b = a
          /\ For(r, a)' => /\ req'[r].kind = x.kind
                           /\ req'[r].at = "generate" => x.kind = "create"
      <4>1. CASE Answer(r)
        BY <1>2, <4>1
      <4>2. ASSUME NEW at, at = AfterInsert(x), at # "done", Become(r, With(x, [at |-> at, agent |-> a]))
            PROVE  /\ req'[r].kind = x.kind /\ req'[r].agent = a
                   /\ req'[r].at = "generate" => x.kind = "create"
        <5>1. at = "generate" => x.kind = "create"
          BY <2>1, <4>2 DEF AfterInsert
        <5>2. PICK l : l = [at |-> at, agent |-> a]
          OBVIOUS
        <5>3. PICK y : y = With(x, l)
          OBVIOUS
        <5>4. DOMAIN l = {"at", "agent"} /\ l.at = at /\ l.agent = a
          BY <5>2
        <5>5. "kind" \in DOMAIN x
          BY <1>0 DEF Placed
        <5>6. y.kind = x.kind /\ y.at = at /\ y.agent = a
          BY <5>3, <5>4, <5>5 DEF With
        <5>. QED
          BY <1>4, <4>2, <5>1, <5>2, <5>3, <5>6
      <4>. QED
        BY <3>1, <4>1, <4>2 DEF For
    <3>4. \A b \in Agents \ mixed' : b # a => AgentOK(b)'
      BY <1>1, <2>1, <2>2, <3>2, <3>3
    <3>5. ASSUME a \notin mixed'
          PROVE  AgentOK(a)'
      <4>1. \A q \in Requests : ~For(q, a)
        BY <2>1 DEF WalletTypes, WalletLocals, For
      <4>2. \A q \in Requests : For(q, a)' => q = r
        <5>1. \A q \in Requests \ {r} : ~For(q, a)'
          BY <1>0, <4>1 DEF For, HasAgent
        <5>. QED
          BY <5>1
      <4>3. onboarded'[a] = {}
        BY <1>0, <2>1 DEF HistoryTypes
      <4>4. CASE x.kind = "create"
        <5>1. x.row.address = Pending /\ x.row.key = Pending
          BY <2>2, <3>1, <3>5, <4>4 DEF WalletLocals
        <5>2. For(r, a)' => req'[r].kind = "create"
          BY <3>3, <4>4
        <5>. QED
          BY <3>2, <4>2, <4>3, <5>1, <5>2 DEF AgentOK, OneWallet, Complete, Funded, Pending
      <4>5. CASE x.kind # "create"
        <5>1. x.row.address = x.row.key
          BY <2>1, <2>2, <4>5 DEF WalletLocals
        <5>2. For(r, a)' => req'[r].kind \in {"register", "claim"} /\ req'[r].at # "generate"
          BY <2>1, <3>3, <4>5
        <5>3. OneWallet(a)'
          BY <3>2, <4>2, <4>3, <5>1, <5>2 DEF OneWallet, Complete, Funded, Pending
        <5>. QED
          BY <4>2, <5>3 DEF AgentOK
      <4>. QED
        BY <4>4, <4>5
    <3>. QED
      BY <3>4, <3>5 DEF AgentInv
  <2>. QED
    BY <1>29, <2>3, <2>4 DEF InsertAgent
<1>. QED
  BY <1>10, <1>11, <1>12, <1>13, <1>14, <1>15, <1>16, <1>17, <1>18, <1>22, <1>23, <1>24, <1>25, <1>26, <1>27,
     <1>28, <1>29 DEF WalletMoves, WalletArrives, WalletStep

\* The same, for every step.
LEMMA AgentsKept ==
    ASSUME ReqOK, WalletTypes, AgentInv, [Next]_vars, ReqOK', WalletTypes', mixed \subseteq mixed'
    PROVE  AgentInv'
<1>1. ASSUME UNCHANGED <<agent, onboarded>>, NEW a \in Agents, a \notin mixed,
             \A q \in Requests : For(q, a) \/ For(q, a)' => req'[q] = req[q]
      PROVE  AgentOK(a)'
  <2>1. \A q \in Requests : For(q, a)' => For(q, a)
    BY <1>1 DEF For, HasAgent
  <2>2. AgentRests(a)
    BY <1>1, <2>1 DEF AgentRests
  <2>. QED
    BY <1>1, <2>2, RestingAgent DEF AgentInv
<1>2. CASE UNCHANGED walletVars /\ Undisturbed(WalletKinds)
  <2>1. ASSUME NEW a, NEW q \in Requests, For(q, a) \/ For(q, a)'
        PROVE  req'[q] = req[q]
    <3>1. For(q, a) => req[q].kind \in WalletKinds
      BY OnlyWalletKinds
    <3>2. For(q, a)' => req'[q].kind \in WalletKinds
      BY DEF ReqOK, Placed, For, HasAgent
    <3>. QED
      BY <1>2, <2>1, <3>1, <3>2 DEF Undisturbed
  <2>2. \A a \in Agents \ mixed' : AgentOK(a)'
    BY <1>1, <1>2, <2>1 DEF walletVars
  <2>. QED
    BY <2>2 DEF AgentInv
<1>3. CASE WalletStops /\ AllFree
  <2>1. \A q \in Requests : req'[q] = Free
    BY <1>3 DEF AllFree
  <2>2. \A q \in Requests : \A a : ~For(q, a)'
    BY <2>1 DEF For, HasAgent, Free
  <2>3. \A q \in Requests : \A a \in Agents \ mixed' : ~For(q, a)
    BY <1>3 DEF WalletStops, About, For, HasAgent
  <2>4. \A a \in Agents \ mixed' : AgentOK(a)'
    BY <1>1, <1>3, <2>2, <2>3 DEF WalletStops
  <2>. QED
    BY <2>4 DEF AgentInv
<1>. QED
  BY <1>2, <1>3, WalletFrame, WalletMovesAgents

\* An agent that has a key keeps its row, as long as it is there and not mixed.
KeysStay ==
    \A a \in Agents \ mixed' : agent[a].status # "none" /\ There(a)' =>
        There(a) /\ (agent'[a] = agent[a] \/ agent[a].key = Pending)

LEMMA RowsStay ==
    ASSUME ReqOK, WalletTypes, AgentInv, NEW r \in Requests, WalletMoves(r), mixed \subseteq mixed'
    PROVE  KeysStay
<1>0. AgentTypes /\ WalletLocals(req[r]) /\ Placed(req[r])
  BY DEF WalletTypes, ReqOK
<1>1. ASSUME agent' = agent
      PROVE  KeysStay
  BY <1>1 DEF KeysStay, There
<1>2. ASSUME NEW a \in Agents, \A b \in Agents \ {a} : agent'[b] = agent[b],
             a \notin mixed' /\ agent[a].status # "none" /\ There(a)' => There(a) /\ agent[a].key = Pending
      PROVE  KeysStay
  BY <1>2 DEF KeysStay, There
<1>3. ASSUME NEW a \in Agents, a \notin mixed, For(r, a), There(a)
      PROVE  OneWallet(a)
  BY <1>3 DEF AgentInv, AgentOK
<1>4. CASE CreateAgent(r) \/ Register(r) \/ CreateWallet(r) \/ WalletResult(r) \/ AgentKeys(r)
           \/ RegisterSdkAgent(r) \/ Claim(r)
  BY <1>1, <1>4 DEF CreateAgent, Register, CreateWallet, WalletResult, AgentKeys, RegisterSdkAgent, Claim
<1>5. CASE AskCRE(r) \/ Onboard(r) \/ FindUser(r) \/ CreateUser(r) \/ MarkClaimed(r) \/ WalletFails(r)
  BY <1>1, <1>5 DEF AskCRE, Onboard, FindUser, CreateUser, MarkClaimed, WalletFails
<1>6. CASE PatchAgent(r)
  <2>1. PICK a \in Agents : agent' = [agent EXCEPT ![a].key = keys + 1] /\ mixed' = mixed \union {a}
    BY <1>6 DEF PatchAgent
  <2>. QED
    BY <1>0, <1>2, <2>1 DEF AgentTypes
<1>7. CASE DeleteAgent(r)
  <2>1. PICK a \in Agents : agent' = [agent EXCEPT ![a] = [NoAgent EXCEPT !.status = "gone"]]
    BY <1>7 DEF DeleteAgent
  <2>2. ~There(a)' /\ \A b \in Agents \ {a} : agent'[b] = agent[b]
    BY <1>0, <2>1 DEF AgentTypes, There, NoAgent
  <2>. QED
    BY <1>2, <2>2
<1>8. CASE InsertAgent(r)
  <2>. DEFINE fresh == {a \in Agents : agent[a].status = "none"}
  <2>1. PICK a \in Agents : agent[a].status = "none" /\ (agent' = agent \/ agent' = [agent EXCEPT ![a] = req[r].row])
    BY <1>8 DEF InsertAgent
  <2>. QED
    BY <1>0, <1>1, <1>2, <2>1 DEF AgentTypes
<1>9. CASE GenerateKeys(r)
  <2>. PICK a : a = req[r].agent
    OBVIOUS
  <2>1. req[r].kind \in {"create", "createWallet"} /\ req[r].at = "generate"
    BY <1>0, <1>9 DEF GenerateKeys, Placed, Place, Idle, WalletPlace, LedgerPlace, PricingPlace,
                      SettlementPlace, TradePlace
  <2>2. For(r, a) /\ a \in Agents
    BY <1>0, <2>1 DEF WalletLocals, For, WalletKinds
  <2>3. a \notin mixed /\ There(a) => agent[a].key = Pending
    BY <1>3, <2>1, <2>2 DEF OneWallet
  <2>4. agent' = IF There(a) THEN [agent EXCEPT ![a] = Wallet(keys + 1)] ELSE agent
    BY <1>9 DEF GenerateKeys
  <2>5. CASE ~There(a)
    BY <1>1, <2>4, <2>5
  <2>6. CASE There(a)
    BY <1>0, <1>2, <2>2, <2>3, <2>4, <2>6 DEF AgentTypes
  <2>. QED
    BY <2>5, <2>6
<1>10. CASE StoreResult(r)
  <2>. PICK a : a = req[r].agent
    OBVIOUS
  <2>1. For(r, a) /\ a \in Agents /\ req[r].kind = "walletResult"
    BY <1>0, <1>10 DEF StoreResult, At, WalletLocals, For, WalletKinds
  <2>2. a \notin mixed /\ There(a) => agent[a].key = Pending
    BY <1>3, <2>1 DEF OneWallet
  <2>3. CASE ~There(a)
    BY <1>1, <1>10, <2>3 DEF StoreResult
  <2>4. CASE There(a)
    <3>1. \A b \in Agents \ {a} : agent'[b] = agent[b]
      BY <1>0, <1>10, <2>1, <2>4 DEF StoreResult, AgentTypes
    <3>. QED
      BY <1>2, <2>1, <2>2, <2>4, <3>1
  <2>. QED
    BY <2>3, <2>4
<1>11. CASE StoreKeys(r)
  <2>. PICK a : a = req[r].agent
    OBVIOUS
  <2>1. For(r, a) /\ a \in Agents /\ req[r].kind = "agentKeys"
    BY <1>0, <1>11 DEF StoreKeys, At, WalletLocals, For, WalletKinds
  <2>2. a \notin mixed /\ There(a) => agent[a].key = Pending
    BY <1>3, <2>1 DEF OneWallet
  <2>3. There(a) /\ agent' = [agent EXCEPT ![a] = Wallet(req[r].pair)]
    BY <1>11 DEF StoreKeys
  <2>. QED
    BY <1>0, <1>2, <2>1, <2>2, <2>3 DEF AgentTypes
<1>. QED
  BY <1>4, <1>5, <1>6, <1>7, <1>8, <1>9, <1>10, <1>11 DEF WalletMoves, WalletArrives, WalletStep

\* A step that does not touch a registration and its claim.
RegRests(g) ==
    /\ reg'[g] = reg[g] /\ claimants'[g] = claimants[g]
    /\ \A q \in Requests :
          /\ Claiming(q, g)' => Claiming(q, g) /\ (HasAgent(req'[q]) => HasAgent(req[q]))
          /\ Claiming(q, g) /\ HasAgent(req[q]) =>
                Claiming(q, g)' /\ HasAgent(req'[q]) /\ req'[q].agent = req[q].agent

LEMMA RestingReg ==
    ASSUME WalletTypes, KeysStay, mixed \subseteq mixed', NEW g \in Regs, ClaimOK(g), RegRests(g)
    PROVE  ClaimOK(g)'
<1>1. \A p, q \in Requests : Claiming(p, g)' /\ Claiming(q, g)' => p = q
  BY DEF ClaimOK, RegRests
<1>2. ASSUME reg[g].status = "CLAIMED"
      PROVE  (\E a \in Agents : claimants'[g] = {a}) /\ \A q \in Requests : ~Claiming(q, g)'
  BY <1>2 DEF ClaimOK, RegRests
<1>3. ASSUME reg[g].status # "CLAIMED"
      PROVE  \/ claimants'[g] = {} /\ \A q \in Requests : Claiming(q, g)' => ~HasAgent(req'[q])
             \/ \E q \in Requests :
                   Claiming(q, g)' /\ HasAgent(req'[q]) /\ claimants'[g] = {req'[q].agent}
  <2>1. CASE claimants[g] = {} /\ \A q \in Requests : Claiming(q, g) => ~HasAgent(req[q])
    BY <2>1 DEF RegRests
  <2>2. CASE \E q \in Requests : Claiming(q, g) /\ HasAgent(req[q]) /\ claimants[g] = {req[q].agent}
    BY <2>2 DEF RegRests
  <2>. QED
    BY <1>3, <2>1, <2>2 DEF ClaimOK
<1>4. ASSUME NEW a \in claimants[g] \ mixed', There(a)', reg[g].key # Pending
      PROVE  agent'[a] = Wallet(reg[g].key)
  <2>1. a \in Agents /\ agent[a].status # "none"
    BY DEF WalletTypes, HistoryTypes
  <2>2. There(a) /\ (agent'[a] = agent[a] \/ agent[a].key = Pending)
    BY <1>4, <2>1 DEF KeysStay
  <2>3. agent[a] = Wallet(reg[g].key)
    BY <1>4, <2>2 DEF ClaimOK
  <2>. QED
    BY <1>4, <2>2, <2>3 DEF Wallet, Row
<1>5. reg'[g] = reg[g] /\ claimants'[g] = claimants[g]
  BY DEF RegRests
<1>. QED
  BY <1>1, <1>2, <1>3, <1>4, <1>5 DEF ClaimOK, Wallet, Row, Pending, HasAgent, Requests

\* The handlers of agents and wallets leave a registration with one agent at most.
LEMMA WalletMovesClaims ==
    ASSUME ReqOK, WalletTypes, ClaimInv, NEW r \in Requests, WalletMoves(r), Turn(r, WalletKinds),
           ReqOK', WalletTypes', mixed \subseteq mixed', KeysStay
    PROVE  ClaimInv'
<1>0. /\ RegTypes /\ HistoryTypes /\ WalletLocals(req[r]) /\ WalletLocals(req[r])' /\ Placed(req[r])
      /\ \A q \in Requests \ {r} : req'[q] = req[q]
  BY DEF WalletTypes, ReqOK, Turn
<1>1. ASSUME NEW g \in Regs, g \notin mixed, reg'[g] = reg[g], claimants'[g] = claimants[g],
             Claiming(r, g)' => Claiming(r, g) /\ (HasAgent(req'[r]) => HasAgent(req[r])),
             Claiming(r, g) /\ HasAgent(req[r]) =>
                Claiming(r, g)' /\ HasAgent(req'[r]) /\ req'[r].agent = req[r].agent
      PROVE  ClaimOK(g)'
  <2>1. \A q \in Requests \ {r} : Claiming(q, g)' <=> Claiming(q, g)
    BY <1>0 DEF Claiming, HasReg
  <2>2. RegRests(g)
    BY <1>0, <1>1, <2>1 DEF RegRests
  <2>. QED
    BY <1>1, <2>2, RestingReg DEF ClaimInv
<1>2. req[r].kind # "claim" => \A g : ~Claiming(r, g)
  BY <1>0 DEF WalletLocals, Claiming
<1>3. req'[r].kind # "claim" => \A g : ~Claiming(r, g)'
  BY <1>0 DEF WalletLocals, Claiming, HasReg
<1>4. ASSUME NEW y, Become(r, y)
      PROVE  req'[r] = y
  BY <1>4, Assigned DEF Become
<1>5. ASSUME Answer(r)
      PROVE  req'[r].kind # "claim" /\ req'[r] = Free
  BY <1>5, Answers
<1>6. ASSUME UNCHANGED <<reg, claimants>>, req[r].kind # "claim", req'[r].kind # "claim"
      PROVE  ClaimInv'
  <2>1. \A g \in Regs \ mixed' : ClaimOK(g)'
    BY <1>1, <1>2, <1>3, <1>6
  <2>. QED
    BY <2>1 DEF ClaimInv
<1>10. CASE CreateAgent(r)
  <2>1. PICK public, key :
            Become(r, [kind |-> "create", at |-> "insert", row |-> Row(Pending, public, key)])
    BY <1>10 DEF CreateAgent
  <2>2. req'[r].kind = "create" /\ req[r].kind = "none"
    BY <1>4, <1>10, <2>1, ArrivesFree DEF CreateAgent
  <2>. QED
    BY <1>6, <1>10, <2>2 DEF CreateAgent
<1>11. CASE Register(r)
  <2>1. Answer(r) \/ \E u, w : Become(r, [kind |-> "register", at |-> "insert", user |-> u, row |-> w])
    BY <1>11 DEF Register
  <2>2. ASSUME NEW u, NEW w, Become(r, [kind |-> "register", at |-> "insert", user |-> u, row |-> w])
        PROVE  req'[r].kind = "register"
    BY <1>4, <2>2
  <2>3. req'[r].kind # "claim" /\ req[r].kind = "none"
    BY <1>5, <1>11, <2>1, <2>2, ArrivesFree DEF Register
  <2>. QED
    BY <1>6, <1>11, <2>3 DEF Register
<1>12. CASE CreateWallet(r)
  <2>1. Answer(r) \/ \E a, at : Become(r, [kind |-> "createWallet", agent |-> a, at |-> at])
    BY <1>12 DEF CreateWallet
  <2>2. ASSUME NEW a, NEW at, Become(r, [kind |-> "createWallet", agent |-> a, at |-> at])
        PROVE  req'[r].kind = "createWallet"
    BY <1>4, <2>2
  <2>3. req'[r].kind # "claim" /\ req[r].kind = "none"
    BY <1>5, <1>12, <2>1, <2>2, ArrivesFree DEF CreateWallet
  <2>. QED
    BY <1>6, <1>12, <2>3 DEF CreateWallet
<1>13. CASE WalletResult(r)
  <2>1. Answer(r) \/ \E a, k, s, p : Become(r, [kind |-> "walletResult", at |-> "store", agent |-> a,
                                                pair |-> k, sealed |-> s, public |-> p])
    BY <1>13 DEF WalletResult
  <2>2. ASSUME NEW a, NEW k, NEW s, NEW p, Become(r, [kind |-> "walletResult", at |-> "store", agent |-> a,
                                                pair |-> k, sealed |-> s, public |-> p])
        PROVE  req'[r].kind = "walletResult"
    BY <1>4, <2>2
  <2>3. req'[r].kind # "claim" /\ req[r].kind = "none"
    BY <1>5, <1>13, <2>1, <2>2, ArrivesFree DEF WalletResult
  <2>. QED
    BY <1>6, <1>13, <2>3 DEF WalletResult
<1>14. CASE AgentKeys(r)
  <2>1. Answer(r) \/ \E a, k : Become(r, [kind |-> "agentKeys", at |-> "onboard", agent |-> a, pair |-> k])
    BY <1>14 DEF AgentKeys
  <2>2. ASSUME NEW a, NEW k, Become(r, [kind |-> "agentKeys", at |-> "onboard", agent |-> a, pair |-> k])
        PROVE  req'[r].kind = "agentKeys"
    BY <1>4, <2>2
  <2>3. req'[r].kind # "claim" /\ req[r].kind = "none"
    BY <1>5, <1>14, <2>1, <2>2, ArrivesFree DEF AgentKeys
  <2>. QED
    BY <1>6, <1>14, <2>3 DEF AgentKeys
<1>15. CASE PatchAgent(r) \/ DeleteAgent(r)
  BY <1>5, <1>6, <1>15, ArrivesFree DEF PatchAgent, DeleteAgent
<1>16. CASE GenerateKeys(r)
  <2>1. req[r].kind # "claim"
    BY <1>0, <1>16 DEF GenerateKeys, Placed, Place, Idle, WalletPlace, LedgerPlace, PricingPlace,
                      SettlementPlace, TradePlace
  <2>. QED
    BY <1>5, <1>6, <1>16, <2>1 DEF GenerateKeys
<1>17. CASE StoreResult(r) \/ StoreKeys(r)
  BY <1>5, <1>6, <1>17 DEF StoreResult, StoreKeys, At
<1>18. CASE Onboard(r)
  BY <1>6, <1>18, Goes DEF Onboard, At
<1>19. CASE RegisterSdkAgent(r)
  <2>0. PICK g \in Regs : \E row : /\ reg[g].status = "none" /\ row.status = "UNCLAIMED"
                                  /\ reg' = [reg EXCEPT ![g] = row]
    <3>. DEFINE row == [NoReg EXCEPT !.status = "UNCLAIMED", !.key = IF cre THEN Pending ELSE keys + 1]
    <3>1. row.status = "UNCLAIMED"
      BY DEF NoReg
    <3>2. \E g \in Regs : reg[g].status = "none" /\ reg' = [reg EXCEPT ![g] = row]
      BY <1>19 DEF RegisterSdkAgent
    <3>. HIDE DEF row
    <3>. QED
      BY <3>1, <3>2
  <2>1. PICK row : /\ reg[g].status = "none" /\ row.status = "UNCLAIMED"
                   /\ reg' = [reg EXCEPT ![g] = row]
    BY <2>0
  <2>2. /\ claimants' = claimants /\ mixed' = mixed /\ Answer(r) /\ req[r].kind = "none"
    BY <1>19, ArrivesFree DEF RegisterSdkAgent
  <2>3. reg'[g].status = "UNCLAIMED" /\ \A h \in Regs \ {g} : reg'[h] = reg[h]
    BY <1>0, <2>1 DEF RegTypes
  <2>4. \A h \in Regs \ mixed' : h # g => ClaimOK(h)'
    BY <1>1, <1>2, <1>3, <1>5, <2>2, <2>3
  <2>5. ASSUME g \notin mixed'
        PROVE  ClaimOK(g)'
    <3>1. \A q \in Requests : ~Claiming(q, g)
      BY <2>1 DEF WalletTypes, WalletLocals, Claiming
    <3>2. \A q \in Requests : ~Claiming(q, g)'
      <4>1. \A q \in Requests \ {r} : ~Claiming(q, g)'
        BY <1>0, <3>1 DEF Claiming, HasReg
      <4>. QED
        BY <1>3, <1>5, <2>2, <4>1
    <3>3. claimants'[g] = {}
      <4>1. reg[g].status # "CLAIMED"
        BY <2>1
      <4>2. ClaimOK(g)
        BY <2>2, <2>5 DEF ClaimInv
      <4>. QED
        BY <2>2, <3>1, <4>1, <4>2 DEF ClaimOK
    <3>. QED
      BY <2>3, <3>2, <3>3 DEF ClaimOK
  <2>. QED
    BY <2>4, <2>5 DEF ClaimInv
<1>20. CASE Claim(r)
  <2>1. UNCHANGED <<reg, claimants>> /\ req[r].kind = "none"
    BY <1>20, ArrivesFree DEF Claim
  <2>2. \E g \in Regs, u \in Users :
          \/ Answer(r)
          \/ /\ reg[g].status = "UNCLAIMED" /\ Meets("reg", g)
             /\ Become(r, [kind |-> "claim", at |-> "find", reg |-> g, user |-> u, row |-> Wallet(reg[g].key)])
    BY <1>20 DEF Claim, MayClaim
  <2>3. ASSUME NEW g \in Regs, NEW u, reg[g].status = "UNCLAIMED", Meets("reg", g),
               Become(r, [kind |-> "claim", at |-> "find", reg |-> g, user |-> u, row |-> Wallet(reg[g].key)])
        PROVE  ClaimInv'
    <3>1. PICK y : y = [kind |-> "claim", at |-> "find", reg |-> g, user |-> u, row |-> Wallet(reg[g].key)]
      OBVIOUS
    <3>2. req'[r] = y
      BY <1>4, <2>3, <3>1
    <3>3. ~HasAgent(req'[r]) /\ \A h : Claiming(r, h)' => h = g
      BY <3>1, <3>2 DEF Claiming, HasReg, HasAgent
    <3>4. \A h \in Regs \ mixed' : h # g => ClaimOK(h)'
      BY <1>1, <1>2, <2>1, <3>3
    <3>5. ASSUME g \notin mixed'
          PROVE  ClaimOK(g)'
      <4>1. \A q \in Requests : ~Claiming(q, g)
        BY <2>3, <3>5 DEF Meets, Holding, Claiming, HasReg
      <4>2. \A q \in Requests : Claiming(q, g)' => q = r
        <5>1. \A q \in Requests \ {r} : ~Claiming(q, g)'
          BY <1>0, <4>1 DEF Claiming, HasReg
        <5>. QED
          BY <5>1
      <4>3. ClaimOK(g)
        BY <3>5 DEF ClaimInv
      <4>4. claimants'[g] = {} /\ reg'[g].status # "CLAIMED"
        BY <2>1, <2>3, <4>1, <4>3 DEF ClaimOK
      <4>5. \A q \in Requests : Claiming(q, g)' => ~HasAgent(req'[q])
        BY <3>3, <4>2
      <4>. QED
        BY <4>2, <4>4, <4>5 DEF ClaimOK, HasAgent
    <3>. QED
      BY <3>4, <3>5 DEF ClaimInv
  <2>. QED
    BY <1>5, <1>6, <2>1, <2>2, <2>3
<1>21. ASSUME req[r].kind = "claim"
       PROVE  /\ HasReg(req[r]) /\ req[r].reg \in Regs /\ \A g : Claiming(r, g) <=> g = req[r].reg
              /\ HasAgent(req[r]) <=> req[r].at \in {"ask", "mark"}
  <2>1. HasReg(req[r]) /\ req[r].reg \in Regs
    BY <1>0, <1>21 DEF WalletLocals
  <2>2. req[r].at \in {"find", "user", "insert", "ask", "mark"}
    BY <1>0, <1>21 DEF Placed, Place, Idle, WalletPlace, LedgerPlace, PricingPlace, SettlementPlace, TradePlace
  <2>3. HasAgent(req[r]) <=> req[r].at \in {"ask", "mark"}
    BY <1>0, <1>21, <2>2 DEF WalletLocals, WalletKinds
  <2>. QED
    BY <2>1, <2>3 DEF Claiming
<1>22. CASE FindUser(r) \/ CreateUser(r)
  <2>1. /\ UNCHANGED <<reg, claimants>> /\ req[r].kind = "claim" /\ req[r].at \in {"find", "user"}
        /\ Answer(r) \/ Goto(r, "insert") \/ Goto(r, "user")
    BY <1>22 DEF FindUser, CreateUser, At
  <2>2. ~HasAgent(req[r])
    BY <1>21, <2>1
  <2>3. ASSUME NEW at, Goto(r, at)
        PROVE  ~HasAgent(req'[r]) /\ \A g : Claiming(r, g)' => Claiming(r, g)
    BY <2>2, <2>3, Goes DEF HasAgent, HasReg, Claiming
  <2>4. ASSUME NEW g \in Regs \ mixed'
        PROVE  ClaimOK(g)'
    BY <1>1, <1>3, <1>5, <2>1, <2>2, <2>3
  <2>. QED
    BY <2>4 DEF ClaimInv
<1>23. CASE AskCRE(r)
  <2>1. UNCHANGED <<reg, claimants>>
    BY <1>23 DEF AskCRE
  <2>2. CASE req[r].kind # "claim"
    BY <1>5, <1>6, <1>23, <2>2 DEF AskCRE
  <2>3. CASE req[r].kind = "claim"
    <3>1. Goto(r, "mark") /\ HasAgent(req[r])
      BY <1>21, <1>23, <2>3 DEF AskCRE
    <3>2. /\ HasAgent(req'[r]) /\ req'[r].agent = req[r].agent
          /\ \A g : Claiming(r, g)' <=> Claiming(r, g)
      BY <3>1, Goes DEF HasAgent, HasReg, Claiming
    <3>3. ASSUME NEW g \in Regs \ mixed'
          PROVE  ClaimOK(g)'
      BY <1>1, <2>1, <3>1, <3>2
    <3>. QED
      BY <3>3 DEF ClaimInv
  <2>. QED
    BY <2>2, <2>3
<1>24. CASE MarkClaimed(r)
  <2>. PICK g : g = req[r].reg
    OBVIOUS
  <2>1. req[r].kind = "claim" /\ req[r].at = "mark" /\ Answer(r) /\ UNCHANGED claimants
    BY <1>24 DEF MarkClaimed, At
  <2>2. g \in Regs /\ HasAgent(req[r]) /\ \A h : Claiming(r, h) <=> h = g
    BY <1>21, <2>1
  <2>3. \A h : ~Claiming(r, h)'
    BY <1>3, <1>5, <2>1
  <2>4. PICK row : row = [reg[g] EXCEPT !.status = "CLAIMED"]
    OBVIOUS
  <2>5. \/ reg' = [reg EXCEPT ![g] = row]
        \/ reg' = reg /\ g \in mixed'
    BY <1>0, <1>24, <2>2, <2>4 DEF MarkClaimed, RegTypes
  <2>6. \A h \in Regs \ {g} : reg'[h] = reg[h]
    BY <1>0, <2>5 DEF RegTypes
  <2>7. \A h \in Regs \ mixed' : h # g => ClaimOK(h)'
    BY <1>1, <2>1, <2>2, <2>3, <2>6
  <2>8. ASSUME g \notin mixed'
        PROVE  ClaimOK(g)'
    <3>1. ClaimOK(g) /\ \A q \in Requests : Claiming(q, g) => q = r
      <4>1. ClaimOK(g)
        BY <2>2, <2>8 DEF ClaimInv
      <4>. QED
        BY <2>2, <4>1 DEF ClaimOK
    <3>2. \A q \in Requests : ~Claiming(q, g)'
      <4>1. \A q \in Requests \ {r} : ~Claiming(q, g)'
        BY <1>0, <3>1 DEF Claiming, HasReg
      <4>. QED
        BY <2>3, <4>1
    <3>3. reg'[g].status = "CLAIMED" /\ reg'[g].key = reg[g].key
      BY <1>0, <2>2, <2>4, <2>5, <2>8 DEF RegTypes
    <3>4. claimants[g] = {req[r].agent} /\ req[r].agent \in Agents
      <4>1. reg[g].status # "CLAIMED"
        BY <2>2, <3>1 DEF ClaimOK
      <4>2. claimants[g] = {req[r].agent}
        BY <2>2, <3>1, <4>1 DEF ClaimOK
      <4>. QED
        BY <1>0, <2>2, <4>2 DEF WalletLocals
    <3>5. ASSUME NEW a \in claimants[g] \ mixed', There(a)', reg[g].key # Pending
          PROVE  agent'[a] = Wallet(reg[g].key)
      <4>1. a \in Agents /\ agent[a].status # "none"
        BY <1>0, <2>2 DEF HistoryTypes
      <4>2. There(a) /\ (agent'[a] = agent[a] \/ agent[a].key = Pending)
        BY <3>5, <4>1 DEF KeysStay
      <4>3. agent[a] = Wallet(reg[g].key)
        BY <3>1, <3>5, <4>2 DEF ClaimOK
      <4>. QED
        BY <3>5, <4>2, <4>3 DEF Wallet, Row
    <3>. QED
      BY <2>1, <3>2, <3>3, <3>4, <3>5 DEF ClaimOK, Wallet, Row, Pending
  <2>. QED
    BY <2>7, <2>8 DEF ClaimInv
<1>25. CASE WalletFails(r)
  <2>1. UNCHANGED <<reg, claimants>> /\ Answer(r) /\ mixed' = mixed \union About({r})
    BY <1>25 DEF WalletFails, Rejects
  <2>2. \A g \in Regs \ mixed' : ~Claiming(r, g)
    BY <2>1 DEF About, Claiming, HasReg
  <2>3. \A g : ~Claiming(r, g)'
    BY <1>3, <1>5, <2>1
  <2>4. \A g \in Regs \ mixed' : ClaimOK(g)'
    BY <1>1, <2>1, <2>2, <2>3
  <2>. QED
    BY <2>4 DEF ClaimInv
<1>26. CASE InsertAgent(r)
  <2>. PICK x : x = req[r]
    OBVIOUS
  <2>. DEFINE fresh == {a \in Agents : agent[a].status = "none"}
  <2>. PICK a : a = CHOOSE b \in fresh : TRUE
    OBVIOUS
  <2>1. /\ x.kind \in {"create", "register", "claim"} /\ x.at = "insert"
        /\ a \in Agents /\ agent[a].status = "none" /\ UNCHANGED reg
    BY <1>26 DEF InsertAgent
  <2>2. WalletLocals(x) /\ x.row \in AgentRows({"there"}) /\ ~HasAgent(x)
    BY <1>0, <2>1 DEF WalletLocals, WalletKinds
  <2>3. CASE Answer(r) /\ UNCHANGED claimants
    <3>1. \A g \in Regs \ mixed' : ClaimOK(g)'
      BY <1>1, <1>3, <1>5, <2>1, <2>2, <2>3
    <3>. QED
      BY <3>1 DEF ClaimInv
  <2>4. CASE ~(x.kind = "register" /\ x.user \in users) /\ x.kind # "claim"
    <3>1. /\ claimants' = claimants
          /\ Answer(r) \/ Become(r, With(x, [at |-> AfterInsert(x), agent |-> a]))
      BY <1>26, <2>4 DEF InsertAgent
    <3>2. ASSUME Become(r, With(x, [at |-> AfterInsert(x), agent |-> a]))
          PROVE  req'[r].kind # "claim"
      <4>1. PICK l : l = [at |-> AfterInsert(x), agent |-> a]
        OBVIOUS
      <4>2. DOMAIN l = {"at", "agent"} /\ "kind" \in DOMAIN x
        BY <1>0, <4>1 DEF Placed
      <4>3. PICK y : y = With(x, l)
        OBVIOUS
      <4>4. y.kind = x.kind
        BY <4>2, <4>3 DEF With
      <4>. QED
        BY <1>4, <2>4, <3>2, <4>1, <4>3, <4>4
    <3>. QED
      BY <1>5, <1>6, <2>1, <2>4, <3>1, <3>2
  <2>5. CASE x.kind = "claim"
    <3>. PICK g : g = x.reg
      OBVIOUS
    <3>1. g \in Regs /\ \A h : Claiming(r, h) <=> h = g
      BY <1>21, <2>5
    <3>2. /\ agent' = [agent EXCEPT ![a] = x.row]
          /\ claimants' = [claimants EXCEPT ![g] = @ \union {a}]
          /\ IF AfterInsert(x) = "done" THEN Answer(r)
             ELSE Become(r, With(x, [at |-> AfterInsert(x), agent |-> a]))
      BY <1>26, <2>5 DEF InsertAgent
    <3>3. PICK at : at = AfterInsert(x)
      OBVIOUS
    <3>4. at \in {"ask", "mark"}
      BY <2>5, <3>3 DEF AfterInsert
    <3>5. PICK l : l = [at |-> at, agent |-> a]
      OBVIOUS
    <3>6. PICK y : y = With(x, l)
      OBVIOUS
    <3>7. req'[r] = y
      BY <1>4, <3>2, <3>3, <3>4, <3>5, <3>6
    <3>8. DOMAIN l = {"at", "agent"} /\ l.agent = a
      BY <3>5
    <3>9. HasAgent(y) /\ y.agent = a /\ HasReg(y) /\ y.reg = g
      BY <1>21, <2>5, <3>6, <3>8 DEF With, HasAgent, HasReg
    <3>10. \A h : Claiming(r, h)' <=> h = g
      BY <3>7, <3>9 DEF Claiming, HasReg
    <3>11. \A h \in Regs \ {g} : claimants'[h] = claimants[h]
      BY <1>0, <3>2 DEF HistoryTypes
    <3>12. claimants'[g] = claimants[g] \union {a}
      BY <1>0, <3>1, <3>2 DEF HistoryTypes
    <3>13. \A h \in Regs \ mixed' : h # g => ClaimOK(h)'
      BY <1>1, <2>1, <3>1, <3>10, <3>11
    <3>14. ASSUME g \notin mixed'
           PROVE  ClaimOK(g)'
      <4>1. ClaimOK(g) /\ \A q \in Requests : Claiming(q, g) => q = r
        <5>1. ClaimOK(g)
          BY <3>1, <3>14 DEF ClaimInv
        <5>. QED
          BY <3>1, <5>1 DEF ClaimOK
      <4>2. reg[g].status # "CLAIMED" /\ claimants[g] = {}
        BY <2>2, <3>1, <4>1 DEF ClaimOK
      <4>3. \A q \in Requests : Claiming(q, g)' => q = r
        <5>1. \A q \in Requests \ {r} : ~Claiming(q, g)'
          BY <1>0, <4>1 DEF Claiming, HasReg
        <5>. QED
          BY <5>1
      <4>4. claimants'[g] = {a}
        BY <3>12, <4>2
      <4>5. agent'[a] = Wallet(reg[g].key)
        <5>1. agent'[a] = x.row
          BY <2>1, <3>2 DEF WalletTypes, AgentTypes
        <5>2. x.row = Wallet(reg[g].key)
          BY <2>2, <2>5 DEF WalletLocals
        <5>. QED
          BY <5>1, <5>2
      <4>6. Claiming(r, g)' /\ HasAgent(req'[r]) /\ claimants'[g] = {req'[r].agent}
        BY <3>7, <3>9, <3>10, <4>4
      <4>. QED
        BY <2>1, <4>2, <4>3, <4>4, <4>5, <4>6 DEF ClaimOK, Wallet, Row, Pending, HasAgent
    <3>. QED
      BY <3>13, <3>14 DEF ClaimInv
  <2>. QED
    BY <1>26, <2>1, <2>3, <2>4, <2>5 DEF InsertAgent
<1>. QED
  BY <1>10, <1>11, <1>12, <1>13, <1>14, <1>15, <1>16, <1>17, <1>18, <1>19, <1>20, <1>22, <1>23, <1>24, <1>25,
     <1>26 DEF WalletMoves, WalletArrives, WalletStep

\* The same, for every step.
LEMMA ClaimsKept ==
    ASSUME ReqOK, WalletTypes, AgentInv, ClaimInv, [Next]_vars, ReqOK', WalletTypes', mixed \subseteq mixed'
    PROVE  ClaimInv'
<1>1. ASSUME UNCHANGED <<agent, reg, claimants>>, NEW g \in Regs, g \notin mixed,
             \A q \in Requests : Claiming(q, g) \/ Claiming(q, g)' => req'[q] = req[q]
      PROVE  ClaimOK(g)'
  <2>1. KeysStay
    BY <1>1 DEF KeysStay, There
  <2>2. \A q \in Requests : (Claiming(q, g)' => Claiming(q, g)) /\ (Claiming(q, g) => Claiming(q, g)')
    BY <1>1 DEF Claiming, HasReg
  <2>3. RegRests(g)
    BY <1>1, <2>2 DEF RegRests
  <2>. QED
    BY <1>1, <2>1, <2>3, RestingReg DEF ClaimInv
<1>2. CASE UNCHANGED walletVars /\ Undisturbed(WalletKinds)
  <2>1. ASSUME NEW g, NEW q \in Requests, Claiming(q, g) \/ Claiming(q, g)'
        PROVE  req'[q] = req[q]
    <3>1. Claiming(q, g) => req[q].kind \in WalletKinds
      BY DEF ReqOK, Placed, Claiming, HasReg
    <3>2. Claiming(q, g)' => req'[q].kind \in WalletKinds
      BY DEF ReqOK, Placed, Claiming, HasReg
    <3>. QED
      BY <1>2, <2>1, <3>1, <3>2 DEF Undisturbed
  <2>2. \A g \in Regs \ mixed' : ClaimOK(g)'
    BY <1>1, <1>2, <2>1 DEF walletVars
  <2>. QED
    BY <2>2 DEF ClaimInv
<1>3. CASE WalletStops /\ AllFree
  <2>1. \A q \in Requests : req'[q] = Free
    BY <1>3 DEF AllFree
  <2>2. \A q \in Requests : \A g : ~Claiming(q, g)'
    BY <2>1 DEF Claiming, HasReg, Free
  <2>3. \A q \in Requests : \A g \in Regs \ mixed' : ~Claiming(q, g)
    BY <1>3 DEF WalletStops, About, Claiming, HasReg
  <2>4. \A g \in Regs \ mixed' : ClaimOK(g)'
    BY <1>1, <1>3, <2>2, <2>3 DEF WalletStops
  <2>. QED
    BY <2>4 DEF ClaimInv
<1>. QED
  BY <1>2, <1>3, WalletFrame, WalletMovesClaims, RowsStay

\* Whoever is at work for agents and registrations, and for however many of them.
THEOREM WalletInvariant == Spec => []WalletInv
<1>1. Init => WalletInv
  <2>1. SUFFICES ASSUME Init PROVE WalletInv
    OBVIOUS
  <2>2. ReqOK
    BY <2>1, RequestsKeepTheirPlace
  <2>3. WalletInit /\ \A q \in Requests : req[q] = Free
    BY <2>1 DEF Init, HandlersInit
  <2>4. PICK start \in Begins(traffic) :
          /\ cre = start.cre
          /\ agent = [a \in Agents |-> IF a \in start.agents THEN Row(0, 0, 0) ELSE NoAgent]
          /\ asked = IF start.cre THEN start.agents ELSE {}
    BY <2>3 DEF WalletInit
  <2>5. start.cre \in BOOLEAN /\ start.agents \subseteq Agents
    BY <2>1, BeginsAssumption DEF Init, HandlersInit
  <2>6. /\ reg = [g \in Regs |-> NoReg] /\ users = {} /\ keys = 0 /\ mixed = {}
        /\ onboarded = [a \in Agents |-> {}] /\ claimants = [g \in Regs |-> {}]
    BY <2>3 DEF WalletInit
  <2>7. \A a \in Agents : agent[a] \in {Row(0, 0, 0), NoAgent}
    BY <2>4
  <2>8. AgentTypes
    <3>1. {Row(0, 0, 0), NoAgent} \subseteq AgentRows({"none", "there", "gone"})
      BY <2>6 DEF Row, NoAgent, AgentRows, Pending
    <3>2. \A a \in Agents : agent[a].key = Pending
      BY <2>7 DEF Row, NoAgent, Pending
    <3>3. agent \in [Agents -> AgentRows({"none", "there", "gone"})]
      BY <2>4, <2>7, <3>1
    <3>. QED
      BY <3>2, <3>3 DEF AgentTypes
  <2>9. RegTypes /\ SetTypes /\ HistoryTypes
    <3>1. RegTypes
      BY <2>6 DEF RegTypes, NoReg, Pending
    <3>2. SetTypes
      BY <2>4, <2>5, <2>6 DEF SetTypes
    <3>3. HistoryTypes
      BY <2>6 DEF HistoryTypes
    <3>. QED
      BY <3>1, <3>2, <3>3
  <2>10. \A q \in Requests : WalletLocals(req[q])
    <3>1. WalletLocals(Free)
      BY DEF WalletLocals, Free, HasAgent, HasReg, WalletKinds
    <3>. QED
      BY <2>3, <3>1
  <2>11. \A q \in Requests : ~HasAgent(req[q]) /\ ~HasReg(req[q])
    BY <2>3 DEF HasAgent, HasReg, Free
  <2>12. AgentInv
    <3>1. ASSUME NEW a \in Agents PROVE AgentOK(a)
      <4>1. agent[a].address = Pending /\ agent[a].key = Pending /\ onboarded[a] = {}
        BY <2>6, <2>7 DEF Row, NoAgent, Pending
      <4>. QED
        BY <2>11, <4>1 DEF AgentOK, OneWallet, Complete, Funded, For
    <3>. QED
      BY <3>1 DEF AgentInv
  <2>13. ClaimInv
    <3>1. ASSUME NEW g \in Regs PROVE ClaimOK(g)
      <4>1. reg[g].status = "none" /\ claimants[g] = {}
        BY <2>6 DEF NoReg
      <4>. QED
        BY <2>11, <4>1 DEF ClaimOK, Claiming
    <3>. QED
      BY <3>1 DEF ClaimInv
  <2>. QED
    BY <2>2, <2>8, <2>9, <2>10, <2>12, <2>13 DEF WalletInv, WalletTypes
<1>2. WalletInv /\ [Next]_vars => WalletInv'
  <2>1. SUFFICES ASSUME WalletInv, [Next]_vars PROVE WalletInv'
    OBVIOUS
  <2>2. ReqOK /\ WalletTypes /\ AgentInv /\ ClaimInv /\ ReqOK'
    BY <2>1, RequestsKeepTheirPlace DEF WalletInv
  <2>3. WalletTypes' /\ mixed \subseteq mixed'
    BY <2>1, <2>2, WalletTypesKept
  <2>4. AgentInv' /\ ClaimInv'
    BY <2>1, <2>2, <2>3, AgentsKept, ClaimsKept
  <2>. QED
    BY <2>2, <2>3, <2>4 DEF WalletInv
<1>. QED
  BY <1>1, <1>2, PTL DEF Spec

\* Money is with a key that is kept, an address is the one its key signs for, and a
\* registration has one agent when it is claimed and none before.
THEOREM WalletsAlwaysAgree == Spec => []WalletsAgree
<1>1. ASSUME WalletInv
      PROVE  WalletsAgree
  <2>0. ReqOK /\ WalletTypes /\ AgentInv /\ ClaimInv
    BY <1>1 DEF WalletInv
  <2>1. FundedWalletIsKept
    <3>1. ASSUME NEW a \in Agents \ mixed, There(a), Quiet(a), NEW k \in onboarded[a]
          PROVE  agent[a] = Wallet(k)
      <4>1. Funded(a)
        BY <2>0, <3>1 DEF AgentInv, AgentOK, OneWallet
      <4>2. \A q \in Requests : ~For(q, a)
        BY <3>1 DEF Quiet, Holding, For, HasAgent
      <4>. QED
        BY <3>1, <4>1, <4>2 DEF Funded
    <3>. QED
      BY <3>1 DEF FundedWalletIsKept
  <2>2. AddressHasItsKey
    BY <2>0 DEF AddressHasItsKey, AgentInv, AgentOK, OneWallet
  <2>3. ClaimsAgree
    <3>1. ASSUME NEW g \in Regs \ mixed
          PROVE  /\ Cardinality(claimants[g]) =
                       IF reg[g].status = "CLAIMED" THEN 1
                       ELSE Cardinality({r \in Holding("reg", g) : req[r].at \in {"ask", "mark"}})
                 /\ \A a \in claimants[g] \ mixed :
                       There(a) /\ reg[g].key # Pending => agent[a] = Wallet(reg[g].key)
      <4>. PICK S : S = {r \in Holding("reg", g) : req[r].at \in {"ask", "mark"}}
        OBVIOUS
      <4>0. ClaimOK(g)
        BY <2>0 DEF ClaimInv
      <4>1. \A q \in Requests : q \in S <=> Claiming(q, g) /\ HasAgent(req[q])
        <5>1. ASSUME NEW q \in Requests, Claiming(q, g)
              PROVE  HasAgent(req[q]) <=> req[q].at \in {"ask", "mark"}
          <6>1. WalletLocals(req[q]) /\ Placed(req[q]) /\ req[q].kind = "claim"
            BY <2>0, <5>1 DEF WalletTypes, ReqOK, WalletLocals, Claiming
          <6>2. req[q].at \in {"find", "user", "insert", "ask", "mark"}
            BY <6>1 DEF Placed, Place, Idle, WalletPlace, LedgerPlace, PricingPlace, SettlementPlace, TradePlace
          <6>. QED
            BY <6>1, <6>2 DEF WalletLocals, WalletKinds
        <5>. QED
          BY <5>1 DEF Holding, Claiming, HasReg
      <4>2. S \subseteq Requests
        BY DEF Holding
      <4>3. CASE reg[g].status = "CLAIMED"
        <5>1. PICK a \in Agents : claimants[g] = {a}
          BY <4>0, <4>3 DEF ClaimOK
        <5>2. Cardinality(claimants[g]) = 1
          BY <5>1, FS_Singleton
        <5>. QED
          BY <4>0, <4>3, <5>2 DEF ClaimOK
      <4>4. CASE reg[g].status # "CLAIMED"
        <5>1. CASE claimants[g] = {} /\ \A q \in Requests : Claiming(q, g) => ~HasAgent(req[q])
          <6>1. S = {}
            BY <4>1, <4>2, <5>1
          <6>. QED
            BY <4>0, <4>4, <5>1, <6>1 DEF ClaimOK
        <5>2. ASSUME NEW q \in Requests, Claiming(q, g), HasAgent(req[q]), claimants[g] = {req[q].agent}
              PROVE  Cardinality(claimants[g]) = Cardinality(S)
          <6>1. S = {q}
            BY <4>0, <4>1, <4>2, <5>2 DEF ClaimOK
          <6>. QED
            BY <5>2, <6>1, FS_Singleton
        <5>. QED
          BY <4>0, <4>4, <5>1, <5>2 DEF ClaimOK
      <4>. QED
        BY <4>3, <4>4
    <3>. QED
      BY <3>1 DEF ClaimsAgree
  <2>. QED
    BY <2>1, <2>2, <2>3 DEF WalletsAgree
<1>. QED
  BY <1>1, WalletInvariant, PTL

----------------------------------------------------------------------------
(* Rooms and quotes. *)

\* A step of the whole, as the rooms and the table of pending quotes see it.
RoomsMove ==
    \/ (Deliver \/ ConnectBinance \/ RoomStep) /\ UNCHANGED pricingVars
    \/ \E s \in Sockets : (SocketStep(s) \/ SocketTimer(s)) /\ UNCHANGED pricingVars
    \/ QuoteTimer

LEMMA QuotesFrame ==
    ASSUME ReqOK, [Next]_vars
    PROVE  \/ \E r \in Requests : PricingMoves(r) /\ Turn(r, PricingKinds)
           \/ RoomsMove /\ req' = req
           \/ UNCHANGED quotes /\ Undisturbed(PricingKinds)
           \/ RoomsStop /\ PricingStops /\ AllFree
<1>1. ASSUME UNCHANGED vars
      PROVE  UNCHANGED quotes /\ Undisturbed(PricingKinds)
  BY <1>1 DEF vars, quotes, handlerVars, Undisturbed
<1>2. CASE \E r \in Requests : WalletMoves(r) /\ UNCHANGED <<ledger, quotes, settle, trades>>
  BY <1>2, WalletTurn, OthersRest, KindsDiffer DEF WalletMoves
<1>3. CASE \E r \in Requests : LedgerMoves(r) /\ UNCHANGED <<wallet, quotes, settle, trades>>
  BY <1>3, LedgerTurn, OthersRest, KindsDiffer DEF LedgerMoves
<1>4. CASE \E r \in Requests : PricingMoves(r)
  BY <1>4, PricingTurn DEF PricingMoves
<1>5. CASE \E r \in Requests : SettlementMoves(r) /\ UNCHANGED <<wallet, ledger, quotes, trades>>
  BY <1>5, SettlementTurn, OthersRest, KindsDiffer DEF SettlementMoves
<1>6. CASE \E r \in Requests : TradesMove(r) /\ UNCHANGED <<wallet, ledger, quotes, settle>>
  BY <1>6, TradesTurn, OthersRest, KindsDiffer DEF TradesMove
<1>7. CASE ByItself
  <2>1. req' = req
    BY <1>7, NoneMoves
  <2>2. CASE Timers
    BY <2>1, <2>2 DEF Timers, RoomsMove, Undisturbed
  <2>3. CASE Outside
    BY <2>1, <2>3 DEF Outside, RoomsMove, Undisturbed
  <2>4. CASE \E s \in Sockets : Socket(s) \/ SocketBeats(s)
    BY <2>1, <2>4 DEF Socket, SocketBeats, RoomsMove
  <2>. QED
    BY <1>7, <2>2, <2>3, <2>4 DEF ByItself
<1>8. CASE ServerRestart
  BY <1>8 DEF ServerRestart, AllFree
<1>. QED
  BY <1>1, <1>2, <1>3, <1>4, <1>5, <1>6, <1>7, <1>8, OneMoves

\* Who is in a room knows of it, and is connected.
RoomsInv == RoomsTypeOK /\ socketToRooms \in [Sockets -> SUBSET Topics] /\ RoomsAgree

\* A quote on its way has an id; CRE has it when it is about to be pending.
PricingLocals(x) ==
    /\ x.kind = "quote" => "id" \in DOMAIN x /\ x.id \in Quotes
    /\ x.kind = "quote" /\ x.at = "track" => x.id \in DOMAIN sent

PricingInv == PricingTypeOK /\ \A q \in Requests : PricingLocals(req[q])

QuotesInv == ReqOK /\ RoomsInv /\ PricingInv

\* Only sockets that come, go or move between rooms change who is where.
LEMMA RoomsKept ==
    ASSUME QuotesInv, [Next]_vars
    PROVE  RoomsInv'
<1>0. /\ ReqOK /\ RoomsTypeOK /\ socketToRooms \in [Sockets -> SUBSET Topics] /\ RoomsAgree
  BY DEF QuotesInv, RoomsInv
<1>1. ASSUME UNCHANGED socketSame, feed' \in {"up", "down"}
      PROVE  RoomsInv'
  BY <1>0, <1>1 DEF socketSame, RoomsInv, RoomsTypeOK, RoomsAgree
<1>2. CASE \E r \in Requests : PricingMoves(r)
  <2>1. PICK r \in Requests : PricingMoves(r)
    BY <1>2
  <2>2. UNCHANGED socketSame /\ feed' = feed
    BY <2>1 DEF PricingMoves, PricingArrives, PricingStep, RequestPricing, FetchQuote, TrackQuote,
         PricingCallback, PublishQuote, PricingFails, roomVars, socketSame
  <2>. QED
    BY <1>0, <1>1, <2>2 DEF RoomsTypeOK
<1>3. CASE Deliver \/ ConnectBinance \/ RoomStep \/ QuoteTimer
  <2>1. UNCHANGED socketSame /\ feed' \in {feed, "up", "down"}
    BY <1>3 DEF Deliver, ConnectBinance, RoomStep, Announce, BroadcastPrice, FeedCloses, QuoteTimer,
         roomVars, socketSame
  <2>. QED
    BY <1>0, <1>1, <2>1 DEF RoomsTypeOK
<1>4. ASSUME NEW s \in Sockets, SocketStep(s) \/ SocketTimer(s)
      PROVE  RoomsInv'
  <2>0. feed' = feed
    BY <1>4 DEF SocketStep, SocketTimer, AddSocket, Subscribe, Unsubscribe, Pong, Leave, Heartbeat,
         RemoveSocket, busSame
  <2>1. ASSUME UNCHANGED <<rooms, socketToRooms>>, silent' \in [Sockets -> 0..3],
               conn' \in [Sockets -> {"none", "open", "lost", "closing", "closed"}],
               \A x \in Sockets : conn'[x] \in {"none", "closed"} => conn[x] \in {"none", "closed"}
        PROVE  RoomsInv'
    BY <1>0, <2>0, <2>1 DEF RoomsInv, RoomsTypeOK, RoomsAgree
  <2>2. CASE AddSocket(s)
    BY <1>0, <2>1, <2>2 DEF AddSocket, RoomsTypeOK
  <2>3. CASE Pong(s)
    BY <1>0, <2>1, <2>3 DEF Pong, RoomsTypeOK
  <2>4. CASE Leave(s)
    <3>1. PICK c \in {"closing", "lost"} : conn' = [conn EXCEPT ![s] = c]
      BY <2>4 DEF Leave
    <3>2. UNCHANGED <<silent, rooms, socketToRooms>>
      BY <2>4 DEF Leave
    <3>3. /\ conn' \in [Sockets -> {"none", "open", "lost", "closing", "closed"}]
          /\ \A x \in Sockets : conn'[x] \in {"none", "closed"} => conn[x] \in {"none", "closed"}
      BY <1>0, <3>1 DEF RoomsTypeOK
    <3>. QED
      BY <1>0, <2>1, <3>2, <3>3 DEF RoomsTypeOK
  <2>5. CASE Heartbeat(s)
    <3>1. \/ conn' = [conn EXCEPT ![s] = "closing"] /\ UNCHANGED silent
          \/ silent' = [silent EXCEPT ![s] = IF @ < 3 THEN @ + 1 ELSE @] /\ UNCHANGED conn
      BY <2>5 DEF Heartbeat
    <3>2. silent[s] \in 0..3 /\ (IF silent[s] < 3 THEN silent[s] + 1 ELSE silent[s]) \in 0..3
      BY <1>0 DEF RoomsTypeOK
    <3>3. silent' \in [Sockets -> 0..3]
      BY <1>0, <3>1, <3>2 DEF RoomsTypeOK
    <3>4. /\ conn' \in [Sockets -> {"none", "open", "lost", "closing", "closed"}]
          /\ \A x \in Sockets : conn'[x] \in {"none", "closed"} => conn[x] \in {"none", "closed"}
      BY <1>0, <3>1 DEF RoomsTypeOK
    <3>. QED
      BY <2>1, <2>5, <3>3, <3>4 DEF Heartbeat
  <2>6. CASE Subscribe(s)
    <3>1. PICK t \in Topics : /\ rooms' = [rooms EXCEPT ![t] = @ \union {s}]
                              /\ socketToRooms' = [socketToRooms EXCEPT ![s] = @ \union {t}]
      BY <2>6 DEF Subscribe
    <3>2. conn[s] = "open" /\ UNCHANGED <<conn, silent>>
      BY <2>6 DEF Subscribe
    <3>3. rooms' \in [Topics -> SUBSET Sockets] /\ socketToRooms' \in [Sockets -> SUBSET Topics]
      BY <1>0, <3>1 DEF RoomsTypeOK
    <3>4. \A x \in Sockets, u \in Topics : /\ x \in rooms'[u] <=> x \in rooms[u] \/ (u = t /\ x = s)
                                           /\ u \in socketToRooms'[x] <=> u \in socketToRooms[x] \/ (u = t /\ x = s)
      BY <1>0, <3>1 DEF RoomsTypeOK
    <3>5. ASSUME NEW x \in Sockets
          PROVE  /\ socketToRooms'[x] = {u \in Topics : x \in rooms'[u]}
                 /\ conn'[x] \in {"none", "closed"} => socketToRooms'[x] = {}
      <4>1. \A u \in Topics : u \in socketToRooms[x] <=> x \in rooms[u]
        BY <1>0 DEF RoomsAgree
      <4>2. socketToRooms'[x] = {u \in Topics : x \in rooms'[u]}
        BY <3>3, <3>4, <4>1
      <4>3. x # s => socketToRooms'[x] = socketToRooms[x]
        BY <1>0, <3>1
      <4>. QED
        BY <1>0, <3>2, <4>2, <4>3 DEF RoomsAgree
    <3>. QED
      BY <1>0, <2>0, <3>2, <3>3, <3>5 DEF RoomsInv, RoomsTypeOK, RoomsAgree
  <2>7. CASE Unsubscribe(s)
    <3>1. PICK t \in Topics : /\ rooms' = [rooms EXCEPT ![t] = @ \ {s}]
                              /\ socketToRooms' = [socketToRooms EXCEPT ![s] = @ \ {t}]
      BY <2>7 DEF Unsubscribe
    <3>2. UNCHANGED <<conn, silent>>
      BY <2>7 DEF Unsubscribe
    <3>3. rooms' \in [Topics -> SUBSET Sockets] /\ socketToRooms' \in [Sockets -> SUBSET Topics]
      BY <1>0, <3>1 DEF RoomsTypeOK
    <3>4. \A x \in Sockets, u \in Topics : /\ x \in rooms'[u] <=> x \in rooms[u] /\ ~(u = t /\ x = s)
                                           /\ u \in socketToRooms'[x] <=> u \in socketToRooms[x] /\ ~(u = t /\ x = s)
      BY <1>0, <3>1 DEF RoomsTypeOK
    <3>5. ASSUME NEW x \in Sockets
          PROVE  /\ socketToRooms'[x] = {u \in Topics : x \in rooms'[u]}
                 /\ conn'[x] \in {"none", "closed"} => socketToRooms'[x] = {}
      <4>1. \A u \in Topics : u \in socketToRooms[x] <=> x \in rooms[u]
        BY <1>0 DEF RoomsAgree
      <4>2. socketToRooms'[x] = {u \in Topics : x \in rooms'[u]}
        BY <3>3, <3>4, <4>1
      <4>3. socketToRooms'[x] \subseteq socketToRooms[x]
        BY <3>3, <3>4
      <4>. QED
        BY <1>0, <3>2, <4>2, <4>3 DEF RoomsAgree
    <3>. QED
      BY <1>0, <2>0, <3>2, <3>3, <3>5 DEF RoomsInv, RoomsTypeOK, RoomsAgree
  <2>8. CASE RemoveSocket(s)
    <3>1. /\ conn' = [conn EXCEPT ![s] = "closed"] /\ silent' = [silent EXCEPT ![s] = 0]
          /\ rooms' = [t \in Topics |-> IF t \in socketToRooms[s] THEN rooms[t] \ {s} ELSE rooms[t]]
          /\ socketToRooms' = [socketToRooms EXCEPT ![s] = {}]
      BY <2>8 DEF RemoveSocket, Emptied
    <3>2. /\ conn' \in [Sockets -> {"none", "open", "lost", "closing", "closed"}]
          /\ silent' \in [Sockets -> 0..3]
          /\ rooms' \in [Topics -> SUBSET Sockets] /\ socketToRooms' \in [Sockets -> SUBSET Topics]
      BY <1>0, <3>1 DEF RoomsTypeOK
    <3>3. \A u \in Topics : u \in socketToRooms[s] <=> s \in rooms[u]
      BY <1>0 DEF RoomsAgree
    <3>4. ASSUME NEW x \in Sockets
          PROVE  /\ socketToRooms'[x] = {u \in Topics : x \in rooms'[u]}
                 /\ conn'[x] \in {"none", "closed"} => socketToRooms'[x] = {}
      <4>1. CASE x = s
        <5>1. socketToRooms'[x] = {}
          BY <1>0, <3>1, <4>1
        <5>2. \A u \in Topics : x \notin rooms'[u]
          BY <3>1, <3>3, <4>1
        <5>. QED
          BY <5>1, <5>2
      <4>2. CASE x # s
        <5>1. socketToRooms'[x] = socketToRooms[x] /\ conn'[x] = conn[x]
          BY <1>0, <3>1, <4>2 DEF RoomsTypeOK
        <5>2. \A u \in Topics : x \in rooms'[u] <=> x \in rooms[u]
          BY <3>1, <4>2
        <5>3. /\ socketToRooms[x] = {u \in Topics : x \in rooms[u]}
              /\ conn[x] \in {"none", "closed"} => socketToRooms[x] = {}
          BY <1>0 DEF RoomsAgree
        <5>. QED
          BY <5>1, <5>2, <5>3
      <4>. QED
        BY <4>1, <4>2
    <3>. QED
      BY <1>0, <2>0, <3>2, <3>4 DEF RoomsInv, RoomsTypeOK, RoomsAgree
  <2>. QED
    BY <1>4, <2>2, <2>3, <2>4, <2>5, <2>6, <2>7, <2>8 DEF SocketStep, SocketTimer
<1>5. CASE UNCHANGED quotes
  <2>1. UNCHANGED socketSame /\ feed' = feed
    BY <1>5 DEF quotes, roomVars, socketSame
  <2>. QED
    BY <1>0, <1>1, <2>1 DEF RoomsTypeOK
<1>6. CASE RoomsStop
  <2>1. /\ conn' = [s \in Sockets |-> IF conn[s] = "none" THEN "none" ELSE "closed"]
        /\ silent' = [s \in Sockets |-> 0] /\ rooms' = [t \in Topics |-> {}]
        /\ socketToRooms' = [s \in Sockets |-> {}] /\ feed' = feed
    BY <1>6 DEF RoomsStop
  <2>2. RoomsTypeOK' /\ socketToRooms' \in [Sockets -> SUBSET Topics]
    BY <1>0, <2>1 DEF RoomsTypeOK
  <2>3. RoomsAgree'
    BY <2>1 DEF RoomsAgree
  <2>. QED
    BY <2>2, <2>3 DEF RoomsInv
<1>. QED
  BY <1>0, <1>2, <1>3, <1>4, <1>5, <1>6, QuotesFrame DEF RoomsMove

\* The table of pending quotes.
LEMMA PricingKept ==
    ASSUME QuotesInv, [Next]_vars, ReqOK'
    PROVE  PricingInv'
<1>0. ReqOK /\ PricingTypeOK /\ \A q \in Requests : PricingLocals(req[q])
  BY DEF QuotesInv, PricingInv
<1>1. ASSUME NEW x, PricingLocals(x), DOMAIN sent \subseteq DOMAIN sent'
      PROVE  PricingLocals(x)'
  BY <1>1 DEF PricingLocals
<1>2. ASSUME NEW r \in Requests, PricingMoves(r), Turn(r, PricingKinds)
      PROVE  PricingInv'
  <2>1. ASSUME PricingTypeOK', DOMAIN sent \subseteq DOMAIN sent', PricingLocals(req[r])'
        PROVE  PricingInv'
    <3>1. \A q \in Requests \ {r} : PricingLocals(req[q])'
      BY <1>0, <1>1, <1>2, <2>1 DEF Turn, PricingLocals
    <3>. QED
      BY <2>1, <3>1 DEF PricingInv, Requests
  <2>2. ASSUME NEW y, Become(r, y)
        PROVE  req'[r] = y
    BY <1>0, <2>2, Assigned DEF Become
  <2>3. ASSUME Answer(r)
        PROVE  PricingLocals(req[r])'
    <3>1. req'[r] = Free
      BY <1>0, <2>3, Answers
    <3>. QED
      BY <3>1 DEF PricingLocals, Free
  <2>4. CASE RequestPricing(r)
    <3>. DEFINE used == {req[q].id : q \in InFlight("quote")} \union DOMAIN sent
    <3>1. \E m, u : Become(r, [kind |-> "quote", at |-> "fetch", id |-> CHOOSE id \in Quotes \ used : TRUE,
                               market |-> m, user |-> u])
      BY <2>4 DEF RequestPricing
    <3>2. Quotes \ used # {}
      BY <2>4 DEF RequestPricing
    <3>. HIDE DEF used
    <3>3. PICK id : id = CHOOSE i \in Quotes \ used : TRUE
      OBVIOUS
    <3>4. id \in Quotes
      BY <3>2, <3>3
    <3>5. PICK m, u : Become(r, [kind |-> "quote", at |-> "fetch", id |-> id, market |-> m, user |-> u])
      BY <3>1, <3>3
    <3>6. PICK y : y = [kind |-> "quote", at |-> "fetch", id |-> id, market |-> m, user |-> u]
      OBVIOUS
    <3>7. req'[r] = y
      BY <2>2, <3>5, <3>6
    <3>8. UNCHANGED pricingVars
      BY <2>4 DEF RequestPricing
    <3>9. PricingLocals(req[r])'
      BY <3>4, <3>6, <3>7 DEF PricingLocals
    <3>. QED
      BY <1>0, <2>1, <3>8, <3>9 DEF pricingVars, PricingTypeOK
  <2>5. CASE FetchQuote(r)
    <3>1. req[r].kind = "quote" /\ req[r].id \in Quotes /\ pending' = pending
      BY <1>0, <2>5 DEF FetchQuote, At, PricingLocals
    <3>2. CASE Answer(r) /\ UNCHANGED sent
      BY <1>0, <2>1, <2>3, <3>1, <3>2 DEF PricingTypeOK
    <3>3. CASE /\ DOMAIN sent' = DOMAIN sent \union {req[r].id}
               /\ Goto(r, "track")
      <4>1. req'[r].kind = "quote" /\ req'[r].at = "track" /\ req'[r].id = req[r].id /\ "id" \in DOMAIN req'[r]
        BY <1>0, <3>1, <3>3, Goes DEF PricingLocals
      <4>2. PricingLocals(req[r])'
        BY <3>1, <3>3, <4>1 DEF PricingLocals
      <4>3. PricingTypeOK'
        BY <1>0, <3>1, <3>3 DEF PricingTypeOK
      <4>. QED
        BY <2>1, <3>3, <4>2, <4>3
    <3>. QED
      BY <2>5, <3>2, <3>3 DEF FetchQuote
  <2>6. CASE TrackQuote(r)
    <3>1. req[r].id \in DOMAIN sent
      BY <1>0, <2>6 DEF TrackQuote, At, PricingLocals
    <3>. QED
      BY <1>0, <2>1, <2>3, <2>6, <3>1 DEF TrackQuote, PricingTypeOK
  <2>7. CASE PricingCallback(r)
    <3>1. PICK id : /\ pending' = pending \ {id}
                    /\ Become(r, [kind |-> "quoteResult", at |-> "publish", id |-> id])
      BY <2>7 DEF PricingCallback
    <3>2. PICK y : y = [kind |-> "quoteResult", at |-> "publish", id |-> id]
      OBVIOUS
    <3>3. req'[r] = y
      BY <2>2, <3>1, <3>2
    <3>4. PricingLocals(req[r])'
      BY <3>2, <3>3 DEF PricingLocals
    <3>5. sent' = sent
      BY <2>7 DEF PricingCallback
    <3>. QED
      BY <1>0, <2>1, <3>1, <3>4, <3>5 DEF PricingTypeOK
  <2>8. CASE PublishQuote(r) \/ PricingFails(r)
    <3>1. Answer(r) /\ UNCHANGED <<pending, sent>>
      BY <2>8 DEF PublishQuote, PricingFails, Rejects, pricingVars
    <3>. QED
      BY <1>0, <2>1, <2>3, <3>1 DEF PricingTypeOK
  <2>. QED
    BY <1>2, <2>4, <2>5, <2>6, <2>7, <2>8 DEF PricingMoves, PricingArrives, PricingStep
<1>3. CASE RoomsMove /\ req' = req
  <2>1. sent' = sent /\ pending' \subseteq pending
    BY <1>3 DEF RoomsMove, QuoteTimer, pricingVars
  <2>. QED
    BY <1>0, <1>3, <2>1 DEF PricingInv, PricingTypeOK, PricingLocals
<1>4. CASE UNCHANGED quotes /\ Undisturbed(PricingKinds)
  <2>1. ASSUME NEW q \in Requests
        PROVE  PricingLocals(req'[q])
    <3>1. CASE req'[q].kind \in PricingKinds
      BY <1>0, <1>4, <3>1 DEF Undisturbed
    <3>2. CASE req'[q].kind \notin PricingKinds
      BY <3>2 DEF PricingLocals, PricingKinds
    <3>. QED
      BY <3>1, <3>2
  <2>. QED
    BY <1>0, <1>4, <2>1 DEF quotes, pricingVars, PricingInv, PricingTypeOK, PricingLocals
<1>5. CASE PricingStops /\ AllFree
  <2>1. pending' = {} /\ sent' = sent
    BY <1>5 DEF PricingStops
  <2>2. \A q \in Requests : req'[q] = Free
    BY <1>5 DEF AllFree
  <2>. QED
    BY <1>0, <2>1, <2>2 DEF PricingInv, PricingTypeOK, PricingLocals, Free
<1>. QED
  BY <1>0, <1>2, <1>3, <1>4, <1>5, QuotesFrame

\* Rooms and pending quotes, for any sockets, rooms and ids.
THEOREM QuotesInvariant == Spec => []QuotesInv
<1>1. Init => QuotesInv
  <2>1. SUFFICES ASSUME Init PROVE QuotesInv
    OBVIOUS
  <2>2. ReqOK /\ \A q \in Requests : req[q] = Free
    BY <2>1, RequestsKeepTheirPlace DEF Init, HandlersInit
  <2>3. RoomsInv
    BY <2>1 DEF Init, RoomsInit, RoomsInv, RoomsTypeOK, RoomsAgree
  <2>4. PricingInv
    BY <2>1, <2>2 DEF Init, PricingInit, PricingInv, PricingTypeOK, PricingLocals, Free
  <2>. QED
    BY <2>2, <2>3, <2>4 DEF QuotesInv
<1>2. QuotesInv /\ [Next]_vars => QuotesInv'
  BY RequestsKeepTheirPlace, RoomsKept, PricingKept DEF QuotesInv
<1>. QED
  BY <1>1, <1>2, PTL DEF Spec

\* Every variable keeps to its type, and the two tables of rooms are one relation.
THEOREM BackendTypesHold == Spec => []BackendTypeOK
<1>1. ASSUME WalletInv, LedgerInv, QuotesInv, SettlementInv, TradesInv
      PROVE  BackendTypeOK
  <2>1. WalletTypeOK
    BY <1>1 DEF WalletInv, WalletTypes, AgentTypes, RegTypes, SetTypes, AgentRows, WalletTypeOK
  <2>2. LedgerTypeOK
    BY <1>1 DEF LedgerInv
  <2>3. RoomsTypeOK /\ RoomsAgree /\ PricingTypeOK
    BY <1>1 DEF QuotesInv, RoomsInv, PricingInv
  <2>4. SettlementTypeOK
    BY <1>1 DEF SettlementInv, SettlementTypes, SettlementTypeOK
  <2>5. TradesTypeOK
    BY <1>1 DEF TradesInv, TradeTypes, TradesTypeOK
  <2>. QED
    BY <2>1, <2>2, <2>3, <2>4, <2>5 DEF BackendTypeOK
<1>. QED
  BY <1>1, WalletInvariant, LedgerInvariant, QuotesInvariant, SettlementInvariant, TradesInvariant, PTL
=============================================================================

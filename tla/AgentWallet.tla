----------------------------- MODULE AgentWallet -----------------------------
(***************************************************************************)
(* How an agent gets its row and its wallet: POST, PATCH, DELETE and       *)
(* create-wallet of src/src/routes/agents.routes.ts, registration          *)
(* (register.routes.ts), agents brought by their owner                     *)
(* (sdk-agent.routes.ts), and the two callbacks with which CRE hands over  *)
(* a wallet it was asked for (cre-callback.routes.ts).                     *)
(*                                                                         *)
(* A key pair is a number; the number is also its address and public key.  *)
(* 0 is no address, a PENDING public key, a PENDING private key.           *)
(***************************************************************************)
EXTENDS Handlers, FiniteSets

CONSTANTS
    Agents, Regs,   \* the ids of agents and of registrations
    Users,          \* addresses that sign in
    Begins(_)       \* how a mix of requests may find the system: is CRE configured,
                    \* which agents were created without keys

ASSUME BeginsAssumption ==
    \A mix \in Traffics : \A start \in Begins(mix) : start.cre \in BOOLEAN /\ start.agents \subseteq Agents

VARIABLES
    cre,            \* is CRE_HTTP_URL set
    agent,          \* Agent rows
    reg,            \* AgentRegistration rows
    users,          \* User rows
    keys,           \* the key pairs made so far
    asked,          \* the agents CRE has been asked to make a wallet for
    onboarded,      \* history: the wallets that were funded for an agent
    claimants,      \* history: the agents created for a registration
    mixed           \* history: agents and registrations for which two handlers were
                    \* at work at once or one failed, agents whose owner set the key

walletVars == <<cre, agent, reg, users, keys, asked, onboarded, claimants, mixed>>

Pending == 0
NoAgent == [status |-> "none", address |-> Pending, public |-> Pending, key |-> Pending]
NoReg == [status |-> "none", key |-> Pending]
Row(address, public, key) ==
    [status |-> "there", address |-> address, public |-> public, key |-> key]
Wallet(k) == Row(k, k, k)

WalletInit ==
    \E start \in Begins(traffic) :
        /\ cre = start.cre
        /\ agent = [a \in Agents |-> IF a \in start.agents THEN Row(0, 0, 0) ELSE NoAgent]
        /\ asked = IF start.cre THEN start.agents ELSE {}
        /\ reg = [g \in Regs |-> NoReg]
        /\ users = {}
        /\ keys = 0
        /\ onboarded = [a \in Agents |-> {}]
        /\ claimants = [g \in Regs |-> {}]
        /\ mixed = {}

There(a) == agent[a].status = "there"

\* hasCompleteWallet.
Complete(a) == agent[a].address # Pending /\ agent[a].key # Pending

\* The requests that hold a field with this value: an agent, a registration.
Holding(field, x) == {r \in Requests : field \in DOMAIN req[r] /\ req[r][field] = x}
Quiet(a) == Holding("agent", a) = {}

\* What a further handler makes of the history.
Meets(field, x) == mixed' = mixed \union (IF Holding(field, x) = {} THEN {} ELSE {x})

----------------------------------------------------------------------------
(* New agents.                                                              *)

\* POST /api/agents: the body may bring a public key, a private one, both.
CreateAgent(r) ==
    /\ Arrive(r, "create")
    /\ keys' = keys + 1
    /\ \E public, key \in {Pending, keys + 1} :
          Become(r, [kind |-> "create", at |-> "insert", row |-> Row(Pending, public, key)])
    /\ UNCHANGED <<cre, agent, reg, users, asked, onboarded, claimants, mixed, faults>>

\* POST /api/register: address and username are looked up, and keys made unless
\* CRE is to make them.
Register(r) ==
    /\ Arrive(r, "register")
    /\ \E u \in Users :
          IF u \in users THEN Answer(r) /\ UNCHANGED keys
          ELSE /\ keys' = keys + 1
               /\ Become(r, [kind |-> "register", at |-> "insert", user |-> u,
                             row |-> IF cre THEN Row(0, 0, 0) ELSE Wallet(keys + 1)])
    /\ UNCHANGED <<cre, agent, reg, users, asked, onboarded, claimants, mixed, faults>>

\* Where a handler goes when its agent is there.
AfterInsert(x) ==
    CASE x.kind = "create" -> IF x.row.public # Pending /\ x.row.key # Pending THEN "done"
                              ELSE IF cre THEN "ask" ELSE "generate"
      [] x.kind = "register" -> IF cre THEN "ask" ELSE "done"
      [] x.kind = "claim" -> IF x.row.key = Pending THEN "ask" ELSE "mark"

\* agent.create, or user.create with its agent: the address is unique.
InsertAgent(r) ==
    LET x == req[r]
        fresh == {a \in Agents : agent[a].status = "none"}
        a == CHOOSE a \in fresh : TRUE
    IN  /\ x.kind \in {"create", "register", "claim"} /\ x.at = "insert"
        /\ fresh # {}
        /\ IF x.kind = "register" /\ x.user \in users
           THEN Answer(r) /\ UNCHANGED <<agent, users, claimants, mixed>>
           ELSE /\ agent' = [agent EXCEPT ![a] = x.row]
                /\ users' = IF x.kind = "register" THEN users \union {x.user} ELSE users
                /\ claimants' = IF x.kind # "claim" THEN claimants
                                ELSE [claimants EXCEPT ![x.reg] = @ \union {a}]
                /\ mixed' = IF x.kind = "create" /\ x.row.key # Pending
                            THEN mixed \union {a} ELSE mixed
                /\ IF AfterInsert(x) = "done" THEN Answer(r)
                   ELSE Become(r, With(x, [at |-> AfterInsert(x), agent |-> a]))
        /\ UNCHANGED <<cre, reg, keys, asked, onboarded, traffic, faults>>

\* requestCreCreateAgentKey: a count of the agents and a fetch, whose failure only
\* create-wallet tells its caller.  Of a request that fails CRE has nothing to answer.
AskCRE(r) ==
    /\ Busy(r) /\ req[r].at = "ask"
    /\ asked' \in {asked, asked \union {req[r].agent}}
    /\ IF req[r].kind = "claim" THEN Goto(r, "mark") ELSE Answer(r)
    /\ UNCHANGED <<cre, agent, reg, users, keys, onboarded, claimants, mixed, traffic, faults>>

\* Without CRE: generateAgentKeys, and an update that asks nothing.
GenerateKeys(r) ==
    /\ Busy(r) /\ req[r].at = "generate"
    /\ keys' = keys + 1
    /\ agent' = IF There(req[r].agent)
                THEN [agent EXCEPT ![req[r].agent] = Wallet(keys + 1)] ELSE agent
    /\ Answer(r)
    /\ UNCHANGED <<cre, reg, users, asked, onboarded, claimants, mixed, traffic, faults>>

----------------------------------------------------------------------------
(* The agent's own routes. *)

\* POST create-wallet: asked again as long as the wallet is not complete.
CreateWallet(r) ==
    /\ Arrive(r, "createWallet")
    /\ \E a \in Agents :
          /\ There(a)
          /\ IF Complete(a) THEN Answer(r) /\ UNCHANGED mixed
             ELSE /\ Become(r, [kind |-> "createWallet", agent |-> a,
                                at |-> IF cre THEN "ask" ELSE "generate"])
                  /\ Meets("agent", a)
    /\ UNCHANGED <<cre, agent, reg, users, keys, asked, onboarded, claimants, faults>>

\* PATCH may set the private key, and nothing that belongs to it.
PatchAgent(r) ==
    /\ Arrive(r, "patch")
    /\ keys' = keys + 1
    /\ \E a \in Agents :
          /\ There(a)
          /\ agent' = [agent EXCEPT ![a].key = keys + 1]
          /\ mixed' = mixed \union {a}
    /\ Answer(r)
    /\ UNCHANGED <<cre, reg, users, asked, onboarded, claimants, faults>>

\* DELETE: a registration keeps its status and loses its agent.
DeleteAgent(r) ==
    /\ Arrive(r, "delete")
    /\ \E a \in Agents :
          /\ There(a)
          /\ agent' = [agent EXCEPT ![a] = [NoAgent EXCEPT !.status = "gone"]]
    /\ Answer(r)
    /\ UNCHANGED <<cre, reg, users, keys, asked, onboarded, claimants, mixed, faults>>

----------------------------------------------------------------------------
(* CRE's answers.  It makes a new key pair whenever it was asked. *)

\* A callback that does not look.
AnyRow(a) == There(a)

\* 404 for no agent, 409 for one that has an address.
TakesWallet(a) == There(a) /\ agent[a].address = Pending

\* POST create-wallet-result, with CRE's ciphertext of the key or without.
WalletResult(r) ==
    /\ Arrive(r, "walletResult")
    /\ keys' = keys + 1
    /\ \E a \in asked, sealed \in BOOLEAN :
          IF TakesWallet(a)
          THEN /\ Become(r, [kind |-> "walletResult", at |-> "store", agent |-> a,
                             pair |-> keys + 1, sealed |-> sealed, public |-> agent[a].public])
               /\ Meets("agent", a)
          ELSE Answer(r) /\ UNCHANGED mixed
    /\ UNCHANGED <<cre, agent, reg, users, asked, onboarded, claimants, faults>>

\* The public key goes with it where it was PENDING when read.
StoreResult(r) ==
    LET x == req[r]
    IN  /\ At(r, "walletResult", "store")
        /\ agent' = IF ~There(x.agent) THEN agent
                    ELSE [agent EXCEPT ![x.agent] =
                            Row(x.pair, IF x.public = Pending THEN x.pair ELSE @.public,
                                IF x.sealed THEN x.pair ELSE @.key)]
        /\ Answer(r)
        /\ UNCHANGED <<cre, reg, users, keys, asked, onboarded, claimants, mixed, traffic, faults>>

\* POST agent-keys: answered 202, then the rest runs by itself.
AgentKeys(r) ==
    /\ Arrive(r, "agentKeys")
    /\ keys' = keys + 1
    /\ \E a \in asked :
          IF TakesWallet(a)
          THEN /\ Become(r, [kind |-> "agentKeys", at |-> "onboard", agent |-> a, pair |-> keys + 1])
               /\ Meets("agent", a)
          ELSE Answer(r) /\ UNCHANGED mixed
    /\ UNCHANGED <<cre, agent, reg, users, asked, onboarded, claimants, faults>>

\* executeAgentOnboarding: transfers to the new address, then its approvals.  Each
\* failure is caught and the keys are stored all the same.
Onboard(r) ==
    /\ At(r, "agentKeys", "onboard")
    /\ \/ onboarded' = [onboarded EXCEPT ![req[r].agent] = @ \union {req[r].pair}]
       \/ UNCHANGED onboarded
    /\ Goto(r, "store")
    /\ UNCHANGED <<cre, agent, reg, users, keys, asked, claimants, mixed, traffic, faults>>

\* Nobody looks again before the three fields are written.
StoreKeys(r) ==
    /\ At(r, "agentKeys", "store")
    /\ There(req[r].agent)
    /\ agent' = [agent EXCEPT ![req[r].agent] = Wallet(req[r].pair)]
    /\ Answer(r)
    /\ UNCHANGED <<cre, reg, users, keys, asked, onboarded, claimants, mixed, traffic, faults>>

\* Where the agent has been deleted the update throws in a promise that nobody
\* awaits or catches: Node ends the process.
Unhandled(r) == At(r, "agentKeys", "store") /\ ~There(req[r].agent)

----------------------------------------------------------------------------
(* Agents brought by their owner.                                           *)

\* POST /api/sdk/agents/register.
RegisterSdkAgent(r) ==
    LET fresh == {g \in Regs : reg[g].status = "none"}
    IN  /\ Arrive(r, "sdkRegister")
        /\ fresh # {}
        /\ keys' = keys + 1
        /\ reg' = [reg EXCEPT ![CHOOSE g \in fresh : TRUE] =
                      [NoReg EXCEPT !.status = "UNCLAIMED", !.key = IF cre THEN Pending ELSE keys + 1]]
        /\ Answer(r)
        /\ UNCHANGED <<cre, agent, users, asked, onboarded, claimants, mixed, faults>>

\* A claim that does not look.
AnyReg(g) == reg[g].status # "none"

\* 404, 409 for one that is claimed.
MayClaim(g) == reg[g].status = "UNCLAIMED"

\* POST /api/sdk/claim/:claimCode.
Claim(r) ==
    /\ Arrive(r, "claim")
    /\ \E g \in Regs, u \in Users :
          IF MayClaim(g)
          THEN /\ Become(r, [kind |-> "claim", at |-> "find", reg |-> g, user |-> u,
                             row |-> Wallet(reg[g].key)])
               /\ Meets("reg", g)
          ELSE Answer(r) /\ UNCHANGED mixed
    /\ UNCHANGED <<cre, agent, reg, users, keys, asked, onboarded, claimants, faults>>

FindUser(r) ==
    /\ At(r, "claim", "find")
    /\ Goto(r, IF req[r].user \in users THEN "insert" ELSE "user")
    /\ UNCHANGED <<cre, agent, reg, users, keys, asked, onboarded, claimants, mixed, traffic, faults>>

\* user.create, which throws for an address that another request has created.
CreateUser(r) ==
    /\ At(r, "claim", "user")
    /\ IF req[r].user \in users THEN Answer(r) /\ UNCHANGED users
       ELSE users' = users \union {req[r].user} /\ Goto(r, "insert")
    /\ UNCHANGED <<cre, agent, reg, keys, asked, onboarded, claimants, mixed, traffic, faults>>

\* The registration gets its agent; a deleted one cannot be referred to.
MarkClaimed(r) ==
    /\ At(r, "claim", "mark")
    /\ IF There(req[r].agent)
       THEN reg' = [reg EXCEPT ![req[r].reg] = [@ EXCEPT !.status = "CLAIMED"]]
            /\ UNCHANGED mixed
       ELSE UNCHANGED reg /\ mixed' = mixed \union {req[r].reg}
    /\ Answer(r)
    /\ UNCHANGED <<cre, agent, users, keys, asked, onboarded, claimants, traffic, faults>>

----------------------------------------------------------------------------
walletKinds == {"create", "register", "createWallet", "walletResult", "agentKeys", "claim"}

WalletArrives(r) ==
    \/ CreateAgent(r) \/ Register(r) \/ CreateWallet(r) \/ PatchAgent(r) \/ DeleteAgent(r)
    \/ WalletResult(r) \/ AgentKeys(r) \/ RegisterSdkAgent(r) \/ Claim(r)

WalletStep(r) ==
    \/ InsertAgent(r) \/ AskCRE(r) \/ GenerateKeys(r) \/ StoreResult(r) \/ Onboard(r)
    \/ StoreKeys(r) \/ FindUser(r) \/ CreateUser(r) \/ MarkClaimed(r)

\* What these requests were about.
About(rs) == {req[r].agent : r \in {q \in rs : "agent" \in DOMAIN req[q]}}
             \union {req[r].reg : r \in {q \in rs : "reg" \in DOMAIN req[q]}}

\* A call fails: 500.  A key callback that fails ends the process instead.
WalletFails(r) ==
    /\ req[r].kind \in walletKinds \ {"agentKeys"}
    /\ Rejects(r)
    /\ mixed' = mixed \union About({r})
    /\ UNCHANGED <<cre, agent, reg, users, keys, asked, onboarded, claimants>>

\* The process ends: what was at work is not finished.
WalletStops ==
    /\ mixed' = mixed \union About(Requests)
    /\ UNCHANGED <<cre, agent, reg, users, keys, asked, onboarded, claimants>>

----------------------------------------------------------------------------
WalletTypeOK ==
    /\ agent \in [Agents -> [status : {"none", "there", "gone"},
                             address : 0..keys, public : 0..keys, key : 0..keys]]
    /\ reg \in [Regs -> [status : {"none", "UNCLAIMED", "CLAIMED"}, key : 0..keys]]
    /\ users \subseteq Users /\ asked \subseteq Agents /\ mixed \subseteq Agents \union Regs
    /\ \A a \in Agents : agent[a].status # "there" => agent[a].key = Pending

\* The wallet that onboarding has funded for an agent is the wallet of the agent, and
\* its key is kept: two answers of CRE, or an answer and create-wallet, do not leave
\* the money with a key nobody has.  (cre-callback.routes.ts:109, 129; agents.routes.ts:457.)
\* Asked when no two handlers of the agent have been at work at once: the look at
\* the address and the write are minutes apart.
FundedWalletIsKept ==
    \A a \in Agents \ mixed :
        There(a) /\ Quiet(a) => \A k \in onboarded[a] : agent[a] = Wallet(k)

\* A complete wallet is one wallet: the address is the one the key signs for, however
\* many answers, requests and claims came.  (cre-callback.routes.ts:50-62, 129-136.)
AddressHasItsKey ==
    \A a \in Agents \ mixed :
        There(a) /\ Complete(a) => agent[a].address = agent[a].key

\* A claimed registration has one agent and a registration that is not has none; the
\* agent has the registration's wallet, until it is deleted.  (sdk-agent.routes.ts:94-138.)
ClaimsAgree ==
    \A g \in Regs \ mixed :
        LET mine == {a \in claimants[g] \ mixed : There(a) /\ reg[g].key # Pending}
        IN  /\ Cardinality(claimants[g]) =
                 IF reg[g].status = "CLAIMED" THEN 1
                 ELSE Cardinality({r \in Holding("reg", g) : req[r].at \in {"ask", "mark"}})
            /\ \A a \in mine : agent[a] = Wallet(reg[g].key)

WalletsAgree == FundedWalletIsKept /\ AddressHasItsKey /\ ClaimsAgree
=============================================================================

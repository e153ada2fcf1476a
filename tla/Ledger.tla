------------------------------- MODULE Ledger -------------------------------
(***************************************************************************)
(* Balances beside the trades: the user's vault (settings.routes.ts), the  *)
(* user's token balance (services/user-balance.service.ts, used by         *)
(* orders.routes.ts), and the copies of an agent's balance on its chains   *)
(* that sync-balance refreshes (services/agent-balance.service.ts).        *)
(***************************************************************************)
EXTENDS Handlers, Integers

CONSTANTS
    Amounts,        \* amounts of money
    NoMoney         \* no row, or none read

ASSUME LedgerAssumption == Amounts \subseteq Nat \ {0} /\ NoMoney \notin Int

VARIABLES
    vault,          \* UserVault row
    paidIn, paidOut,    \* history: what was deposited and withdrawn
    drawnTwice,     \* history: two withdrawals at work at once
    tokens,         \* UserBalance row
    money,          \* the agent's wallet, on each chain
    agentBalance,   \* Agent.balance
    chainBalance,   \* AgentChainBalance rows
    synced,         \* history: the chains synchronized since the wallet moved there
    torn            \* history: two synchronizations of the main chain at once, or half of one

ledgerVars == <<vault, paidIn, paidOut, drawnTwice, tokens,
                money, agentBalance, chainBalance, synced, torn>>
vaultSame == <<tokens, money, agentBalance, chainBalance, synced, torn>>
syncSame == <<vault, paidIn, paidOut, drawnTwice, tokens>>

SyncChains == {"main", "tenderly"}
OrZero(balance) == IF balance = NoMoney THEN 0 ELSE balance

LedgerInit ==
    /\ vault = NoMoney /\ paidIn = 0 /\ paidOut = 0 /\ drawnTwice = FALSE
    /\ tokens = NoMoney
    /\ money = [c \in SyncChains |-> 0]
    /\ agentBalance = 0
    /\ chainBalance = [c \in SyncChains |-> NoMoney]
    /\ synced = {} /\ torn = FALSE

----------------------------------------------------------------------------
(* The vault. *)

\* What was read, plus the amount.
Rewritten(read, amount) == read + amount

\* increment and decrement: PostgreSQL adds to what the row has.
Incremented(read, amount) == vault + amount

\* POST deposit: one upsert.
Deposit(r) ==
    /\ Arrive(r, "deposit")
    /\ \E n \in Amounts : Become(r, [kind |-> "deposit", at |-> "upsert", amount |-> n])
    /\ UNCHANGED <<vault, paidIn, paidOut, drawnTwice, vaultSame, faults>>

PutIn(r) ==
    /\ At(r, "deposit", "upsert")
    /\ vault' = IF vault = NoMoney THEN req[r].amount ELSE vault + req[r].amount
    /\ paidIn' = paidIn + req[r].amount
    /\ Answer(r)
    /\ UNCHANGED <<paidOut, drawnTwice, vaultSame, traffic, faults>>

\* POST withdraw: the balance is read and compared.
Withdraw(r) ==
    /\ Arrive(r, "withdraw")
    /\ drawnTwice' = (drawnTwice \/ InFlight("withdraw") # {})
    /\ \E n \in Amounts :
          IF OrZero(vault) < n THEN Answer(r)
          ELSE Become(r, [kind |-> "withdraw", at |-> "upsert", amount |-> n, read |-> vault])
    /\ UNCHANGED <<vault, paidIn, paidOut, vaultSame, faults>>

\* Then taken away, whatever there is by now.
TakeOut(r) ==
    /\ At(r, "withdraw", "upsert")
    /\ vault' = Incremented(req[r].read, -req[r].amount)
    /\ paidOut' = paidOut + req[r].amount
    /\ Answer(r)
    /\ UNCHANGED <<paidIn, drawnTwice, vaultSame, traffic, faults>>

----------------------------------------------------------------------------
(* updateUserBalance, for a MARKET order that CRE has executed.  No caller *)
(* adds: a first deduction makes a row of 0, any other finds too little    *)
(* and throws; the route logs that and goes on with the order.             *)

Spend(r) ==
    /\ Arrive(r, "spend")
    /\ \E n \in Amounts :
          Become(r, [kind |-> "spend", at |-> "write", amount |-> n, read |-> tokens])
    /\ UNCHANGED ledgerVars /\ UNCHANGED faults

WriteTokens(r) ==
    LET x == req[r]
    IN  /\ At(r, "spend", "write")
        /\ tokens' = IF x.read = NoMoney THEN IF tokens = NoMoney THEN 0 ELSE tokens
                     ELSE IF x.read < x.amount THEN tokens ELSE x.read - x.amount
        /\ Answer(r)
        /\ UNCHANGED <<vault, paidIn, paidOut, drawnTwice, money, agentBalance, chainBalance,
                       synced, torn, traffic, faults>>

----------------------------------------------------------------------------
(* POST sync-balance. *)

\* A transfer to or from the wallet (external).
MoneyMoves ==
    /\ Comes("money")
    /\ \E c \in SyncChains, n \in Amounts :
          /\ n # money[c]
          /\ money' = [money EXCEPT ![c] = n]
          /\ synced' = synced \ {c}
    /\ UNCHANGED <<syncSame, agentBalance, chainBalance, torn, req, faults>>

\* syncAgentBalance compares with the agent it has read, syncTenderlyBalance later
\* with the chain's own row.
Sync(r) ==
    /\ Arrive(r, "sync")
    /\ \E c \in SyncChains :
          /\ Become(r, [kind |-> "sync", at |-> "chain", chain |-> c, was |-> agentBalance])
          /\ torn' = (torn \/ (c = "main" /\ \E q \in InFlight("sync") : req[q].chain = "main"))
    /\ UNCHANGED <<syncSame, money, agentBalance, chainBalance, synced, faults>>

\* What a request has when nobody else synchronizes that chain and the wallet stays.
Fresh(x) == IF x.found = money[x.chain] /\ \A q \in InFlight("sync") : req[q] = x \/ req[q].chain # x.chain
            THEN synced \union {x.chain} ELSE synced \ {x.chain}

\* balanceOf; a main balance that has not changed needs no write.
ReadChain(r) ==
    LET x == With(req[r], [found |-> money[req[r].chain]])
    IN  /\ At(r, "sync", "chain")
        /\ IF x.chain = "main" /\ x.found = x.was
           THEN Answer(r) /\ synced' = synced \union {"main"}
           ELSE /\ Become(r, [x EXCEPT !.at = IF x.chain = "main" THEN "agent" ELSE "compare"])
                /\ UNCHANGED synced
        /\ UNCHANGED <<syncSame, money, agentBalance, chainBalance, torn, traffic, faults>>

WriteAgent(r) ==
    /\ At(r, "sync", "agent")
    /\ agentBalance' = req[r].found
    /\ Goto(r, "row")
    /\ UNCHANGED <<syncSame, money, chainBalance, synced, torn, traffic, faults>>

\* A comparison with a number that is not this chain's.
AgentsOwn(c) == agentBalance

\* getAgentBalanceForChain: Agent.balance stands in for a missing main row.
Seen(c) == IF c = "main" /\ chainBalance[c] = NoMoney THEN agentBalance ELSE OrZero(chainBalance[c])

CompareRow(r) ==
    LET x == req[r]
    IN  /\ At(r, "sync", "compare")
        /\ IF x.found = Seen(x.chain) THEN Answer(r) /\ synced' = Fresh(x)
           ELSE Goto(r, "row") /\ UNCHANGED synced
        /\ UNCHANGED <<syncSame, money, agentBalance, chainBalance, torn, traffic, faults>>

\* upsertAgentChainBalance.
WriteRowOf(r) ==
    LET x == req[r]
    IN  /\ At(r, "sync", "row")
        /\ chainBalance' = [chainBalance EXCEPT ![x.chain] = x.found]
        /\ synced' = Fresh(x)
        /\ Answer(r)
        /\ UNCHANGED <<syncSame, money, agentBalance, torn, traffic, faults>>

----------------------------------------------------------------------------
LedgerArrives(r) == Deposit(r) \/ Withdraw(r) \/ Spend(r) \/ Sync(r)
LedgerStep(r) ==
    \/ PutIn(r) \/ TakeOut(r) \/ WriteTokens(r)
    \/ ReadChain(r) \/ WriteAgent(r) \/ CompareRow(r) \/ WriteRowOf(r)

HalfDone(r) == req[r].kind = "sync" /\ req[r].at = "row" /\ req[r].chain = "main"

\* A call fails.  A tenderly synchronization catches it and answers; no difference here.
LedgerFails(r) ==
    /\ req[r].kind \in {"deposit", "withdraw", "spend", "sync"}
    /\ Rejects(r)
    /\ torn' = (torn \/ HalfDone(r))
    /\ UNCHANGED <<syncSame, money, agentBalance, chainBalance, synced>>

LedgerStops ==
    /\ torn' = (torn \/ \E r \in Requests : HalfDone(r))
    /\ UNCHANGED <<syncSame, money, agentBalance, chainBalance, synced>>

----------------------------------------------------------------------------
LedgerTypeOK ==
    /\ vault \in Int \union {NoMoney} /\ paidIn \in Nat /\ paidOut \in Nat
    /\ tokens \in {NoMoney, 0}
    /\ money \in [SyncChains -> Nat] /\ agentBalance \in Nat
    /\ chainBalance \in [SyncChains -> Nat \union {NoMoney}]
    /\ synced \subseteq SyncChains

\* However deposits and withdrawals interleave, fail and are repeated, the vault is
\* what was paid in less what was paid out.  (settings.routes.ts:66-70, 92-96.)
VaultAddsUp == OrZero(vault) = paidIn - paidOut

\* It does not go below zero, unless two withdrawals were at work at once: the check
\* and the decrement are two calls.  (settings.routes.ts:87-96.)
VaultIsCovered == drawnTwice \/ OrZero(vault) >= 0

\* After a synchronization, and until the wallet moves, the worker is told what the
\* chain has.  On the main chain two numbers have to agree and only one is compared:
\* half a synchronization, or two at once, may leave the row wrong until the wallet
\* moves again, so it is asked where there was none.  A simulated chain heals itself.
\* (agent-balance.service.ts:100-197, lib/agent-chain-balance.ts:10.)
SyncedIsSeen == \A c \in synced : (c = "main" /\ torn) \/ Seen(c) = money[c]

LedgersAgree == VaultAddsUp /\ VaultIsCovered /\ SyncedIsSeen
=============================================================================

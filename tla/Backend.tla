------------------------------- MODULE Backend -------------------------------
(***************************************************************************)
(* The handlers of the server beside orders, markets and agents' trades,   *)
(* in one process: wallets of agents, balances, quotes and rooms,          *)
(* settlement, CRE's word on trades.  They share the event loop, its       *)
(* faults and its end; a mix of requests (Traffics) says who meets whom.   *)
(***************************************************************************)
EXTENDS AgentWallet, Ledger, PricingRequests, Settlement, CreTrades

vars == <<handlerVars, walletVars, ledgerVars, roomVars, pricingVars, settlementVars, tradeVars>>

\* What each part leaves alone.
wallet == walletVars
ledger == ledgerVars
quotes == <<roomVars, pricingVars>>
settle == settlementVars
trades == tradeVars

Init ==
    /\ HandlersInit
    /\ WalletInit /\ LedgerInit /\ RoomsInit /\ PricingInit /\ SettlementInit /\ TradesInit

Arrives(r) ==
    \/ WalletArrives(r) /\ UNCHANGED <<ledger, quotes, settle, trades>>
    \/ LedgerArrives(r) /\ UNCHANGED <<wallet, quotes, settle, trades>>
    \/ PricingArrives(r) /\ UNCHANGED <<wallet, ledger, settle, trades>>
    \/ SettlementArrives(r) /\ UNCHANGED <<wallet, ledger, quotes, trades>>
    \/ TradesArrive(r) /\ UNCHANGED <<wallet, ledger, quotes, settle>>

HandlerStep(r) ==
    \/ WalletStep(r) /\ UNCHANGED <<ledger, quotes, settle, trades>>
    \/ LedgerStep(r) /\ UNCHANGED <<wallet, quotes, settle, trades>>
    \/ PricingStep(r) /\ UNCHANGED <<wallet, ledger, settle, trades>>
    \/ SettlementStep(r) /\ UNCHANGED <<wallet, ledger, quotes, trades>>
    \/ TradesStep(r) /\ UNCHANGED <<wallet, ledger, quotes, settle>>

RequestFails(r) ==
    \/ WalletFails(r) /\ UNCHANGED <<ledger, quotes, settle, trades>>
    \/ LedgerFails(r) /\ UNCHANGED <<wallet, quotes, settle, trades>>
    \/ PricingFails(r) /\ UNCHANGED <<wallet, ledger, settle, trades>>
    \/ SettlementFails(r) /\ UNCHANGED <<wallet, ledger, quotes, trades>>
    \/ TradesFail(r) /\ UNCHANGED <<wallet, ledger, quotes, settle>>

\* Timers, Redis, workers: what comes by itself.
Timers ==
    \/ (QuoteTimer \/ (Deliver /\ UNCHANGED pricingVars) \/ (ConnectBinance /\ UNCHANGED pricingVars))
       /\ UNCHANGED <<wallet, ledger, settle, trades>>
    \/ PersistOrder /\ UNCHANGED <<wallet, ledger, quotes, settle>>

Socket(s) == SocketStep(s) /\ UNCHANGED <<pricingVars, wallet, ledger, settle, trades>>
SocketBeats(s) == SocketTimer(s) /\ UNCHANGED <<pricingVars, wallet, ledger, settle, trades>>

Outside ==
    \/ RoomStep /\ UNCHANGED <<pricingVars, wallet, ledger, settle, trades>>
    \/ MoneyMoves /\ UNCHANGED <<wallet, quotes, settle, trades>>
    \/ WriteReport /\ UNCHANGED <<wallet, ledger, quotes, trades>>

\* The process ends, by a crash or by a promise that nobody caught, and starts again:
\* requests, sockets and the table of pending quotes are gone.
ServerRestart ==
    /\ (\E r \in Requests : Busy(r)) \/ pending # {} \/ \E s \in Sockets : conn[s] # "none"
    /\ IF \E r \in Requests : Unhandled(r) THEN UNCHANGED <<traffic, faults>> ELSE Fault
    /\ req' = [r \in Requests |-> Free]
    /\ WalletStops /\ LedgerStops /\ RoomsStop /\ PricingStops
    /\ UNCHANGED <<settlementVars, tradeVars>>

Next ==
    \/ \E r \in Requests : Arrives(r) \/ HandlerStep(r) \/ RequestFails(r)
    \/ \E s \in Sockets : Socket(s) \/ SocketBeats(s)
    \/ Timers \/ Outside \/ ServerRestart

\* Node runs its timers and delivers what is due, a call of the database or of another
\* service returns or fails, Redis delivers.  Nothing is assumed of callers, clients,
\* CRE or the worker.
Spec ==
    /\ Init /\ [][Next]_vars
    /\ WF_vars(QuoteTimer /\ UNCHANGED <<wallet, ledger, settle, trades>>)
    /\ WF_vars(Deliver /\ UNCHANGED <<pricingVars, wallet, ledger, settle, trades>>)
    /\ \A s \in Sockets : WF_vars(SocketBeats(s))

----------------------------------------------------------------------------
BackendTypeOK ==
    /\ WalletTypeOK /\ LedgerTypeOK /\ RoomsTypeOK /\ PricingTypeOK /\ SettlementTypeOK /\ TradesTypeOK
    /\ RoomsAgree

\* What CRE reports is kept as it was decided: payouts, the status of a settled market,
\* the hash of a trade.  (Settlement, CreTrades.)
CREReportsAreKept == PaidAsDecided /\ OnlyOpenIsClosed /\ ReportedIsKept
=============================================================================
